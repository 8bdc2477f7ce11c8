------------------------------ MODULE Programs -----------------------------
(***************************************************************************)
(* The user programs of nikshita.dir/sbin, from init to the commands of a  *)
(* shell's line: init forks login, login forks our_shell, our_shell forks  *)
(* a process for each command, and each waits for its child.               *)
(*                                                                         *)
(* A step is what a program does between two points where another process  *)
(* could see the difference: a system call with the program's own work     *)
(* around it, or the system calls in a row that change only the process's  *)
(* own files.  Processes that are ready run in any order.                  *)
(***************************************************************************)
EXTENDS Exec

CONSTANTS Pid,        \* 1 .. the number of processes there can be at once
          NFILE,      \* process.h: 10
          LineBytes,  \* our_shell.c: MAX_INPUT_LENGTH + 1 = 256
          NameBytes,  \* login.c: MAX_CHAR_LIMIT = 20
          PipeBytes,  \* Pipe.h: MAX_BUFFER_SIZE = 1024
          CopyBytes,  \* libc.c: the buffer of cp(), 100
          FgetsBytes, \* grep.c: the buffer of a line, 1024
          Users,      \* the <<username, password>> of login.c
          NamesTyped, PasswordsTyped, \* the keys a user may press for them
          LinesTyped, \* [keys, words] of the lines a user may give a shell
          MaxLines    \* bound: so many lines are typed at a prompt

VARIABLES
    proc,     \* [Pid -> process]
    pipes,    \* the content of every pipe that was made
    keys,     \* what is typed and not read yet
    lines,    \* how many lines were typed
    screen,   \* what was printed since the last line was given to a shell
    down,     \* shutdown() was called
    asked     \* the words of that line, and whether it fits: see Shell

progVars == <<proc, pipes, keys, lines, screen, down, asked>>

Fd      == 0 .. NFILE - 1
NoFile  == <<"none", 0>>
Console == <<"console", 0>>

NoProcess ==
    [prog |-> "none", pc |-> "none", parent |-> 0, child |-> 0,
     fds |-> [f \in Fd |-> NoFile], stack |-> <<>>, argv |-> <<>>,
     buf |-> <<>>, n |-> 0, name |-> <<>>,              \* what is being typed
     i |-> 0, arg_start |-> 0, arguments |-> <<>>,      \* our_shell.c: the parser
     starting_path |-> <<>>, pipefd |-> <<0, 0>>,
     arg |-> 1, fd |-> 0, offset |-> 0, chunk |-> <<>>] \* cat.c, libc.c, grep.c

(* A program's memory when exec() switches to it: starting_path is zero    *)
(* behind "/sbin/", and so are the pages that its stack grows into.        *)
Program(p, prog, args) ==
    [NoProcess EXCEPT !.prog = prog, !.pc = "start",
                      !.parent = p.parent, !.fds = p.fds,
                      !.stack = StackImage(args),
                      !.buf = CASE prog = "our_shell" -> Zeros(LineBytes)
                                [] prog = "login" -> Zeros(NameBytes)
                                [] OTHER -> <<>>,
                      !.starting_path = IF prog = "our_shell" THEN Zeros(LineBytes) ELSE <<>>]

Nobody == [words |-> <<>>, fits |-> FALSE]

(* No process yet: kernelMain() makes the first. *)
ProgInit ==
    /\ proc = [p \in Pid |-> NoProcess]
    /\ pipes = <<>>
    /\ keys = <<>>
    /\ lines = 0
    /\ screen = <<>>
    /\ down = FALSE
    /\ asked = Nobody

(* kernelMain(): Process(true) has the console as files 0, 1 and 2.        *)
KernelMain ==
    /\ proc' = [proc EXCEPT ![1] =
                   Program([NoProcess EXCEPT !.fds = [f \in Fd |-> IF f <= 2 THEN Console ELSE NoFile]],
                           "init", <<<<"i", "n", "i", "t">>>>)]
    /\ UNCHANGED <<pipes, keys, lines, screen, down, asked>>

-----------------------------------------------------------------------------
(* System calls *)

At(p, prog, l) == proc[p].prog = prog /\ proc[p].pc = l /\ ~down

Become(p, r) == proc' = [proc EXCEPT ![p] = r]
Goto(p, l) == Become(p, [proc[p] EXCEPT !.pc = l])

(* fork() with the parent on to label l and the child to label m. *)
Fork(p, l, m) ==
    LET free == {q \in Pid : proc[q].pc = "none"} IN
    \E child \in free :
        /\ \A q \in free : child <= q
        /\ proc' = [proc EXCEPT ![child] = [proc[p] EXCEPT !.pc = m, !.parent = p],
                                ![p].pc = l, ![p].child = child]

FreeFds(fds) == {f \in Fd : fds[f] = NoFile}

(* setFile(): the first free slot, if there is one. *)
Slot(fds) == IF FreeFds(fds) = {} THEN -1
             ELSE CHOOSE f \in FreeFds(fds) : \A g \in FreeFds(fds) : f <= g

SetFile(fds, file) ==
    [f \in Fd |-> IF f = Slot(fds) THEN file ELSE fds[f]]

Closed(fds, fd) == [f \in Fd |-> IF f = fd THEN NoFile ELSE fds[f]]

Dup2(fds, old, new) ==
    [f \in Fd |-> IF f = new /\ old \in Fd /\ fds[old] # NoFile THEN fds[old] ELSE fds[f]]

FileOf(p, fd) == IF fd \in Fd THEN proc[p].fds[fd] ELSE NoFile

IsPipe(file, end) == file[1] = end

(* printf(text) is a write() for every character, whose result is ignored: *)
(* on the screen and in the pipes, with file out.                          *)
Shown(out, text) == screen' = IF out = Console THEN screen \o text ELSE screen

WrittenTo(ps, out, text) ==
    IF IsPipe(out, "write")
    THEN [ps EXCEPT ![out[2]] = SubSeq(@ \o text, 1, Min({PipeBytes, Len(@ \o text)}))]
    ELSE ps

TakenFrom(ps, file, k) ==
    IF IsPipe(file, "read") THEN [ps EXCEPT ![file[2]] = SubSeq(@, k + 1, Len(@))] ELSE ps

(* Process p prints text and goes on as r. *)
Prints(p, text, r) ==
    /\ Shown(FileOf(p, 1), text)
    /\ pipes' = WrittenTo(pipes, FileOf(p, 1), text)
    /\ Become(p, r)
    /\ UNCHANGED <<keys, lines, down, asked>>

(* What read() would find from here on in a file or a pipe. *)
Unread(p, fd) ==
    LET file == FileOf(p, fd) IN
    CASE IsPipe(file, "read") -> pipes[file[2]]
      [] file[1] = "file" /\ file[2] \in DOMAIN Texts ->
             SubSeq(Texts[file[2]], proc[p].offset + 1, Len(Texts[file[2]]))
      [] OTHER -> <<>>

(* Where a file is read on, k characters later; a pipe has no such place.  *)
Past(p, fd, k) == proc[p].offset + (IF FileOf(p, fd)[1] = "file" THEN k ELSE 0)

(* open(): the text of that name, if there is one, from its beginning. *)
Opened(r, name) ==
    IF name \in DOMAIN Texts
    THEN [r EXCEPT !.fd = Slot(r.fds), !.fds = SetFile(r.fds, <<"file", name>>), !.offset = 0]
    ELSE [r EXCEPT !.fd = -1]

(* pipe(): with one slot left, the read end takes it and the call fails.   *)
PipeMade(r) ==
    LET rd == SetFile(r.fds, <<"read", Len(pipes) + 1>>)
    IN  [r EXCEPT !.fds = SetFile(rd, <<"write", Len(pipes) + 1>>),
                  !.pipefd = IF Slot(r.fds) >= 0 /\ Slot(rd) >= 0
                             THEN <<Slot(r.fds), Slot(rd)>> ELSE @]

(* exec() of a file of /sbin in process p, which goes on as r if it fails, *)
(* and prints text if there is no such file.                               *)
Execs(p, r, tail, args, text) ==
    LET says == IF ExecResult(tail) = -1 THEN text ELSE <<>>
        out  == r.fds[1]
    IN  /\ Become(p, IF ExecResult(tail) = 0 THEN Program(r, Disk[tail], args) ELSE r)
        /\ screen' = screen \o KernelSays(tail) \o (IF out = Console THEN says ELSE <<>>)
        /\ pipes' = WrittenTo(pipes, out, says)
        /\ UNCHANGED <<keys, lines, down, asked>>

(* crt0.S: main(argc, argv) with what exec() left on the stack. *)
Start(p) ==
    /\ proc[p].pc = "start"
    /\ ~down
    /\ Become(p, [proc[p] EXCEPT !.pc = "main", !.stack = <<>>, !.argv = MainArgs(proc[p].stack)])
    /\ UNCHANGED <<pipes, keys, lines, screen, down, asked>>

(* exit(), from main() or called, with status 0. *)
Exit(p) ==
    /\ proc[p].pc = "exit"
    /\ ~down
    /\ Goto(p, "ended")
    /\ UNCHANGED <<pipes, keys, lines, screen, down, asked>>

(* Where wait() returns to.  In the shell's build, `status' of the simple  *)
(* command is where pipefd[0] is.                                          *)
AfterWait(r) ==
    CASE r.pc = "wait1" -> [r EXCEPT !.pc = "fork2"]
      [] r.pc = "wait2" -> [r EXCEPT !.pc = "main"]
      [] r.prog = "login" -> [r EXCEPT !.pc = "name", !.n = 0]
      [] r.prog = "our_shell" -> [r EXCEPT !.pc = "main", !.pipefd[1] = 0]
      [] r.prog = "init" -> [r EXCEPT !.pc = "main"]
      [] r.prog = "pipe" -> [r EXCEPT !.pc = "received"]

Waiting == {"wait", "wait1", "wait2"}

(* MUTATION of Wait: it does not wait for the child's end. *)
Wait_Not(p) ==
    /\ proc[p].pc \in Waiting
    /\ ~down
    /\ proc' = [proc EXCEPT ![p] = AfterWait(@)]
    /\ UNCHANGED <<pipes, keys, lines, screen, down, asked>>

Wait(p) ==
    /\ proc[p].pc \in Waiting
    /\ ~down
    /\ proc[proc[p].child].pc = "ended"
    /\ proc' = [proc EXCEPT ![p] = AfterWait(@), ![proc[p].child] = NoProcess]
    /\ UNCHANGED <<pipes, keys, lines, screen, down, asked>>
=============================================================================
