------------------------------- MODULE Shell -------------------------------
(***************************************************************************)
(* init.c, login.c and our_shell.c: from the first process to the commands *)
(* of a line, and back to the prompt.                                      *)
(***************************************************************************)
EXTENDS Commands

(* A TAB opens the directory "." for handle_tab(), which never closes it.  *)
HandleTab(r) == [r EXCEPT !.fds = SetFile(@, <<"file", <<".">>>>)]

Reading == {"name", "pass", "read"}

(* What the user may answer a program that reads. *)
Answers(r) ==
    CASE r.pc = "read" -> LinesTyped
      [] r.pc = "name" -> {[keys |-> k, words |-> <<>>] : k \in NamesTyped}
      [] r.pc = "pass" -> {[keys |-> k, words |-> <<>>] : k \in PasswordsTyped}

(* A user types when a program reads what is typed, a line at a time. *)
Types(p) ==
    /\ proc[p].pc \in Reading
    /\ ~down
    /\ FileOf(p, 0) = Console
    /\ keys = <<>>
    /\ lines < MaxLines
    /\ \E line \in Answers(proc[p]) :
           /\ keys' = line.keys
           /\ asked' = [words |-> line.words, fits |-> FALSE]
    /\ lines' = lines + 1
    /\ UNCHANGED <<proc, pipes, screen, down>>

(* read_input_echo() and read_input_silent(): a key but ENTER. *)
ReadsKey(p) ==
    LET r == Edited(proc[p], Head(keys)) IN
    /\ proc[p].pc \in Reading
    /\ ~down
    /\ keys # <<>>
    /\ Head(keys) # ENTER
    /\ Become(p, IF Head(keys) = TAB THEN HandleTab(r) ELSE r)
    /\ keys' = Tail(keys)
    /\ UNCHANGED <<pipes, lines, screen, down, asked>>

(* ENTER, for login at label l, which goes on as r with an empty buffer. *)
Entered(p, l, r) ==
    /\ At(p, "login", l)
    /\ keys # <<>>
    /\ Head(keys) = ENTER
    /\ Become(p, [r EXCEPT !.n = 0])
    /\ keys' = Tail(keys)

(* fork() from label l, and an execl() without arguments. *)
Forks(p, prog, l) ==
    /\ At(p, prog, l)
    /\ Fork(p, "wait", "exec")
    /\ UNCHANGED <<pipes, keys, lines, screen, down, asked>>

ExecsAlone(p, prog, name) ==
    /\ At(p, prog, "exec")
    /\ Execs(p, [proc[p] EXCEPT !.pc = "exit"], name, <<>>, <<>>)

InitForks(p) == Forks(p, "init", "main")

InitExecs(p) == ExecsAlone(p, "init", <<"login">>)

-----------------------------------------------------------------------------
(* login *)

LoginAsks(p) ==
    /\ At(p, "login", "main")
    /\ Prints(p, <<"Username: ">>, [proc[p] EXCEPT !.pc = "name"])

LoginName(p) ==
    LET r == Edited(proc[p], ENTER) IN
    /\ Entered(p, "name", [r EXCEPT !.name = CString(r.buf, 0), !.pc = "pass"])
    /\ Shown(FileOf(p, 1), <<NL, "Password: ">>)
    /\ UNCHANGED <<pipes, lines, down, asked>>

(* login(): one of the users has both. *)
LoginPassword(p) ==
    LET r  == Edited(proc[p], ENTER)
        ok == <<r.name, CString(r.buf, 0)>> \in Users
    IN  /\ Entered(p, "pass", [r EXCEPT !.pc = IF ok THEN "fork" ELSE "name"])
        /\ Shown(FileOf(p, 1), IF ok THEN <<NL, "Hello ">> \o r.name \o <<NL>>
                               ELSE <<"login failed", NL, "Username: ">>)
        /\ UNCHANGED <<pipes, lines, down, asked>>

LoginForks(p) == Forks(p, "login", "fork")

LoginExecs(p) == ExecsAlone(p, "login", <<"our_shell">>)

-----------------------------------------------------------------------------
(* our_shell: a line *)

ShellPrompts(p) ==
    /\ At(p, "our_shell", "main")
    /\ Prints(p, <<"$">>, [proc[p] EXCEPT !.pc = "read", !.n = 0])

(* What to expect of a line of words: the output of its commands, or what  *)
(* the shell or the kernel says of a name that is no command's.            *)
Piped(words) == FirstCommand(words) # words

Invalid(name) == <<"invalid command: ">> \o name \o <<NL>>

Expected(words) ==
    IF words[1] \notin DOMAIN Disk THEN Invalid(words[1])
    ELSE IF Disk[words[1]] \notin Commands THEN KernelSays(words[1])
    ELSE IF Piped(words)
         THEN Output(SecondCommand(words), Output(FirstCommand(words), <<>>))
         ELSE Output(words, <<>>)

(* How many files the command of these words opens. *)
Files(words) ==
    IF words[1] \notin DOMAIN Disk THEN 0
    ELSE CASE Disk[words[1]] = "cat"  -> Len(words) - 1
           [] Disk[words[1]] = "grep" -> IF Len(words) > 2 THEN 1 ELSE 0
           [] Disk[words[1]] = "pipe" -> 2
           [] OTHER -> 0

(* The pipelines that the shell can run as they are meant: two commands    *)
(* that there are, of which it copies four bytes of the name (our_shell.c: *)
(* 58 and 72) and passes one argument to the second (82), the first with   *)
(* no more output than the pipe has room for, as they run in turn.         *)
RightlyPiped(words) ==
    LET second == SecondCommand(words) IN
    /\ Cardinality(Bars(words)) = 1
    /\ \A name \in {words[1], second[1]} :
          name \in DOMAIN Disk /\ Disk[name] \in Commands /\ Len(name) <= 4
    /\ Len(second) <= 2
    /\ Len(Output(FirstCommand(words), <<>>)) <= PipeBytes

(* The lines that a shell as r is can run as they are meant: it still has  *)
(* the console and room for as many files as it takes, nothing of a longer *)
(* name in starting_path (our_shell.c:96), and it is not told to exit().   *)
Fits(r, words) ==
    LET free == Cardinality(FreeFds(r.fds)) IN
    /\ r.fds[0] = Console /\ r.fds[1] = Console
    /\ \A k \in DOMAIN r.starting_path : k >= Len(words[1]) => r.starting_path[k] = NUL
    /\ words[1] \in DOMAIN Disk => Disk[words[1]] # "exit"
    /\ IF Piped(words)
       THEN /\ RightlyPiped(words) /\ free >= 2
            /\ \A w \in {FirstCommand(words), SecondCommand(words)} : Files(w) < free
       ELSE Files(words) <= free

ShellReads(p) ==
    LET r == Edited(proc[p], ENTER) IN
    /\ At(p, "our_shell", "read")
    /\ keys # <<>>
    /\ Head(keys) = ENTER
    /\ Become(p, [r EXCEPT !.pc = "parse", !.i = 0, !.arg_start = 0, !.arguments = <<<<>>>>])
    /\ keys' = Tail(keys)
    /\ asked' = [asked EXCEPT !.fits = Fits(r, asked.words)]
    /\ screen' = <<>>
    /\ UNCHANGED <<pipes, lines, down>>

(* A round of the parser's loop, and the newline behind the line. *)
ShellParses(p) ==
    /\ At(p, "our_shell", "parse")
    /\ ~ParserDone(proc[p])
    /\ Become(p, Parsed(proc[p]))
    /\ UNCHANGED <<pipes, keys, lines, screen, down, asked>>

ShellParsed(p) ==
    /\ At(p, "our_shell", "parse")
    /\ ParserDone(proc[p])
    /\ Prints(p, <<NL>>, [proc[p] EXCEPT !.pc = IF Len(proc[p].arguments) > 1 THEN "pipe" ELSE "fork"])

-----------------------------------------------------------------------------
(* our_shell: one command *)

ShellForks(p) ==
    /\ At(p, "our_shell", "fork")
    /\ Fork(p, "wait", "run")
    /\ UNCHANGED <<pipes, keys, lines, screen, down, asked>>

(* The child copies the name behind "/sbin/", without its end.  When the   *)
(* command cannot be run it goes on as another shell.                      *)
RunSimple(p) ==
    /\ At(p, "our_shell", "run")
    /\ \E args \in {Strings(proc[p], 1)} :
       \E r \in {[proc[p] EXCEPT !.starting_path = Copied(@, args[1]), !.pc = "main"]} :
       \E tail \in {CString(r.starting_path, 0)} :
           Execs(p, r, tail, args, Invalid(args[1]))

-----------------------------------------------------------------------------
(* our_shell: two commands, one after the other *)

ShellPipes(p) ==
    /\ At(p, "our_shell", "pipe")
    /\ Become(p, [PipeMade(proc[p]) EXCEPT !.pc = "fork1"])
    /\ pipes' = Append(pipes, <<>>)
    /\ UNCHANGED <<keys, lines, screen, down, asked>>

ShellForksFirst(p) ==
    /\ At(p, "our_shell", "fork1")
    /\ Fork(p, "wait1", "run1")
    /\ UNCHANGED <<pipes, keys, lines, screen, down, asked>>

ShellForksSecond(p) ==
    /\ At(p, "our_shell", "fork2")
    /\ Fork(p, "wait2", "run2")
    /\ UNCHANGED <<pipes, keys, lines, screen, down, asked>>

(* Four bytes are copied behind "/sbin/", however long the name is. *)
Renamed(r, command) ==
    LET first == r.arguments[command][1]
    IN  [r EXCEPT !.starting_path = Copied(@, [k \in 1 .. 4 |-> r.buf[first + k - 1]]),
                  !.pc = "main"]

(* The child's file fd becomes the pipe's end. *)
Redirected(r, end, fd) ==
    [r EXCEPT !.fds = Closed(Dup2(Closed(@, fd), end, fd), end)]

(* MUTATION of RunFirst: what is printed goes to the screen. *)
RunFirst_NoDup(p) ==
    LET r == Renamed(proc[p], 1) IN
    /\ At(p, "our_shell", "run1")
    /\ Execs(p, r, CString(r.starting_path, 0), Strings(proc[p], 1), <<>>)

RunFirst(p) ==
    LET r == Redirected(Renamed(proc[p], 1), proc[p].pipefd[2], 1) IN
    /\ At(p, "our_shell", "run1")
    /\ Execs(p, r, CString(r.starting_path, 0), Strings(proc[p], 1), <<>>)

(* execl() with the name and one argument, if there is one. *)
RunSecond(p) ==
    LET r    == Redirected(Renamed(proc[p], 2), proc[p].pipefd[1], 0)
        args == Strings(proc[p], 2)
    IN
    /\ At(p, "our_shell", "run2")
    /\ Execs(p, r, CString(r.starting_path, 0), SubSeq(args, 1, Min({2, Len(args)})), <<>>)

ProcessStep(p) ==
    \/ InitForks(p) \/ InitExecs(p)
    \/ ReadsKey(p)
    \/ LoginAsks(p) \/ LoginName(p) \/ LoginPassword(p) \/ LoginForks(p) \/ LoginExecs(p)
    \/ ShellPrompts(p) \/ ShellReads(p) \/ ShellParses(p) \/ ShellParsed(p)
    \/ ShellForks(p) \/ RunSimple(p)
    \/ ShellPipes(p) \/ ShellForksFirst(p) \/ ShellForksSecond(p) \/ RunFirst(p) \/ RunSecond(p)
    \/ CommandStep(p)
    \/ Start(p) \/ Wait(p) \/ Exit(p)

-----------------------------------------------------------------------------
(* Properties *)

(* Who reads what is typed, or runs at all: everybody else waits for a     *)
(* child or has ended, so a key goes to the program whose prompt is on the *)
(* screen, though a failed exec() leaves shells that go on inside shells.  *)
OneReader ==
    \A p, q \in Pid : p # q =>
        \E r \in {p, q} : proc[r].pc \in Waiting \cup {"none", "ended"}

(* A command's main() gets all words of the line that its user meant for   *)
(* it: the parser cuts them out of the buffer in place, execvp() finds     *)
(* them on the caller's stack and exec() lays them out byte by byte on the *)
(* new one.  Not so of a second command with two arguments or more, of     *)
(* which it gets the first (our_shell.c:82).                               *)
AsTyped ==
    \A p \in Pid :
        proc[p].prog \in Commands /\ proc[p].pc = "main" =>
            LET second == SecondCommand(asked.words) IN
            IF proc[proc[p].parent].pc = "wait2"
            THEN Len(second) <= 2 => proc[p].argv = second
            ELSE proc[p].argv = FirstCommand(asked.words)

Prompted == keys = <<>> /\ \E p \in Pid : proc[p].prog = "our_shell" /\ proc[p].pc = "read"

(* When the prompt is back, the screen has what is expected of the line    *)
(* that was given, no more and no less, the kernel's own messages counted: *)
(* one command, or two through a pipe whose ends are handed on by number,  *)
(* by a shell that keeps the files and the path of the lines before.  Not  *)
(* of a line that does not fit, which is run as something else (see Fits). *)
OutputRight ==
    asked.fits /\ Prompted => screen = <<NL>> \o Expected(asked.words) \o <<"$">>

(* The machine comes up to ask for a name, and a shell comes back from     *)
(* every line that fits.                                                   *)
PromptReturns ==
    /\ <>(\E p \in Pid : proc[p].prog = "login" /\ proc[p].pc = "name")
    /\ (asked.fits /\ ~Prompted) ~> Prompted
=============================================================================
