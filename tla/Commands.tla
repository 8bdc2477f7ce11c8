------------------------------ MODULE Commands -----------------------------
(***************************************************************************)
(* The commands of /sbin that a shell's line can name: echo.c, cat.c with  *)
(* cp() of libc.c, grep.c with fgets() and strstr() of input_functions.c,  *)
(* clear.c, pipe.c and exit.c; and what a user expects of their output.    *)
(***************************************************************************)
EXTENDS Programs

Commands == {"echo", "cat", "grep", "clear", "pipe", "exit"}

NotFound(name) == <<"cat: ">> \o name \o <<": No such file or directory", NL>>

EchoText(args) == FlattenSeq([k \in 1 .. Len(args) - 1 |-> Append(args[k + 1], SPACE)]) \o <<NL>>

Echo(p) ==
    /\ At(p, "echo", "main")
    /\ Prints(p, EchoText(proc[p].argv), [proc[p] EXCEPT !.pc = "exit"])

Clear(p) ==
    /\ At(p, "clear", "main")
    /\ Prints(p, <<"clear">>, [proc[p] EXCEPT !.pc = "exit"])

ExitProgram(p) ==
    /\ At(p, "exit", "main")
    /\ Shown(FileOf(p, 1), <<"Exiting the kernel.", NL>>)
    /\ pipes' = WrittenTo(pipes, FileOf(p, 1), <<"Exiting the kernel.", NL>>)
    /\ down' = TRUE
    /\ UNCHANGED <<proc, keys, lines, asked>>

-----------------------------------------------------------------------------
(* cat: the files of its arguments, which stay open. *)

CatNext(p) ==
    LET r == proc[p]
        o == Opened(r, r.argv[r.arg + 1])
    IN  /\ At(p, "cat", "main")
        /\ \/ /\ r.arg >= Len(r.argv)
              /\ Prints(p, <<>>, [r EXCEPT !.pc = "exit"])
           \/ /\ r.arg < Len(r.argv)
              /\ o.fd = -1
              /\ Prints(p, NotFound(r.argv[r.arg + 1]), [o EXCEPT !.arg = @ + 1])
           \/ /\ r.arg < Len(r.argv)
              /\ o.fd # -1
              /\ Prints(p, <<>>, [o EXCEPT !.arg = @ + 1, !.pc = "copy"])

(* cp(): a read() of a buffer, and write() until all of it is out. *)
CopyReads(p) ==
    LET r == proc[p]
        k == Min({CopyBytes, Len(Unread(p, r.fd))})
    IN  /\ At(p, "cat", "copy")
        /\ IF k = 0 THEN Prints(p, <<NL>>, [r EXCEPT !.pc = "main"])
           ELSE Prints(p, <<>>, [r EXCEPT !.pc = "write", !.offset = Past(p, r.fd, k),
                                          !.chunk = SubSeq(Unread(p, r.fd), 1, k)])

(* What write() accepts: the console a byte of it at a time, a pipe what   *)
(* it has room for, which may be nothing, and anything else gives up.      *)
Accepted(p, out, bytes) ==
    CASE out = Console -> 1
      [] IsPipe(out, "write") -> Min({Len(bytes), PipeBytes - Len(pipes[out[2]])})
      [] OTHER -> Len(bytes)

CopyWrites(p) ==
    LET r == proc[p]
        m == Accepted(p, FileOf(p, 1), r.chunk)
        rest == SubSeq(r.chunk, m + 1, Len(r.chunk))
    IN  /\ At(p, "cat", "write")
        /\ Prints(p, SubSeq(r.chunk, 1, m),
                  [r EXCEPT !.chunk = rest, !.pc = IF rest = <<>> THEN "copy" ELSE "write"])

-----------------------------------------------------------------------------
(* grep: a pattern, and a file or what comes in on 0. *)

(* strstr(), as a condition *)
StrStr(line, pattern) ==
    \E k \in 0 .. Len(line) - Len(pattern) : SubSeq(line, k + 1, k + Len(pattern)) = pattern

(* fgets(): through the next newline, as far as the buffer goes. *)
NextLine(text) ==
    LET ends == {k \in DOMAIN text : text[k] = NL}
    IN  SubSeq(text, 1, Min(ends \cup {Len(text), FgetsBytes - 1}))

GrepOpens(p) ==
    LET r == proc[p]
        o == IF Len(r.argv) > 2 THEN Opened(r, r.argv[3]) ELSE [r EXCEPT !.fd = 0]
    IN  /\ At(p, "grep", "main")
        /\ Prints(p, IF o.fd = -1 THEN NotFound(r.argv[3]) ELSE <<>>, [o EXCEPT !.pc = "search"])

(* MUTATION of GrepLine: the loop does not end where the text does. *)
GrepLine_NoEnd(p) ==
    LET r    == proc[p]
        file == FileOf(p, r.fd)
        line == NextLine(Unread(p, r.fd))
        text == IF StrStr(line, r.argv[2]) THEN line ELSE <<>>
    IN  /\ At(p, "grep", "search")
        /\ Shown(FileOf(p, 1), text)
        /\ pipes' = WrittenTo(TakenFrom(pipes, file, Len(line)), FileOf(p, 1), text)
        /\ Become(p, [r EXCEPT !.offset = Past(p, r.fd, Len(line))])
        /\ UNCHANGED <<keys, lines, down, asked>>

GrepLine(p) ==
    LET r    == proc[p]
        file == FileOf(p, r.fd)
        line == NextLine(Unread(p, r.fd))
        text == IF StrStr(line, r.argv[2]) THEN line ELSE <<>>
    IN  /\ At(p, "grep", "search")
        /\ Shown(FileOf(p, 1), text)
        /\ pipes' = WrittenTo(TakenFrom(pipes, file, Len(line)), FileOf(p, 1), text)
        /\ Become(p, [r EXCEPT !.offset = Past(p, r.fd, Len(line)),
                               !.pc = IF line = <<>> THEN "exit" ELSE "search"])
        /\ UNCHANGED <<keys, lines, down, asked>>

-----------------------------------------------------------------------------
(* pipe.c: a child's message, through a pipe. *)

PipeSays(made) == IF made THEN <<"else", NL>> ELSE <<"Pipe creation failed", NL>>

PipeMakes(p) ==
    LET r == PipeMade(proc[p]) IN
    /\ At(p, "pipe", "main")
    /\ Shown(FileOf(p, 1), PipeSays(r.pipefd # proc[p].pipefd))
    /\ pipes' = WrittenTo(Append(pipes, <<>>), FileOf(p, 1), PipeSays(r.pipefd # proc[p].pipefd))
    /\ Become(p, [r EXCEPT !.pc = IF r.pipefd # proc[p].pipefd THEN "fork" ELSE "exit"])
    /\ UNCHANGED <<keys, lines, down, asked>>

PipeForks(p) ==
    /\ At(p, "pipe", "fork")
    /\ Fork(p, "wait", "send")
    /\ UNCHANGED <<pipes, keys, lines, screen, down, asked>>

(* The child, between two lines of its own. *)
PipeSends(p) ==
    LET r    == proc[p]
        text == <<"child", NL, "end of child", NL>>
    IN
    /\ At(p, "pipe", "send")
    /\ Shown(FileOf(p, 1), text)
    /\ pipes' = WrittenTo(WrittenTo(pipes, FileOf(p, r.pipefd[2]), <<"Hello", NL>>), FileOf(p, 1), text)
    /\ Become(p, [r EXCEPT !.fds = Closed(Closed(@, r.pipefd[1]), r.pipefd[2]), !.pc = "exit"])
    /\ UNCHANGED <<keys, lines, down, asked>>

PipeReceives(p) ==
    LET r    == proc[p]
        got  == Unread(p, r.pipefd[1])
        text == <<"parent", NL, "Parent received: ">> \o got
    IN
    /\ At(p, "pipe", "received")
    /\ Shown(FileOf(p, 1), text)
    /\ pipes' = WrittenTo(TakenFrom(pipes, FileOf(p, r.pipefd[1]), Len(got)), FileOf(p, 1), text)
    /\ Become(p, [r EXCEPT !.fds = Closed(@, r.pipefd[1]), !.pc = "exit"])
    /\ UNCHANGED <<keys, lines, down, asked>>

CommandStep(p) ==
    \/ Echo(p) \/ Clear(p) \/ ExitProgram(p)
    \/ CatNext(p) \/ CopyReads(p) \/ CopyWrites(p)
    \/ GrepOpens(p) \/ GrepLine(p)
    \/ PipeMakes(p) \/ PipeForks(p) \/ PipeSends(p) \/ PipeReceives(p)

-----------------------------------------------------------------------------
(* What a user expects to see of a command with no file open but for the   *)
(* first three, when input is what it finds on 0.                          *)

Matching(text, pattern) ==
    LET ends   == SetToSortSeq({k \in DOMAIN text : text[k] = NL} \cup {0, Len(text)}, <)
        pieces == [k \in 1 .. Len(ends) - 1 |-> SubSeq(text, ends[k] + 1, ends[k + 1])]
    IN  FlattenSeq(SelectSeq(pieces, LAMBDA piece : StrStr(piece, pattern)))

TextOf(name) == IF name \in DOMAIN Texts THEN Append(Texts[name], NL) ELSE NotFound(name)

Output(words, input) ==
    CASE Disk[words[1]] = "echo"  -> EchoText(words)
      [] Disk[words[1]] = "cat"   -> FlattenSeq([k \in 1 .. Len(words) - 1 |-> TextOf(words[k + 1])])
      [] Disk[words[1]] = "grep"  ->
             IF Len(words) = 2 THEN Matching(input, words[2])
             ELSE IF words[3] \in DOMAIN Texts THEN Matching(Texts[words[3]], words[2])
             ELSE NotFound(words[3])
      [] Disk[words[1]] = "clear" -> <<"clear">>
      [] Disk[words[1]] = "pipe"  ->
             <<"else", NL, "child", NL, "end of child", NL, "parent", NL, "Parent received: ", "Hello", NL>>
=============================================================================
