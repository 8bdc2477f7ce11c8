------------------------------- MODULE Lines -------------------------------
(***************************************************************************)
(* What a line typed at the shell becomes: the editing of input_functions.c*)
(* and the parser of our_shell.c, on an array of characters; and the       *)
(* commands in the words that the user means by it.                        *)
(***************************************************************************)
EXTENDS Integers, Sequences, FiniteSets, SequencesExt

ENTER     == "ENTER"
BACKSPACE == "BACKSPACE"
TAB       == "TAB"
SPACE     == " "
BAR       == "|"
NUL       == "NUL"
NL        == "NL"

(* An array of n characters, and the C string at index i of one. *)
Zeros(n) == [i \in 0 .. n - 1 |-> NUL]

CString(a, i) ==
    LET end == CHOOSE e \in i .. Cardinality(DOMAIN a) :
                   /\ e \in DOMAIN a => a[e] = NUL
                   /\ \A d \in i .. e - 1 : a[d] # NUL
    IN  [k \in 1 .. end - i |-> a[i + k - 1]]

(* memcpy(a, s, Len(s)) *)
Copied(a, s) == [i \in DOMAIN a |-> IF i < Len(s) THEN s[i + 1] ELSE a[i]]

-----------------------------------------------------------------------------
(* One key of read_input_echo(buf, Cardinality(DOMAIN buf)), or at "pass"  *)
(* of read_input_silent(): r has the buffer and buffer_index.  The key     *)
(* that ends it leaves a NUL, and so does a TAB that is echoed.            *)

Edited(r, key) ==
    CASE key = ENTER -> [r EXCEPT !.buf[r.n] = NUL]
      [] key = TAB -> IF r.pc = "pass" THEN r ELSE [r EXCEPT !.buf[r.n] = NUL]
      [] key = BACKSPACE -> [r EXCEPT !.n = IF @ # 0 THEN @ - 1 ELSE @]
      [] OTHER -> IF r.n < Cardinality(DOMAIN r.buf) - 1
                  THEN [r EXCEPT !.buf[r.n] = key, !.n = @ + 1]
                  ELSE r

-----------------------------------------------------------------------------
(* One round of the parser's loop: r has buf, i, arg_start and the         *)
(* arguments, for each command the indexes its arguments start at.         *)

AtSpace(r) == r.buf[r.i] \in {SPACE, NUL}

(* A space ends an argument. *)
ArgumentEnded(r) ==
    IF AtSpace(r)
    THEN [r EXCEPT !.buf[r.i] = NUL,
                   !.arguments[Len(r.arguments)] = Append(@, r.arg_start),
                   !.arg_start = r.i + 1]
    ELSE r

(* A bar ends a command; the space behind it is skipped with it. *)
CommandEnded(r) ==
    IF r.buf[r.i] = BAR
    THEN [r EXCEPT !.arguments = Append(@, <<>>), !.arg_start = @ + 2, !.i = @ + 1]
    ELSE r

Parsed(r) ==
    LET s == CommandEnded(ArgumentEnded(r)) IN [s EXCEPT !.i = @ + 1]

(* The loop ends behind the line, or when a command has all the arguments  *)
(* there is room for.                                                      *)
ParserDone(r) ==
    \/ r.i > r.n
    \/ Len(Last(r.arguments)) >= Cardinality(DOMAIN r.buf) - 2

(* The strings a command's arguments point to. *)
Strings(r, command) ==
    [k \in DOMAIN r.arguments[command] |-> CString(r.buf, r.arguments[command][k])]

-----------------------------------------------------------------------------
(* The same from the side of the user, who means a sequence of words. *)

(* The first two commands of a line of words, the second <<>> if there is  *)
(* none.                                                                   *)
Bars(words) == {k \in DOMAIN words : words[k] = <<BAR>>}

FirstCommand(words) ==
    IF Bars(words) = {} THEN words
    ELSE SubSeq(words, 1, (CHOOSE k \in Bars(words) : \A j \in Bars(words) : k <= j) - 1)

SecondCommand(words) ==
    LET rest == SubSeq(words, Len(FirstCommand(words)) + 2, Len(words)) IN FirstCommand(rest)
=============================================================================
