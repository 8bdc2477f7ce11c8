------------------------------- MODULE Exec -------------------------------
(***************************************************************************)
(* SYS::exec() of kernel/sys.cc: which file becomes the program, and the   *)
(* stack it finds, from which crt0.S calls main().                         *)
(***************************************************************************)
EXTENDS Lines

CONSTANTS Disk,   \* [name in /sbin -> program, or "dir" or "data"]
          Texts   \* [name -> content] of the files that commands read

(* The result for a path behind "/sbin/"; 0 stands for the switch to the   *)
(* program, which does not return.                                         *)
ExecResult(tail) ==
    IF tail = <<>> THEN -2
    ELSE IF tail \notin DOMAIN Disk THEN -1
    ELSE IF Disk[tail] = "dir" THEN -2
    ELSE IF Disk[tail] = "data" THEN -3
    ELSE 0

(* What the kernel prints of it, always on the console: Debug::printf().   *)
KernelSays(tail) ==
    CASE ExecResult(tail) = -2 -> <<"file is not a file", NL, "file type: 4", NL>>
      [] ExecResult(tail) = -3 -> <<"wrong magic numbers", NL>>
      [] OTHER -> <<>>

-----------------------------------------------------------------------------
(* The stack, upwards from the stack pointer, a sequence of bytes.  A word *)
(* is four of them, of which the first one here has the value.             *)

Word(w) == <<w, "byte", "byte", "byte">>

(* The bytes an argument takes: with its NUL, and one to four more. *)
Room(arg) == (Len(arg) + 1) + (4 - ((Len(arg) + 1) % 4))

(* The copy takes what is behind the string as well. *)
ArgBytes(arg) ==
    [k \in 1 .. Room(arg) |-> IF k <= Len(arg) THEN arg[k]
                              ELSE IF k = Len(arg) + 1 THEN NUL ELSE "byte"]

(* argc, argv, the pointers and their null come before the strings. *)
Below(args) == 4 * (Len(args) + 3)

Address(args, k) ==
    Below(args) + Len(FlattenSeq([j \in 1 .. k - 1 |-> ArgBytes(args[j])]))

(* MUTATION of StackImage: the pointers are pushed first to last. *)
StackImage_Forward(args) ==
    Word(Len(args)) \o Word(8)
    \o FlattenSeq([k \in 1 .. Len(args) |-> Word(Address(args, Len(args) + 1 - k))])
    \o Word(0)
    \o FlattenSeq([k \in 1 .. Len(args) |-> ArgBytes(args[k])])

StackImage(args) ==
    Word(Len(args)) \o Word(8)
    \o FlattenSeq([k \in 1 .. Len(args) |-> Word(Address(args, k))])
    \o Word(0)
    \o FlattenSeq([k \in 1 .. Len(args) |-> ArgBytes(args[k])])

(* What main(argc, argv) reads there, as addresses from the stack pointer. *)
WordAt(image, a) == image[a + 1]

StringAt(image, a) == CString([i \in 0 .. Len(image) - 1 |-> image[i + 1]], a)

MainArgs(image) ==
    [k \in 1 .. WordAt(image, 0) |->
        StringAt(image, WordAt(image, WordAt(image, 4) + 4 * (k - 1)))]
=============================================================================
