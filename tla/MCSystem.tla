----------------------------- MODULE MCSystem ------------------------------
(* Three kinds of machine, and a user who types a few of these lines. *)
EXTENDS System

CONSTANT Cores

(* Three processors; the first has id 0, `past' is what follows the table. *)
Cpu(i)  == [type |-> 0, id |-> i, address |-> 0]
IoApic  == [type |-> 1, id |-> 0, address |-> 5]
Junk    == [type |-> 7, id |-> 0, address |-> 0]

Madt(entries) == [sig |-> "APIC", localAddress |-> 4, entries |-> entries, past |-> Junk]
Fadt          == [sig |-> "FACP", localAddress |-> 0, entries |-> <<>>, past |-> Junk]

(* The same memory, as a BIOS may report it. *)
Mem(low, high, both, first) ==
    [ax |-> IF first \/ both THEN low ELSE 0, bx |-> IF first \/ both THEN high ELSE 0,
     cx |-> IF ~first \/ both THEN low ELSE 0, dx |-> IF ~first \/ both THEN high ELSE 0]

Machine(rom, ebda, cpus, both, first) ==
    LET tables == <<Fadt, Madt([i \in 1 .. cpus |-> Cpu(i - 1)] \o <<IoApic>>)>>
    IN  [rom |-> IF rom THEN <<<<>>, <<tables>>>> ELSE <<<<>>>>,
         ebda |-> IF ebda THEN <<<<>>, <<tables>>>> ELSE <<<<>>>>,
         memInfo |-> Mem(15360, 112, both, first),
         lowKB |-> 15360, blocks |-> 112, ioAddress |-> 5,
         ticks |-> 1000 * cpus + 7, phase |-> IF both THEN 999 ELSE 0]

MCCore == 0 .. Cores - 1

(* A machine of each size, and each way a BIOS has of reporting it. *)
MCFirmware ==
    {Machine(TRUE, FALSE, Cores, FALSE, TRUE), Machine(FALSE, TRUE, Cores - 1, TRUE, FALSE),
     Machine(TRUE, TRUE, 1, FALSE, FALSE)}

MCPresent(f) ==
    {f0.id : f0 \in {e \in {FindSDT(FindRSD(f), "APIC").entries[i] :
                               i \in DOMAIN FindSDT(FindRSD(f), "APIC").entries} : e.type = 0}}

Spaced(words) == FlattenSeq([k \in 1 .. Len(words) - 1 |-> Append(words[k], SPACE)]) \o Last(words)
Said(words)   == [keys |-> Append(Spaced(words), ENTER), words |-> words]

echo   == <<"e", "c", "h", "o">>
cat    == <<"c", "a", "t">>
grep   == <<"g", "r", "e", "p">>
clear  == <<"c", "l", "e", "a", "r">>
pipe   == <<"p", "i", "p", "e">>
exit   == <<"e", "x", "i", "t">>
bob    == <<"b", "o", "b">>
bar    == <<BAR>>
a      == <<"a">>
b      == <<"b">>
f      == <<"f">>    \* a text
g      == <<"g">>    \* one that no pipe has room for
z      == <<"z">>    \* no file
xyzzy  == <<"x", "y", "z", "z", "y">>

MCDisk == [name \in {<<"login">>, <<"our_shell">>, echo, cat, grep, clear, pipe, exit, f, <<"t">>} |->
              CASE name = <<"login">> -> "login" [] name = <<"our_shell">> -> "our_shell"
                [] name = echo -> "echo" [] name = cat -> "cat" [] name = grep -> "grep"
                [] name = clear -> "clear" [] name = pipe -> "pipe" [] name = exit -> "exit"
                [] name = f -> "data" [] OTHER -> "dir"]

MCTexts == [name \in {f, g} |->
               IF name = f THEN <<"a", "b", NL, "c", NL, "b", "a">>
               ELSE <<"a", NL, "b", NL, "a", NL, "b", NL, "a", NL>>]

MCUsers     == {<<bob, bob>>, <<<<>>, <<>>>>}
MCNames     == {Append(bob, ENTER), <<ENTER>>}
MCPasswords == {<<"b", TAB, "x", BACKSPACE, "o", "b", "b", ENTER>>, <<ENTER>>}

MCLines ==
    {Said(<<cat, f, z>>), Said(<<grep, a, f>>), Said(<<clear>>), Said(<<pipe>>), Said(<<exit>>),
     Said(<<xyzzy>>), Said(<<<<"t">>>>), Said(<<f>>),
     Said(<<cat, f, bar, grep, b>>), Said(<<cat, g, bar, grep, b>>), Said(<<xyzzy, bar, grep, a>>),
     Said(<<cat, f, bar, echo, a, b>>),
     [keys |-> <<"c", "x", BACKSPACE, "a", "t", TAB, SPACE, "f", ENTER>>, words |-> <<cat, f>>],
     \* longer than the buffer: what of it was echoed
     [keys |-> Append(Spaced(<<echo, bob, bob, bob, bob, bob>>), ENTER),
      words |-> <<echo, bob, bob, bob, b>>]}
=============================================================================
