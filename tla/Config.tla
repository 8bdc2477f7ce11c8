------------------------------- MODULE Config -------------------------------
(***************************************************************************)
(* configInit() of kernel/config.cc: how much memory and which processors  *)
(* the machine has, from what the firmware left behind.                    *)
(*                                                                         *)
(* A firmware f is a record: `rom' and `ebda', the two areas that are      *)
(* searched, 16 bytes an element, each <<>> or <<t>> with t the sequence   *)
(* of tables that an RSD found there leads to; a table has a signature     *)
(* `sig', and the MADT `localAddress', its `entries' and `past', what the  *)
(* bytes behind them look like; memInfo answers the BIOS call e801, made   *)
(* by mbr.S.  An entry has a `type', and an id or an address.  The local    *)
(* APIC's timer makes `ticks' in half a period of the PIT, which is        *)
(* `phase' ticks into one when it is first read.                           *)
(***************************************************************************)
EXTENDS Integers, Sequences, FiniteSets, FiniteSetsExt

KB == 1024
MB == 1024 * KB

(* a | b, 16 bits wide *)
BitOr(a, b) ==
    MapThenSumSet(LAMBDA k : 2^k * Max({(a \div 2^k) % 2, (b \div 2^k) % 2}), 0 .. 15)

(* memAbove1M() asserts it of what the BIOS said. *)
MemInfoMakesSense(m) == m.cx = 15 * 1024 \/ m.dx = 0

(* KB from 1 MB to 16 MB in ax and cx, blocks of 64 KB above in bx and dx: *)
(* a BIOS fills both pairs, or one of them.                                *)

(* MUTATION of MemAbove1M: the pairs are added. *)
MemAbove1M_Adds(m) == (m.ax + m.cx) * KB + (m.bx + m.dx) * 64 * KB

MemAbove1M(m) == BitOr(m.ax, m.cx) * KB + BitOr(m.bx, m.dx) * 64 * KB

FirstIn(area) == LET hits == {i \in DOMAIN area : area[i] # <<>>} IN
                 IF hits = {} THEN <<>> ELSE area[Min(hits)]

FindRSD(f) == IF FirstIn(f.rom) # <<>> THEN FirstIn(f.rom) ELSE FirstIn(f.ebda)

FindSDT(rsd, name) ==
    rsd[1][Min({i \in DOMAIN rsd[1] : rsd[1][i].sig = name})]

(* The loop steps to the next entry before it looks at it: it never sees   *)
(* the first, the base processor's, and sees what follows the last.        *)
Examined(madt) == Append(Tail(madt.entries), madt.past)

Others(madt) ==
    {i \in DOMAIN Examined(madt) : /\ Examined(madt)[i].type = 0
                                   /\ Examined(madt)[i].id # 0}

IoApics(madt) == {i \in DOMAIN Examined(madt) : Examined(madt)[i].type = 1}

ConfigInit(f) ==
    LET madt == FindSDT(FindRSD(f), "APIC")
        io   == IoApics(madt)
    IN  [memSize    |-> MemAbove1M(f.memInfo) + MB,
         localAPIC  |-> madt.localAddress,
         ioAPIC     |-> IF io = {} THEN 0 ELSE Examined(madt)[Max(io)].address,
         totalProcs |-> Cardinality(Others(madt)) + 1]
=============================================================================
