------------------------------- MODULE Files --------------------------------
(***************************************************************************)
(* Open files (ActualFile of kernel/file_ext.h) and the disk below them    *)
(* (kernel/ide.cc): processes read at the same time, each through its own  *)
(* files or through one that fork() left to several, and all through the   *)
(* registers of one drive.                                                 *)
(*                                                                         *)
(* totalOffset is plain memory.  The code that the Makefile's -O3 builds   *)
(* loads it once per read() and adds to it at the end, with one            *)
(* instruction that other processors may come in between of.               *)
(***************************************************************************)
EXTENDS Ext2

CONSTANTS
    Process, File, NoProcess, Closed,
    Uses,         \* [Process -> SUBSET File]: the files it has descriptors of
    Wrap,         \* 2 ^ 32, where totalOffset wraps
    AllPaths,     \* bound: what is looked up,
    Paths, Sizes, Seeks,   \* and what the calls are made with
    Image         \* what the disk holds: [tree, links, bytes]

VARIABLES
    file,         \* [File -> [node, path] or Closed]
    totalOffset,  \* [File -> Nat]
    last,         \* [Own -> Seq]: what the last read() put into its buffer
    call,         \* [Process -> its read()]
    ideLock,      \* the process that holds the drive's InterruptSafeLock
    sector,       \* the drive's registers: the sector number,
    status        \*    "idle", "busy" (BSY) or "data" (DRQ)

files == <<file, totalOffset, last>>
drive == <<ideLock, sector, status>>
filesVars == <<file, totalOffset, last, call, ideLock, sector, status>>

(* The files of one process only. *)
Own == {f \in File : \A p, q \in Process : f \in Uses[p] /\ f \in Uses[q] => p = q}

(* at: where read() stands; io: where Ide::read_block() stands. *)
Returned ==
    [at |-> "returned", io |-> "out", file |-> Closed, bytes_read |-> 0, offset |-> 0,
     n |-> 0, buffer |-> <<>>, sectors |-> <<>>, temp |-> <<>>, loaded |-> 0]

FilesInit ==
    /\ file = [f \in File |-> Closed]
    /\ totalOffset = [f \in File |-> 0]
    /\ last = [f \in Own |-> <<>>]
    /\ call = [p \in Process |-> Returned]
    /\ ideLock = NoProcess /\ sector = 0 /\ status = "idle"

Kept(f, bytes) == last' = IF f \in Own THEN [last EXCEPT ![f] = bytes] ELSE last

At(p, label) == call[p].at = label
CallNode(p) == file[call[p].file].node
Size(f) == file[f].node.size

-----------------------------------------------------------------------------
(* The calls on a file.  close() is the last one of those that share it. *)

Found == [path \in AllPaths |-> FindFile(path)]

(* open() gets no file of these: it returns -1, stops the machine, or ends *)
(* the process that called it (vmm.cc:162), which makes no more calls.     *)
Missing == {NoNode, Panic, Fault}

(* What a path names is whole: the disk has its blocks, and its size fits  *)
(* the register that totalOffset is.                                       *)
OnDisk(node) ==
    /\ node.size \in 0 .. Wrap - 1
    /\ \A i \in 0 .. SizeInBlocks(node.size, blockSize) - 1 :
          /\ BlockInBounds(node, i)
          /\ i >= NDirect => RefOffset(node, i) \in DOMAIN Disk
          /\ BlockNumber(node, i) \in Nat
          /\ \A j \in 0 .. blockSize - 1 : BlockNumber(node, i) * blockSize + j \in DOMAIN Disk

ASSUME FilesAssumption ==
    /\ NoProcess \notin Process /\ Closed \notin File
    /\ Wrap \in Nat /\ Sizes \subseteq Nat /\ Seeks \subseteq Nat /\ Paths \subseteq AllPaths
    /\ \A path \in Paths :
          /\ Closed # [node |-> Found[path], path |-> path]
          /\ Found[path] \in Missing \/ OnDisk(Found[path])

InUse(f) == \E p \in Process : call[p].file = f

(* MUTATION of Open: the offset is not set. *)
Open_KeepsOffset(p, f, path) ==
    /\ At(p, "returned") /\ f \in Uses[p] /\ file[f] = Closed
    /\ Found[path] \notin Missing
    /\ file' = [file EXCEPT ![f] = [node |-> Found[path], path |-> path]]
    /\ Kept(f, <<>>)
    /\ UNCHANGED <<totalOffset, call, drive>>

(* It makes no difference between files and directories. *)
Open(p, f, path) ==
    /\ At(p, "returned") /\ f \in Uses[p] /\ file[f] = Closed
    /\ Found[path] \notin Missing
    /\ file' = [file EXCEPT ![f] = [node |-> Found[path], path |-> path]]
    /\ totalOffset' = [totalOffset EXCEPT ![f] = 0]
    /\ Kept(f, <<>>)
    /\ UNCHANGED <<call, drive>>

Close(p, f) ==
    /\ At(p, "returned") /\ f \in Uses[p] /\ file[f] # Closed
    /\ ~InUse(f)
    /\ file' = [file EXCEPT ![f] = Closed]
    /\ UNCHANGED <<totalOffset, last, call, drive>>

Seek(p, f, offset) ==
    /\ At(p, "returned") /\ f \in Uses[p] /\ file[f] # Closed
    /\ totalOffset' = [totalOffset EXCEPT ![f] = offset]
    /\ UNCHANGED <<file, last, call, drive>>

ReadNothing(p, f, n) ==
    /\ At(p, "returned") /\ f \in Uses[p] /\ file[f] # Closed
    /\ totalOffset[f] >= Size(f) \/ n = 0
    /\ Kept(f, <<>>)
    /\ UNCHANGED <<file, totalOffset, call, drive>>

ReadSome(p, f, n) ==
    /\ At(p, "returned") /\ f \in Uses[p] /\ file[f] # Closed
    /\ totalOffset[f] < Size(f) /\ n > 0
    /\ LET k == Least(n, Size(f) - totalOffset[f])
       IN  call' = [call EXCEPT ![p] =
                       [@ EXCEPT !.at = "read_all", !.file = f, !.bytes_read = k,
                                 !.offset = totalOffset[f], !.n = k]]
    /\ UNCHANGED <<files, drive>>

(* totalOffset += bytes_read; whatever read_all() returned. *)
AddLoad(p) ==
    /\ At(p, "read_all") /\ (call[p].n = 0 \/ call[p].offset >= Size(call[p].file))
    /\ call' = [call EXCEPT ![p].at = "add", ![p].loaded = totalOffset[call[p].file]]
    /\ UNCHANGED <<files, drive>>

AddStore(p) ==
    /\ At(p, "add")
    /\ totalOffset' = [totalOffset EXCEPT ![call[p].file] = (call[p].loaded + call[p].bytes_read) % Wrap]
    /\ Kept(call[p].file, call[p].buffer)
    /\ call' = [call EXCEPT ![p] = Returned]
    /\ UNCHANGED <<file, drive>>

-----------------------------------------------------------------------------
(* Node::read_all(), one block after the other. *)

SectorsOf(b) ==
    LET k == blockSize \div sector_size
    IN  [i \in 1 .. k |-> b * k + i - 1]

Fetch(p, label, sectors) ==
    call' = [call EXCEPT ![p].at = label, ![p].sectors = sectors, ![p].temp = <<>>]

(* read_block(): a block of the i-node itself, or of its indirect block *)
NextBlock(p) ==
    /\ At(p, "read_all") /\ call[p].n > 0 /\ call[p].offset < Size(call[p].file)
    /\ LET index == call[p].offset \div blockSize
       IN  IF index < NDirect
           THEN Fetch(p, "block", SectorsOf(CallNode(p).direct[index + 1]))
           ELSE Fetch(p, "indirect", <<RefOffset(CallNode(p), index) \div sector_size>>)
    /\ UNCHANGED <<files, drive>>

GotIndirect(p) ==
    /\ At(p, "indirect") /\ call[p].sectors = <<>>
    /\ LET ref == RefOffset(CallNode(p), call[p].offset \div blockSize)
       IN  Fetch(p, "block", SectorsOf(call[p].temp[(ref % sector_size) + 1]))
    /\ UNCHANGED <<files, drive>>

GotBlock(p) ==
    /\ At(p, "block") /\ call[p].sectors = <<>>
    /\ LET c == call[p]
           k == PieceSize(CallNode(p).size, blockSize, c.offset, c.n)
       IN  call' = [call EXCEPT ![p] =
                       [c EXCEPT !.at = "read_all", !.offset = @ + k, !.n = @ - k,
                                 !.buffer = @ \o Piece(c.temp, blockSize, c.offset, k)]]
    /\ UNCHANGED <<files, drive>>

-----------------------------------------------------------------------------
(* Ide::read_block(): the next of the sectors wanted. *)

(* MUTATION of LockDrive: the lock is not taken. *)
LockDrive_Not(p) ==
    /\ call[p].io = "out" /\ call[p].sectors # <<>>
    /\ call' = [call EXCEPT ![p].io = "registers"]
    /\ UNCHANGED <<files, drive>>

LockDrive(p) ==
    /\ call[p].io = "out" /\ call[p].sectors # <<>>
    /\ ideLock = NoProcess
    /\ ideLock' = p
    /\ call' = [call EXCEPT ![p].io = "registers"]
    /\ UNCHANGED <<files, sector, status>>

WriteRegisters(p) ==
    /\ call[p].io = "registers" /\ status # "busy"
    /\ sector' = Head(call[p].sectors)
    /\ call' = [call EXCEPT ![p].io = "command"]
    /\ UNCHANGED <<files, ideLock, status>>

Command(p) ==
    /\ call[p].io = "command"
    /\ status' = "busy"
    /\ call' = [call EXCEPT ![p].io = "data"]
    /\ UNCHANGED <<files, ideLock, sector>>

(* The drive itself.  It makes no errors. *)
DriveReady ==
    /\ status = "busy"
    /\ status' = "data"
    /\ UNCHANGED <<files, call, ideLock, sector>>

Transfer(p) ==
    /\ call[p].io = "data" /\ status = "data"
    /\ call' = [call EXCEPT ![p].io = "out", ![p].sectors = Tail(@), ![p].temp = @ \o Sector(sector)]
    /\ status' = "idle"
    /\ ideLock' = NoProcess
    /\ UNCHANGED <<files, sector>>

-----------------------------------------------------------------------------
OfFile(p, f) ==
    \/ \E path \in Paths : Open(p, f, path)
    \/ Close(p, f)
    \/ \E offset \in Seeks : Seek(p, f, offset)
    \/ \E n \in Sizes : ReadNothing(p, f, n) \/ ReadSome(p, f, n)

OfCall(p) ==
    \/ NextBlock(p) \/ GotIndirect(p) \/ GotBlock(p) \/ AddLoad(p) \/ AddStore(p)
    \/ LockDrive(p) \/ WriteRegisters(p) \/ Command(p) \/ Transfer(p)

FilesNext == DriveReady \/ \E p \in Process : OfCall(p) \/ \E f \in File : OfFile(p, f)

FilesSpec == FilesInit /\ [][FilesNext]_filesVars

-----------------------------------------------------------------------------
(* Properties *)

(* What a path names, from the tree and the links that Image says are on   *)
(* the disk: an i-number, 0 for nothing, -1 below what is no directory.    *)
Named(path) ==
    LET walk[i \in Nat] ==
            IF i = 0 THEN Root
            ELSE LET k == walk[i - 1]
                 IN  CASE k <= 0 -> k
                       [] k > 0 /\ k \notin DOMAIN Image.tree -> -1
                       [] k \in DOMAIN Image.tree ->
                            IF path[i] \in DOMAIN Image.tree[k] THEN Image.tree[k][path[i]] ELSE 0
    IN  walk[Len(path)]

(* The same behind a link: -2 when there is nothing.                       *)
Linked(k) ==
    CASE k \notin DOMAIN Image.links -> k
      [] k \in DOMAIN Image.links ->
            IF Named(Image.links[k]) = 0 THEN -2 ELSE Named(Image.links[k])

NamedFile(path) == Linked(Linked(Named(path)))

NamedBy == [path \in AllPaths |-> NamedFile(path)]

LookedUp ==
    {[node |-> Found[path], number |-> NamedFile(path)] : path \in AllPaths}

RightlyFound(found) ==
    CASE found.number = 0 -> found.node = NoNode
      [] found.number < 0 -> found.node = (IF found.number = -1 THEN Panic ELSE Fault)
      [] found.number > 0 ->
            /\ found.node.type = (IF found.number \in DOMAIN Image.tree THEN "dir" ELSE "file")
            /\ NodeReadAll(found.node, 0, found.node.size) = Image.bytes[found.number]

AllRightlyFound == \A found \in LookedUp : RightlyFound(found)

ASSUME ImageAssumption ==   \* Image says something of every path
    /\ Closed \notin DOMAIN Image.bytes
    /\ \A path \in AllPaths : /\ NamedBy[path] \in Int
                              /\ NamedBy[path] > 0 => NamedBy[path] \in DOMAIN Image.bytes

(* Mounting, the i-node tables, the blocks of directories, direct and      *)
(* indirect, their entries, deleted ones and slack, long and short links   *)
(* and links to links: a process that calls open() finds what the disk     *)
(* says, with its bytes, or that there is nothing, of which a link that    *)
(* leads nowhere is told apart.                                            *)
(* And a read() that returns bytes_read has put as many bytes into its     *)
(* buffer, and they are a piece of the file as it is on the disk, whoever  *)
(* else uses the drive or moves the offset of the same file meanwhile; the *)
(* assertions on block numbers hold on the way.                            *)
ReadsContent ==
    \A p \in Process :
        LET c == call[p]
            bytes == Image.bytes[NamedBy[file[c.file].path]]
        IN  /\ At(p, "returned") => AllRightlyFound
            /\ c.file # Closed =>
                   /\ c.buffer = SubSeq(bytes, c.offset - Len(c.buffer) + 1, c.offset)
                   /\ At(p, "add") => Len(c.buffer) = c.bytes_read
                   /\ c.n > 0 => BlockInBounds(CallNode(p), c.offset \div blockSize)

(* A process that uses a file of its own sees what FileSpec promises, as if *)
(* every read() happened at once, whatever is done on the same drive.      *)
OfOwn(g) == [f \in Own |-> g[f]]

Abstract ==
    INSTANCE FileSpec WITH
        File <- Own,
        Content <- Image.bytes,
        node <- [f \in Own |-> IF file[f] = Closed THEN Closed ELSE NamedBy[file[f].path]],
        offset <- OfOwn(totalOffset),
        last <- last

ImplementsFiles == Abstract!Spec

(* sys.cc:271 says of what open() found: "file is now guaranteed to be an  *)
(* actual file".                                                           *)
OpenedIsFile == \A f \in File : file[f] # Closed => file[f].node.type = "file"
=============================================================================
