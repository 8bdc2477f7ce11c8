-------------------------------- MODULE Ext2 --------------------------------
(***************************************************************************)
(* The ext2 file system of kernel/ext2.h and ext2.cc, read only, and the   *)
(* BlockIO loops below it: how a byte of a node, a name in a directory or  *)
(* a path is found on the disk.  Nothing here changes: module Files adds   *)
(* the processes that read at the same time.                               *)
(*                                                                         *)
(* A cell of the disk stands for as many bytes as what it holds needs: a   *)
(* number of 4 bytes, a name, an i-node, an entry of the group table, or a *)
(* byte of a file.  (Directory entries have the length of the name in the  *)
(* cell of their total_size.)                                              *)
(***************************************************************************)
EXTENDS Integers, Sequences

CONSTANTS
    Disk,          \* the cells, by their offset
    sector_size, IdeSize,
    SuperOffset,   \* 1024
    NDirect,       \* 12, the references in the i-node itself
    Inline         \* 60, the longest link that is kept in their place

ASSUME Ext2Assumption ==
    /\ sector_size \in Nat \ {0} /\ NDirect \in Nat \ {0} /\ Inline \in 0 .. NDirect
    /\ SuperOffset \in DOMAIN Disk
    /\ IdeSize \in Nat /\ \A d \in DOMAIN Disk : d \in 0 .. IdeSize - 1

Least(a, b) == IF a < b THEN a ELSE b
NoNode == [type |-> "none"]

-----------------------------------------------------------------------------
(* BlockIO.  An object is [size, block_size, block], with block[i] the     *)
(* cells that its read_block(i) delivers.                                  *)

PieceSize(size, block_size, offset, n) ==
    Least(block_size - (offset % block_size), Least(n, size - offset))

(* &temp[offset_in_block], which is the whole block when that is wanted *)
Piece(block, block_size, offset, n) ==
    SubSeq(block, (offset % block_size) + 1, (offset % block_size) + n)

(* n is what is left to read. *)
ReadAll(io, start, count) ==
    LET read[n \in 0 .. count] ==
            LET offset == start + count - n
                k == PieceSize(io.size, io.block_size, offset, n)
            IN  IF n = 0 \/ offset >= io.size THEN <<>>
                ELSE Piece(io.block[offset \div io.block_size], io.block_size, offset, k)
                     \o read[n - k]
    IN  read[count]

SizeInBlocks(size, block_size) == (size + block_size - 1) \div block_size

Sector(s) == [i \in 1 .. sector_size |-> Disk[s * sector_size + i - 1]]

Ide == [size |-> IdeSize, block_size |-> sector_size,
        block |-> [s \in {d \div sector_size : d \in DOMAIN Disk} |-> Sector(s)]]

IdeRead(offset) == ReadAll(Ide, offset, 1)[1]

-----------------------------------------------------------------------------
(* Mounting: the numbers that Ext2 keeps. *)

sb == IdeRead(SuperOffset)
blockSize == 2 ^ sb.log_block_size   \* in cells; in bytes 1024 times as many

ASSUME BlockAssumption ==   \* blocks are whole sectors
    blockSize \in Nat \ {0} /\ blockSize % sector_size = 0

nGroups == (sb.blocks_count + sb.blocks_per_group - 1) \div sb.blocks_per_group
groupTableNumber == SuperOffset \div blockSize + 1
groupTable == ReadAll(Ide, groupTableNumber * blockSize, nGroups)
iNodeTables == [i \in 1 .. nGroups |-> groupTable[i].inode_table]
Root == 2

(* get_node(): an i-node has one cell. *)
NodeOffset(number) ==
    LET index == number - 1
    IN  iNodeTables[index \div sb.inodes_per_group + 1] * blockSize + (index % sb.inodes_per_group)

Node(number) == IdeRead(NodeOffset(number))

-----------------------------------------------------------------------------
(* Node::read_block() *)

RefOffset(node, index) == node.indirect_1 * blockSize + (index - NDirect)

BlockNumber(node, index) ==
    IF index < NDirect THEN node.direct[index + 1] ELSE IdeRead(RefOffset(node, index))

(* Its assertions: index < n_sectors / (block_size / 512), and no panic() *)
(* for what only a second indirect block could hold.                       *)
BlockInBounds(node, index) ==
    /\ index < node.n_sectors \div (blockSize \div sector_size)
    /\ index < NDirect + blockSize

ReadBlock(node, index) == ReadAll(Ide, BlockNumber(node, index) * blockSize, blockSize)

NodeIO(node) ==
    [size |-> node.size, block_size |-> blockSize,
     block |-> [i \in 0 .. SizeInBlocks(node.size, blockSize) - 1 |-> ReadBlock(node, i)]]

NodeReadAll(node, offset, n) == ReadAll(NodeIO(node), offset, n)

-----------------------------------------------------------------------------
(* Names.  A path is the sequence of its parts. *)

(* Node::find() with entries(): the last entry of that name counts, one of *)
(* i-node 0 too.                                                           *)
FindIn(node, name) ==
    LET find[offset \in Nat, out \in Nat] ==
            IF offset >= node.size THEN out
            ELSE LET entry == NodeReadAll(node, offset, 3)
                 IN  find[offset + entry[2], IF entry[3] = name THEN entry[1] ELSE out]
    IN  find[0, 0]

(* Ext2::find(): from a node along a path.  A part below what is no        *)
(* directory is a failed assertion of entries(); to ask what there is none *)
(* of is a page fault.                                                     *)
Panic == [type |-> "panic"]
Fault == [type |-> "fault"]
NodeOrNone == [number \in 0 .. sb.inodes_count |-> IF number = 0 THEN NoNode ELSE Node(number)]
Nodes == {NodeOrNone[k] : k \in 0 .. sb.inodes_count} \cup {Panic, Fault}

(* MUTATION of Find: current is not reset when the name is not there. *)
Find_Stays(start, path) ==
    LET walk[current \in Nodes, i \in Nat] ==
            IF i > Len(path) \/ current \in {NoNode, Panic} THEN current
            ELSE IF current.type # "dir" THEN Panic
            ELSE LET number == FindIn(current, path[i])
                 IN  walk[IF number = 0 THEN current ELSE Node(number), i + 1]
    IN  walk[start, 1]

Find(start, path) ==
    LET walk[current \in Nodes, i \in Nat] ==
            IF i > Len(path) \/ current \in {NoNode, Panic} THEN current
            ELSE IF current.type # "dir" THEN Panic
            ELSE walk[NodeOrNone[FindIn(current, path[i])], i + 1]
    IN  walk[start, 1]

(* get_symbol(): a short link is in the node, in place of the references. *)
GetSymbol(node) ==
    IF node.size <= Inline THEN SubSeq(node.direct, 1, node.size) ELSE NodeReadAll(node, 0, node.size)

(* To ask a node whether it is a link: a fault when there is none.         *)
Asked(node) == IF node = NoNode THEN Fault ELSE node

(* What sys.cc's open() finds: links are followed from the root, links to  *)
(* links too; a loop of links would keep it for ever.  The target of a     *)
(* link is asked whether it is one before it is compared with nullptr.     *)
FindFile(path) ==
    LET follow[node \in Nodes] ==
            IF node.type = "symlink"
            THEN follow[Asked(Find(NodeOrNone[Root], GetSymbol(node)))]
            ELSE node
    IN  follow[Find(NodeOrNone[Root], path)]
=============================================================================
