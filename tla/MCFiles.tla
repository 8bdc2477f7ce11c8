------------------------------ MODULE MCFiles -------------------------------
(***************************************************************************)
(* A small disk for Files: sectors of 2 cells, blocks of 4, two groups of  *)
(* 4 i-nodes, 2 direct references in each i-node.                          *)
(*                                                                         *)
(*   2  /      f, d, s, l and m, 5 blocks, 3 of them by the indirect block *)
(*   3  /f     9 bytes, 3 blocks, the last one indirect and not full       *)
(*   4  /d     a deleted entry and g                                       *)
(*   5  /d/g   3 bytes                                                     *)
(*   6  /s     a link to d/g, too long for the i-node                      *)
(*   7  /l     a link to s, in the i-node                                  *)
(*   8  /m     a link to x, which is not there                             *)
(***************************************************************************)
EXTENDS Files

CONSTANTS p, q, f, shared

MCUses == [x \in Process |-> IF x = p THEN {f, shared} ELSE {shared}]

Table(b) == [inode_table |-> b]

INode(type, size, n_sectors, direct, indirect_1) ==
    [type |-> type, size |-> size, n_sectors |-> n_sectors,
     direct |-> direct, indirect_1 |-> indirect_1]

Unused == INode("none", 0, 0, <<0, 0>>, 0)

Super == [inodes_count |-> 8, blocks_count |-> 19, blocks_per_group |-> 10,
          inodes_per_group |-> 4, log_block_size |-> 2]

Blocks == <<
    <<0, 0, 0, 0>>,
    <<Super, 0, 0, 0>>,
    <<Table(3), Table(4), 0, 0>>,
    <<Unused, INode("dir", 20, 12, <<5, 6>>, 7), INode("file", 9, 8, <<12, 13>>, 14),
      INode("dir", 8, 4, <<10, 11>>, 0)>>,
    <<INode("file", 3, 2, <<16, 0>>, 0), INode("symlink", 2, 2, <<17, 0>>, 0),
      INode("symlink", 1, 0, <<"s", 0>>, 0), INode("symlink", 1, 0, <<"x", 0>>, 0)>>,
    <<3, 4, "f", 0>>,
    <<4, 4, "d", 0>>,
    <<8, 9, 18, 0>>,
    <<6, 4, "s", 0>>,
    <<7, 4, "l", 0>>,
    <<0, 4, "x", 0>>,
    <<5, 4, "g", 0>>,
    <<"1", "2", "3", "4">>,
    <<"5", "6", "7", "8">>,
    <<15, 0, 0, 0>>,
    <<"9", 0, 0, 0>>,
    <<"a", "b", "c", 0>>,
    <<"d", "g", 0, 0>>,
    <<8, 4, "m", 0>> >>

MCDisk == [d \in 0 .. 4 * Len(Blocks) - 1 |-> LET block == Blocks[d \div 4 + 1] IN block[(d % 4) + 1]]

(* 2 ^ 32 - 1 bytes; the disk is smaller *)
MCIdeSize == 4 * Len(Blocks)

MCImage ==
    [tree |-> [k \in {2, 4} |->
                  IF k = 2 THEN [f |-> 3, d |-> 4, s |-> 6, l |-> 7, m |-> 8] ELSE [g |-> 5]],
     links |-> [k \in 6 .. 8 |-> CASE k = 6 -> <<"d", "g">> [] k = 7 -> <<"s">> [] k = 8 -> <<"x">>],
     bytes |-> [k \in 2 .. 5 |->
                   CASE k = 2 -> <<3, 4, "f", 0, 4, 4, "d", 0, 6, 4, "s", 0, 7, 4, "l", 0, 8, 4, "m", 0>>
                     [] k = 3 -> <<"1", "2", "3", "4", "5", "6", "7", "8", "9">>
                     [] k = 4 -> <<0, 4, "x", 0, 5, 4, "g", 0>>
                     [] k = 5 -> <<"a", "b", "c">>]]

MCAllPaths ==
    {<<>>, <<"f">>, <<"d">>, <<"x">>, <<"d", "g">>, <<"d", "x">>, <<"s">>, <<"l">>, <<"m">>,
     <<"f", "g">>, <<"s", "g">>, <<"d", "g", "x">>, <<"x", "f">>}

MCPaths == {<<"f">>, <<"l">>}
=============================================================================
