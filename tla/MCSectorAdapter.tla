---------------------------- MODULE MCSectorAdapter ----------------------------
(***************************************************************************)
(* Instances of SectorAdapter for TLC: three sectors of two cells, blocks  *)
(* of two sectors, so that the last block is half as long as the first.    *)
(***************************************************************************)
EXTENDS SectorAdapter

CONSTANTS t1, t2

TwoThreads == {t1, t2}

\* Two patterns that differ in every cell and between neighbours.
Pattern(n, first) == [i \in 1 .. n |-> 1 + ((first + i) % 2)]

\* One cell, half of sector 0, as the table is shorter than a sector.
Table == <<3>>

Request(op, lba, count, data) ==
    [op |-> op, lba |-> lba, count |-> count, data |-> data]

\* Writes of all sectors with two patterns, of one sector of the whole block, of
\* the short block, across both blocks and beyond the last sector; reads of all
\* sectors, of none and beyond the last; flushes.
SomeRequests ==
    {Request("write", 0, 3, Pattern(6, f)) : f \in 0 .. 1}
    \cup {Request("write", lba, 1, Pattern(2, 2 - lba)) : lba \in 1 .. 2}
    \cup {Request("write", lba, 2, Pattern(4, 0)) : lba \in 1 .. 2}
    \cup {Request("read", r[1], r[2], <<>>) : r \in {<<0, 3>>, <<2, 0>>, <<2, 2>>}}
    \cup {Request("sync", 0, 0, <<>>)}

=============================================================================
