------------------------------ MODULE MCByteIO ------------------------------
(* Sectors of two bytes; o, p and z are what a file, a parent and a sector of *)
(* zeros hold, v is written.                                                  *)
EXTENDS ByteIO

Same(b) == [c \in {0, 1} |-> b]
ZeroSector   == Same("z")
OldSector    == Same("o")
ParentSector == Same("p")
Mixed == [{0, 1} -> {"z", "o", "p", "v"}]

SomeRanges == {[start |-> 1, count |-> 2], [start |-> 2, count |-> 2]}
=============================================================================
