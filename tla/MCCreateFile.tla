---------------------------- MODULE MCCreateFile ----------------------------
(* Disks from one sector to several chunks, and options that are refused. *)
EXTENDS CreateFile

SomeOptions ==
  [size : {1, 2, 7, 12}, block : {1, 2}, lss : {1, 2}, pss : {2}, fixed : {FALSE}, parent : {"none", "guid 1"}]
  \cup [size : {2, 8, 14, 20}, block : {1, 2}, lss : {1, 2}, pss : {1}, fixed : {TRUE}, parent : {"none"}]
  \cup [size : {0, 4, 36}, block : {0, 1, 3, 4}, lss : {1, 3}, pss : {1, 3}, fixed : {TRUE}, parent : {"none", "guid 1"}]

SomeSizes == {DiskOf(x) : x \in {y \in SomeOptions : Valid(y)}}
=============================================================================
