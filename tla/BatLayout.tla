------------------------------ MODULE BatLayout ------------------------------
(***************************************************************************)
(* Where the entries of the block allocation table stand: the index        *)
(* arithmetic of the reader (src/src/bat.rs, src/src/io/core.rs), the size *)
(* of the BAT region and the loop that fills the BAT of a fixed disk       *)
(* (src/src/medium/create.rs).  An entry is the number of the place it     *)
(* points to in the payload area, or NotPresent.                           *)
(***************************************************************************)
EXTENDS FileFormat

CONSTANT Sizes    \* the disks created: [payloads |-> blocks, ratio |-> chunk ratio]

ASSUME LayoutConstants == Sizes \subseteq [payloads : Nat \ {0}, ratio : Nat \ {0}]

NotPresent == -1

\* The reader's arithmetic: write.rs and io/core.rs find an entry by block, the
\* Bat view tells the kind of an entry by its index.
PayloadIndex(b, ratio) == b + b \div ratio
BitmapIndex(b, ratio)  == (b \div ratio) * (ratio + 1) + ratio
IsBitmapIndex(i, ratio) == i % (ratio + 1) = ratio

\* The creator's arithmetic.
BitmapCount(d)  == CeilDiv(d.payloads, d.ratio)

\* Mutant: the sector bitmap entries are not counted.
TotalPayloadsOnly(d) == d.payloads

Total(d) == d.payloads + BitmapCount(d)
MibCount(d) == LET n == CeilDiv(Total(d), EntriesPerMib) IN IF n > 1 THEN n ELSE 1
Capacity(d) == MibCount(d) * EntriesPerMib    \* entries in the BAT region

VARIABLES disk,       \* the disk being created
          fixed,      \* is it a fixed one?
          i,          \* next entry to write
          sbWritten,  \* sector bitmap entries written
          bat         \* what the entries hold

vars == <<disk, fixed, i, sbWritten, bat>>

Init ==
  /\ disk \in Sizes
  /\ fixed \in BOOLEAN
  /\ i = 0
  /\ sbWritten = 0
  /\ bat = [k \in 0 .. Capacity(disk) - 1 |-> NotPresent]

Writing == fixed /\ i < Total(disk)

\* Mutant: all the sector bitmap entries are counted as written.
PayloadsWrittenEarly == i - BitmapCount(disk)

PayloadsWritten == i - sbWritten

\* Mutant: the first entry counts as the end of a chunk.
IsBitmapFromZero == PayloadsWritten % disk.ratio = 0 /\ sbWritten < BitmapCount(disk)

IsBitmap ==
  /\ PayloadsWritten > 0
  /\ PayloadsWritten % disk.ratio = 0
  /\ sbWritten < BitmapCount(disk)

\* Mutant: two entries are counted for one.
WriteBitmapTwice ==
  /\ Writing /\ IsBitmap
  /\ bat' = [bat EXCEPT ![i] = NotPresent]
  /\ i' = i + 1 /\ sbWritten' = sbWritten + 2
  /\ UNCHANGED <<disk, fixed>>

WriteBitmap ==
  /\ Writing /\ IsBitmap
  /\ bat' = [bat EXCEPT ![i] = NotPresent]
  /\ i' = i + 1 /\ sbWritten' = sbWritten + 1
  /\ UNCHANGED <<disk, fixed>>

WritePayload ==
  /\ Writing /\ ~IsBitmap
  /\ bat' = [bat EXCEPT ![i] = PayloadsWritten]
  /\ i' = i + 1
  /\ UNCHANGED <<disk, fixed, sbWritten>>

Next == WriteBitmap \/ WritePayload

Spec == Init /\ [][Next]_vars
-----------------------------------------------------------------------------
Created == fixed /\ i >= Total(disk)
Payloads == 0 .. disk.payloads - 1

TypeOK ==
  /\ disk \in Sizes /\ fixed \in BOOLEAN
  /\ i \in 0 .. Total(disk) /\ sbWritten \in 0 .. i
  /\ bat \in [0 .. Capacity(disk) - 1 -> Nat \cup {NotPresent}]

(***************************************************************************)
(* The creator and the reader agree on the blocks of the first chunk: each *)
(* is found at the place the creator gave it, and the chunk's sector       *)
(* bitmap entry, where the BAT holds one, is not present.                  *)
(***************************************************************************)
FirstChunkAgrees ==
  Created =>
    /\ \A b \in Payloads : b < disk.ratio => bat[PayloadIndex(b, disk.ratio)] = b
    /\ disk.payloads >= disk.ratio => bat[BitmapIndex(0, disk.ratio)] = NotPresent

(***************************************************************************)
(* A fixed disk has room for every block: each of its blocks is given a    *)
(* place by exactly one entry, whichever one that is.                      *)
(***************************************************************************)
EveryPlaceOnce ==
  Created => \A b \in Payloads : \E k \in DOMAIN bat :
               bat[k] = b /\ \A m \in DOMAIN bat : bat[m] = b => m = k

(***************************************************************************)
(* What the creator's comments say of every chunk: the reader finds every  *)
(* block of a new fixed disk at the place that was allocated to it.        *)
(***************************************************************************)
ReaderAgrees ==
  Created => \A b \in Payloads : bat[PayloadIndex(b, disk.ratio)] = b

(***************************************************************************)
(* Every entry that reading and writing look up lies in the BAT region:    *)
(* the payload entry of each block and the sector bitmap entry of each     *)
(* whole chunk.  (That of a last chunk in part may lie beyond the region,  *)
(* as the creator counts it without the payload entries before it.)        *)
(***************************************************************************)
EntriesInRegion ==
  \A b \in Payloads :
    /\ PayloadIndex(b, disk.ratio) < Capacity(disk)
    /\ (b \div disk.ratio + 1) * disk.ratio =< disk.payloads =>
         BitmapIndex(b, disk.ratio) < Capacity(disk)
=============================================================================
