------------------------------- MODULE ByteIO -------------------------------
(***************************************************************************)
(* What a caller of the library sees of BlockWrite: a cursor over a range  *)
(* of sectors (Sector, src/src/io/core.rs and src/src/io/write.rs) that is *)
(* read, written and moved by bytes.  A write that does not begin and end  *)
(* at sector bounds reads the sectors first and writes all of them back; a *)
(* sector the child does not hold is read from a parent that is asked for  *)
(* when it is first needed.                                                *)
(*                                                                         *)
(* One medium, opened for writing, without power losses (see BlockWrite);  *)
(* reads return the effective data.  A sector is a function on its bytes.  *)
(***************************************************************************)
EXTENDS BlockWrite

CONSTANTS
  SectorBytes,   \* bytes in a sector
  DiskSectors,   \* sectors of the virtual disk; the last block may be cut
  Written,       \* what a caller writes into a byte
  Ranges,        \* the ranges it opens: [start, count]
  Lengths,       \* the lengths of its buffers
  Answers,       \* what the parent resolver may answer, see Resolved
  Stranger       \* what a sector of a medium that is not the parent holds

Bytes == 0 .. SectorBytes - 1
SectorsPerBlock == Cardinality(Sectors)
Byte == UNION {{v[c] : c \in Bytes} : v \in Data}   \* the values of a byte

ASSUME ByteConstants ==
  /\ SectorBytes \in Nat \ {0}
  /\ SectorsPerBlock \in Nat \ {0}
  /\ Sectors = 0 .. SectorsPerBlock - 1
  /\ DiskSectors \in 1 .. NumBlocks * SectorsPerBlock
  /\ Data = [Bytes -> Byte]
  /\ Written \subseteq Byte
  /\ Ranges \subseteq [start : Nat, count : Nat]
  /\ Lengths \subseteq Nat
  /\ Stranger \in Data
  /\ Answers \subseteq {"none", "other", "coarse", "fits", "short"}

VARIABLES
  view,     \* the open Sector: start and count in sectors, pos in bytes
  parent,   \* parent_medium: "none", or the answer that was kept
  carry,    \* the bytes of the write in progress, by their place on the disk
  got,      \* what the last read, or the last failed call, returned and where
  past1     \* history: all that each byte held or was given

byteVars == <<vars, view, parent, carry, got, past1>>

Closed  == [start |-> 0, count |-> 0, pos |-> 0]
Nothing == [ok |-> TRUE, at |-> 0, bytes |-> <<>>]

\* An error, told where the cursor was when the call was made.
FailedAt(a) == [ok |-> FALSE, at |-> a, bytes |-> <<>>]

\* The block of sector n of the disk, and the sector in it; and back.
PlaceOf(n) == <<n \div SectorsPerBlock, n % SectorsPerBlock>>
NumOf(x)   == x[1] * SectorsPerBlock + x[2]

\* Byte a of the virtual disk.
DiskBytes == 0 .. DiskSectors * SectorBytes - 1
ByteAt(a) == LET x == PlaceOf(a \div SectorBytes) IN ReadSector(x[1], x[2])[a % SectorBytes]

ByteInit ==
  /\ Init
  /\ view = Closed /\ parent = "none" /\ carry = <<>> /\ got = Nothing
  /\ past1 = [a \in DiskBytes |-> {ByteAt(a)}]
-----------------------------------------------------------------------------
(* The cursor. *)

\* IO::sector
OpenRange(r) ==
  /\ w.pc = "idle" /\ view = Closed
  /\ r.count >= 1 /\ r.start + r.count - 1 =< DiskSectors - 1
  /\ view' = [start |-> r.start, count |-> r.count, pos |-> 0]
  /\ got' = Nothing
  /\ UNCHANGED <<vars, parent, carry, past1>>

\* The Sector is dropped, and with it the IO and its parent, or not.
DropRange ==
  /\ w.pc = "idle" /\ view # Closed
  /\ view' = Closed
  /\ parent' \in {parent, "none"}
  /\ got' = Nothing
  /\ UNCHANGED <<vars, carry, past1>>

RangeBytes == view.count * SectorBytes

\* Seek::seek: from the start, the end or here, and not out of the range.
Seek(from, d) ==
  /\ w.pc = "idle" /\ view # Closed
  /\ view' = [view EXCEPT !.pos = CASE from + d < 0 -> 0
                                    [] from + d > RangeBytes -> RangeBytes
                                    [] OTHER -> from + d]
  /\ got' = Nothing
  /\ UNCHANGED <<vars, parent, carry, past1>>

\* How much of a buffer of n bytes is moved: 0 at the end of the range.
Moved(n) == IF n < RangeBytes - view.pos THEN n ELSE RangeBytes - view.pos
Here == view.start * SectorBytes + view.pos

FirstSkip  == view.pos % SectorBytes
FirstSector == view.start + view.pos \div SectorBytes
AffectedCount(n) == (view.pos + n - 1) \div SectorBytes - view.pos \div SectorBytes + 1
Affected(n) == {PlaceOf(FirstSector + k) : k \in 0 .. AffectedCount(n) - 1}
-----------------------------------------------------------------------------
(* Reading. *)

NeedsParent(x) ==
  \/ HasParent /\ bat[x[1]].state = "NotPresent"
  \/ bat[x[1]].state = "PartiallyPresent" /\ x \notin bits[sb[ChunkOf(x[1])]]

\* Mutant: whatever medium the resolver answers with is kept.
ResolvedUnchecked(S, k) ==
  IF parent = "none" /\ (\E x \in S : NeedsParent(x)) THEN k ELSE parent

\* ensure_parent_resolved: the resolver is asked once per IO.  There is none, or
\* it answers with a medium of another data_write_guid, of another sector size,
\* or with the parent, whose last sector may be missing; only these are kept.
Resolved(S, k) ==
  IF parent = "none" /\ (\E x \in S : NeedsParent(x)) /\ k \in {"fits", "short"} THEN k
  ELSE parent

\* read_from_parent_sector of the medium p that was kept: it fails without one,
\* where the sectors differ in size, and beyond the end.
Readable(S, p) ==
  \A x \in S : NeedsParent(x) =>
    p \in {"fits", "other"} \/ (p = "short" /\ x # PlaceOf(DiskSectors - 1))

\* What read_full_sectors finds of a sector: the parent's content, for one the
\* child does not hold, only if p is the parent.
SectorSeen(x, p) == IF NeedsParent(x) /\ p = "other" THEN Stranger ELSE ReadSector(x[1], x[2])

\* read_full_sectors over the sectors that n bytes lie in: temp.
Temp(n, p) ==
  [t \in 0 .. AffectedCount(n) * SectorBytes - 1 |->
     SectorSeen(PlaceOf(FirstSector + t \div SectorBytes), p)[t % SectorBytes]]

\* Mutant: the bytes before the first are not skipped.
PartNoSkip(n, p) == [j \in 0 .. n - 1 |-> Temp(n, p)[j]]

\* read_at.  The fast path is the case FirstSkip = 0, with no rest.
Part(n, p) == [j \in 0 .. n - 1 |-> Temp(n, p)[FirstSkip + j]]

\* Mutant: the position moves before the bytes are there.
MovedByAnyway(m, ok) == [view EXCEPT !.pos = @ + m]

\* The position moves by what was moved, and not on an error.
MovedBy(m, ok) == IF ok THEN [view EXCEPT !.pos = @ + m] ELSE view

\* Read::read
Read(n, k) ==
  LET m == Moved(n)
      p == Resolved(Affected(m), k)
      ok == Readable(Affected(m), p)
  IN  /\ w.pc = "idle" /\ view # Closed
      /\ m > 0
      /\ parent' = p
      /\ view' = MovedBy(m, ok)
      /\ got' = IF ok THEN [ok |-> TRUE, at |-> Here, bytes |-> Part(m, p)] ELSE FailedAt(Here)
      /\ UNCHANGED <<vars, carry, past1>>
-----------------------------------------------------------------------------
(* Writing. *)

FastPath(n) == FirstSkip = 0 /\ (view.pos + n) % SectorBytes = 0

\* Mutant: what the sectors held is not read first.
PatchedZero(n, v, p) ==
  [t \in DOMAIN Temp(n, p) |-> IF t \in FirstSkip .. FirstSkip + n - 1 THEN v ELSE Zero[0]]

\* write_at: the sectors as they are written back.
Patched(n, v, p) ==
  [t \in DOMAIN Temp(n, p) |-> IF t \in FirstSkip .. FirstSkip + n - 1 THEN v ELSE Temp(n, p)[t]]

NewSectors(n, v, p) ==
  [x \in Places |->
     LET g == NumOf(x) - FirstSector
     IN  IF x \in Affected(n) THEN [c \in Bytes |-> Patched(n, v, p)[g * SectorBytes + c]] ELSE Zero]

\* Write::write of n bytes, all v: write_at up to its call of write_full_sectors,
\* or to the error of the read before it.
StartWrite(n, v, k) ==
  LET m == Moved(n)
      p == IF FastPath(m) THEN parent ELSE Resolved(Affected(m), k)
      ok == FastPath(m) \/ Readable(Affected(m), p)
  IN  /\ view # Closed /\ m > 0
      /\ w.pc = "idle"
      /\ parent' = p
      /\ IF ok
         THEN /\ Begin(Affected(m), NewSectors(m, v, p))
              /\ carry' = [a \in Here .. Here + m - 1 |-> v]
              /\ past1' = [a \in DiskBytes |->
                             IF a \in DOMAIN carry' THEN past1[a] \cup {v} ELSE past1[a]]
              /\ got' = Nothing
         ELSE /\ got' = FailedAt(Here)
              /\ UNCHANGED <<vars, carry, past1>>
      /\ UNCHANGED view

GoOn ==
  /\ Proceed
  /\ UNCHANGED <<view, parent, carry, got, past1>>

\* The position moves only when all was written.
FinishWrite ==
  /\ Return
  /\ view' = [view EXCEPT !.pos = @ + Cardinality(DOMAIN carry)]
  /\ carry' = <<>>
  /\ UNCHANGED <<parent, got, past1>>
FailWrite ==
  /\ Fail
  /\ carry' = <<>>
  /\ got' = FailedAt(Here)
  /\ UNCHANGED <<view, parent, past1>>

ByteNext ==
  \/ \E r \in Ranges : OpenRange(r)
  \/ DropRange
  \/ \E from \in {0, view.pos, RangeBytes}, d \in {-1, 0, 1} : Seek(from, d)
  \/ \E n \in Lengths, k \in Answers : Read(n, k) \/ (\E v \in Written : StartWrite(n, v, k))
  \/ GoOn \/ FinishWrite \/ FailWrite

ByteSpec == ByteInit /\ [][ByteNext]_byteVars
-----------------------------------------------------------------------------
(***************************************************************************)
(* A successful read returns the bytes of the virtual disk that stand      *)
(* where the cursor was, whatever blocks, bitmaps and parent they come     *)
(* from and whatever the resolver answered before, and leaves the cursor   *)
(* right behind them.  After a call that failed, be it for want of a       *)
(* parent or in the middle of a write, the cursor is where it was.         *)
(***************************************************************************)
ReadsWhatIsThere ==
  got # Nothing =>
    /\ view.pos =< RangeBytes
    /\ got.ok => /\ \A j \in DOMAIN got.bytes : got.bytes[j] = ByteAt(got.at + j)
                 /\ Here = got.at + Cardinality(DOMAIN got.bytes)
    /\ ~got.ok => Here = got.at

(***************************************************************************)
(* Byte writes implement the virtual disk too, as an array of bytes: a     *)
(* write changes no byte but its own, although it writes back whole        *)
(* sectors it read before, and may copy what it read from the parent.      *)
(***************************************************************************)
BD == INSTANCE VirtualDisk WITH
        Places  <- DiskBytes,
        Data    <- Byte,
        content <- [a \in DiskBytes |-> ByteAt(a)],
        past    <- past1,
        request <- IF w.pc = "idle" THEN [sectors |-> {}, value |-> <<>>]
                   ELSE [sectors |-> DOMAIN carry, value |-> carry]
IsByteDisk == BD!Spec
=============================================================================
