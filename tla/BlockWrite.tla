----------------------------- MODULE BlockWrite -----------------------------
(***************************************************************************)
(* The sector write path of an open VHDX file (src/src/io/write.rs) over a *)
(* file whose unsynced writes may be lost: allocation of payload and       *)
(* sector bitmap blocks at the end of the file, the data / sync / bitmap / *)
(* sync / BAT order of each kind of block, an error at any system call and *)
(* a power loss at any moment.                                             *)
(*                                                                         *)
(* Lengths count small units, Mib of them to a MiB, so that a file may end *)
(* anywhere; BAT offsets count MiB, as FileOffsetMB does.  For each part   *)
(* of the file there are two variables: what a read returns now, and what  *)
(* may be found after a power loss (disk...: the last synced value and     *)
(* everything written over it since).                                      *)
(***************************************************************************)
EXTENDS Integers, FiniteSets

CONSTANTS
  NumBlocks,    \* payload blocks of the virtual disk
  ChunkRatio,   \* payload blocks that share one sector bitmap block
  Sectors,      \* sectors of a payload block
  Mib,          \* length units in a MiB
  BlockMib,     \* MiB in a payload block
  DataStart,    \* end of the header, log, metadata and BAT regions, in units
  MaxOffset,    \* bound: the largest BAT offset (the disk is full beyond it)
  HasParent,    \* is this a differencing disk?
  Vals,         \* values written by the caller
  Zero,         \* the content of a sector of zeros
  Old,          \* the content of the blocks present when the file was opened
  Parent,       \* what the parent disk returns
  InitStates,   \* payload states of the file as it is opened
  InitLens,     \* lengths of the file as it is opened
  MayFail,      \* can a system call fail?
  MayCrash      \* can the power fail?

Blocks  == 0 .. NumBlocks - 1
ChunkOf(b) == b \div ChunkRatio
Chunks  == {ChunkOf(b) : b \in Blocks}
Places  == Blocks \X Sectors
Data    == Vals \cup {Zero, Old, Parent}
Offsets == 0 .. MaxOffset
BlockSize == BlockMib * Mib
Pos(o)  == o * Mib     \* file position of a BAT offset

PayloadState == {"NotPresent", "Undefined", "Zero", "Unmapped",
                 "FullyPresent", "PartiallyPresent"}
Entry == [state : PayloadState, off : Offsets]
Allocated(e) == e.state \in {"FullyPresent", "PartiallyPresent"}

ASSUME ConstantsOK ==
  /\ NumBlocks \in Nat \ {0} /\ ChunkRatio \in Nat \ {0}
  /\ Mib \in Nat \ {0} /\ BlockMib \in Nat \ {0}
  /\ DataStart \in Nat \ {0} /\ MaxOffset \in Nat
  /\ HasParent \in BOOLEAN /\ MayFail \in BOOLEAN /\ MayCrash \in BOOLEAN
  /\ InitStates \subseteq PayloadState
  /\ ~HasParent => InitStates \cap {"Unmapped", "PartiallyPresent"} = {}
  /\ InitLens \subseteq Nat

VARIABLES
  fileLen, diskLen,    \* length of the file
  bat, diskBat,        \* payload entries of the BAT
  sb, diskSb,          \* sector bitmap entries: MiB offset, 0 = NotPresent
  bits, diskBits,      \* bits[o]: bits set in the sector bitmap block at o
  data, diskData,      \* data[o]: sectors of the payload block at o
  w,                   \* the write in progress, see Write below
  answer,              \* what the last write returned: "ok" or "error", or "none"
  past                 \* history: all that each sector held or was given

Write == [pc    : {"idle", "round", "reserve", "write", "sync", "bitmap",
                   "syncBitmap", "publishBitmap", "mark", "syncBits", "publish"},
          req   : SUBSET Places,   \* the sectors of the request
          todo  : SUBSET Places,   \* those whose rounds have not ended
          val   : [Places -> Data],   \* what the caller writes there
          blk   : Blocks,          \* the block of this round
          kind  : {"full", "part", "child", "fresh"},   \* its arm of the match
          off   : Offsets,         \* where its data goes
          sbOff : Offsets]         \* its chunk's newly reserved bitmap block

fileVars == <<fileLen, bat, sb, bits, data>>
diskVars == <<diskLen, diskBat, diskSb, diskBits, diskData>>
vars == <<fileVars, diskVars, w, answer, past>>

Idle == [pc |-> "idle", req |-> {}, todo |-> {}, val |-> [x \in Places |-> Zero], blk |-> 0,
         kind |-> "full", off |-> 0, sbOff |-> 0]
-----------------------------------------------------------------------------
(* Reading: read_full_sectors and read_partially_present_range. *)

ReadPartial(b, s) ==
  IF <<b, s>> \in bits[sb[ChunkOf(b)]] THEN data[bat[b].off][s] ELSE Parent

ReadSector(b, s) ==
  LET e == bat[b] IN
  CASE e.state = "FullyPresent" -> data[e.off][s]
    [] e.state = "PartiallyPresent" -> ReadPartial(b, s)
    [] e.state = "NotPresent" /\ HasParent -> Parent
    [] OTHER -> Zero

(***************************************************************************)
(* The extents of the file that BAT entries now on disk, BAT entries that  *)
(* a power loss may bring back, and the round in progress lay claim to:    *)
(* <<owner, position, size>>.                                              *)
(***************************************************************************)
PayloadClaim(b, o) == <<<<"payload", b>>, Pos(o), BlockSize>>
BitmapClaim(c, o)  == <<<<"bitmap", c>>, Pos(o), Mib>>

DiskClaims ==
  {PayloadClaim(x[1], x[2].off) :
      x \in {y \in Blocks \X Entry : y[2] \in diskBat[y[1]] /\ Allocated(y[2])}}
  \cup {BitmapClaim(x[1], x[2]) :
      x \in {y \in Chunks \X Offsets : y[2] \in diskSb[y[1]] /\ y[2] # 0}}

Reserved == w.kind \in {"child", "fresh"} /\ w.pc \notin {"idle", "round", "reserve"}
ReservedBitmap == w.pc \in {"syncBitmap", "publishBitmap"}

Claims ==
  DiskClaims
  \cup (IF Reserved THEN {PayloadClaim(w.blk, w.off)} ELSE {})
  \cup (IF ReservedBitmap THEN {BitmapClaim(ChunkOf(w.blk), w.sbOff)} ELSE {})

Apart(x, y) == x[2] + x[3] =< y[2] \/ y[2] + y[3] =< x[2]
ClaimsDisjoint == \A x, y \in Claims : x[1] # y[1] => Apart(x, y)
ClaimsInFile   == \A x \in Claims : x[2] >= DataStart /\ x[2] + x[3] =< fileLen
-----------------------------------------------------------------------------
(* Durability: a sync makes all that was written durable. *)

AllSynced ==
  /\ diskLen' = {fileLen}
  /\ diskBat' = [b \in Blocks |-> {bat[b]}]
  /\ diskSb' = [c \in Chunks |-> {sb[c]}]
  /\ diskBits' = bits
  /\ diskData' = [o \in Offsets |-> [s \in Sectors |-> {data[o][s]}]]

\* The write of what the sectors T of this round's block are given.
SetData(T) ==
  LET v(s) == w.val[<<w.blk, s>>] IN
  /\ data' = [data EXCEPT ![w.off] = [s \in Sectors |-> IF s \in T THEN v(s) ELSE @[s]]]
  /\ diskData' = [diskData EXCEPT ![w.off] =
                    [s \in Sectors |-> IF s \in T THEN @[s] \cup {v(s)} ELSE @[s]]]

SetLen(n) == fileLen' = n /\ diskLen' = diskLen \cup {n}

\* Mutant: the end of the file rounded down.
RoundUpDown(len, n) == (len \div n) * n

\* Where reserve_block puts a block of n units: the first multiple of n at or
\* after the end of the file.
RoundUp(len, n) == ((len + n - 1) \div n) * n
-----------------------------------------------------------------------------
(* A file as it may be opened: what validate_bat accepts, laid out in      *)
(* disjoint extents, everything durable.                                   *)

InitEntries == {e \in Entry : e.state \in InitStates /\ (Allocated(e) <=> e.off # 0)}

Init ==
  /\ fileLen \in InitLens
  /\ bat \in [Blocks -> InitEntries]
  /\ sb \in [Chunks -> IF HasParent THEN Offsets ELSE {0}]
  /\ \A b \in Blocks : bat[b].state = "PartiallyPresent" => sb[ChunkOf(b)] # 0
  /\ \A b \in Blocks : Allocated(bat[b]) => Pos(bat[b].off) % BlockSize = 0
  /\ \E B \in SUBSET {x \in Places : bat[x[1]].state = "PartiallyPresent"} :
       bits = [o \in Offsets |-> {x \in B : sb[ChunkOf(x[1])] = o}]
  /\ data = [o \in Offsets |-> [s \in Sectors |-> Old]]
  /\ diskLen = {fileLen}
  /\ diskBat = [b \in Blocks |-> {bat[b]}]
  /\ diskSb = [c \in Chunks |-> {sb[c]}]
  /\ diskBits = bits
  /\ diskData = [o \in Offsets |-> [s \in Sectors |-> {Old}]]
  /\ w = Idle
  /\ answer = "none"
  /\ past = [x \in Places |-> {ReadSector(x[1], x[2])}]
  /\ DataStart =< fileLen
  /\ ClaimsDisjoint
  /\ ClaimsInFile
-----------------------------------------------------------------------------
(* write_full_sectors, one action per call it makes. *)

\* write_full_sectors is called for a run of consecutive sectors: v[x] is for x.
Run(S) == \A x, y \in S : \A z \in Places :
            LET Before(p, q) == p[1] < q[1] \/ (p[1] = q[1] /\ p[2] =< q[2])
            IN  Before(x, z) /\ Before(z, y) => z \in S

Begin(S, v) ==
  /\ w.pc = "idle"
  /\ S # {} /\ Run(S)
  /\ w' = [w EXCEPT !.pc = "round", !.req = S, !.todo = S,
                    !.val = [x \in Places |-> IF x \in S THEN v[x] ELSE Zero]]
  /\ past' = [x \in Places |-> IF x \in S THEN past[x] \cup {v[x]} ELSE past[x]]
  /\ answer' = "none"
  /\ UNCHANGED <<fileVars, diskVars>>

\* Mutant: the last sector of the block is left out.
RoundSectorsShort == {s \in Sectors : <<w.blk, s>> \in w.todo /\ s + 1 \in Sectors}

\* The sectors of the request that lie in the block of this round.
RoundSectors == {s \in Sectors : <<w.blk, s>> \in w.todo}

Kind(b) ==
  CASE bat[b].state = "FullyPresent"     -> "full"
    [] bat[b].state = "PartiallyPresent" -> "part"
    [] bat[b].state = "NotPresent" /\ HasParent -> "child"
    [] OTHER -> "fresh"

\* The head of the loop: resolve the next block's BAT entry, pick the arm.
StartRound(b) ==
  /\ w.pc = "round"
  /\ \E s \in Sectors : <<b, s>> \in w.todo
  /\ \A x \in w.todo : b =< x[1]
  /\ Kind(b) = "part" => sb[ChunkOf(b)] # 0     \* require_sector_bitmap_present
  /\ w' = [w EXCEPT !.blk = b, !.kind = Kind(b),
                    !.pc = IF Kind(b) \in {"full", "part"} THEN "write" ELSE "reserve",
                    !.off = IF Kind(b) \in {"full", "part"} THEN bat[b].off ELSE 0,
                    !.sbOff = 0]
  /\ UNCHANGED <<fileVars, diskVars, answer, past>>

\* Mutant: the block number is not checked against what an entry can hold.
ReservePayloadUnbounded ==
  LET at == RoundUp(fileLen, BlockSize) IN
  /\ w.pc = "reserve"
  /\ SetLen(at + BlockSize)
  /\ w' = [w EXCEPT !.pc = "write", !.off = at \div Mib]
  /\ UNCHANGED <<bat, diskBat, sb, diskSb, bits, diskBits, data, diskData, answer, past>>

\* reserve_payload_block; set_len extends the file with zeros.
ReservePayload ==
  LET at == RoundUp(fileLen, BlockSize) IN
  /\ w.pc = "reserve"
  /\ at \div Mib \in Offsets
  /\ SetLen(at + BlockSize)
  /\ data' = [data EXCEPT ![at \div Mib] = [s \in Sectors |-> Zero]]
  /\ diskData' = [diskData EXCEPT ![at \div Mib] = [s \in Sectors |-> {Zero}]]
  /\ w' = [w EXCEPT !.pc = "write", !.off = at \div Mib]
  /\ UNCHANGED <<bat, diskBat, sb, diskSb, bits, diskBits, answer, past>>

EndRound == [Idle EXCEPT !.pc = "round", !.req = w.req, !.val = w.val,
                         !.todo = {x \in w.todo : x[1] # w.blk}]

WriteData ==
  /\ w.pc = "write"
  /\ SetData(RoundSectors)
  /\ w' = IF w.kind = "full" THEN EndRound ELSE [w EXCEPT !.pc = "sync"]
  /\ UNCHANGED <<fileLen, diskLen, bat, diskBat, sb, diskSb, bits, diskBits, answer, past>>

\* Mutant: the sync after the data is left out.
SyncDataSkipped ==
  /\ w.pc = "sync"
  /\ w' = [w EXCEPT !.pc = CASE w.kind = "part"  -> "mark"
                             [] w.kind = "child" -> "bitmap"
                             [] OTHER            -> "publish"]
  /\ UNCHANGED <<fileVars, diskVars, answer, past>>

\* The sync_data after the data.
SyncData ==
  /\ w.pc = "sync"
  /\ AllSynced
  /\ w' = [w EXCEPT !.pc = CASE w.kind = "part"  -> "mark"
                             [] w.kind = "child" -> "bitmap"
                             [] OTHER            -> "publish"]
  /\ UNCHANGED <<fileVars, answer, past>>

\* ensure_sector_bitmap_present, the chunk already has its bitmap.
BitmapPresent ==
  /\ w.pc = "bitmap"
  /\ sb[ChunkOf(w.blk)] # 0
  /\ w' = [w EXCEPT !.pc = "mark"]
  /\ UNCHANGED <<fileVars, diskVars, answer, past>>

\* ensure_sector_bitmap_present: reserve a block and fill it with zeros.
ReserveBitmap ==
  LET at == RoundUp(fileLen, Mib) IN
  /\ w.pc = "bitmap"
  /\ sb[ChunkOf(w.blk)] = 0
  /\ at \div Mib \in Offsets
  /\ SetLen(at + Mib)
  /\ bits' = [bits EXCEPT ![at \div Mib] = {}]
  /\ diskBits' = [diskBits EXCEPT ![at \div Mib] = {}]
  /\ w' = [w EXCEPT !.pc = "syncBitmap", !.sbOff = at \div Mib]
  /\ UNCHANGED <<bat, diskBat, sb, diskSb, data, diskData, answer, past>>

\* Mutant: the sync of the new bitmap block is left out.
SyncBitmapSkipped ==
  /\ w.pc = "syncBitmap"
  /\ w' = [w EXCEPT !.pc = "publishBitmap"]
  /\ UNCHANGED <<fileVars, diskVars, answer, past>>

SyncBitmap ==
  /\ w.pc = "syncBitmap"
  /\ AllSynced
  /\ w' = [w EXCEPT !.pc = "publishBitmap"]
  /\ UNCHANGED <<fileVars, answer, past>>

\* publish_sector_bitmap_block
PublishBitmap ==
  LET c == ChunkOf(w.blk) IN
  /\ w.pc = "publishBitmap"
  /\ sb' = [sb EXCEPT ![c] = w.sbOff]
  /\ diskSb' = [diskSb EXCEPT ![c] = @ \cup {w.sbOff}]
  /\ w' = [w EXCEPT !.pc = "mark"]
  /\ UNCHANGED <<fileLen, diskLen, bat, diskBat, bits, diskBits, data, diskData, answer, past>>

SetBits(T) ==
  LET o == sb[ChunkOf(w.blk)] IN
  /\ bits' = [bits EXCEPT ![o] = @ \cup ({w.blk} \X T)]
  /\ UNCHANGED diskBits

\* Mutant: the bits of the whole block are set.
MarkBlock ==
  /\ w.pc = "mark"
  /\ SetBits(Sectors)
  /\ w' = [w EXCEPT !.pc = "syncBits"]
  /\ UNCHANGED <<fileLen, diskLen, bat, diskBat, sb, diskSb, data, diskData, answer, past>>

\* mark_child_sectors_present
MarkBits ==
  /\ w.pc = "mark"
  /\ SetBits(RoundSectors)
  /\ w' = [w EXCEPT !.pc = "syncBits"]
  /\ UNCHANGED <<fileLen, diskLen, bat, diskBat, sb, diskSb, data, diskData, answer, past>>

\* Mutant: the sync of the bitmap is left out.
SyncBitsSkipped ==
  /\ w.pc = "syncBits"
  /\ w' = IF w.kind = "part" THEN EndRound ELSE [w EXCEPT !.pc = "publish"]
  /\ UNCHANGED <<fileVars, diskVars, answer, past>>

\* The sync_data after the bitmap.
SyncBits ==
  /\ w.pc = "syncBits"
  /\ AllSynced
  /\ w' = IF w.kind = "part" THEN EndRound ELSE [w EXCEPT !.pc = "publish"]
  /\ UNCHANGED <<fileVars, answer, past>>

\* publish_payload_block; nothing syncs this BAT write before the caller's
\* request returns.
Publish ==
  LET e == [state |-> IF w.kind = "child" THEN "PartiallyPresent" ELSE "FullyPresent",
            off   |-> w.off] IN
  /\ w.pc = "publish"
  /\ bat' = [bat EXCEPT ![w.blk] = e]
  /\ diskBat' = [diskBat EXCEPT ![w.blk] = @ \cup {e}]
  /\ w' = EndRound
  /\ UNCHANGED <<fileLen, diskLen, sb, diskSb, bits, diskBits, data, diskData, answer, past>>

Return ==
  /\ w.pc = "round"
  /\ w.todo = {}
  /\ w' = Idle
  /\ answer' = "ok"
  /\ UNCHANGED <<fileVars, diskVars, past>>

\* A system call of the step at hand fails, or the process dies in it: the
\* write ends where it is.  A data or a bitmap write may have reached the file
\* in part; the disk is full when the next block lies beyond MaxOffset.
DiskFull ==
  \/ w.pc = "reserve" /\ RoundUp(fileLen, BlockSize) \div Mib \notin Offsets
  \/ /\ w.pc = "bitmap" /\ sb[ChunkOf(w.blk)] = 0
     /\ RoundUp(fileLen, Mib) \div Mib \notin Offsets

Fail ==
  /\ w.pc # "idle"
  /\ MayFail \/ DiskFull
  /\ w' = Idle
  /\ answer' = "error"
  /\ \/ /\ w.pc = "write"
        /\ \E T \in SUBSET RoundSectors : SetData(T)
        /\ UNCHANGED <<fileLen, diskLen, bat, diskBat, sb, diskSb, bits, diskBits>>
     \/ /\ w.pc = "mark"
        /\ \E T \in SUBSET RoundSectors : SetBits(T)
        /\ UNCHANGED <<fileLen, diskLen, bat, diskBat, sb, diskSb, data, diskData>>
     \/ w.pc \notin {"write", "mark"} /\ UNCHANGED <<fileVars, diskVars>>
  /\ UNCHANGED past

UnsyncedData == {x \in Offsets \X Sectors : diskData[x[1]][x[2]] # {data[x[1]][x[2]]}}

\* A power loss: any part of what was written since the last sync is lost,
\* and the file is opened again.
Crash ==
  /\ MayCrash
  /\ fileLen' \in diskLen
  /\ bat' \in [Blocks -> UNION {diskBat[b] : b \in Blocks}]
  /\ \A b \in Blocks : bat'[b] \in diskBat[b]
  /\ sb' \in [Chunks -> UNION {diskSb[c] : c \in Chunks}]
  /\ \A c \in Chunks : sb'[c] \in diskSb[c]
  /\ \E L \in SUBSET {x \in Offsets \X Places : x[2] \in bits[x[1]] \ diskBits[x[1]]} :
       bits' = [o \in Offsets |-> {x \in bits[o] : <<o, x>> \notin L}]
  /\ \E f \in [UnsyncedData -> Data] :
       /\ \A x \in UnsyncedData : f[x] \in diskData[x[1]][x[2]]
       /\ data' = [o \in Offsets |-> [s \in Sectors |->
                     IF <<o, s>> \in UnsyncedData THEN f[<<o, s>>] ELSE data[o][s]]]
  /\ diskLen' = {fileLen'}
  /\ diskBat' = [b \in Blocks |-> {bat'[b]}]
  /\ diskSb' = [c \in Chunks |-> {sb'[c]}]
  /\ diskBits' = bits'
  /\ diskData' = [o \in Offsets |-> [s \in Sectors |-> {data'[o][s]}]]
  /\ w' = Idle
  /\ answer' = "none"
  /\ UNCHANGED past

\* What write_full_sectors does between its call and its return.
Proceed ==
  \/ \E b \in Blocks : StartRound(b)
  \/ ReservePayload \/ WriteData \/ SyncData
  \/ BitmapPresent \/ ReserveBitmap \/ SyncBitmap \/ PublishBitmap
  \/ MarkBits \/ SyncBits \/ Publish

Next ==
  \/ \E S \in SUBSET Places, v \in Vals : Begin(S, [x \in Places |-> v])
  \/ Proceed \/ Return
  \/ Fail \/ Crash

Spec == Init /\ [][Next]_vars
-----------------------------------------------------------------------------
TypeOK ==
  /\ fileLen \in Nat /\ diskLen \subseteq Nat
  /\ bat \in [Blocks -> Entry] /\ diskBat \in [Blocks -> SUBSET Entry]
  /\ sb \in [Chunks -> Offsets] /\ diskSb \in [Chunks -> SUBSET Offsets]
  /\ bits \in [Offsets -> SUBSET Places] /\ diskBits \in [Offsets -> SUBSET Places]
  /\ data \in [Offsets -> [Sectors -> Data]]
  /\ diskData \in [Offsets -> [Sectors -> SUBSET Data]]
  /\ w \in Write
  /\ answer \in {"none", "ok", "error"}
  /\ past \in [Places -> SUBSET Data]

(***************************************************************************)
(* No two structures of the file ever overlap: not the blocks the BAT      *)
(* names, not those it would name again after a power loss, and not the    *)
(* blocks the write in progress has reserved (reserve_block takes the end  *)
(* of the file, whatever an earlier failure or a lost BAT entry left       *)
(* there).  None overlaps the header, log, metadata and BAT regions or     *)
(* lies beyond the end of the file.                                        *)
(***************************************************************************)
LayoutSafe == ClaimsDisjoint /\ ClaimsInFile

(***************************************************************************)
(* Whatever a power loss leaves of the file, the blocks its BAT names lie  *)
(* within its length: the length is synced before the entry is published.  *)
(***************************************************************************)
DurableInFile == \A x \in DiskClaims, n \in diskLen : x[2] + x[3] =< n

\* What validate_bat rejects or reports, over every BAT a power loss may leave.
PayloadStatesFit ==
  ~HasParent => \A b \in Blocks : \A e \in diskBat[b] :
                  e.state \notin {"Unmapped", "PartiallyPresent"}
BitmapStatesFit == ~HasParent => \A c \in Chunks : diskSb[c] = {0}
OffsetsAligned ==
  \A b \in Blocks : \A e \in diskBat[b] : Allocated(e) => Pos(e.off) % BlockSize = 0
OffsetsUnique ==
  \A b1, b2 \in Blocks : \A e1 \in diskBat[b1], e2 \in diskBat[b2] :
    b1 # b2 /\ Allocated(e1) /\ Allocated(e2) => e1.off # e2.off
PartialHasBitmap ==
  \A b \in Blocks : \A e \in diskBat[b] :
    e.state = "PartiallyPresent" => 0 \notin diskSb[ChunkOf(b)]

(***************************************************************************)
(* Whatever a power loss leaves, validate_bat accepts the BAT: in          *)
(* particular a PartiallyPresent block's chunk has its sector bitmap (a    *)
(* read of the block fails otherwise), because the bitmap's entry is       *)
(* synced before the block's own entry is published.                       *)
(***************************************************************************)
ValidatorAccepts ==
  PayloadStatesFit /\ BitmapStatesFit /\ OffsetsAligned /\ OffsetsUnique /\ PartialHasBitmap

(***************************************************************************)
(* The inductive strengthening of the three invariants above: what the     *)
(* durable candidates contain, and what the write in progress may rely on  *)
(* at each of its steps.                                                   *)
(***************************************************************************)
CurrentMayLast ==
  /\ fileLen \in diskLen
  /\ \A b \in Blocks : bat[b] \in diskBat[b]
  /\ \A c \in Chunks : sb[c] \in diskSb[c]

LengthsCoverRegions == \A n \in diskLen : n >= DataStart

ReservationsSynced ==
  /\ Reserved /\ w.pc \notin {"write", "sync"} =>
       \A n \in diskLen : Pos(w.off) + BlockSize =< n
  /\ w.pc = "publishBitmap" => \A n \in diskLen : Pos(w.sbOff) + Mib =< n

RoundOK ==
  /\ w.pc \in {"reserve", "publish"} => w.kind \in {"child", "fresh"}
  /\ w.pc = "sync" => w.kind # "full"
  /\ w.pc \in {"bitmap", "syncBitmap", "publishBitmap"} => w.kind = "child"
  /\ w.pc \in {"mark", "syncBits"} =>
       w.kind \in {"part", "child"} /\ sb[ChunkOf(w.blk)] # 0
  /\ w.pc \notin {"idle", "round"} /\ w.kind = "part" => sb[ChunkOf(w.blk)] # 0
  /\ w.pc = "publish" /\ w.kind = "child" => 0 \notin diskSb[ChunkOf(w.blk)]
  /\ Reserved => Pos(w.off) % BlockSize = 0
  /\ w.pc \in {"idle", "round"} => w.kind = "full"
  /\ w.kind \in {"part", "child"} => HasParent

Inv == /\ TypeOK
       /\ CurrentMayLast /\ LengthsCoverRegions /\ ReservationsSynced /\ RoundOK
       /\ LayoutSafe /\ DurableInFile /\ ValidatorAccepts

(***************************************************************************)
(* What the documentation of sector reads promises of a differencing disk: *)
(* a sector the child does not hold falls back to the parent.  A sector    *)
(* nobody wrote never turns into something else, whatever becomes of the   *)
(* writes of its neighbours.                                               *)
(***************************************************************************)
NoForeignData == \A x \in Places : ReadSector(x[1], x[2]) \in past[x]

(***************************************************************************)
(* The write path and the read path together implement the virtual disk:   *)
(* each of their steps is one of its steps, or changes nothing it shows.   *)
(***************************************************************************)
VD == INSTANCE VirtualDisk WITH
        content <- [x \in Places |-> ReadSector(x[1], x[2])],
        request <- IF w.pc = "idle" THEN [sectors |-> {}, value |-> <<>>]
                   ELSE [sectors |-> w.req, value |-> [x \in w.req |-> w.val[x]]]
IsVirtualDisk == VD!Spec
=============================================================================
