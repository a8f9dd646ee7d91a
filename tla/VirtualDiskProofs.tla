------------------------- MODULE VirtualDiskProofs -------------------------
(***************************************************************************)
(* The write path and the read path together implement the virtual disk,   *)
(* for every number and size of blocks and every initial file.             *)
(***************************************************************************)
EXTENDS BlockWriteProofs

\* What a file shows in sector s of block b: its BAT, bitmap entries, bitmaps, data.
Shown(t, c, m, d, b, s) ==
  LET e == t[b]
      here == \/ e.state = "FullyPresent"
              \/ e.state = "PartiallyPresent" /\ <<b, s>> \in m[c[ChunkOf(b)]]
  IN  IF here THEN d[e.off][s]
      ELSE IF e.state = "PartiallyPresent" \/ (e.state = "NotPresent" /\ HasParent) THEN Parent
      ELSE Zero

InRound == w.pc \notin {"idle", "round"}

\* A request gives each of its sectors a value that is counted in past.
Asked ==
  w.pc # "idle" =>
    /\ w.req # {} /\ w.todo \subseteq w.req
    /\ \A x \in w.req : w.val[x] \in past[x]

\* The blocks whose rounds have ended are not come back to, and read as they should.
Done ==
  w.pc # "idle" =>
    \A x \in w.req \ w.todo :
      /\ Shown(bat, sb, bits, data, x[1], x[2]) = w.val[x]
      /\ InRound => x[1] # w.blk
      /\ \A y \in w.todo : x[1] # y[1]

\* The arm of the match that an entry is for.
Fits(e, kind) ==
  /\ kind = "full" <=> e.state = "FullyPresent"
  /\ kind = "part" <=> e.state = "PartiallyPresent"
  /\ kind = "child" <=> e.state = "NotPresent" /\ HasParent

\* A round's block is as it was found, its chunk too while it gets a bitmap.
RoundKnown ==
  /\ InRound => /\ Fits(bat[w.blk], w.kind)
                /\ w.kind \in {"full", "part"} => w.off = bat[w.blk].off /\ w.pc # "reserve"
  /\ ReservedBitmap => sb[ChunkOf(w.blk)] = 0

\* No entry names the place of a reserved block.
Unclaimed ==
  Reserved => \A b \in Blocks : \A e \in diskBat[b] : Allocated(e) => e.off # w.off

\* What the data of this round's block is.
BlockHolds ==
  /\ InRound /\ w.pc \notin {"reserve", "write"} =>
       \A s \in RoundSectors : data[w.off][s] = w.val[<<w.blk, s>>]
  /\ w.kind = "fresh" /\ Reserved =>
       \A s \in Sectors : w.pc = "write" \/ s \notin RoundSectors => data[w.off][s] = Zero
  /\ w.kind = "fresh" /\ w.pc = "publish" =>
       \A s \in Sectors : diskData[w.off][s] = {data[w.off][s]}

\* Bits are set for blocks that are partially present, and for one about to be.
Marking == w.pc \in {"syncBits", "publish"} /\ w.kind = "child"
Marked ==
  /\ \A o \in Offsets : \A x \in bits[o] :
       \/ bat[x[1]].state = "PartiallyPresent"
       \/ Marking /\ x[1] = w.blk /\ x[2] \in RoundSectors
  /\ w.pc \in {"syncBits", "publish"} /\ w.kind # "fresh" =>
       \A s \in RoundSectors : <<w.blk, s>> \in bits[sb[ChunkOf(w.blk)]]

\* What is read now may last.
Held == \A o \in Offsets, s \in Sectors : data[o][s] \in diskData[o][s]

\* Whatever a power loss leaves of a disk without a parent was there, or was given.
Lasts ==
  ~HasParent =>
    \A b \in Blocks : \A e \in diskBat[b] : \A s \in Sectors :
      IF Allocated(e) THEN diskData[e.off][s] \subseteq past[<<b, s>>]
      ELSE Zero \in past[<<b, s>>]

RoundInv == Asked /\ Done /\ RoundKnown /\ Unclaimed /\ BlockHolds
DiskInv  == RoundInv /\ Marked /\ Held /\ Lasts

\* A step shows the sectors T as the request wants them, and the others as before.
Shows(T) ==
  \A b \in Blocks, s \in Sectors :
    Shown(bat', sb', bits', data', b, s) =
      IF <<b, s>> \in T THEN w.val[<<b, s>>] ELSE Shown(bat, sb, bits, data, b, s)
-----------------------------------------------------------------------------
\* The read path shows this.
LEMMA ReadIsShown ==
  \A b, s : /\ ReadSector(b, s) = Shown(bat, sb, bits, data, b, s)
            /\ ReadSector(b, s)' = Shown(bat', sb', bits', data', b, s)
  BY DEF ReadSector, ReadPartial, Shown

LEMMA KindFits ==
  ASSUME NEW b \in Blocks
  PROVE  Fits(bat[b], Kind(b)) /\ Kind(b) \in {"full", "part", "child", "fresh"}
  BY DEF Fits, Kind

\* The types of the variables of a round.
LEMMA RoundTypes ==
  ASSUME TypeOK
  PROVE  /\ w \in Write /\ w.blk \in Blocks /\ w.off \in Offsets /\ w.sbOff \in Offsets
         /\ RoundSectors \subseteq Sectors
         /\ w.req \subseteq Places /\ w.todo \subseteq Places
         /\ w.val \in [Places -> Data]
         /\ \A b \in Blocks : bat[b] \in Entry /\ bat[b].off \in Offsets /\ ChunkOf(b) \in Chunks
         /\ \A b \in Blocks : diskBat[b] \subseteq Entry
         /\ \A c \in Chunks : sb[c] \in Offsets
  BY DEF TypeOK, Write, RoundSectors, Entry, Chunks

\* A request that has ended, and one between two rounds.
LEMMA AtRest ==
  ASSUME w'.pc \in {"idle", "round"}
  PROVE  RoundKnown' /\ Unclaimed' /\ (w'.kind = "full" => BlockHolds')
  BY DEF RoundKnown, Unclaimed, BlockHolds, InRound, Reserved, ReservedBitmap

LEMMA AtEnd ==
  ASSUME w' = Idle
  PROVE  RoundInv'
  BY AtRest DEF RoundInv, Asked, Done, Idle

\* At the end of a round its sectors are shown, those of earlier rounds still.
LEMMA RoundEnds ==
  ASSUME TypeOK, RoundInv, InRound, w' = EndRound, past' = past,
         NEW T, Shows(T),
         \A x \in w.req \ w.todo : x \notin T,
         \A s \in RoundSectors : Shown(bat', sb', bits', data', w.blk, s) = w.val[<<w.blk, s>>]
  PROVE  RoundInv'
  <1>1. /\ w'.pc = "round" /\ w'.kind = "full" /\ w'.req = w.req /\ w'.val = w.val
        /\ w'.todo = {x \in w.todo : x[1] # w.blk}
    BY DEF EndRound, Idle
  <1>2. w.req # {} /\ w.todo \subseteq w.req /\ \A x \in w.req : w.val[x] \in past[x]
    BY DEF RoundInv, Asked, InRound
  <1>3. Asked'
    BY <1>1, <1>2 DEF Asked
  <1>4. ASSUME NEW x \in w.req, x \notin w'.todo
        PROVE  /\ Shown(bat', sb', bits', data', x[1], x[2]) = w.val[x]
               /\ \A y \in w'.todo : x[1] # y[1]
    <2>0. x[1] \in Blocks /\ x[2] \in Sectors /\ x = <<x[1], x[2]>>
      BY RoundTypes DEF Places
    <2>1. CASE x \in w.todo
      <3>1. x[1] = w.blk
        BY <2>1, <1>1, <1>4
      <3>2. x[2] \in RoundSectors
        BY <2>0, <2>1, <3>1 DEF RoundSectors
      <3> QED
        BY <1>1, <2>0, <3>1, <3>2
    <2>2. CASE x \notin w.todo
      <3>1. /\ Shown(bat, sb, bits, data, x[1], x[2]) = w.val[x]
            /\ \A y \in w.todo : x[1] # y[1]
        BY <2>2, <1>4 DEF RoundInv, Done, InRound
      <3> QED
        BY <1>1, <2>0, <2>2, <3>1 DEF Shows
    <2> QED
      BY <2>1, <2>2
  <1>5. Done'
    BY <1>1, <1>4 DEF Done, InRound
  <1> QED
    BY <1>1, <1>3, <1>5, AtRest DEF RoundInv
-----------------------------------------------------------------------------
(* Where blocks are. *)

\* Blocks that may be found on disk are at offsets of their own.
LEMMA OwnOffsets ==
  ASSUME Inv, NEW b1 \in Blocks, NEW b2 \in Blocks, b1 # b2,
         NEW e1 \in diskBat[b1], NEW e2 \in diskBat[b2], Allocated(e1), Allocated(e2)
  PROVE  e1.off # e2.off
  BY DEF Inv, ValidatorAccepts, OffsetsUnique

\* This round's data goes where no other block is.
LEMMA OthersElsewhere ==
  ASSUME Inv, RoundInv, InRound, w.pc # "reserve", NEW b \in Blocks, b # w.blk,
         NEW e \in diskBat[b], Allocated(e)
  PROVE  e.off # w.off
  <1>0. TypeOK /\ w.blk \in Blocks /\ w.kind \in {"full", "part", "child", "fresh"}
    BY RoundTypes DEF Inv, Write
  <1>1. CASE Reserved
    BY <1>1 DEF RoundInv, Unclaimed
  <1>2. CASE ~Reserved
    <2>1. w.kind \in {"full", "part"}
      BY <1>0, <1>2 DEF Reserved, InRound
    <2>2. w.off = bat[w.blk].off /\ Allocated(bat[w.blk]) /\ bat[w.blk] \in diskBat[w.blk]
      BY <1>0, <2>1 DEF RoundInv, RoundKnown, Fits, Allocated, Inv, CurrentMayLast
    <2> QED
      BY <1>0, <2>2, OwnOffsets
  <1> QED
    BY <1>1, <1>2

\* A payload block is reserved where no block is.
LEMMA NewPlaceFree ==
  ASSUME Inv, NEW b \in Blocks, NEW e \in diskBat[b], Allocated(e)
  PROVE  e.off # RoundUp(fileLen, BlockSize) \div Mib
  <1> DEFINE at == RoundUp(fileLen, BlockSize)
  <1>0. TypeOK /\ fileLen \in Nat
    BY DEF Inv, TypeOK
  <1>1. at \in Nat /\ at >= fileLen /\ Pos(at \div Mib) = at
    BY <1>0, ReservePlace, ConstantsOK DEF BlockSize
  <1>2. e \in Entry
    BY <1>0 DEF TypeOK
  <1>3. PayloadClaim(b, e.off) \in Claims
    BY <1>2, ClaimOfEntry DEF Claims
  <1>4. Pos(e.off) + BlockSize =< fileLen
    BY <1>3 DEF Inv, LayoutSafe, ClaimsInFile, PayloadClaim
  <1>5. Pos(e.off) \in Nat
    BY <1>2, PosType DEF Entry
  <1> HIDE DEF at
  <1>6. Pos(e.off) # at
    BY <1>0, <1>1, <1>4, <1>5, BlockSizeType
  <1> QED
    BY <1>1, <1>6 DEF at

\* A sector bitmap block is reserved where no bitmap is.
LEMMA NewBitmapFree ==
  ASSUME Inv, NEW c \in Chunks, sb[c] # 0
  PROVE  sb[c] # RoundUp(fileLen, Mib) \div Mib
  <1> DEFINE at == RoundUp(fileLen, Mib)
             S == {y \in Chunks \X Offsets : y[2] \in diskSb[y[1]] /\ y[2] # 0}
  <1>0. TypeOK /\ fileLen \in Nat /\ sb[c] \in Offsets /\ sb[c] \in diskSb[c]
    BY DEF Inv, TypeOK, CurrentMayLast
  <1>1. at \in Nat /\ at >= fileLen /\ Pos(at \div Mib) = at
    <2>1. 1 * Mib = Mib
      BY ConstantsOK
    <2> QED
      BY <1>0, <2>1, ReservePlace
  <1>2. <<c, sb[c]>> \in S
    BY <1>0
  <1>3. BitmapClaim(c, sb[c]) \in DiskClaims
    <2>1. BitmapClaim(<<c, sb[c]>>[1], <<c, sb[c]>>[2]) \in {BitmapClaim(x[1], x[2]) : x \in S}
      BY <1>2
    <2> QED
      BY <2>1 DEF DiskClaims
  <1>4. Pos(sb[c]) + Mib =< fileLen
    BY <1>3 DEF Inv, LayoutSafe, ClaimsInFile, Claims, BitmapClaim
  <1>5. Pos(sb[c]) \in Nat
    BY <1>0, PosType
  <1> HIDE DEF at
  <1>6. Pos(sb[c]) # at
    BY <1>0, <1>1, <1>4, <1>5, ConstantsOK
  <1> QED
    BY <1>1, <1>6 DEF at

\* A block that is partially present has a bitmap.
LEMMA PartialBitmap ==
  ASSUME Inv, NEW b \in Blocks, bat[b].state = "PartiallyPresent"
  PROVE  sb[ChunkOf(b)] # 0 /\ ChunkOf(b) \in Chunks
  <1>1. ChunkOf(b) \in Chunks
    BY DEF Chunks
  <1> QED
    BY <1>1 DEF Inv, ValidatorAccepts, PartialHasBitmap, CurrentMayLast
-----------------------------------------------------------------------------
(* Steps that write data. *)

\* The data of this round's block is written, in whole or in part.
LEMMA DataWritten ==
  ASSUME Inv, DiskInv, w.pc = "write", NEW T \in SUBSET RoundSectors, SetData(T),
         UNCHANGED <<bat, diskBat, past>>
  PROVE  /\ Held' /\ Lasts'
         /\ \A b \in Blocks : b # w.blk /\ Allocated(bat[b]) => data'[bat[b].off] = data[bat[b].off]
         /\ \A s \in Sectors : data'[w.off][s] = IF s \in T THEN w.val[<<w.blk, s>>] ELSE data[w.off][s]
  <1>0. /\ TypeOK /\ InRound /\ RoundInv
        /\ w.blk \in Blocks /\ w.off \in Offsets /\ RoundSectors \subseteq Sectors
        /\ \A b \in Blocks : bat[b] \in Entry /\ bat[b].off \in Offsets /\ diskBat[b] \subseteq Entry
    BY RoundTypes DEF Inv, InRound, DiskInv
  <1> DEFINE v(s) == w.val[<<w.blk, s>>]
  <1>1. \A o \in Offsets, s \in Sectors :
          /\ data'[o][s] = IF o = w.off /\ s \in T THEN v(s) ELSE data[o][s]
          /\ diskData'[o][s] = IF o = w.off /\ s \in T THEN diskData[o][s] \cup {v(s)} ELSE diskData[o][s]
    BY <1>0 DEF SetData, TypeOK
  <1>2. \A o \in Offsets : o # w.off => data'[o] = data[o]
    BY <1>0 DEF SetData, TypeOK
  <1>3. Held'
    BY <1>1 DEF Held, DiskInv
  <1>4. \A b \in Blocks : b # w.blk /\ Allocated(bat[b]) => data'[bat[b].off] = data[bat[b].off]
    <2>1. \A b \in Blocks : b # w.blk /\ Allocated(bat[b]) => bat[b].off # w.off
      BY <1>0, OthersElsewhere DEF Inv, CurrentMayLast
    <2> QED
      BY <1>0, <1>2, <2>1
  <1>5. ASSUME NEW s \in T PROVE v(s) \in past[<<w.blk, s>>]
    BY <1>0, <1>5 DEF RoundInv, Asked, RoundSectors
  <1>6. Lasts'
    <2> SUFFICES ASSUME ~HasParent, NEW b \in Blocks, NEW e \in diskBat[b], NEW s \in Sectors
                 PROVE  IF Allocated(e) THEN diskData'[e.off][s] \subseteq past[<<b, s>>]
                        ELSE Zero \in past[<<b, s>>]
      BY DEF Lasts
    <2>1. IF Allocated(e) THEN diskData[e.off][s] \subseteq past[<<b, s>>] ELSE Zero \in past[<<b, s>>]
      BY DEF DiskInv, Lasts
    <2>2. e.off \in Offsets
      BY <1>0 DEF Entry
    <2>3. Allocated(e) /\ e.off = w.off => b = w.blk
      BY <1>0, OthersElsewhere
    <2>4. ASSUME Allocated(e) PROVE diskData'[e.off][s] \subseteq past[<<b, s>>]
      <3>1. CASE e.off = w.off /\ s \in T
        <4>1. b = w.blk /\ diskData'[e.off][s] = diskData[e.off][s] \cup {v(s)}
          BY <1>1, <2>2, <2>3, <2>4, <3>1
        <4>2. v(s) \in past[<<b, s>>]
          BY <1>5, <3>1, <4>1
        <4> HIDE DEF v
        <4> QED
          BY <2>1, <2>4, <4>1, <4>2
      <3>2. CASE ~(e.off = w.off /\ s \in T)
        <4>1. diskData'[e.off][s] = diskData[e.off][s]
          BY <1>1, <2>2, <3>2
        <4> QED
          BY <2>1, <2>4, <4>1
      <3> QED
        BY <3>1, <3>2
    <2> QED
      BY <2>1, <2>4
  <1> HIDE DEF v
  <1>7. \A s \in Sectors : data'[w.off][s] = IF s \in T THEN v(s) ELSE data[w.off][s]
    BY <1>0, <1>1
  <1> QED
    BY <1>3, <1>4, <1>6, <1>7 DEF v

\* Where the new data is seen before the round ends.
Visible(T) ==
  IF w.kind = "full" THEN {w.blk} \X T
  ELSE IF w.kind = "part" THEN {x \in {w.blk} \X T : x \in bits[sb[ChunkOf(w.blk)]]}
  ELSE {}

LEMMA DataShown ==
  ASSUME Inv, DiskInv, w.pc = "write", NEW T \in SUBSET RoundSectors, SetData(T),
         UNCHANGED <<bat, diskBat, sb, bits, past>>
  PROVE  Shows(Visible(T))
  <1>0. /\ TypeOK /\ w.blk \in Blocks /\ RoundSectors \subseteq Sectors
        /\ Fits(bat[w.blk], w.kind) /\ w.kind \in {"full", "part", "child", "fresh"}
        /\ w.kind \in {"full", "part"} => w.off = bat[w.blk].off
    BY RoundTypes DEF Inv, InRound, DiskInv, RoundInv, RoundKnown, Write
  <1>1. /\ \A b \in Blocks : b # w.blk /\ Allocated(bat[b]) => data'[bat[b].off] = data[bat[b].off]
        /\ \A s \in Sectors : data'[w.off][s] = IF s \in T THEN w.val[<<w.blk, s>>] ELSE data[w.off][s]
    BY DataWritten
  <1> SUFFICES ASSUME NEW b \in Blocks, NEW s \in Sectors
               PROVE  Shown(bat, sb, bits, data', b, s) =
                        IF <<b, s>> \in Visible(T) THEN w.val[<<b, s>>]
                        ELSE Shown(bat, sb, bits, data, b, s)
    BY DEF Shows
  <1>2. CASE b # w.blk
    <2>1. <<b, s>> \notin Visible(T)
      BY <1>2 DEF Visible
    <2> QED
      BY <1>1, <1>2, <2>1 DEF Shown, Allocated
  <1>3. CASE b = w.blk
    <2>1. CASE w.kind = "full"
      BY <1>0, <1>1, <1>3, <2>1 DEF Shown, Visible, Fits
    <2>2. CASE w.kind = "part"
      BY <1>0, <1>1, <1>3, <2>2 DEF Shown, Visible, Fits
    <2>3. CASE w.kind \in {"child", "fresh"}
      <3>1. bat[b].state # "FullyPresent" /\ bat[b].state # "PartiallyPresent"
        BY <1>0, <1>3, <2>3 DEF Fits
      <3>2. Visible(T) = {}
        BY <2>3 DEF Visible
      <3> QED
        BY <3>1, <3>2 DEF Shown
    <2> QED
      BY <1>0, <2>1, <2>2, <2>3
  <1> QED
    BY <1>2, <1>3
-----------------------------------------------------------------------------
(* The invariant, step by step, and what each step shows.                  *)

\* write_full_sectors is called, for anything.
LEMMA BeginHolds ==
  ASSUME Inv, DiskInv, NEW S \in SUBSET Places, NEW v \in [Places -> Data], Begin(S, v)
  PROVE  DiskInv' /\ Shows({})
  <1>0. TypeOK /\ w \in Write /\ past \in [Places -> SUBSET Data]
    BY DEF Inv, TypeOK
  <1>1. /\ w.pc = "idle" /\ w'.pc = "round" /\ w'.req = S /\ w'.todo = S /\ S # {} /\ w'.kind = w.kind
        /\ w'.val = [x \in Places |-> IF x \in S THEN v[x] ELSE Zero]
        /\ past' = [x \in Places |-> IF x \in S THEN past[x] \cup {v[x]} ELSE past[x]]
        /\ UNCHANGED <<fileVars, diskVars>>
    BY <1>0 DEF Begin, Write
  <1>2. w'.kind = "full"
    BY <1>1 DEF Inv, RoundOK
  <1>3. Asked' /\ Done'
    BY <1>0, <1>1 DEF Asked, Done
  <1>4. Marked'
    BY <1>1 DEF DiskInv, Marked, Marking, fileVars
  <1>5. Held' /\ Shows({})
    BY <1>1 DEF DiskInv, Held, Shows, fileVars, diskVars
  <1>6. Lasts'
    <2>1. \A b \in Blocks, s \in Sectors : past[<<b, s>>] \subseteq past'[<<b, s>>]
      BY <1>1 DEF Places
    <2> QED
      BY <1>1, <2>1 DEF DiskInv, Lasts, diskVars
  <1> QED
    BY <1>1, <1>2, <1>3, <1>4, <1>5, <1>6, AtRest DEF DiskInv, RoundInv

\* A round begins with the block that its BAT entry says.
LEMMA StartHolds ==
  ASSUME Inv, DiskInv, NEW b \in Blocks, StartRound(b)
  PROVE  DiskInv' /\ Shows({})
  <1>0. TypeOK /\ w \in Write
    BY DEF Inv, TypeOK
  <1>1. /\ w.pc = "round" /\ w'.blk = b /\ w'.kind = Kind(b)
        /\ w'.pc = IF Kind(b) \in {"full", "part"} THEN "write" ELSE "reserve"
        /\ w'.off = IF Kind(b) \in {"full", "part"} THEN bat[b].off ELSE 0
        /\ w'.req = w.req /\ w'.todo = w.todo /\ w'.val = w.val
        /\ UNCHANGED <<fileVars, diskVars, past>>
        /\ \E s \in Sectors : <<b, s>> \in w.todo
    BY <1>0 DEF StartRound, Write
  <1>2. Fits(bat[b], Kind(b)) /\ Kind(b) \in {"full", "part", "child", "fresh"}
    BY KindFits
  <1>3. Asked'
    BY <1>1 DEF DiskInv, RoundInv, Asked
  <1>4. Done'
    <2>1. PICK s \in Sectors : <<b, s>> \in w.todo
      BY <1>1
    <2>2. \A x \in w.req \ w.todo : x[1] # b
      BY <1>1, <2>1 DEF DiskInv, RoundInv, Done
    <2> QED
      BY <1>1, <2>2 DEF DiskInv, RoundInv, Done, fileVars
  <1>5. RoundKnown'
    BY <1>1, <1>2 DEF RoundKnown, ReservedBitmap, fileVars
  <1>6. Unclaimed' /\ BlockHolds'
    BY <1>1, <1>2 DEF Unclaimed, BlockHolds, Reserved
  <1>7. Marked'
    BY <1>1 DEF DiskInv, Marked, Marking, fileVars
  <1>8. Held' /\ Lasts' /\ Shows({})
    BY <1>1 DEF DiskInv, Held, Lasts, Shows, fileVars, diskVars
  <1> QED
    BY <1>3, <1>4, <1>5, <1>6, <1>7, <1>8 DEF DiskInv, RoundInv

\* With less to find after a power loss, nothing new is found.
LEMMA FewerLast ==
  ASSUME TypeOK, Lasts, past' = past,
         \A b \in Blocks : diskBat'[b] \subseteq diskBat[b],
         \A o \in Offsets, s \in Sectors : diskData'[o][s] \subseteq diskData[o][s]
  PROVE  Lasts'
  <1> SUFFICES ASSUME ~HasParent, NEW b \in Blocks, NEW e \in diskBat'[b], NEW s \in Sectors
               PROVE  IF Allocated(e) THEN diskData'[e.off][s] \subseteq past[<<b, s>>]
                      ELSE Zero \in past[<<b, s>>]
    BY DEF Lasts
  <1>1. e \in diskBat[b] /\ e.off \in Offsets
    BY RoundTypes DEF Entry
  <1>2. IF Allocated(e) THEN diskData[e.off][s] \subseteq past[<<b, s>>] ELSE Zero \in past[<<b, s>>]
    BY <1>1 DEF Lasts
  <1>3. diskData'[e.off][s] \subseteq diskData[e.off][s]
    BY <1>1
  <1> QED
    BY <1>2, <1>3

\* A step within a round that writes nothing: a sync, or a look at a bitmap entry.
LEMMA Onwards ==
  ASSUME Inv, DiskInv, InRound, w.pc \notin {"reserve", "write"}, UNCHANGED <<fileVars, past>>,
         UNCHANGED diskVars \/ AllSynced,
         w'.req = w.req, w'.todo = w.todo, w'.val = w.val,
         w'.blk = w.blk, w'.kind = w.kind, w'.off = w.off,
         w'.pc \in {"bitmap", "publishBitmap", "mark", "publish"},
         w'.pc = "publishBitmap" => w.pc = "syncBitmap",
         w'.pc = "publish" => AllSynced /\ w.kind \in {"fresh", "child"}
                              /\ (w.kind = "child" => w.pc = "syncBits"),
         Marking => w'.pc = "publish"
  PROVE  DiskInv' /\ Shows({})
  <1>0. /\ TypeOK /\ w.blk \in Blocks /\ w.off \in Offsets
        /\ RoundInv /\ Marked /\ Held /\ Lasts
    BY RoundTypes DEF Inv, DiskInv
  <1>1. /\ \A b \in Blocks : diskBat'[b] \subseteq diskBat[b]
        /\ \A o \in Offsets, s \in Sectors : diskData'[o][s] \subseteq diskData[o][s]
        /\ \A o \in Offsets, s \in Sectors : data[o][s] \in diskData'[o][s]
        /\ AllSynced => \A o \in Offsets, s \in Sectors : diskData'[o][s] = {data[o][s]}
    BY <1>0 DEF AllSynced, diskVars, Held, Inv, CurrentMayLast
  <1>2. bat' = bat /\ sb' = sb /\ bits' = bits /\ data' = data /\ past' = past
    BY DEF fileVars
  <1>3. RoundSectors' = RoundSectors
    BY DEF RoundSectors
  <1>4. Asked' /\ Done'
    BY <1>0, <1>2 DEF RoundInv, Asked, Done, InRound
  <1>5. RoundKnown'
    BY <1>0, <1>2 DEF RoundInv, RoundKnown, InRound, ReservedBitmap
  <1>6. Unclaimed'
    <2>1. Reserved' => Reserved
      BY DEF Reserved, InRound
    <2> QED
      BY <1>0, <1>1, <2>1 DEF RoundInv, Unclaimed
  <1>7. BlockHolds'
    <2>1. \A s \in RoundSectors : data[w.off][s] = w.val[<<w.blk, s>>]
      BY <1>0 DEF RoundInv, BlockHolds
    <2>2. w.kind = "fresh" => \A s \in Sectors : s \notin RoundSectors => data[w.off][s] = Zero
      BY <1>0 DEF RoundInv, BlockHolds, Reserved, InRound
    <2>3. w'.pc = "publish" => \A s \in Sectors : diskData'[w.off][s] = {data[w.off][s]}
      BY <1>0, <1>1
    <2> QED
      BY <1>2, <1>3, <2>1, <2>2, <2>3 DEF BlockHolds
  <1>8. Marked'
    BY <1>0, <1>2, <1>3 DEF Marked, Marking
  <1>9. Held'
    BY <1>1, <1>2 DEF Held
  <1>10. Lasts'
    BY <1>0, <1>1, <1>2, FewerLast
  <1>11. Shows({})
    BY <1>2 DEF Shows
  <1> QED
    BY <1>4, <1>5, <1>6, <1>7, <1>8, <1>9, <1>10, <1>11 DEF DiskInv, RoundInv
\* Sectors of earlier rounds are shown still, when this round shows none of them.
LEMMA DoneKept ==
  ASSUME TypeOK, RoundInv, InRound, NEW T \in SUBSET ({w.blk} \X Sectors), Shows(T),
         w'.req = w.req, w'.todo = w.todo, w'.val = w.val, w'.blk = w.blk
  PROVE  Done'
  <1>1. ASSUME NEW x \in w.req \ w.todo
        PROVE  /\ Shown(bat', sb', bits', data', x[1], x[2]) = w.val[x]
               /\ x[1] # w.blk /\ \A y \in w.todo : x[1] # y[1]
    <2>1. /\ Shown(bat, sb, bits, data, x[1], x[2]) = w.val[x]
          /\ x[1] # w.blk /\ \A y \in w.todo : x[1] # y[1]
      BY DEF RoundInv, Done, InRound
    <2>2. x[1] \in Blocks /\ x[2] \in Sectors /\ <<x[1], x[2]>> \notin T
      BY <2>1, RoundTypes DEF Places
    <2> QED
      BY <2>1, <2>2 DEF Shows
  <1> QED
    BY <1>1 DEF Done

\* A payload block is reserved: a block of zeros that nobody reads.
LEMMA ReserveHolds ==
  ASSUME Inv, DiskInv, ReservePayload
  PROVE  DiskInv' /\ Shows({})
  <1> DEFINE at == RoundUp(fileLen, BlockSize) \div Mib
  <1>0. /\ TypeOK /\ w \in Write /\ w.blk \in Blocks
        /\ RoundInv /\ Marked /\ Held /\ Lasts
        /\ \A b \in Blocks : bat[b] \in diskBat[b] /\ diskBat[b] \subseteq Entry
    BY RoundTypes DEF Inv, DiskInv, CurrentMayLast
  <1>1. /\ w.pc = "reserve" /\ w'.pc = "write" /\ w'.off = at /\ at \in Offsets
        /\ w'.req = w.req /\ w'.todo = w.todo /\ w'.val = w.val /\ w'.blk = w.blk /\ w'.kind = w.kind
        /\ UNCHANGED <<bat, diskBat, sb, bits, past>>
        /\ data' = [data EXCEPT ![at] = [s \in Sectors |-> Zero]]
        /\ diskData' = [diskData EXCEPT ![at] = [s \in Sectors |-> {Zero}]]
    BY <1>0 DEF ReservePayload, Write
  <1>2. \A b \in Blocks : \A e \in diskBat[b] : Allocated(e) => e.off # at
    BY NewPlaceFree
  <1> HIDE DEF at
  <1>3. /\ \A o \in Offsets : o # at => data'[o] = data[o] /\ diskData'[o] = diskData[o]
        /\ \A s \in Sectors : data'[at][s] = Zero /\ diskData'[at][s] = {Zero}
    BY <1>0, <1>1 DEF TypeOK
  <1>4. w.kind \in {"child", "fresh"}
    BY <1>1 DEF Inv, RoundOK
  <1>5. Shows({})
    <2>1. \A b \in Blocks : Allocated(bat[b]) => data'[bat[b].off] = data[bat[b].off]
      BY <1>0, <1>2, <1>3 DEF Entry
    <2> QED
      BY <1>1, <2>1 DEF Shows, Shown, Allocated
  <1>6. Asked' /\ Unclaimed'
    BY <1>0, <1>1, <1>2 DEF RoundInv, Asked, Unclaimed
  <1>7. Done'
    BY <1>0, <1>1, <1>5, DoneKept DEF InRound
  <1>8. RoundKnown'
    BY <1>0, <1>1, <1>4 DEF RoundInv, RoundKnown, InRound, ReservedBitmap
  <1>9. BlockHolds'
    BY <1>1, <1>3 DEF BlockHolds
  <1>10. Marked' /\ Held'
    BY <1>0, <1>1, <1>3 DEF Marked, Marking, Held
  <1>11. Lasts'
    <2> SUFFICES ASSUME ~HasParent, NEW b \in Blocks, NEW e \in diskBat[b], NEW s \in Sectors
                 PROVE  IF Allocated(e) THEN diskData'[e.off][s] \subseteq past[<<b, s>>]
                        ELSE Zero \in past[<<b, s>>]
      BY <1>1 DEF Lasts
    <2>1. Allocated(e) => diskData'[e.off] = diskData[e.off]
      BY <1>0, <1>2, <1>3 DEF Entry
    <2> QED
      BY <1>0, <2>1 DEF Lasts
  <1> QED
    BY <1>5, <1>6, <1>7, <1>8, <1>9, <1>10, <1>11 DEF DiskInv, RoundInv
\* The data of a round is written.
LEMMA WriteHolds ==
  ASSUME Inv, DiskInv, WriteData
  PROVE  DiskInv' /\ Shows(Visible(RoundSectors))
  <1>0. /\ TypeOK /\ w \in Write /\ w.blk \in Blocks /\ w.off \in Offsets /\ InRound
        /\ RoundInv /\ Marked /\ RoundSectors \subseteq Sectors
    BY RoundTypes DEF Inv, DiskInv, WriteData, InRound
  <1>1. /\ w.pc = "write" /\ SetData(RoundSectors)
        /\ UNCHANGED <<bat, diskBat, sb, bits, past>>
        /\ w' = IF w.kind = "full" THEN EndRound ELSE [w EXCEPT !.pc = "sync"]
    BY DEF WriteData
  <1>2. Held' /\ Lasts' /\ Shows(Visible(RoundSectors))
    BY <1>1, DataWritten, DataShown
  <1>3. \A s \in Sectors : data'[w.off][s] = IF s \in RoundSectors THEN w.val[<<w.blk, s>>] ELSE data[w.off][s]
    BY <1>1, DataWritten
  <1>4. CASE w.kind = "full"
    <2>1. w' = EndRound /\ w'.pc = "round"
      BY <1>1, <1>4, EndRoundFields
    <2>2. Visible(RoundSectors) = {w.blk} \X RoundSectors
      BY <1>4 DEF Visible
    <2>3. \A x \in w.req \ w.todo : x \notin {w.blk} \X RoundSectors
      BY <1>0 DEF RoundInv, Done, InRound
    <2>4. \A s \in RoundSectors : Shown(bat', sb', bits', data', w.blk, s) = w.val[<<w.blk, s>>]
      BY <1>0, <1>2, <2>2 DEF Shows
    <2>5. RoundInv'
      BY <1>0, <1>1, <1>2, <2>1, <2>2, <2>3, <2>4, RoundEnds
    <2>6. Marked'
      BY <1>0, <1>1, <2>1 DEF Marked, Marking
    <2> QED
      BY <1>2, <2>5, <2>6 DEF DiskInv
  <1>5. CASE w.kind # "full"
    <2>1. /\ w'.pc = "sync" /\ w'.req = w.req /\ w'.todo = w.todo /\ w'.val = w.val
          /\ w'.blk = w.blk /\ w'.kind = w.kind /\ w'.off = w.off
      BY <1>0, <1>1, <1>5 DEF Write
    <2>2. RoundSectors' = RoundSectors
      BY <2>1 DEF RoundSectors
    <2>3. Visible(RoundSectors) \in SUBSET ({w.blk} \X Sectors)
      BY <1>0 DEF Visible
    <2>4. Done'
      BY <1>0, <1>2, <2>1, <2>3, DoneKept
    <2>5. Asked' /\ RoundKnown' /\ Unclaimed'
      BY <1>0, <1>1, <2>1 DEF RoundInv, Asked, RoundKnown, Unclaimed, InRound, Reserved, ReservedBitmap
    <2>6. BlockHolds'
      <3>1. w.kind = "fresh" => \A s \in Sectors : data[w.off][s] = Zero
        BY <1>0, <1>1 DEF RoundInv, BlockHolds, Reserved
      <3> QED
        BY <1>0, <1>3, <2>1, <2>2, <3>1 DEF BlockHolds
    <2>7. Marked'
      BY <1>0, <1>1, <2>1 DEF Marked, Marking
    <2> QED
      BY <1>2, <2>4, <2>5, <2>6, <2>7 DEF DiskInv, RoundInv
  <1> QED
    BY <1>4, <1>5

\* A sync after the data, or of a new bitmap.
LEMMA SyncHolds ==
  ASSUME Inv, DiskInv, SyncData \/ SyncBitmap \/ BitmapPresent
  PROVE  DiskInv' /\ Shows({})
  <1>0. w \in Write
    BY DEF Inv, TypeOK
  <1>1. /\ w.pc \in {"sync", "syncBitmap", "bitmap"} /\ UNCHANGED <<fileVars, past>>
        /\ w'.req = w.req /\ w'.todo = w.todo /\ w'.val = w.val
        /\ w'.blk = w.blk /\ w'.kind = w.kind /\ w'.off = w.off
        /\ UNCHANGED diskVars \/ AllSynced
    BY <1>0 DEF SyncData, SyncBitmap, BitmapPresent, Write
  <1>2. /\ w'.pc \in {"bitmap", "publishBitmap", "mark", "publish"}
        /\ w'.pc = "publishBitmap" => w.pc = "syncBitmap"
        /\ w'.pc = "publish" => AllSynced /\ w.kind = "fresh"
    <2>1. CASE SyncData
      <3>1. w.kind \in {"part", "child", "fresh"}
        BY <1>0, <2>1 DEF SyncData, Write, Inv, RoundOK
      <3>2. /\ w.kind = "part"  => w'.pc = "mark"
            /\ w.kind = "child" => w'.pc = "bitmap"
            /\ w.kind = "fresh" => w'.pc = "publish"
        BY <1>0, <2>1, <3>1 DEF SyncData, Write
      <3> QED
        BY <2>1, <3>1, <3>2 DEF SyncData
    <2>2. CASE SyncBitmap \/ BitmapPresent
      BY <1>0, <2>2 DEF SyncBitmap, BitmapPresent, Write
    <2> QED
      BY <2>1, <2>2
  <1> QED
    BY <1>1, <1>2, Onwards DEF InRound, Marking

\* A bitmap block is reserved: nobody's bits are at its place.
LEMMA ReserveBitmapHolds ==
  ASSUME Inv, DiskInv, ReserveBitmap
  PROVE  DiskInv' /\ Shows({})
  <1> DEFINE at == RoundUp(fileLen, Mib) \div Mib
  <1>0. /\ TypeOK /\ w \in Write /\ w.blk \in Blocks /\ InRound
        /\ RoundInv /\ Marked /\ Held /\ Lasts
    BY RoundTypes DEF Inv, DiskInv, ReserveBitmap, InRound
  <1>1. /\ w.pc = "bitmap" /\ w'.pc = "syncBitmap" /\ at \in Offsets /\ sb[ChunkOf(w.blk)] = 0
        /\ w'.req = w.req /\ w'.todo = w.todo /\ w'.val = w.val
        /\ w'.blk = w.blk /\ w'.kind = w.kind /\ w'.off = w.off
        /\ UNCHANGED <<bat, diskBat, sb, data, diskData, past>>
        /\ bits' = [bits EXCEPT ![at] = {}]
    BY <1>0 DEF ReserveBitmap, Write
  <1>2. \A c \in Chunks : sb[c] # 0 => sb[c] # at
    BY NewBitmapFree
  <1> HIDE DEF at
  <1>3. \A o \in Offsets : bits'[o] \subseteq bits[o] /\ (o # at => bits'[o] = bits[o])
    BY <1>0, <1>1 DEF TypeOK
  <1>4. \A b \in Blocks : bat[b].state = "PartiallyPresent" => bits'[sb[ChunkOf(b)]] = bits[sb[ChunkOf(b)]]
    BY <1>0, <1>2, <1>3, PartialBitmap, RoundTypes
  <1>5. Shows({})
    BY <1>1, <1>4 DEF Shows, Shown
  <1>6. RoundSectors' = RoundSectors
    BY <1>1 DEF RoundSectors
  <1>7. Done'
    BY <1>0, <1>1, <1>5, DoneKept
  <1>8. Asked' /\ Unclaimed' /\ RoundKnown'
    BY <1>0, <1>1 DEF RoundInv, Asked, Unclaimed, RoundKnown, Reserved, InRound
  <1>9. BlockHolds'
    BY <1>0, <1>1, <1>6 DEF RoundInv, BlockHolds, Reserved, InRound
  <1>10. Marked'
    BY <1>0, <1>1, <1>3 DEF Marked, Marking
  <1>11. Held' /\ Lasts'
    BY <1>0, <1>1 DEF Held, Lasts
  <1> QED
    BY <1>5, <1>7, <1>8, <1>9, <1>10, <1>11 DEF DiskInv, RoundInv

\* A new bitmap's entry is written: the chunk had none, and no block to use it.
LEMMA PublishBitmapHolds ==
  ASSUME Inv, DiskInv, PublishBitmap
  PROVE  DiskInv' /\ Shows({})
  <1>0. /\ TypeOK /\ w \in Write /\ w.blk \in Blocks /\ InRound
        /\ RoundInv /\ Marked /\ Held /\ Lasts
    BY RoundTypes DEF Inv, DiskInv, PublishBitmap, InRound
  <1>1. /\ w.pc = "publishBitmap" /\ w'.pc = "mark"
        /\ w'.req = w.req /\ w'.todo = w.todo /\ w'.val = w.val
        /\ w'.blk = w.blk /\ w'.kind = w.kind /\ w'.off = w.off
        /\ UNCHANGED <<bat, diskBat, bits, data, diskData, past>>
        /\ sb' = [sb EXCEPT ![ChunkOf(w.blk)] = w.sbOff]
    BY <1>0 DEF PublishBitmap, Write
  <1>2. sb[ChunkOf(w.blk)] = 0
    BY <1>0, <1>1 DEF RoundInv, RoundKnown, ReservedBitmap
  <1>3. \A b \in Blocks : bat[b].state = "PartiallyPresent" => sb'[ChunkOf(b)] = sb[ChunkOf(b)]
    BY <1>0, <1>1, <1>2, PartialBitmap DEF TypeOK
  <1>4. Shows({})
    BY <1>1, <1>3 DEF Shows, Shown
  <1>5. RoundSectors' = RoundSectors
    BY <1>1 DEF RoundSectors
  <1>6. Done'
    BY <1>0, <1>1, <1>4, DoneKept
  <1>7. Asked' /\ Unclaimed' /\ RoundKnown'
    BY <1>0, <1>1 DEF RoundInv, Asked, Unclaimed, RoundKnown, Reserved, ReservedBitmap, InRound
  <1>8. BlockHolds'
    BY <1>0, <1>1, <1>5 DEF RoundInv, BlockHolds, Reserved, InRound
  <1>9. Marked'
    BY <1>0, <1>1 DEF Marked, Marking
  <1>10. Held' /\ Lasts'
    BY <1>0, <1>1 DEF Held, Lasts
  <1> QED
    BY <1>4, <1>6, <1>7, <1>8, <1>9, <1>10 DEF DiskInv, RoundInv
\* Bits are set: the new data of a block that is partially present shows.
LEMMA MarkHolds ==
  ASSUME Inv, DiskInv, MarkBits
  PROVE  DiskInv' /\ Shows(IF w.kind = "part" THEN {w.blk} \X RoundSectors ELSE {})
  <1> DEFINE c == ChunkOf(w.blk)
             T == IF w.kind = "part" THEN {w.blk} \X RoundSectors ELSE {}
  <1>0. /\ TypeOK /\ w \in Write /\ w.blk \in Blocks /\ w.off \in Offsets /\ InRound
        /\ RoundInv /\ Marked /\ Held /\ Lasts
        /\ RoundSectors \subseteq Sectors /\ sb[c] \in Offsets
    BY RoundTypes DEF Inv, DiskInv, MarkBits, InRound
  <1>1. /\ w.pc = "mark" /\ w'.pc = "syncBits" /\ w.kind \in {"part", "child"}
        /\ w'.req = w.req /\ w'.todo = w.todo /\ w'.val = w.val
        /\ w'.blk = w.blk /\ w'.kind = w.kind /\ w'.off = w.off
        /\ UNCHANGED <<bat, diskBat, sb, data, diskData, past>>
        /\ bits' = [bits EXCEPT ![sb[c]] = @ \cup ({w.blk} \X RoundSectors)]
    BY <1>0 DEF MarkBits, SetBits, Write, Inv, RoundOK
  <1>2. \A o \in Offsets : bits'[o] = IF o = sb[c] THEN bits[o] \cup ({w.blk} \X RoundSectors) ELSE bits[o]
    BY <1>0, <1>1 DEF TypeOK
  <1>3. Fits(bat[w.blk], w.kind) /\ (w.kind = "part" => w.off = bat[w.blk].off)
    BY <1>0 DEF RoundInv, RoundKnown
  <1>4. \A s \in RoundSectors : data[w.off][s] = w.val[<<w.blk, s>>]
    BY <1>0, <1>1 DEF RoundInv, BlockHolds
  <1>5. RoundSectors' = RoundSectors
    BY <1>1 DEF RoundSectors
  <1>6. Shows(T)
    <2> SUFFICES ASSUME NEW b \in Blocks, NEW s \in Sectors
                 PROVE  Shown(bat, sb, bits', data, b, s) =
                          IF <<b, s>> \in T THEN w.val[<<b, s>>] ELSE Shown(bat, sb, bits, data, b, s)
      BY <1>1 DEF Shows
    <2>1. sb[ChunkOf(b)] \in Offsets
      BY <1>0, RoundTypes
    <2>2. CASE b # w.blk
      <3>1. <<b, s>> \in bits'[sb[ChunkOf(b)]] <=> <<b, s>> \in bits[sb[ChunkOf(b)]]
        <4>1. <<b, s>> \notin {w.blk} \X RoundSectors
          BY <2>2
        <4> QED
          BY <1>2, <2>1, <4>1
      <3>2. <<b, s>> \notin T
        BY <2>2
      <3> QED
        BY <3>1, <3>2 DEF Shown
    <2>3. CASE b = w.blk /\ w.kind = "child"
      <3>1. bat[b].state = "NotPresent"
        BY <1>3, <2>3 DEF Fits
      <3>2. T = {}
        BY <2>3
      <3> QED
        BY <3>1, <3>2 DEF Shown
    <2>4. CASE b = w.blk /\ w.kind = "part"
      <3>1. bat[b].state = "PartiallyPresent" /\ bat[b].off = w.off
        BY <1>3, <2>4 DEF Fits
      <3>2. <<b, s>> \in T <=> s \in RoundSectors
        BY <2>4
      <3>3. <<b, s>> \in bits'[sb[c]] <=> s \in RoundSectors \/ <<b, s>> \in bits[sb[c]]
        <4>1. <<b, s>> \in {w.blk} \X RoundSectors <=> s \in RoundSectors
          BY <2>4
        <4> QED
          BY <1>0, <1>2, <4>1
      <3> HIDE DEF T
      <3> QED
        BY <1>4, <2>4, <3>1, <3>2, <3>3 DEF Shown
    <2> QED
      BY <1>1, <2>2, <2>3, <2>4
  <1>7. Done'
    <2>1. T \in SUBSET ({w.blk} \X Sectors)
      BY <1>0
    <2> QED
      BY <1>0, <1>1, <1>6, <2>1, DoneKept
  <1>8. Asked' /\ Unclaimed' /\ RoundKnown'
    BY <1>0, <1>1 DEF RoundInv, Asked, Unclaimed, RoundKnown, Reserved, ReservedBitmap, InRound
  <1>9. BlockHolds'
    BY <1>1, <1>4, <1>5 DEF BlockHolds
  <1>10. Marked'
    <2>1. ASSUME NEW o \in Offsets, NEW x \in bits'[o]
          PROVE  \/ bat[x[1]].state = "PartiallyPresent"
                 \/ w.kind = "child" /\ x[1] = w.blk /\ x[2] \in RoundSectors
      <3>1. CASE x \in bits[o]
        BY <1>0, <1>1, <3>1 DEF Marked, Marking
      <3>2. CASE x \in {w.blk} \X RoundSectors
        BY <1>1, <1>3, <3>2 DEF Fits
      <3> QED
        BY <1>2, <2>1, <3>1, <3>2
    <2>2. \A s \in RoundSectors : <<w.blk, s>> \in bits'[sb[c]]
      BY <1>0, <1>2
    <2> QED
      BY <1>1, <1>5, <2>1, <2>2 DEF Marked, Marking
  <1>11. Held' /\ Lasts'
    BY <1>0, <1>1 DEF Held, Lasts
  <1> QED
    BY <1>6, <1>7, <1>8, <1>9, <1>10, <1>11 DEF DiskInv, RoundInv

\* The bits are synced.
LEMMA SyncBitsHolds ==
  ASSUME Inv, DiskInv, SyncBits
  PROVE  DiskInv' /\ Shows({})
  <1>0. /\ TypeOK /\ w \in Write /\ w.blk \in Blocks /\ w.off \in Offsets /\ InRound
        /\ RoundInv /\ Marked /\ Held /\ Lasts /\ RoundSectors \subseteq Sectors
    BY RoundTypes DEF Inv, DiskInv, SyncBits, InRound
  <1>1. /\ w.pc = "syncBits" /\ AllSynced /\ UNCHANGED <<fileVars, past>>
        /\ w.kind \in {"part", "child"}
        /\ w' = IF w.kind = "part" THEN EndRound ELSE [w EXCEPT !.pc = "publish"]
    BY DEF SyncBits, Inv, RoundOK
  <1>2. CASE w.kind = "child"
    BY <1>0, <1>1, <1>2, Onwards DEF InRound, Marking, Write
  <1>3. CASE w.kind = "part"
    <2>1. w' = EndRound /\ w'.pc = "round"
      BY <1>1, <1>3, EndRoundFields
    <2>2. bat' = bat /\ sb' = sb /\ bits' = bits /\ data' = data /\ past' = past
      BY <1>1 DEF fileVars
    <2>3. Shows({})
      BY <2>2 DEF Shows
    <2>4. \A s \in RoundSectors : Shown(bat, sb, bits, data, w.blk, s) = w.val[<<w.blk, s>>]
      <3>1. bat[w.blk].state = "PartiallyPresent" /\ w.off = bat[w.blk].off
        BY <1>0, <1>3 DEF RoundInv, RoundKnown, Fits
      <3>2. \A s \in RoundSectors : <<w.blk, s>> \in bits[sb[ChunkOf(w.blk)]]
        BY <1>0, <1>1 DEF Marked
      <3>3. \A s \in RoundSectors : data[w.off][s] = w.val[<<w.blk, s>>]
        BY <1>0, <1>1 DEF RoundInv, BlockHolds
      <3> QED
        BY <3>1, <3>2, <3>3 DEF Shown
    <2>5. RoundInv'
      BY <1>0, <2>1, <2>2, <2>3, <2>4, RoundEnds
    <2>6. Marked'
      BY <1>0, <1>3, <2>1, <2>2 DEF Marked, Marking
    <2>7. /\ \A b \in Blocks : diskBat'[b] \subseteq diskBat[b]
          /\ \A o \in Offsets, s \in Sectors : diskData'[o][s] = {data[o][s]}
      BY <1>1 DEF AllSynced, Inv, CurrentMayLast
    <2>8. Held' /\ Lasts'
      <3>1. \A o \in Offsets, s \in Sectors : diskData'[o][s] \subseteq diskData[o][s]
        BY <1>0, <2>7 DEF Held
      <3> QED
        BY <1>0, <2>2, <2>7, <3>1, FewerLast DEF Held
    <2> QED
      BY <2>3, <2>5, <2>6, <2>8 DEF DiskInv
  <1> QED
    BY <1>1, <1>2, <1>3

\* The block's entry is written: all that the round wrote shows.
LEMMA PublishHolds ==
  ASSUME Inv, DiskInv, Publish
  PROVE  DiskInv' /\ Shows({w.blk} \X RoundSectors)
  <1> DEFINE e == [state |-> IF w.kind = "child" THEN "PartiallyPresent" ELSE "FullyPresent",
                   off   |-> w.off]
             T == {w.blk} \X RoundSectors
  <1>0. /\ TypeOK /\ w \in Write /\ w.blk \in Blocks /\ w.off \in Offsets /\ InRound
        /\ RoundInv /\ Marked /\ Held /\ Lasts /\ RoundSectors \subseteq Sectors
    BY RoundTypes DEF Inv, DiskInv, Publish, InRound
  <1>1. /\ w.pc = "publish" /\ w.kind \in {"child", "fresh"}
        /\ w' = EndRound /\ w'.pc = "round"
        /\ UNCHANGED <<sb, bits, data, diskData, past>>
        /\ bat' = [bat EXCEPT ![w.blk] = e]
        /\ diskBat' = [diskBat EXCEPT ![w.blk] = @ \cup {e}]
    BY EndRoundFields DEF Publish, Inv, RoundOK
  <1>2. \A b \in Blocks : /\ bat'[b] = IF b = w.blk THEN e ELSE bat[b]
                          /\ diskBat'[b] = IF b = w.blk THEN diskBat[b] \cup {e} ELSE diskBat[b]
    BY <1>0, <1>1 DEF TypeOK
  <1>3. /\ e.off = w.off /\ (w.kind = "child" => e.state = "PartiallyPresent")
        /\ (w.kind = "fresh" => e.state = "FullyPresent")
    OBVIOUS
  <1>4. Fits(bat[w.blk], w.kind)
    BY <1>0 DEF RoundInv, RoundKnown
  <1>5. \A s \in RoundSectors : data[w.off][s] = w.val[<<w.blk, s>>]
    BY <1>0, <1>1 DEF RoundInv, BlockHolds
  <1> HIDE DEF e
  <1>6. Shows(T)
    <2> SUFFICES ASSUME NEW b \in Blocks, NEW s \in Sectors
                 PROVE  Shown(bat', sb, bits, data, b, s) =
                          IF <<b, s>> \in T THEN w.val[<<b, s>>] ELSE Shown(bat, sb, bits, data, b, s)
      BY <1>1 DEF Shows
    <2>1. CASE b # w.blk
      BY <1>2, <2>1 DEF Shown
    <2>2. CASE b = w.blk /\ w.kind = "child"
      <3>1. bat'[b].state = "PartiallyPresent" /\ bat'[b].off = w.off
        BY <1>2, <1>3, <2>2
      <3>2. bat[b].state = "NotPresent" /\ HasParent
        BY <1>4, <2>2 DEF Fits
      <3>3. s \in RoundSectors => <<b, s>> \in bits[sb[ChunkOf(b)]]
        BY <1>0, <1>1, <2>2 DEF Marked
      <3>4. s \notin RoundSectors => <<b, s>> \notin bits[sb[ChunkOf(b)]]
        <4>1. sb[ChunkOf(b)] \in Offsets
          BY <1>0, RoundTypes
        <4> QED
          BY <1>0, <3>2, <4>1 DEF Marked
      <3>5. <<b, s>> \in T <=> s \in RoundSectors
        BY <2>2
      <3> HIDE DEF T
      <3> QED
        BY <1>5, <2>2, <3>1, <3>2, <3>3, <3>4, <3>5 DEF Shown
    <2>3. CASE b = w.blk /\ w.kind = "fresh"
      <3>1. bat'[b].state = "FullyPresent" /\ bat'[b].off = w.off
        BY <1>2, <1>3, <2>3
      <3>2. /\ bat[b].state \notin {"FullyPresent", "PartiallyPresent"}
            /\ ~(bat[b].state = "NotPresent" /\ HasParent)
        BY <1>4, <2>3 DEF Fits
      <3>3. s \notin RoundSectors => data[w.off][s] = Zero
        BY <1>0, <1>1, <2>3 DEF RoundInv, BlockHolds, Reserved
      <3>4. <<b, s>> \in T <=> s \in RoundSectors
        BY <2>3
      <3> HIDE DEF T
      <3> QED
        BY <1>5, <2>3, <3>1, <3>2, <3>3, <3>4 DEF Shown
    <2> QED
      BY <1>1, <2>1, <2>2, <2>3
  <1>7. RoundInv'
    <2>1. \A x \in w.req \ w.todo : x \notin T
      BY <1>0 DEF RoundInv, Done, InRound
    <2>2. \A s \in RoundSectors : Shown(bat', sb', bits', data', w.blk, s) = w.val[<<w.blk, s>>]
      BY <1>0, <1>6 DEF Shows
    <2> HIDE DEF T
    <2> QED
      BY <1>0, <1>1, <1>6, <2>1, <2>2, RoundEnds
  <1>8. Marked'
    <2>1. ASSUME NEW o \in Offsets, NEW x \in bits[o] PROVE bat'[x[1]].state = "PartiallyPresent"
      <3>1. x \in Places
        BY <1>0, <2>1 DEF TypeOK
      <3>2. CASE bat[x[1]].state = "PartiallyPresent"
        <4>1. x[1] # w.blk
          BY <1>1, <1>4, <3>2 DEF Fits
        <4> QED
          BY <1>2, <3>1, <3>2, <4>1 DEF Places
      <3>3. CASE Marking /\ x[1] = w.blk
        BY <1>0, <1>2, <1>3, <3>3 DEF Marking
      <3> QED
        BY <1>0, <3>2, <3>3 DEF Marked
    <2> QED
      BY <1>1, <2>1 DEF Marked
  <1>9. Held'
    BY <1>0, <1>1 DEF Held
  <1>10. Lasts'
    <2> SUFFICES ASSUME ~HasParent, NEW b \in Blocks, NEW f \in diskBat'[b], NEW s \in Sectors
                 PROVE  IF Allocated(f) THEN diskData[f.off][s] \subseteq past[<<b, s>>]
                        ELSE Zero \in past[<<b, s>>]
      BY <1>1 DEF Lasts
    <2>1. CASE f \in diskBat[b]
      BY <1>0, <2>1 DEF Lasts
    <2>2. CASE f = e /\ b = w.blk
      <3>1. w.kind = "fresh"
        BY <1>1 DEF Inv, RoundOK
      <3>2. diskData[w.off][s] = {data[w.off][s]}
        BY <1>0, <1>1, <3>1 DEF RoundInv, BlockHolds
      <3>3. CASE s \in RoundSectors
        <4>1. w.val[<<w.blk, s>>] \in past[<<w.blk, s>>]
          BY <1>0, <3>3 DEF RoundInv, Asked, InRound, RoundSectors
        <4> QED
          BY <1>3, <1>5, <2>2, <3>1, <3>2, <3>3, <4>1 DEF Allocated
      <3>4. CASE s \notin RoundSectors
        <4>1. data[w.off][s] = Zero
          BY <1>0, <1>1, <3>1, <3>4 DEF RoundInv, BlockHolds, Reserved
        <4>2. ~Allocated(bat[w.blk]) /\ bat[w.blk] \in diskBat[w.blk]
          BY <1>0, <1>4, <3>1 DEF Fits, Allocated, Inv, CurrentMayLast
        <4>3. Zero \in past[<<w.blk, s>>]
          BY <1>0, <4>2 DEF Lasts
        <4> QED
          BY <1>3, <2>2, <3>1, <3>2, <4>1, <4>3 DEF Allocated
      <3> QED
        BY <3>3, <3>4
    <2>3. f \in diskBat[b] \/ (f = e /\ b = w.blk)
      <3>1. diskBat'[b] = IF b = w.blk THEN diskBat[b] \cup {e} ELSE diskBat[b]
        BY <1>2
      <3>2. f \in diskBat'[b]
        OBVIOUS
      <3> QED
        BY <3>1, <3>2
    <2> QED
      BY <2>1, <2>2, <2>3
  <1> QED
    BY <1>6, <1>7, <1>8, <1>9, <1>10 DEF DiskInv
\* The request ends well.
LEMMA ReturnHolds ==
  ASSUME Inv, DiskInv, Return
  PROVE  DiskInv' /\ Shows({})
  <1>1. /\ w.pc = "round" /\ w' = Idle /\ w'.pc = "idle"
        /\ UNCHANGED <<fileVars, diskVars, past>>
    BY DEF Return, Idle
  <1>2. Marked' /\ Held' /\ Lasts' /\ Shows({})
    BY <1>1 DEF DiskInv, Marked, Marking, Held, Lasts, Shows, fileVars, diskVars
  <1> QED
    BY <1>1, <1>2, AtEnd DEF DiskInv

\* What of a round's data an error leaves.
LEMMA FailHolds ==
  ASSUME Inv, DiskInv, HasParent => ~MayFail, Fail
  PROVE  DiskInv' /\ \E T \in SUBSET w.req : Shows(T)
  <1>0. /\ TypeOK /\ w.pc # "idle" /\ w' = Idle /\ w'.pc = "idle" /\ past' = past
        /\ RoundInv /\ Marked /\ Held /\ Lasts
    BY DEF Inv, DiskInv, Fail, Idle
  <1>1. RoundInv'
    BY <1>0, AtEnd
  <1>2. ~Marking /\ w.pc # "mark"
    <2>1. Marking \/ w.pc = "mark" => HasParent
      BY DEF Marking, Inv, RoundOK
    <2>2. HasParent => w.pc \in {"reserve", "bitmap"}
      BY DEF Fail, DiskFull
    <2> QED
      BY <2>1, <2>2 DEF Marking
  <1>3. CASE /\ w.pc = "write"
             /\ \E T \in SUBSET RoundSectors : SetData(T)
             /\ UNCHANGED <<fileLen, diskLen, bat, diskBat, sb, diskSb, bits, diskBits>>
    <2>1. PICK T \in SUBSET RoundSectors : SetData(T)
      BY <1>3
    <2>2. Held' /\ Lasts' /\ Shows(Visible(T))
      BY <1>0, <1>3, <2>1, DataWritten, DataShown
    <2>3. Visible(T) \subseteq w.req
      <3>1. {w.blk} \X T \subseteq w.todo
        BY DEF RoundSectors
      <3> QED
        BY <1>0, <3>1 DEF Visible, RoundInv, Asked
    <2>4. Marked'
      BY <1>0, <1>2, <1>3 DEF Marked
    <2> QED
      BY <1>1, <2>2, <2>3, <2>4 DEF DiskInv
  <1>4. CASE UNCHANGED <<fileVars, diskVars>>
    <2>1. Marked' /\ Held' /\ Lasts' /\ Shows({})
      BY <1>0, <1>2, <1>4 DEF Marked, Held, Lasts, Shows, fileVars, diskVars
    <2> QED
      BY <1>1, <2>1 DEF DiskInv
  <1> QED
    BY <1>2, <1>3, <1>4 DEF Fail

\* Whatever a power loss leaves was there, or was given.
LEMMA CrashHolds ==
  ASSUME Inv, DiskInv, HasParent => ~MayCrash, Crash
  PROVE  /\ DiskInv'
         /\ \A b \in Blocks, s \in Sectors : Shown(bat', sb', bits', data', b, s) \in past[<<b, s>>]
  <1>0. /\ TypeOK /\ w' = Idle /\ w'.pc = "idle" /\ past' = past /\ ~HasParent
        /\ Marked /\ Held /\ Lasts
    BY DEF Inv, DiskInv, Crash, Idle
  <1>1. /\ \A b \in Blocks : bat'[b] \in diskBat[b] /\ diskBat'[b] = {bat'[b]}
        /\ \A o \in Offsets : bits'[o] \subseteq bits[o]
        /\ \A o \in Offsets, s \in Sectors : diskData'[o][s] = {data'[o][s]}
    BY DEF Crash
  <1>2. \A o \in Offsets, s \in Sectors : data'[o][s] \in diskData[o][s]
    <2>1. PICK f \in [UnsyncedData -> Data] :
            /\ \A x \in UnsyncedData : f[x] \in diskData[x[1]][x[2]]
            /\ data' = [o \in Offsets |-> [s \in Sectors |->
                          IF <<o, s>> \in UnsyncedData THEN f[<<o, s>>] ELSE data[o][s]]]
      BY DEF Crash
    <2> SUFFICES ASSUME NEW o \in Offsets, NEW s \in Sectors PROVE data'[o][s] \in diskData[o][s]
      OBVIOUS
    <2>2. data'[o][s] = IF <<o, s>> \in UnsyncedData THEN f[<<o, s>>] ELSE data[o][s]
      BY <2>1
    <2> QED
      BY <1>0, <2>1, <2>2 DEF Held
  <1>3. RoundInv'
    BY <1>0, AtEnd
  <1>4. Held' /\ Lasts'
    BY <1>0, <1>1, <1>2, FewerLast DEF Held
  <1>5. \A b \in Blocks : \A e \in diskBat[b] : e.state # "PartiallyPresent" /\ e \in Entry
    BY <1>0, RoundTypes DEF Inv, ValidatorAccepts, PayloadStatesFit
  <1>6. Marked'
    <2>1. ASSUME NEW o \in Offsets, NEW x \in bits[o] PROVE FALSE
      <3>1. x[1] \in Blocks
        BY <1>0 DEF TypeOK, Places
      <3>2. bat[x[1]].state # "PartiallyPresent"
        BY <1>5, <3>1 DEF Inv, CurrentMayLast
      <3>3. ~Marking
        BY <1>0 DEF Marking, Inv, RoundOK
      <3> QED
        BY <1>0, <3>2, <3>3 DEF Marked
    <2> QED
      BY <1>0, <1>1, <2>1 DEF Marked
  <1>7. ASSUME NEW b \in Blocks, NEW s \in Sectors
        PROVE  Shown(bat', sb', bits', data', b, s) \in past[<<b, s>>]
    <2>1. bat'[b] \in diskBat[b] /\ bat'[b].off \in Offsets /\ bat'[b].state # "PartiallyPresent"
      BY <1>1, <1>5 DEF Entry
    <2>2. CASE bat'[b].state = "FullyPresent"
      <3>1. diskData[bat'[b].off][s] \subseteq past[<<b, s>>]
        BY <1>0, <2>1, <2>2 DEF Lasts, Allocated
      <3> QED
        BY <1>2, <2>1, <2>2, <3>1 DEF Shown
    <2>3. CASE bat'[b].state # "FullyPresent"
      <3>1. Zero \in past[<<b, s>>]
        BY <1>0, <2>1, <2>3 DEF Lasts, Allocated
      <3> QED
        BY <1>0, <2>1, <2>3, <3>1 DEF Shown
    <2> QED
      BY <2>2, <2>3
  <1> QED
    BY <1>3, <1>4, <1>6, <1>7 DEF DiskInv
-----------------------------------------------------------------------------
(* The refinement. *)

\* A file as it is opened shows its blocks, and all of it may last.
LEMMA DiskInit == Init => DiskInv
  <1> SUFFICES ASSUME Init PROVE DiskInv
    OBVIOUS
  <1>0. TypeOK /\ w.pc = "idle" /\ w.kind = "full"
    BY TypeInit DEF Init, Idle
  <1>1. RoundInv
    BY <1>0 DEF RoundInv, Asked, Done, RoundKnown, Unclaimed, BlockHolds, InRound, Reserved, ReservedBitmap
  <1>2. Marked
    <2>1. PICK B \in SUBSET {x \in Places : bat[x[1]].state = "PartiallyPresent"} :
            bits = [o \in Offsets |-> {x \in B : sb[ChunkOf(x[1])] = o}]
      BY DEF Init
    <2>2. ASSUME NEW o \in Offsets, NEW x \in bits[o] PROVE bat[x[1]].state = "PartiallyPresent"
      BY <2>1, <2>2
    <2> QED
      BY <1>0, <2>2 DEF Marked
  <1>3. Held
    BY DEF Init, Held
  <1>4. Lasts
    <2>0. \A b \in Blocks : diskBat[b] = {bat[b]}
      BY DEF Init
    <2> SUFFICES ASSUME ~HasParent, NEW b \in Blocks, NEW s \in Sectors
                 PROVE  IF Allocated(bat[b]) THEN diskData[bat[b].off][s] \subseteq past[<<b, s>>]
                        ELSE Zero \in past[<<b, s>>]
      BY <2>0 DEF Lasts
    <2>1. bat[b].state # "PartiallyPresent" /\ bat[b].off \in Offsets
      BY <1>0, RoundTypes, ConstantsOK DEF Init, InitEntries
    <2>2. past[<<b, s>>] = {Shown(bat, sb, bits, data, b, s)}
      BY ReadIsShown DEF Init, Places
    <2>3. diskData[bat[b].off][s] = {Old} /\ data[bat[b].off][s] = Old
      BY <2>1 DEF Init
    <2> QED
      BY <2>1, <2>2, <2>3 DEF Shown, Allocated
  <1> QED
    BY <1>1, <1>2, <1>3, <1>4 DEF DiskInv

\* DiskInv is kept by every step of a disk without a parent, and of any where nothing fails.
LEMMA ProceedHolds ==
  ASSUME Inv, DiskInv, Proceed \/ UNCHANGED vars
  PROVE  DiskInv'
  <1>1. CASE Proceed
    BY <1>1, StartHolds, ReserveHolds, WriteHolds, SyncHolds, ReserveBitmapHolds, PublishBitmapHolds,
       MarkHolds, SyncBitsHolds, PublishHolds DEF Proceed
  <1>2. CASE UNCHANGED vars
    BY <1>2 DEF vars, fileVars, diskVars, DiskInv, RoundInv, Asked, Done, RoundKnown, Unclaimed, BlockHolds,
                Marked, Held, Lasts, InRound, Reserved, ReservedBitmap, Marking, RoundSectors
  <1> QED
    BY <1>1, <1>2

\* Every step keeps DiskInv, on a differencing disk where nothing fails (NoForeignData
\* is not kept otherwise).
LEMMA DiskNext ==
  ASSUME Inv, DiskInv, HasParent => ~MayFail /\ ~MayCrash, [Next]_vars
  PROVE  DiskInv'
  <1>1. ASSUME NEW S \in SUBSET Places, NEW v \in Vals, Begin(S, [x \in Places |-> v])
        PROVE  DiskInv'
    <2>1. [x \in Places |-> v] \in [Places -> Data]
      BY DEF Data
    <2> QED
      BY <1>1, <2>1, BeginHolds
  <1> QED
    BY <1>1, ProceedHolds, ReturnHolds, FailHolds, CrashHolds DEF Next

\* What the virtual disk is after a step that shows T.
LEMMA ContentAfter ==
  ASSUME NEW T, Shows(T)
  PROVE  \A x \in Places :
           ReadSector(x[1], x[2])' = IF x \in T THEN w.val[x] ELSE ReadSector(x[1], x[2])
  <1> SUFFICES ASSUME NEW x \in Places
               PROVE  Shown(bat', sb', bits', data', x[1], x[2]) =
                        IF x \in T THEN w.val[x] ELSE Shown(bat, sb, bits, data, x[1], x[2])
    BY ReadIsShown
  <1>1. x[1] \in Blocks /\ x[2] \in Sectors /\ x = <<x[1], x[2]>>
    BY DEF Places
  <1> QED
    BY <1>1 DEF Shows

\* A step within a request that shows a part of it applies that part.
LEMMA StepApplies ==
  ASSUME TypeOK, w.pc # "idle", w'.pc # "idle", w'.req = w.req, w'.val = w.val,
         past' = past, answer' = answer, NEW T \in SUBSET w.req, Shows(T)
  PROVE  VD!Next
  <1>1. w.req \subseteq Places
    BY RoundTypes
  <1>2. VD!Apply(T)
    BY <1>1, ContentAfter DEF VD!Apply
  <1> QED
    BY <1>2 DEF VD!Next

\* A call with a run of sectors begins a request.
LEMMA BeginMaps ==
  ASSUME Inv, DiskInv, NEW S \in SUBSET Places, NEW v \in [Places -> Data], Begin(S, v)
  PROVE  VD!Next
  <1>0. w \in Write
    BY DEF Inv, TypeOK
  <1>1. /\ w.pc = "idle" /\ w'.pc = "round" /\ w'.req = S /\ S # {}
        /\ w'.val = [x \in Places |-> IF x \in S THEN v[x] ELSE Zero]
        /\ past' = [x \in Places |-> IF x \in S THEN past[x] \cup {v[x]} ELSE past[x]]
        /\ answer' = "none"
    BY <1>0 DEF Begin, Write
  <1> DEFINE r == [sectors |-> S, value |-> [x \in S |-> v[x]]]
  <1>2. [sectors |-> w'.req, value |-> [x \in w'.req |-> w'.val[x]]] = r
    <2>1. \A x \in S : w'.val[x] = v[x]
      BY <1>1
    <2> QED
      BY <1>1, <2>1
  <1>3. r \in [sectors : {S}, value : [S -> Data]]
    OBVIOUS
  <1>4. \A x \in S : r.value[x] = v[x]
    OBVIOUS
  <1>5. \A x \in Places : ReadSector(x[1], x[2])' = ReadSector(x[1], x[2])
    <2>1. Shows({})
      BY BeginHolds
    <2> QED
      BY <2>1, ContentAfter
  <1> HIDE DEF r
  <1>6. VD!Begin(S)
    BY <1>1, <1>2, <1>3, <1>4, <1>5 DEF VD!Begin, VD!NoRequest
  <1>7. S \in (SUBSET Places) \ {{}}
    BY <1>1
  <1> QED
    BY <1>6, <1>7 DEF VD!Next

\* Each step of write_full_sectors shows a part of the request, or nothing new.
LEMMA ProceedShows ==
  ASSUME Inv, DiskInv, Proceed
  PROVE  /\ w.pc # "idle" /\ w'.pc # "idle" /\ w'.req = w.req /\ w'.val = w.val
         /\ past' = past /\ answer' = answer
         /\ \E T \in SUBSET w.req : Shows(T)
  <1>0. /\ TypeOK /\ w \in Write
        /\ w.pc # "idle" => w.todo \subseteq w.req
    BY DEF Inv, TypeOK, DiskInv, RoundInv, Asked
  <1>1. /\ w.pc # "idle" /\ w'.pc # "idle" /\ w'.req = w.req /\ w'.val = w.val
        /\ past' = past /\ answer' = answer
    <2>1. /\ EndRound.pc = "round" /\ EndRound.req = w.req /\ EndRound.val = w.val
      BY DEF EndRound, Idle
    <2>2. ASSUME NEW b \in Blocks, StartRound(b)
          PROVE  /\ w.pc # "idle" /\ w'.pc # "idle" /\ w'.req = w.req /\ w'.val = w.val
                 /\ past' = past /\ answer' = answer
      BY <1>0, <2>2 DEF StartRound, Write
    <2>3. CASE ReservePayload \/ WriteData \/ Publish \/ MarkBits \/ SyncBits
      BY <1>0, <2>1, <2>3 DEF ReservePayload, WriteData, Publish, MarkBits, SyncBits, Write
    <2>4. CASE BitmapPresent \/ ReserveBitmap \/ SyncBitmap \/ PublishBitmap
      BY <1>0, <2>4 DEF BitmapPresent, ReserveBitmap, SyncBitmap, PublishBitmap, Write
    <2>5. CASE SyncData
      BY <1>0, <2>5 DEF SyncData, Write
    <2> QED
      BY <2>2, <2>3, <2>4, <2>5 DEF Proceed
  <1>2. {w.blk} \X RoundSectors \subseteq w.req
    BY <1>0, <1>1 DEF RoundSectors
  <1>3. Visible(RoundSectors) \subseteq w.req
    BY <1>2 DEF Visible
  <1>4. \E T \in SUBSET w.req : Shows(T)
    <2>1. ASSUME Shows({}) PROVE \E T \in SUBSET w.req : Shows(T)
      BY <2>1
    <2>2. CASE \/ \E b \in Blocks : StartRound(b)
               \/ ReservePayload \/ SyncData \/ BitmapPresent \/ ReserveBitmap
               \/ SyncBitmap \/ PublishBitmap \/ SyncBits
      BY <2>1, <2>2, StartHolds, ReserveHolds, SyncHolds, ReserveBitmapHolds, PublishBitmapHolds,
         SyncBitsHolds
    <2>3. CASE WriteData
      BY <1>3, <2>3, WriteHolds
    <2>4. CASE MarkBits
      BY <1>2, <2>1, <2>4, MarkHolds
    <2>5. CASE Publish
      BY <1>2, <2>5, PublishHolds
    <2> QED
      BY <2>2, <2>3, <2>4, <2>5 DEF Proceed
  <1> QED
    BY <1>1, <1>4

LEMMA ProceedMaps ==
  ASSUME Inv, DiskInv, Proceed
  PROVE  VD!Next
  BY ProceedShows, StepApplies DEF Inv

\* The request returns when all its sectors show what they were given.
LEMMA ReturnMaps ==
  ASSUME Inv, DiskInv, Return
  PROVE  VD!Next
  <1>1. /\ w.pc = "round" /\ w'.pc = "idle" /\ w.todo = {} /\ w.req # {} /\ answer' = "ok" /\ past' = past
        /\ w.req \subseteq Places /\ TypeOK
    BY RoundTypes DEF Return, Idle, DiskInv, RoundInv, Asked, Inv
  <1>2. \A x \in Places : ReadSector(x[1], x[2])' = ReadSector(x[1], x[2])
    <2>1. Shows({})
      BY ReturnHolds
    <2> QED
      BY <2>1, ContentAfter
  <1>3. \A x \in w.req : ReadSector(x[1], x[2]) = w.val[x]
    BY <1>1, ReadIsShown DEF DiskInv, RoundInv, Done
  <1> DEFINE r == [sectors |-> w.req, value |-> [x \in w.req |-> w.val[x]]]
  <1>4. r # [sectors |-> {}, value |-> <<>>]
    <2>1. r.sectors # {}
      BY <1>1
    <2> HIDE DEF r
    <2> QED
      BY <2>1
  <1>5. VD!Succeed
    BY <1>1, <1>2, <1>3, <1>4 DEF VD!Succeed, VD!NoRequest
  <1> QED
    BY <1>5 DEF VD!Next

\* An error leaves a part of the request.
LEMMA FailMaps ==
  ASSUME Inv, DiskInv, HasParent => ~MayFail, Fail
  PROVE  VD!Next
  <1>1. /\ w.pc # "idle" /\ w'.pc = "idle" /\ w.req # {} /\ answer' = "error" /\ past' = past
        /\ w.req \subseteq Places
    BY RoundTypes DEF Fail, Idle, DiskInv, RoundInv, Asked, Inv
  <1>2. PICK T \in SUBSET w.req : Shows(T)
    BY FailHolds
  <1>3. \A x \in Places : ReadSector(x[1], x[2])' = IF x \in T THEN w.val[x] ELSE ReadSector(x[1], x[2])
    BY <1>2, ContentAfter
  <1> DEFINE r == [sectors |-> w.req, value |-> [x \in w.req |-> w.val[x]]]
  <1>4. r # [sectors |-> {}, value |-> <<>>]
    <2>1. r.sectors # {}
      BY <1>1
    <2> HIDE DEF r
    <2> QED
      BY <2>1
  <1>5. VD!Abort(T)
    BY <1>1, <1>2, <1>3, <1>4 DEF VD!Abort, VD!NoRequest
  <1> QED
    BY <1>1, <1>2, <1>5 DEF VD!Next

\* A power loss leaves of each sector what it held once, or was given.
LEMMA CrashMaps ==
  ASSUME Inv, DiskInv, HasParent => ~MayCrash, Crash
  PROVE  VD!Next
  <1>1. w'.pc = "idle" /\ answer' = "none" /\ past' = past /\ past \in [Places -> SUBSET Data]
    BY DEF Crash, Idle, Inv, TypeOK
  <1>2. \A x \in Places : ReadSector(x[1], x[2])' \in past[x]
    <2> SUFFICES ASSUME NEW x \in Places
                 PROVE  Shown(bat', sb', bits', data', x[1], x[2]) \in past[x]
      BY ReadIsShown
    <2>1. x[1] \in Blocks /\ x[2] \in Sectors /\ x = <<x[1], x[2]>>
      BY DEF Places
    <2> QED
      BY <2>1, CrashHolds
  <1>3. VD!PowerLoss
    BY <1>1, <1>2 DEF VD!PowerLoss, VD!NoRequest
  <1> QED
    BY <1>3 DEF VD!Next

LEMMA VirtualDiskInit == Init => VD!Init
  <1> SUFFICES ASSUME Init PROVE VD!Init
    OBVIOUS
  <1>1. TypeOK /\ w.pc = "idle" /\ answer = "none"
    BY TypeInit DEF Init, Idle
  <1>2. \A x \in Places : ReadSector(x[1], x[2]) \in Data
    BY <1>1, ReadType DEF Places
  <1> QED
    BY <1>1, <1>2 DEF Init, VD!Init, VD!NoRequest

(***************************************************************************)
(* The steps of write_full_sectors and the reads around it are a virtual   *)
(* disk: with errors at every call and power losses at any time for a disk *)
(* without a parent, and where nothing fails but a full disk for a         *)
(* differencing one (see NoForeignData for why not otherwise).             *)
(***************************************************************************)
THEOREM WritePathIsVirtualDisk ==
  ASSUME HasParent => ~MayFail /\ ~MayCrash
  PROVE  Spec => IsVirtualDisk
  <1>1. Inv /\ DiskInv /\ [Next]_vars => DiskInv' /\ [VD!Next]_(VD!vars)
    <2> SUFFICES ASSUME Inv, DiskInv, [Next]_vars PROVE [VD!Next]_(VD!vars)
      BY DiskNext
    <2>1. ASSUME NEW S \in SUBSET Places, NEW v \in Vals, Begin(S, [x \in Places |-> v])
          PROVE  VD!Next
      <3>1. [x \in Places |-> v] \in [Places -> Data]
        BY DEF Data
      <3> QED
        BY <2>1, <3>1, BeginMaps
    <2>2. CASE UNCHANGED vars
      BY <2>2 DEF vars, fileVars, VD!vars, ReadSector, ReadPartial
    <2> QED
      BY <2>1, <2>2, ProceedMaps, ReturnMaps, FailMaps, CrashMaps DEF Next
  <1> QED
    BY <1>1, DiskInit, VirtualDiskInit, Invariance, PTL DEF Spec, IsVirtualDisk, VD!Spec
\* A step keeps what each sector reads as among what it held or was given.
LEMMA ForeignNext ==
  ASSUME Inv, DiskInv, NoForeignData, HasParent => ~MayFail /\ ~MayCrash, [Next]_vars
  PROVE  NoForeignData'
  <1>0. /\ past \in [Places -> SUBSET Data] /\ TypeOK
        /\ w.pc # "idle" => w.req \subseteq Places /\ \A x \in w.req : w.val[x] \in past[x]
    BY RoundTypes DEF Inv, TypeOK, DiskInv, RoundInv, Asked
  <1>1. ASSUME NEW T \in SUBSET w.req, Shows(T), w.pc # "idle", past' = past
        PROVE  NoForeignData'
    BY <1>0, <1>1, ContentAfter DEF NoForeignData
  <1>2. ASSUME Shows({}), \A x \in Places : past[x] \subseteq past'[x]
        PROVE  NoForeignData'
    BY <1>2, ContentAfter DEF NoForeignData
  <1>3. ASSUME NEW S \in SUBSET Places, NEW v \in Vals, Begin(S, [x \in Places |-> v])
        PROVE  NoForeignData'
    <2>1. [x \in Places |-> v] \in [Places -> Data]
      BY DEF Data
    <2>2. \A x \in Places : past[x] \subseteq past'[x]
      BY <1>0, <1>3 DEF Begin
    <2> QED
      BY <1>2, <1>3, <2>1, <2>2, BeginHolds
  <1>4. CASE Proceed
    BY <1>1, <1>4, ProceedShows
  <1>5. CASE Return
    BY <1>2, <1>5, ReturnHolds DEF Return
  <1>6. CASE Fail
    BY <1>1, <1>6, FailHolds DEF Fail
  <1>7. CASE Crash
    <2>1. \A x \in Places : x[1] \in Blocks /\ x[2] \in Sectors /\ x = <<x[1], x[2]>>
      BY DEF Places
    <2>2. \A x \in Places : Shown(bat', sb', bits', data', x[1], x[2]) \in past[x]
      BY <1>7, <2>1, CrashHolds
    <2> QED
      BY <1>7, <2>2, ReadIsShown DEF Crash, NoForeignData
  <1>8. CASE UNCHANGED vars
    BY <1>8 DEF vars, fileVars, NoForeignData, ReadSector, ReadPartial
  <1> QED
    BY <1>3, <1>4, <1>5, <1>6, <1>7, <1>8 DEF Next

(***************************************************************************)
(* Through errors and power losses without a parent, and where nothing     *)
(* fails with one, a sector never reads as what it neither held nor was    *)
(* being given: it takes a failure on a differencing disk to break         *)
(* NoForeignData.                                                          *)
(***************************************************************************)
THEOREM NothingForeign ==
  ASSUME HasParent => ~MayFail /\ ~MayCrash
  PROVE  Spec => []NoForeignData
  <1>1. Init => NoForeignData
    BY DEF Init, NoForeignData
  <1>2. Inv /\ DiskInv /\ NoForeignData /\ [Next]_vars => DiskInv' /\ NoForeignData'
    BY DiskNext, ForeignNext
  <1> QED
    BY <1>1, <1>2, DiskInit, Invariance, PTL DEF Spec
=============================================================================
