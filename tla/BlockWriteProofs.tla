-------------------------- MODULE BlockWriteProofs --------------------------
(***************************************************************************)
(* The safety of the sector write path, for every number and size of       *)
(* blocks, every initial file and every pattern of failures and power      *)
(* losses.                                                                 *)
(***************************************************************************)
EXTENDS BlockWrite, TLAPS

\* Rounding a length up to a multiple of n gives a length at or after it.
LEMMA RoundUpBound ==
  ASSUME NEW len \in Nat, NEW n \in Nat \ {0}
  PROVE  /\ RoundUp(len, n) \in Nat
         /\ RoundUp(len, n) >= len
  <1> DEFINE q == (len + n - 1) \div n
  <1>1. q \in Nat /\ len + n - 1 < (q + 1) * n
    OBVIOUS
  <1>2. (q + 1) * n = q * n + n
    BY <1>1
  <1>3. q * n \in Nat
    BY <1>1
  <1> QED
    BY <1>1, <1>2, <1>3 DEF RoundUp

\* The BAT offset of a reserved block names exactly the place it was reserved.
LEMMA PosOfMultiple ==
  ASSUME NEW q \in Nat, NEW k \in Nat
  PROVE  /\ (q * (k * Mib)) \div Mib = q * k
         /\ Pos((q * (k * Mib)) \div Mib) = q * (k * Mib)
  <1>1. Mib \in Nat \ {0}
    BY ConstantsOK
  <1>2. q * (k * Mib) = (q * k) * Mib
    BY <1>1
  <1>3. ASSUME NEW m \in Nat PROVE (m * Mib) \div Mib = m
    BY <1>1
  <1>4. q * k \in Nat
    OBVIOUS
  <1> QED
    BY <1>1, <1>2, <1>3, <1>4 DEF Pos
-----------------------------------------------------------------------------
(* Type correctness. *)

\* The record of an idle writer has its type.
LEMMA IdleType == Idle \in Write
  BY ConstantsOK DEF Idle, Write, Data, Blocks, Offsets

\* A sector read returns data of the model.
LEMMA ReadType ==
  ASSUME TypeOK, NEW b \in Blocks, NEW s \in Sectors
  PROVE  ReadSector(b, s) \in Data
  <1>1. bat[b] \in Entry /\ Parent \in Data /\ Zero \in Data
    BY DEF TypeOK, Data
  <1>2. data[bat[b].off][s] \in Data
    BY <1>1 DEF TypeOK, Entry
  <1> QED
    BY <1>1, <1>2 DEF ReadSector, ReadPartial

\* The variables of a freshly opened file have their types.
LEMMA TypeInit == Init => TypeOK
  <1> SUFFICES ASSUME Init PROVE TypeOK
    OBVIOUS
  <1> USE DEF Init
  <1>1. fileLen \in Nat /\ diskLen \subseteq Nat
    BY ConstantsOK
  <1>2. bat \in [Blocks -> Entry] /\ diskBat \in [Blocks -> SUBSET Entry]
    BY DEF InitEntries
  <1>3. sb \in [Chunks -> Offsets] /\ diskSb \in [Chunks -> SUBSET Offsets]
    BY ConstantsOK DEF Offsets
  <1>4. bits \in [Offsets -> SUBSET Places] /\ diskBits \in [Offsets -> SUBSET Places]
    OBVIOUS
  <1>5. /\ data \in [Offsets -> [Sectors -> Data]]
        /\ diskData \in [Offsets -> [Sectors -> SUBSET Data]]
    BY DEF Data
  <1>6. w \in Write
    BY IdleType
  <1>7. past \in [Places -> SUBSET Data]
    <2>1. ASSUME NEW b \in Blocks, NEW s \in Sectors PROVE ReadSector(b, s) \in Data
      <3>1. bat[b] \in Entry /\ Parent \in Data /\ Zero \in Data
        BY <1>2 DEF Data
      <3>2. data[bat[b].off][s] \in Data
        BY <3>1, <1>5 DEF Entry
      <3> QED
        BY <3>1, <3>2 DEF ReadSector, ReadPartial
    <2> QED
      BY <2>1 DEF Places
  <1> QED
    BY <1>1, <1>2, <1>3, <1>4, <1>5, <1>6, <1>7 DEF TypeOK

\* A sync keeps the types of the durable candidates.
LEMMA SyncType ==
  ASSUME TypeOK, AllSynced
  PROVE  /\ diskLen' \subseteq Nat
         /\ diskBat' \in [Blocks -> SUBSET Entry]
         /\ diskSb' \in [Chunks -> SUBSET Offsets]
         /\ diskBits' \in [Offsets -> SUBSET Places]
         /\ diskData' \in [Offsets -> [Sectors -> SUBSET Data]]
  BY DEF TypeOK, AllSynced

\* Writing sectors of a block keeps the types of both views of the data.
LEMMA SetDataType ==
  ASSUME TypeOK, NEW T, SetData(T)
  PROVE  /\ data' \in [Offsets -> [Sectors -> Data]]
         /\ diskData' \in [Offsets -> [Sectors -> SUBSET Data]]
  <1>1. ASSUME NEW s \in Sectors PROVE w.val[<<w.blk, s>>] \in Data
    BY DEF TypeOK, Write, Places
  <1> QED
    BY <1>1 DEF TypeOK, SetData

\* Setting bits of a bitmap block keeps the types of both views of the bits.
LEMMA SetBitsType ==
  ASSUME TypeOK, NEW T \in SUBSET Sectors, SetBits(T)
  PROVE  /\ bits' \in [Offsets -> SUBSET Places]
         /\ diskBits' \in [Offsets -> SUBSET Places]
  <1>1. {w.blk} \X T \subseteq Places
    BY DEF TypeOK, Write, Places
  <1> QED
    BY <1>1 DEF TypeOK, SetBits

\* The record of a writer at the end of a round has its type.
LEMMA EndRoundType == TypeOK => EndRound \in Write
  BY IdleType DEF TypeOK, EndRound, Idle, Write

\* The call of write_full_sectors keeps the types, whatever it is to write.
LEMMA BeginType ==
  ASSUME TypeOK, NEW S \in SUBSET Places, NEW v \in [Places -> Data], Begin(S, v)
  PROVE  TypeOK'
  <1>1. [x \in Places |-> IF x \in S THEN v[x] ELSE Zero] \in [Places -> Data]
    BY DEF Data
  <1>2. w' \in Write
    BY <1>1 DEF Begin, TypeOK, Write
  <1>3. past' \in [Places -> SUBSET Data]
    BY DEF Begin, TypeOK
  <1> QED
    BY <1>2, <1>3 DEF Begin, TypeOK, fileVars, diskVars

\* Every step keeps the types.
LEMMA TypeNext == TypeOK /\ [Next]_vars => TypeOK'
  <1> SUFFICES ASSUME TypeOK, [Next]_vars PROVE TypeOK'
    OBVIOUS
  <1>0. w \in Write /\ fileLen \in Nat
    BY DEF TypeOK
  <1>1. ASSUME NEW S \in SUBSET Places, NEW v \in Vals, Begin(S, [x \in Places |-> v])
        PROVE  TypeOK'
    <2>1. [x \in Places |-> v] \in [Places -> Data]
      BY DEF Data
    <2> QED
      BY <2>1, <1>1, BeginType
  <1>2. ASSUME NEW b \in Blocks, StartRound(b) PROVE TypeOK'
    <2>1. bat[b].off \in Offsets /\ 0 \in Offsets
      BY ConstantsOK DEF TypeOK, Entry, Offsets
    <2>2. Kind(b) \in {"full", "part", "child", "fresh"}
      BY DEF Kind
    <2>3. w' \in Write
      BY <1>2, <1>0, <2>1, <2>2 DEF StartRound, Write
    <2> QED
      BY <2>3, <1>2 DEF StartRound, TypeOK, fileVars, diskVars
  <1>3. CASE ReservePayload
    <2>1. BlockSize \in Nat \ {0}
      BY ConstantsOK DEF BlockSize
    <2>2. RoundUp(fileLen, BlockSize) + BlockSize \in Nat
      BY <1>0, <2>1, RoundUpBound
    <2>3. w' \in Write
      BY <1>3, <1>0 DEF ReservePayload, Write
    <2>4. fileLen' \in Nat /\ diskLen' \subseteq Nat
      BY <1>3, <2>2 DEF ReservePayload, SetLen, TypeOK
    <2>5. /\ data' \in [Offsets -> [Sectors -> Data]]
          /\ diskData' \in [Offsets -> [Sectors -> SUBSET Data]]
      BY <1>3 DEF ReservePayload, TypeOK, Data
    <2> QED
      BY <2>3, <2>4, <2>5, <1>3 DEF ReservePayload, TypeOK
  <1>4. CASE WriteData
    <2>1. /\ data' \in [Offsets -> [Sectors -> Data]]
          /\ diskData' \in [Offsets -> [Sectors -> SUBSET Data]]
      BY <1>4, SetDataType DEF WriteData
    <2>2. w' \in Write
      BY <1>4, <1>0, EndRoundType DEF WriteData, Write
    <2> QED
      BY <2>1, <2>2, <1>4 DEF WriteData, TypeOK
  <1>5. CASE SyncData
    <2>1. w' \in Write
      BY <1>5, <1>0 DEF SyncData, Write
    <2> QED
      BY <2>1, <1>5, SyncType DEF SyncData, TypeOK, fileVars
  <1>6. CASE BitmapPresent
    <2>1. w' \in Write
      BY <1>6, <1>0 DEF BitmapPresent, Write
    <2> QED
      BY <2>1, <1>6 DEF BitmapPresent, TypeOK, fileVars, diskVars
  <1>7. CASE ReserveBitmap
    <2>1. RoundUp(fileLen, Mib) + Mib \in Nat
      BY <1>0, ConstantsOK, RoundUpBound
    <2>2. w' \in Write
      BY <1>7, <1>0 DEF ReserveBitmap, Write
    <2>3. fileLen' \in Nat /\ diskLen' \subseteq Nat
      BY <1>7, <2>1 DEF ReserveBitmap, SetLen, TypeOK
    <2>4. /\ bits' \in [Offsets -> SUBSET Places]
          /\ diskBits' \in [Offsets -> SUBSET Places]
      BY <1>7 DEF ReserveBitmap, TypeOK
    <2> QED
      BY <2>2, <2>3, <2>4, <1>7 DEF ReserveBitmap, TypeOK
  <1>8. CASE SyncBitmap
    <2>1. w' \in Write
      BY <1>8, <1>0 DEF SyncBitmap, Write
    <2> QED
      BY <2>1, <1>8, SyncType DEF SyncBitmap, TypeOK, fileVars
  <1>9. CASE PublishBitmap
    <2>1. w' \in Write
      BY <1>9, <1>0 DEF PublishBitmap, Write
    <2>2. w.sbOff \in Offsets
      BY <1>0 DEF Write
    <2>3. sb' \in [Chunks -> Offsets] /\ diskSb' \in [Chunks -> SUBSET Offsets]
      BY <1>9, <2>2 DEF PublishBitmap, TypeOK
    <2> QED
      BY <2>1, <2>3, <1>9 DEF PublishBitmap, TypeOK
  <1>10. CASE MarkBits
    <2>1. w' \in Write
      BY <1>10, <1>0 DEF MarkBits, Write
    <2>2. RoundSectors \in SUBSET Sectors
      BY DEF RoundSectors
    <2>3. /\ bits' \in [Offsets -> SUBSET Places]
          /\ diskBits' \in [Offsets -> SUBSET Places]
      BY <1>10, <2>2, SetBitsType DEF MarkBits
    <2> QED
      BY <2>1, <2>3, <1>10 DEF MarkBits, TypeOK
  <1>11. CASE SyncBits
    <2>1. w' \in Write
      BY <1>11, <1>0, EndRoundType DEF SyncBits, Write
    <2> QED
      BY <2>1, <1>11, SyncType DEF SyncBits, TypeOK, fileVars
  <1>12. CASE Publish
    <2>1. w' \in Write
      BY <1>12, EndRoundType DEF Publish
    <2>2. [state |-> IF w.kind = "child" THEN "PartiallyPresent" ELSE "FullyPresent",
           off |-> w.off] \in Entry
      BY <1>0 DEF Write, Entry, PayloadState
    <2>3. bat' \in [Blocks -> Entry] /\ diskBat' \in [Blocks -> SUBSET Entry]
      BY <1>12, <2>2 DEF Publish, TypeOK
    <2> QED
      BY <2>1, <2>3, <1>12 DEF Publish, TypeOK
  <1>13. CASE Return
    BY <1>13, IdleType DEF Return, TypeOK, fileVars, diskVars
  <1>14. CASE Fail
    <2>1. w' \in Write
      BY <1>14, IdleType DEF Fail
    <2>2. CASE \E T \in SUBSET RoundSectors : SetData(T) /\
               UNCHANGED <<fileLen, diskLen, bat, diskBat, sb, diskSb, bits, diskBits>>
      <3>1. /\ data' \in [Offsets -> [Sectors -> Data]]
            /\ diskData' \in [Offsets -> [Sectors -> SUBSET Data]]
        BY <2>2, SetDataType
      <3> QED
        BY <2>1, <2>2, <3>1, <1>14 DEF Fail, TypeOK
    <2>3. CASE \E T \in SUBSET RoundSectors : SetBits(T) /\
               UNCHANGED <<fileLen, diskLen, bat, diskBat, sb, diskSb, data, diskData>>
      <3>1. /\ bits' \in [Offsets -> SUBSET Places]
            /\ diskBits' \in [Offsets -> SUBSET Places]
        BY <2>3, SetBitsType DEF RoundSectors
      <3> QED
        BY <2>1, <2>3, <3>1, <1>14 DEF Fail, TypeOK
    <2>4. CASE UNCHANGED <<fileVars, diskVars>>
      BY <2>1, <2>4, <1>14 DEF Fail, TypeOK, fileVars, diskVars
    <2> QED
      BY <1>14, <2>2, <2>3, <2>4 DEF Fail
  <1>15. CASE Crash
    <2>1. fileLen' \in Nat /\ diskLen' \subseteq Nat
      BY <1>15 DEF Crash, TypeOK
    <2>2. bat' \in [Blocks -> Entry] /\ diskBat' \in [Blocks -> SUBSET Entry]
      BY <1>15 DEF Crash, TypeOK
    <2>3. sb' \in [Chunks -> Offsets] /\ diskSb' \in [Chunks -> SUBSET Offsets]
      BY <1>15 DEF Crash, TypeOK
    <2>4. /\ bits' \in [Offsets -> SUBSET Places]
          /\ diskBits' \in [Offsets -> SUBSET Places]
      BY <1>15 DEF Crash, TypeOK
    <2>5. /\ data' \in [Offsets -> [Sectors -> Data]]
          /\ diskData' \in [Offsets -> [Sectors -> SUBSET Data]]
      BY <1>15 DEF Crash, TypeOK
    <2> QED
      BY <2>1, <2>2, <2>3, <2>4, <2>5, <1>15, IdleType DEF Crash, TypeOK
  <1>16. CASE UNCHANGED vars
    BY <1>16 DEF vars, fileVars, diskVars, TypeOK
  <1> QED
    BY <1>1, <1>2, <1>3, <1>4, <1>5, <1>6, <1>7, <1>8, <1>9, <1>10, <1>11, <1>12,
       <1>13, <1>14, <1>15, <1>16 DEF Next, Proceed

(***************************************************************************)
(* Every reachable state of the write path has its type.                   *)
(***************************************************************************)
THEOREM TypeCorrect == Spec => []TypeOK
  <1> QED
    BY TypeInit, TypeNext, PTL DEF Spec
-----------------------------------------------------------------------------
(* The layout.  Every step either shrinks the set of claims or adds one    *)
(* claim at or after the end of the file.                                  *)

\* A block has a positive size.
LEMMA BlockSizeType == BlockSize \in Nat \ {0}
  BY ConstantsOK DEF BlockSize

\* A BAT offset names a position in the file.
LEMMA PosType == \A o \in Offsets : Pos(o) \in Nat
  BY ConstantsOK DEF Pos, Offsets

\* A claim is an owner with a position and a positive size.
LEMMA ClaimType ==
  ASSUME TypeOK, NEW x \in Claims
  PROVE  x[2] \in Nat /\ x[3] \in Nat
  <1>1. CASE x \in DiskClaims
    BY <1>1, BlockSizeType, ConstantsOK, PosType
       DEF DiskClaims, PayloadClaim, BitmapClaim, Entry
  <1>2. CASE x = PayloadClaim(w.blk, w.off)
    BY <1>2, BlockSizeType, PosType DEF PayloadClaim, TypeOK, Write
  <1>3. CASE x = BitmapClaim(ChunkOf(w.blk), w.sbOff)
    BY <1>3, ConstantsOK, PosType DEF BitmapClaim, TypeOK, Write
  <1> QED
    BY <1>1, <1>2, <1>3 DEF Claims

\* Every allocated entry that may be found on disk has its claim.
LEMMA ClaimOfEntry ==
  ASSUME NEW b \in Blocks, NEW e \in Entry, e \in diskBat[b], Allocated(e)
  PROVE  PayloadClaim(b, e.off) \in DiskClaims
  <1> DEFINE S == {y \in Blocks \X Entry : y[2] \in diskBat[y[1]] /\ Allocated(y[2])}
  <1>1. <<b, e>> \in S
    OBVIOUS
  <1>2. PayloadClaim(<<b, e>>[1], <<b, e>>[2].off) \in {PayloadClaim(x[1], x[2].off) : x \in S}
    BY <1>1
  <1> QED
    BY <1>2 DEF DiskClaims

\* Blocks whose claims are apart are at different offsets.
LEMMA ApartOffsets ==
  ASSUME NEW b1, NEW b2, NEW o \in Offsets
  PROVE  ~Apart(PayloadClaim(b1, o), PayloadClaim(b2, o))
  BY PosType, BlockSizeType DEF Apart, PayloadClaim

\* A BAT with fewer possible entries claims no more.
LEMMA FewerEntries ==
  ASSUME \A b \in Blocks : diskBat'[b] \subseteq diskBat[b],
         \A c \in Chunks : diskSb'[c] \subseteq diskSb[c]
  PROVE  DiskClaims' \subseteq DiskClaims
  BY DEF DiskClaims, PayloadClaim, BitmapClaim, Allocated

\* A sync only narrows what may be found after a power loss.
LEMMA SyncFewer ==
  ASSUME TypeOK, CurrentMayLast, AllSynced
  PROVE  /\ \A b \in Blocks : diskBat'[b] \subseteq diskBat[b]
         /\ \A c \in Chunks : diskSb'[c] \subseteq diskSb[c]
         /\ diskLen' \subseteq diskLen
  BY DEF AllSynced, CurrentMayLast

\* The layout stays safe when claims go away and the file does not shrink.
LEMMA LayoutShrinks ==
  ASSUME LayoutSafe, Claims' \subseteq Claims, fileLen' = fileLen
  PROVE  LayoutSafe'
  BY DEF LayoutSafe, ClaimsDisjoint, ClaimsInFile, Apart

\* The layout stays safe when one owner claims an extent past the old end.
LEMMA LayoutGrows ==
  ASSUME TypeOK, LayoutSafe, NEW x, x[2] \in Nat, x[3] \in Nat,
         Claims' \subseteq Claims \cup {x},
         fileLen =< x[2], DataStart =< x[2],
         x[2] + x[3] =< fileLen', fileLen' \in Nat, fileLen =< fileLen'
  PROVE  LayoutSafe'
  <1>1. fileLen \in Nat /\ DataStart \in Nat
    BY ConstantsOK DEF TypeOK
  <1>2. ASSUME NEW y \in Claims PROVE /\ y[2] >= DataStart /\ y[2] + y[3] =< fileLen
                                      /\ y[2] \in Nat /\ y[3] \in Nat
    BY ClaimType DEF LayoutSafe, ClaimsInFile
  <1>3. ClaimsInFile'
    BY <1>1, <1>2 DEF ClaimsInFile
  <1>4. ASSUME NEW y \in Claims', NEW z \in Claims', y[1] # z[1] PROVE Apart(y, z)
    <2>1. CASE y \in Claims /\ z \in Claims
      BY <2>1, <1>4 DEF LayoutSafe, ClaimsDisjoint
    <2>2. CASE y = x /\ z \in Claims
      BY <2>2, <1>1, <1>2 DEF Apart
    <2>3. CASE z = x /\ y \in Claims
      BY <2>3, <1>1, <1>2 DEF Apart
    <2> QED
      BY <2>1, <2>2, <2>3, <1>4
  <1> QED
    BY <1>3, <1>4 DEF LayoutSafe, ClaimsDisjoint, Apart
-----------------------------------------------------------------------------
(* What the steps that leave the BAT and the length alone preserve, and    *)
(* what a sync preserves.                                                  *)

FileOK == /\ CurrentMayLast /\ LengthsCoverRegions
          /\ LayoutSafe /\ DurableInFile /\ ValidatorAccepts

\* A step that changes no length, BAT entry or bitmap entry keeps the file part of Inv.
LEMMA SameFile ==
  ASSUME Inv, UNCHANGED <<fileLen, diskLen, bat, diskBat, sb, diskSb>>,
         Reserved' => Reserved /\ w'.blk = w.blk /\ w'.off = w.off,
         ReservedBitmap' => ReservedBitmap /\ w'.blk = w.blk /\ w'.sbOff = w.sbOff
  PROVE  FileOK'
  <1>1. DiskClaims' = DiskClaims
    BY DEF DiskClaims
  <1>2. Claims' \subseteq Claims
    BY <1>1 DEF Claims
  <1>3. LayoutSafe'
    BY <1>2, LayoutShrinks DEF Inv
  <1>4. CurrentMayLast' /\ LengthsCoverRegions' /\ DurableInFile'
    BY <1>1 DEF Inv, CurrentMayLast, LengthsCoverRegions, DurableInFile
  <1>5. ValidatorAccepts'
    BY DEF Inv, ValidatorAccepts, PayloadStatesFit, BitmapStatesFit, OffsetsAligned,
           OffsetsUnique, PartialHasBitmap
  <1> QED
    BY <1>3, <1>4, <1>5 DEF FileOK

\* With fewer files to find after a power loss, the durable parts of Inv hold still.
LEMMA FewerFiles ==
  ASSUME Inv, diskLen' \subseteq diskLen, CurrentMayLast', fileLen' \in Nat,
         \A b \in Blocks : diskBat'[b] \subseteq diskBat[b],
         \A c \in Chunks : diskSb'[c] \subseteq diskSb[c]
  PROVE  LengthsCoverRegions' /\ DurableInFile' /\ ValidatorAccepts'
  <1>1. DiskClaims' \subseteq DiskClaims
    BY FewerEntries
  <1>2. LengthsCoverRegions' /\ DurableInFile'
    BY <1>1 DEF Inv, LengthsCoverRegions, DurableInFile
  <1>3. PayloadStatesFit' /\ OffsetsAligned' /\ OffsetsUnique' /\ PartialHasBitmap'
    BY DEF Inv, ValidatorAccepts, PayloadStatesFit, OffsetsAligned, OffsetsUnique,
           PartialHasBitmap, Chunks
  <1>4. BitmapStatesFit'
    <2> SUFFICES ASSUME ~HasParent, NEW c \in Chunks PROVE diskSb'[c] = {0}
      BY DEF BitmapStatesFit
    <2>1. diskSb[c] = {0} /\ sb'[c] \in diskSb'[c]
      BY DEF Inv, ValidatorAccepts, BitmapStatesFit, CurrentMayLast
    <2> QED
      BY <2>1
  <1> QED
    BY <1>2, <1>3, <1>4 DEF ValidatorAccepts

\* A sync keeps the durable parts of Inv.
LEMMA Synced ==
  ASSUME Inv, AllSynced, UNCHANGED fileVars,
         Reserved' => Reserved /\ w'.blk = w.blk /\ w'.off = w.off,
         ReservedBitmap' => ReservedBitmap /\ w'.blk = w.blk /\ w'.sbOff = w.sbOff
  PROVE  FileOK'
  <1>1. /\ \A b \in Blocks : diskBat'[b] \subseteq diskBat[b]
        /\ \A c \in Chunks : diskSb'[c] \subseteq diskSb[c]
        /\ diskLen' \subseteq diskLen
    BY SyncFewer DEF Inv
  <1>2. CurrentMayLast' /\ fileLen' \in Nat
    BY DEF Inv, TypeOK, AllSynced, CurrentMayLast, fileVars
  <1>3. Claims' \subseteq Claims
    BY <1>1, FewerEntries DEF Claims
  <1>4. LayoutSafe'
    BY <1>3, LayoutShrinks DEF Inv, fileVars
  <1> QED
    BY <1>1, <1>2, <1>4, FewerFiles DEF FileOK
-----------------------------------------------------------------------------
\* A file as it may be opened satisfies Inv.
LEMMA InvInit == Init => Inv
  <1> SUFFICES ASSUME Init PROVE Inv
    OBVIOUS
  <1>1. TypeOK
    BY TypeInit
  <1>2. w.pc = "idle" /\ w.kind = "full"
    BY DEF Init, Idle
  <1>3. ~Reserved /\ ~ReservedBitmap
    BY <1>2 DEF Reserved, ReservedBitmap
  <1>4. Claims = DiskClaims
    BY <1>3 DEF Claims
  <1>5. /\ diskLen = {fileLen}
        /\ \A b \in Blocks : diskBat[b] = {bat[b]}
        /\ \A c \in Chunks : diskSb[c] = {sb[c]}
    BY DEF Init
  <1>6. LayoutSafe
    BY DEF Init, LayoutSafe
  <1>7. DurableInFile
    BY <1>4, <1>5, <1>6 DEF DurableInFile, LayoutSafe, ClaimsInFile
  <1>8. CurrentMayLast /\ LengthsCoverRegions
    BY <1>1, <1>5, ConstantsOK DEF CurrentMayLast, LengthsCoverRegions, Init, TypeOK
  <1>9. ReservationsSynced /\ RoundOK
    BY <1>2, <1>3 DEF ReservationsSynced, RoundOK
  <1>10. PayloadStatesFit
    <2>1. \A b \in Blocks : bat[b].state \in InitStates
      BY DEF Init, InitEntries
    <2> QED
      BY <2>1, <1>5, ConstantsOK DEF PayloadStatesFit
  <1>11. BitmapStatesFit
    BY <1>5 DEF BitmapStatesFit, Init
  <1>12. OffsetsAligned /\ PartialHasBitmap
    BY <1>5 DEF OffsetsAligned, PartialHasBitmap, Init, Chunks
  <1>13. OffsetsUnique
    <2> SUFFICES ASSUME NEW b1 \in Blocks, NEW b2 \in Blocks, b1 # b2,
                        Allocated(bat[b1]), Allocated(bat[b2]), bat[b1].off = bat[b2].off
                 PROVE  FALSE
      BY <1>5 DEF OffsetsUnique
    <2>1. bat[b1] \in Entry /\ bat[b2] \in Entry
      BY <1>1 DEF TypeOK
    <2>2. /\ PayloadClaim(b1, bat[b1].off) \in Claims
          /\ PayloadClaim(b2, bat[b2].off) \in Claims
      BY <1>4, <1>5, <2>1, ClaimOfEntry
    <2>3. Apart(PayloadClaim(b1, bat[b1].off), PayloadClaim(b2, bat[b2].off))
      BY <1>6, <2>2 DEF LayoutSafe, ClaimsDisjoint, PayloadClaim
    <2> QED
      BY <2>1, <2>3, ApartOffsets DEF Entry
  <1> QED
    BY <1>1, <1>6, <1>7, <1>8, <1>9, <1>10, <1>11, <1>12, <1>13
       DEF Inv, ValidatorAccepts

\* The place reserve_block picks.
LEMMA ReservePlace ==
  ASSUME TypeOK, NEW k \in Nat \ {0}
  PROVE  LET at == RoundUp(fileLen, k * Mib) IN
         /\ at \in Nat /\ at >= fileLen
         /\ Pos(at \div Mib) = at
         /\ at % (k * Mib) = 0
  <1> DEFINE n == k * Mib
             q == (fileLen + n - 1) \div n
  <1>1. n \in Nat \ {0} /\ fileLen \in Nat
    BY ConstantsOK DEF TypeOK
  <1>2. q \in Nat
    BY <1>1
  <1>3. RoundUp(fileLen, n) = q * n
    BY DEF RoundUp
  <1>4. Pos((q * n) \div Mib) = q * n
    BY <1>2, PosOfMultiple
  <1>5. ASSUME NEW i \in Nat, NEW m \in Nat \ {0} PROVE (i * m) % m = 0
    OBVIOUS
  <1> QED
    BY <1>1, <1>2, <1>3, <1>4, <1>5, RoundUpBound

\* Extending the file for a payload block keeps Inv.
LEMMA ReservePayloadOK ==
  ASSUME Inv, ReservePayload
  PROVE  FileOK' /\ ReservationsSynced' /\ RoundOK'
  <1> DEFINE at == RoundUp(fileLen, BlockSize)
             new == PayloadClaim(w.blk, at \div Mib)
  <1>0. TypeOK /\ w \in Write /\ fileLen \in Nat
    BY DEF Inv, TypeOK
  <1>1. at \in Nat /\ at >= fileLen /\ Pos(at \div Mib) = at /\ at % BlockSize = 0
    BY <1>0, ReservePlace, ConstantsOK DEF BlockSize
  <1>2. /\ w'.pc = "write" /\ w'.off = at \div Mib /\ w'.blk = w.blk
        /\ w'.kind = w.kind /\ w.pc = "reserve"
    BY <1>0 DEF ReservePayload, Write
  <1>3. w.kind \in {"child", "fresh"}
    BY <1>2 DEF Inv, RoundOK
  <1>4. DiskClaims' = DiskClaims
    BY DEF ReservePayload, DiskClaims
  <1>5. Claims' \subseteq Claims \cup {new}
    BY <1>2, <1>4 DEF Claims, ReservedBitmap
  <1>6. fileLen' = at + BlockSize /\ diskLen' = diskLen \cup {at + BlockSize}
    BY DEF ReservePayload, SetLen
  <1>7. new[2] = at /\ new[3] = BlockSize
    BY <1>1 DEF PayloadClaim
  <1>8. fileLen >= DataStart
    BY DEF Inv, CurrentMayLast, LengthsCoverRegions
  <1>9. LayoutSafe'
    BY <1>0, <1>1, <1>5, <1>6, <1>7, <1>8, BlockSizeType, ConstantsOK, LayoutGrows DEF Inv
  <1>10. CurrentMayLast' /\ LengthsCoverRegions'
    BY <1>0, <1>1, <1>6, <1>8, BlockSizeType, ConstantsOK
       DEF Inv, CurrentMayLast, LengthsCoverRegions, ReservePayload
  <1>11. DurableInFile'
    <2>1. \A x \in DiskClaims : x[2] + x[3] =< fileLen /\ x[2] \in Nat /\ x[3] \in Nat
      BY <1>0, ClaimType DEF Inv, LayoutSafe, ClaimsInFile, Claims
    <2> QED
      BY <2>1, <1>0, <1>1, <1>4, <1>6, BlockSizeType DEF Inv, DurableInFile
  <1>12. ValidatorAccepts'
    BY DEF Inv, ValidatorAccepts, PayloadStatesFit, BitmapStatesFit, OffsetsAligned,
           OffsetsUnique, PartialHasBitmap, ReservePayload
  <1>13. ReservationsSynced'
    BY <1>2 DEF ReservationsSynced
  <1>14. RoundOK'
    BY <1>1, <1>2, <1>3 DEF Inv, RoundOK, ReservePayload
  <1> QED
    BY <1>9, <1>10, <1>11, <1>12, <1>13, <1>14 DEF FileOK

\* Extending the file for a sector bitmap block keeps Inv.
LEMMA ReserveBitmapOK ==
  ASSUME Inv, ReserveBitmap
  PROVE  FileOK' /\ ReservationsSynced' /\ RoundOK'
  <1> DEFINE at == RoundUp(fileLen, Mib)
             new == BitmapClaim(ChunkOf(w.blk), at \div Mib)
  <1>0. TypeOK /\ w \in Write /\ fileLen \in Nat
    BY DEF Inv, TypeOK
  <1>1. at \in Nat /\ at >= fileLen /\ Pos(at \div Mib) = at
    <2>1. 1 * Mib = Mib
      BY ConstantsOK
    <2> QED
      BY <1>0, <2>1, ReservePlace
  <1>2. /\ w'.pc = "syncBitmap" /\ w'.sbOff = at \div Mib /\ w'.blk = w.blk
        /\ w'.kind = w.kind /\ w'.off = w.off /\ w.pc = "bitmap"
    BY <1>0 DEF ReserveBitmap, Write
  <1>3. w.kind = "child"
    BY <1>2 DEF Inv, RoundOK
  <1>4. DiskClaims' = DiskClaims
    BY DEF ReserveBitmap, DiskClaims
  <1>5. Claims' \subseteq Claims \cup {new}
    BY <1>2, <1>3, <1>4 DEF Claims, Reserved
  <1>6. fileLen' = at + Mib /\ diskLen' = diskLen \cup {at + Mib}
    BY DEF ReserveBitmap, SetLen
  <1>7. new[2] = at /\ new[3] = Mib
    BY <1>1 DEF BitmapClaim
  <1>8. fileLen >= DataStart
    BY DEF Inv, CurrentMayLast, LengthsCoverRegions
  <1>9. LayoutSafe'
    BY <1>0, <1>1, <1>5, <1>6, <1>7, <1>8, ConstantsOK, LayoutGrows DEF Inv
  <1>10. CurrentMayLast' /\ LengthsCoverRegions'
    BY <1>0, <1>1, <1>6, <1>8, ConstantsOK
       DEF Inv, CurrentMayLast, LengthsCoverRegions, ReserveBitmap
  <1>11. ASSUME NEW x \in Claims PROVE x[2] + x[3] =< fileLen /\ x[2] \in Nat /\ x[3] \in Nat
    BY <1>0, ClaimType DEF Inv, LayoutSafe, ClaimsInFile
  <1>12. DurableInFile'
    BY <1>11, <1>0, <1>1, <1>4, <1>6, ConstantsOK DEF Inv, DurableInFile, Claims
  <1>13. ValidatorAccepts'
    BY DEF Inv, ValidatorAccepts, PayloadStatesFit, BitmapStatesFit, OffsetsAligned,
           OffsetsUnique, PartialHasBitmap, ReserveBitmap
  <1>14. ReservationsSynced'
    <2>1. Reserved
      BY <1>2, <1>3 DEF Reserved
    <2>2. \A n \in diskLen : Pos(w.off) + BlockSize =< n
      BY <1>2, <2>1 DEF Inv, ReservationsSynced
    <2>3. PayloadClaim(w.blk, w.off) \in Claims
      BY <2>1 DEF Claims
    <2>4. Pos(w.off) + BlockSize =< fileLen
      BY <2>3, <1>11 DEF PayloadClaim
    <2>5. Pos(w.off) \in Nat
      BY <1>0, PosType DEF Write
    <2> QED
      BY <1>0, <1>1, <1>2, <1>6, <2>2, <2>4, <2>5, BlockSizeType, ConstantsOK
         DEF ReservationsSynced
  <1>15. RoundOK'
    BY <1>2, <1>3 DEF Inv, RoundOK, ReserveBitmap, Reserved
  <1> QED
    BY <1>9, <1>10, <1>12, <1>13, <1>14, <1>15 DEF FileOK

\* Publishing the entry of a synced bitmap block keeps Inv.
LEMMA PublishBitmapOK ==
  ASSUME Inv, PublishBitmap
  PROVE  FileOK' /\ ReservationsSynced' /\ RoundOK'
  <1> DEFINE c == ChunkOf(w.blk)
             new == BitmapClaim(c, w.sbOff)
  <1>0. TypeOK /\ w \in Write /\ c \in Chunks
    BY DEF Inv, TypeOK, Write, Chunks
  <1>1. /\ w'.pc = "mark" /\ w'.blk = w.blk /\ w'.off = w.off /\ w'.kind = w.kind
        /\ w.pc = "publishBitmap" /\ w.kind = "child"
    BY <1>0 DEF PublishBitmap, Write, Inv, RoundOK
  <1>2. new \in Claims /\ new[2] = Pos(w.sbOff) /\ new[3] = Mib
    BY <1>1 DEF Claims, ReservedBitmap, BitmapClaim
  <1>3. w.sbOff # 0
    BY <1>2, ConstantsOK DEF Inv, LayoutSafe, ClaimsInFile, Pos
  <1>4. DiskClaims' \subseteq DiskClaims \cup {new}
    BY <1>0 DEF PublishBitmap, DiskClaims, TypeOK, PayloadClaim, BitmapClaim, Allocated
  <1>5. Claims' \subseteq Claims
    BY <1>1, <1>2, <1>4 DEF Claims, Reserved, ReservedBitmap
  <1>6. LayoutSafe'
    BY <1>5, LayoutShrinks DEF Inv, PublishBitmap
  <1>7. DurableInFile'
    <2>1. \A n \in diskLen : Pos(w.sbOff) + Mib =< n
      BY <1>1 DEF Inv, ReservationsSynced
    <2> QED
      BY <1>2, <1>4, <2>1 DEF Inv, DurableInFile, PublishBitmap
  <1>8. CurrentMayLast' /\ LengthsCoverRegions'
    BY <1>0 DEF Inv, CurrentMayLast, LengthsCoverRegions, PublishBitmap, TypeOK
  <1>9. HasParent
    BY <1>1 DEF Inv, RoundOK
  <1>10. ValidatorAccepts'
    BY <1>0, <1>3, <1>9 DEF Inv, ValidatorAccepts, PayloadStatesFit, BitmapStatesFit,
       OffsetsAligned, OffsetsUnique, PartialHasBitmap, PublishBitmap, TypeOK, Chunks
  <1>11. ReservationsSynced'
    BY <1>1 DEF Inv, ReservationsSynced, Reserved, PublishBitmap
  <1>12. sb'[ChunkOf(w'.blk)] # 0
    BY <1>0, <1>1, <1>3 DEF PublishBitmap, TypeOK
  <1>13. RoundOK'
    BY <1>1, <1>12 DEF Inv, RoundOK, Reserved
  <1> QED
    BY <1>6, <1>7, <1>8, <1>10, <1>11, <1>13 DEF FileOK

\* What the record of a writer holds at the end of a round.
LEMMA EndRoundFields ==
  EndRound.pc = "round" /\ EndRound.kind = "full" /\ EndRound.req = w.req
  BY DEF EndRound, Idle

\* Publishing the entry of a synced payload block keeps Inv.
LEMMA PublishOK ==
  ASSUME Inv, Publish
  PROVE  FileOK' /\ ReservationsSynced' /\ RoundOK'
  <1> DEFINE b == w.blk
             e == [state |-> IF w.kind = "child" THEN "PartiallyPresent" ELSE "FullyPresent",
                   off   |-> w.off]
             new == PayloadClaim(b, w.off)
  <1>0. TypeOK /\ w \in Write /\ b \in Blocks /\ e \in Entry /\ w.off \in Offsets
    BY DEF Inv, TypeOK, Write, Entry, PayloadState
  <1>1. w.pc = "publish" /\ w.kind \in {"child", "fresh"} /\ w' = EndRound
    BY DEF Publish, Inv, RoundOK
  <1>2. Reserved /\ ~Reserved' /\ ~ReservedBitmap'
    BY <1>1, EndRoundFields DEF Reserved, ReservedBitmap
  <1>3. new \in Claims
    BY <1>2 DEF Claims
  <1>4. /\ diskBat' = [diskBat EXCEPT ![b] = @ \cup {e}] /\ diskSb' = diskSb
        /\ diskLen' = diskLen /\ fileLen' = fileLen /\ sb' = sb
        /\ bat' = [bat EXCEPT ![b] = e]
    BY DEF Publish
  <1>5. ASSUME NEW d \in Blocks
        PROVE  diskBat'[d] = IF d = b THEN diskBat[b] \cup {e} ELSE diskBat[d]
    BY <1>0, <1>4 DEF TypeOK
  <1>6. DiskClaims' \subseteq DiskClaims \cup {new}
    BY <1>0, <1>4, <1>5 DEF DiskClaims, PayloadClaim, BitmapClaim, Allocated
  <1>7. Claims' \subseteq Claims
    BY <1>2, <1>3, <1>6 DEF Claims
  <1>8. LayoutSafe'
    BY <1>4, <1>7, LayoutShrinks DEF Inv
  <1>9. DurableInFile'
    <2>1. \A n \in diskLen : Pos(w.off) + BlockSize =< n
      BY <1>1, <1>2 DEF Inv, ReservationsSynced
    <2>2. new[2] = Pos(w.off) /\ new[3] = BlockSize
      BY DEF PayloadClaim
    <2> QED
      BY <1>4, <1>6, <2>1, <2>2 DEF Inv, DurableInFile
  <1>10. CurrentMayLast' /\ LengthsCoverRegions'
    BY <1>0, <1>4, <1>5 DEF Inv, CurrentMayLast, LengthsCoverRegions, TypeOK
  <1>11. w.kind = "child" => HasParent /\ 0 \notin diskSb[ChunkOf(b)]
    BY <1>1 DEF Inv, RoundOK
  <1>12. PayloadStatesFit' /\ BitmapStatesFit'
    BY <1>4, <1>5, <1>11 DEF Inv, ValidatorAccepts, PayloadStatesFit, BitmapStatesFit
  <1>13. OffsetsAligned'
    BY <1>2, <1>4, <1>5 DEF Inv, ValidatorAccepts, OffsetsAligned, RoundOK
  <1>14. PartialHasBitmap'
    BY <1>4, <1>5, <1>11 DEF Inv, ValidatorAccepts, PartialHasBitmap
  <1>15. OffsetsUnique'
    <2>1. ASSUME NEW d \in Blocks, NEW f \in diskBat[d], d # b, Allocated(f)
          PROVE  f.off # w.off
      <3>1. f \in Entry
        BY <1>0 DEF TypeOK
      <3>2. PayloadClaim(d, f.off) \in Claims
        BY <2>1, <3>1, ClaimOfEntry DEF Claims
      <3>3. Apart(PayloadClaim(d, f.off), new)
        BY <1>3, <2>1, <3>2 DEF Inv, LayoutSafe, ClaimsDisjoint, PayloadClaim
      <3> QED
        BY <1>0, <3>3, ApartOffsets
    <2> QED
      BY <1>5, <2>1 DEF Inv, ValidatorAccepts, OffsetsUnique
  <1>16. ReservationsSynced' /\ RoundOK'
    BY <1>1, <1>2, EndRoundFields DEF ReservationsSynced, RoundOK
  <1> QED
    BY <1>8, <1>9, <1>10, <1>12, <1>13, <1>14, <1>15, <1>16 DEF FileOK, ValidatorAccepts

\* Whatever a power loss leaves satisfies Inv.
LEMMA CrashOK ==
  ASSUME Inv, Crash
  PROVE  FileOK' /\ ReservationsSynced' /\ RoundOK'
  <1>1. w' = Idle /\ w'.pc = "idle" /\ w'.kind = "full"
    BY DEF Crash, Idle
  <1>2. ~Reserved' /\ ~ReservedBitmap'
    BY <1>1 DEF Reserved, ReservedBitmap
  <1>3. /\ fileLen' \in diskLen /\ diskLen' = {fileLen'}
        /\ \A b \in Blocks : bat'[b] \in diskBat[b] /\ diskBat'[b] = {bat'[b]}
        /\ \A c \in Chunks : sb'[c] \in diskSb[c] /\ diskSb'[c] = {sb'[c]}
    BY DEF Crash
  <1>4. CurrentMayLast' /\ fileLen' \in Nat
    BY <1>3 DEF CurrentMayLast, Inv, TypeOK
  <1>5. DiskClaims' \subseteq DiskClaims
    BY <1>3, FewerEntries
  <1>6. Claims' = DiskClaims'
    BY <1>2 DEF Claims
  <1>7. ClaimsDisjoint'
    BY <1>5, <1>6 DEF Inv, LayoutSafe, ClaimsDisjoint, Claims, Apart
  <1>8. ClaimsInFile'
    BY <1>3, <1>5, <1>6 DEF Inv, LayoutSafe, ClaimsInFile, DurableInFile, Claims
  <1>9. LengthsCoverRegions' /\ DurableInFile' /\ ValidatorAccepts'
    BY <1>3, <1>4, FewerFiles
  <1>10. ReservationsSynced' /\ RoundOK'
    BY <1>1, <1>2 DEF ReservationsSynced, RoundOK
  <1> QED
    BY <1>4, <1>7, <1>8, <1>9, <1>10 DEF FileOK, LayoutSafe

\* What the write in progress has reserved lies within the file.
LEMMA ReservedInFile ==
  ASSUME Inv
  PROVE  /\ Reserved => Pos(w.off) + BlockSize =< fileLen
         /\ ReservedBitmap => Pos(w.sbOff) + Mib =< fileLen
  <1>1. ASSUME NEW x \in Claims PROVE x[2] + x[3] =< fileLen
    BY DEF Inv, LayoutSafe, ClaimsInFile
  <1>2. ASSUME Reserved PROVE Pos(w.off) + BlockSize =< fileLen
    <2>1. PayloadClaim(w.blk, w.off) \in Claims
      BY <1>2 DEF Claims
    <2> QED
      BY <1>1, <2>1 DEF PayloadClaim
  <1>3. ASSUME ReservedBitmap PROVE Pos(w.sbOff) + Mib =< fileLen
    <2>1. BitmapClaim(ChunkOf(w.blk), w.sbOff) \in Claims
      BY <1>3 DEF Claims
    <2> QED
      BY <1>1, <2>1 DEF BitmapClaim
  <1> QED
    BY <1>2, <1>3

\* The call of write_full_sectors keeps Inv, whatever it is to write.
LEMMA BeginInv ==
  ASSUME Inv, NEW S \in SUBSET Places, NEW v \in [Places -> Data], Begin(S, v)
  PROVE  FileOK' /\ ReservationsSynced' /\ RoundOK'
  <1>0. TypeOK /\ w \in Write
    BY DEF Inv, TypeOK
  <1>1. w.pc = "idle" /\ w'.pc = "round" /\ w'.kind = w.kind
    BY <1>0 DEF Begin, Write
  <1>2. w.kind = "full"
    BY <1>1 DEF Inv, RoundOK
  <1>3. FileOK'
    BY <1>1, SameFile DEF Begin, fileVars, diskVars, Reserved, ReservedBitmap
  <1> QED
    BY <1>1, <1>2, <1>3 DEF ReservationsSynced, RoundOK, Reserved

\* Every step keeps Inv.
LEMMA InvNext == Inv /\ [Next]_vars => Inv'
  <1> SUFFICES ASSUME Inv, [Next]_vars PROVE FileOK' /\ ReservationsSynced' /\ RoundOK'
    BY TypeNext DEF Inv, FileOK
  <1>0. TypeOK /\ w \in Write
    BY DEF Inv, TypeOK
  <1> USE DEF Reserved, ReservedBitmap
  <1>1. ASSUME NEW S \in SUBSET Places, NEW v \in Vals, Begin(S, [x \in Places |-> v])
        PROVE  FileOK' /\ ReservationsSynced' /\ RoundOK'
    <2>1. [x \in Places |-> v] \in [Places -> Data]
      BY DEF Data
    <2> QED
      BY <2>1, <1>1, BeginInv
  <1>2. ASSUME NEW b \in Blocks, StartRound(b)
        PROVE  FileOK' /\ ReservationsSynced' /\ RoundOK'
    <2>1. w.pc = "round" /\ w'.blk = b /\ w'.kind = Kind(b)
      BY <1>0, <1>2 DEF StartRound, Write
    <2>2. w'.pc = IF Kind(b) \in {"full", "part"} THEN "write" ELSE "reserve"
      BY <1>0, <1>2 DEF StartRound, Write
    <2>3. Kind(b) \in {"full", "part", "child", "fresh"}
      BY DEF Kind
    <2>4. Kind(b) = "part" => sb'[ChunkOf(b)] # 0
      BY <1>2 DEF StartRound, fileVars
    <2>5. Kind(b) \in {"part", "child"} => HasParent
      <3>1. Kind(b) = "part" => bat[b].state = "PartiallyPresent"
        BY DEF Kind
      <3>2. Kind(b) = "child" => HasParent
        BY DEF Kind
      <3>3. bat[b].state = "PartiallyPresent" => HasParent
        BY DEF Inv, ValidatorAccepts, PayloadStatesFit, CurrentMayLast
      <3> QED
        BY <3>1, <3>2, <3>3
    <2>6. ~Reserved' /\ ~ReservedBitmap'
      BY <2>1, <2>2, <2>3
    <2>7. UNCHANGED <<fileLen, diskLen, bat, diskBat, sb, diskSb>>
      BY <1>2 DEF StartRound, fileVars, diskVars
    <2>8. FileOK'
      BY <2>6, <2>7, SameFile
    <2> QED
      BY <2>1, <2>2, <2>3, <2>4, <2>5, <2>8 DEF ReservationsSynced, RoundOK
  <1>3. CASE ReservePayload
    BY <1>3, ReservePayloadOK
  <1>4. CASE WriteData
    <2>1. CASE w.kind = "full"
      <3>1. w.pc = "write" /\ w' = EndRound
        BY <1>4, <2>1 DEF WriteData
      <3>2. FileOK'
        BY <1>4, <3>1, EndRoundFields, SameFile DEF WriteData
      <3> QED
        BY <3>1, <3>2, EndRoundFields DEF ReservationsSynced, RoundOK
    <2>2. CASE w.kind # "full"
      <3>1. /\ w.pc = "write" /\ w'.pc = "sync" /\ w'.kind = w.kind
            /\ w'.off = w.off /\ w'.blk = w.blk
        BY <1>0, <1>4, <2>2 DEF WriteData, Write
      <3>2. FileOK'
        BY <1>4, <3>1, SameFile DEF WriteData
      <3>3. RoundOK'
        BY <1>4, <2>2, <3>1 DEF Inv, RoundOK, WriteData
      <3> QED
        BY <3>1, <3>2, <3>3 DEF ReservationsSynced
    <2> QED
      BY <2>1, <2>2
  <1>5. CASE SyncData
    <2>1. /\ w.pc = "sync" /\ w'.kind = w.kind /\ w'.off = w.off /\ w'.blk = w.blk
          /\ w.kind \in {"part", "child", "fresh"}
      BY <1>0, <1>5 DEF SyncData, Write, Inv, RoundOK
    <2>2. w'.pc = CASE w.kind = "part"  -> "mark"
                    [] w.kind = "child" -> "bitmap"
                    [] OTHER            -> "publish"
      BY <1>0, <1>5 DEF SyncData, Write
    <2>3. /\ w.kind = "part"  => w'.pc = "mark"
          /\ w.kind = "child" => w'.pc = "bitmap"
          /\ w.kind = "fresh" => w'.pc = "publish"
      BY <2>1, <2>2
    <2>4. FileOK'
      BY <1>5, <2>1, <2>3, Synced DEF SyncData
    <2>5. ReservationsSynced'
      <3>1. Reserved => Pos(w.off) + BlockSize =< fileLen
        BY ReservedInFile
      <3> QED
        BY <1>5, <2>1, <2>3, <3>1 DEF ReservationsSynced, SyncData, AllSynced
    <2>6. RoundOK'
      BY <1>5, <2>1, <2>3 DEF Inv, RoundOK, SyncData, fileVars
    <2> QED
      BY <2>4, <2>5, <2>6
  <1>6. CASE BitmapPresent
    <2>1. /\ w.pc = "bitmap" /\ w'.pc = "mark" /\ w'.kind = w.kind
          /\ w'.off = w.off /\ w'.blk = w.blk /\ w.kind = "child"
      BY <1>0, <1>6 DEF BitmapPresent, Write, Inv, RoundOK
    <2>2. FileOK'
      BY <1>6, <2>1, SameFile DEF BitmapPresent, fileVars, diskVars
    <2>3. ReservationsSynced'
      BY <1>6, <2>1 DEF Inv, ReservationsSynced, BitmapPresent, diskVars
    <2>4. RoundOK'
      BY <1>6, <2>1 DEF Inv, RoundOK, BitmapPresent, fileVars, diskVars
    <2> QED
      BY <2>2, <2>3, <2>4
  <1>7. CASE ReserveBitmap
    BY <1>7, ReserveBitmapOK
  <1>8. CASE SyncBitmap
    <2>1. /\ w.pc = "syncBitmap" /\ w'.pc = "publishBitmap" /\ w'.kind = w.kind
          /\ w'.off = w.off /\ w'.blk = w.blk /\ w'.sbOff = w.sbOff /\ w.kind = "child"
      BY <1>0, <1>8 DEF SyncBitmap, Write, Inv, RoundOK
    <2>2. FileOK'
      BY <1>8, <2>1, Synced DEF SyncBitmap
    <2>3. /\ Pos(w.off) + BlockSize =< fileLen
          /\ Pos(w.sbOff) + Mib =< fileLen
      BY <2>1, ReservedInFile
    <2>4. ReservationsSynced'
      BY <1>8, <2>1, <2>3 DEF ReservationsSynced, SyncBitmap, AllSynced
    <2>5. RoundOK'
      BY <1>8, <2>1 DEF Inv, RoundOK, SyncBitmap, fileVars
    <2> QED
      BY <2>2, <2>4, <2>5
  <1>9. CASE PublishBitmap
    BY <1>9, PublishBitmapOK
  <1>10. CASE MarkBits
    <2>1. /\ w.pc = "mark" /\ w'.pc = "syncBits" /\ w'.kind = w.kind
          /\ w'.off = w.off /\ w'.blk = w.blk
      BY <1>0, <1>10 DEF MarkBits, Write
    <2>2. FileOK'
      BY <1>10, <2>1, SameFile DEF MarkBits
    <2>3. ReservationsSynced'
      BY <1>10, <2>1 DEF Inv, ReservationsSynced, MarkBits
    <2>4. RoundOK'
      BY <1>10, <2>1 DEF Inv, RoundOK, MarkBits
    <2> QED
      BY <2>2, <2>3, <2>4
  <1>11. CASE SyncBits
    <2>1. CASE w.kind = "part"
      <3>1. w.pc = "syncBits" /\ w' = EndRound
        BY <1>11, <2>1 DEF SyncBits
      <3>2. FileOK'
        BY <1>11, <3>1, EndRoundFields, Synced DEF SyncBits
      <3> QED
        BY <3>1, <3>2, EndRoundFields DEF ReservationsSynced, RoundOK
    <2>2. CASE w.kind # "part"
      <3>1. /\ w.pc = "syncBits" /\ w'.pc = "publish" /\ w'.kind = w.kind
            /\ w'.off = w.off /\ w'.blk = w.blk /\ w.kind = "child"
            /\ sb[ChunkOf(w.blk)] # 0
        BY <1>0, <1>11, <2>2 DEF SyncBits, Write, Inv, RoundOK
      <3>2. FileOK'
        BY <1>11, <3>1, Synced DEF SyncBits
      <3>3. Pos(w.off) + BlockSize =< fileLen
        BY <3>1, ReservedInFile
      <3>4. ReservationsSynced'
        BY <1>11, <3>1, <3>3 DEF ReservationsSynced, SyncBits, AllSynced
      <3>5. diskSb'[ChunkOf(w.blk)] = {sb[ChunkOf(w.blk)]}
        BY <1>0, <1>11 DEF SyncBits, AllSynced, Write, Chunks
      <3>6. RoundOK'
        BY <3>1, <3>5 DEF Inv, RoundOK
      <3> QED
        BY <3>2, <3>4, <3>6
    <2> QED
      BY <2>1, <2>2
  <1>12. CASE Publish
    BY <1>12, PublishOK
  <1>13. CASE Return
    <2>1. w'.pc = "idle" /\ w'.kind = "full"
      BY <1>13 DEF Return, Idle
    <2>2. FileOK'
      BY <1>13, <2>1, SameFile DEF Return, fileVars, diskVars
    <2> QED
      BY <2>1, <2>2 DEF ReservationsSynced, RoundOK
  <1>14. CASE Fail
    <2>1. w'.pc = "idle" /\ w'.kind = "full"
      BY <1>14 DEF Fail, Idle
    <2>2. UNCHANGED <<fileLen, diskLen, bat, diskBat, sb, diskSb>>
      BY <1>14 DEF Fail, fileVars, diskVars
    <2>3. FileOK'
      BY <2>1, <2>2, SameFile
    <2> QED
      BY <2>1, <2>3 DEF ReservationsSynced, RoundOK
  <1>15. CASE Crash
    BY <1>15, CrashOK
  <1>16. CASE UNCHANGED vars
    <2>1. UNCHANGED <<fileLen, diskLen, bat, diskBat, sb, diskSb, w>>
      BY <1>16 DEF vars, fileVars, diskVars
    <2>2. FileOK'
      BY <2>1, SameFile
    <2> QED
      BY <2>1, <2>2 DEF Inv, ReservationsSynced, RoundOK
  <1> QED
    BY <1>1, <1>2, <1>3, <1>4, <1>5, <1>6, <1>7, <1>8, <1>9, <1>10, <1>11, <1>12,
       <1>13, <1>14, <1>15, <1>16 DEF Next, Proceed

(***************************************************************************)
(* The inductive invariant holds in every reachable state, and with it     *)
(* the three properties it was made for.                                   *)
(***************************************************************************)
THEOREM Invariance == Spec => []Inv
  <1> QED
    BY InvInit, InvNext, PTL DEF Spec

(***************************************************************************)
(* No two structures of the file ever overlap, reach over the metadata     *)
(* regions or beyond the end of the file, whatever fails or is lost.       *)
(***************************************************************************)
THEOREM LayoutSafety == Spec => []LayoutSafe
  <1>1. Inv => LayoutSafe
    BY DEF Inv
  <1> QED
    BY <1>1, Invariance, PTL

(***************************************************************************)
(* After a power loss every block the BAT names lies within the file.      *)
(***************************************************************************)
THEOREM DurableLayout == Spec => []DurableInFile
  <1>1. Inv => DurableInFile
    BY DEF Inv
  <1> QED
    BY <1>1, Invariance, PTL

(***************************************************************************)
(* After a power loss validate_bat accepts the BAT.                        *)
(***************************************************************************)
THEOREM ValidatorAcceptance == Spec => []ValidatorAccepts
  <1>1. Inv => ValidatorAccepts
    BY DEF Inv
  <1> QED
    BY <1>1, Invariance, PTL
=============================================================================
