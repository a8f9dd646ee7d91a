--------------------------- MODULE CreateFileProofs --------------------------
(***************************************************************************)
(* The index arithmetic of the block allocation table for every chunk      *)
(* ratio and the loop that fills it; what a creation may leave behind, at  *)
(* every point where it can stop; and that the file it completes is, for   *)
(* all options, one that opens, reads and validates.                       *)
(***************************************************************************)
EXTENDS CreateFile, TLAPS

\* Quotient and remainder of a number of the form q * n + r.
LEMMA DivMod ==
  ASSUME NEW n \in Nat \ {0}, NEW q \in Nat, NEW r \in 0 .. n - 1, NEW m \in Nat, m = q * n + r
  PROVE  m \div n = q /\ m % n = r
  <1>1. m \div n = q
    OBVIOUS
  <1>2. m % n = r
    OBVIOUS
  <1> QED
    BY <1>1, <1>2

\* A number is made of its quotient and its remainder.
LEMMA DivisionOf ==
  ASSUME NEW m \in Nat, NEW n \in Nat \ {0}
  PROVE  m \div n \in Nat /\ m % n \in 0 .. n - 1 /\ m = (m \div n) * n + (m % n)
  <1>1. m \div n \in Nat
    OBVIOUS
  <1>2. m % n \in 0 .. n - 1
    OBVIOUS
  <1>3. m - (m \div n) * n = m % n
    BY SMTT(20)
  <1>4. (m \div n) * n \in Nat
    BY <1>1
  <1> QED
    BY <1>1, <1>2, <1>3, <1>4

\* Where a block's entry stands in its chunk.
LEMMA PayloadPlace ==
  ASSUME NEW R \in Nat \ {0}, NEW b \in Nat
  PROVE  /\ b \div R \in Nat /\ b % R \in 0 .. R - 1
         /\ PayloadIndex(b, R) = (b \div R) * (R + 1) + (b % R)
  <1> DEFINE q == b \div R
  <1>1. q \in Nat /\ b % R \in 0 .. R - 1 /\ b = q * R + (b % R)
    BY DivisionOf
  <1>2. q * (R + 1) = q * R + q
    BY <1>1
  <1>3. q * R \in Nat
    BY <1>1
  <1> HIDE DEF q
  <1>4. PayloadIndex(b, R) = b + q
    BY DEF PayloadIndex, q
  <1> QED
    BY <1>1, <1>2, <1>3, <1>4 DEF q

\* A block's index, taken apart again.
LEMMA PayloadDivision ==
  ASSUME NEW R \in Nat \ {0}, NEW b \in Nat
  PROVE  /\ PayloadIndex(b, R) \div (R + 1) = b \div R
         /\ PayloadIndex(b, R) % (R + 1) = b % R
  <1> DEFINE n == R + 1
             q == b \div R
             r == b % R
             m == PayloadIndex(b, R)
  <1>0. q \in Nat /\ r \in 0 .. R - 1 /\ m = q * n + r
    BY PayloadPlace
  <1>1. n \in Nat \ {0} /\ q \in Nat /\ r \in 0 .. n - 1 /\ m = q * n + r
    <2> HIDE DEF q, r, m
    <2> QED
      BY <1>0
  <1> HIDE DEF n, q, r, m
  <1>2. m \in Nat
    BY <1>1
  <1>3. m \div n = q /\ m % n = r
    BY <1>1, <1>2, DivMod
  <1> QED
    BY <1>3 DEF n, q, r, m

(***************************************************************************)
(* The reader never takes a sector bitmap entry for a block's entry: the   *)
(* index it looks a block up at (resolve_bat_entry_for_block) is never of  *)
(* the kind is_sector_bitmap_entry picks out.                              *)
(***************************************************************************)
THEOREM PayloadIsNoBitmap ==
  \A R \in Nat \ {0}, b \in Nat : ~IsBitmapIndex(PayloadIndex(b, R), R)
  <1> TAKE R \in Nat \ {0}, b \in Nat
  <1>1. PayloadIndex(b, R) % (R + 1) = b % R
    BY PayloadDivision
  <1>2. b % R # R
    BY PayloadPlace
  <1> QED
    BY <1>1, <1>2 DEF IsBitmapIndex

(***************************************************************************)
(* The sector bitmap entry of a block's chunk (sector_bitmap_bat_index) is *)
(* one the reader takes for a sector bitmap entry, and it stands after the *)
(* entries of its chunk's blocks and before those of the next chunk.       *)
(***************************************************************************)
THEOREM BitmapAfterItsChunk ==
  \A R \in Nat \ {0}, b \in Nat, c \in Nat :
    /\ IsBitmapIndex(BitmapIndex(b, R), R)
    /\ (c \div R) =< (b \div R) => PayloadIndex(c, R) < BitmapIndex(b, R)
    /\ (c \div R) > (b \div R) => PayloadIndex(c, R) > BitmapIndex(b, R)
  <1> TAKE R \in Nat \ {0}, b \in Nat, c \in Nat
  <1> DEFINE q == b \div R
             p == c \div R
  <1>1. q \in Nat /\ p \in Nat /\ c % R \in 0 .. R - 1
    BY PayloadPlace
  <1>2. PayloadIndex(c, R) = p * (R + 1) + (c % R)
    BY PayloadPlace
  <1>3. BitmapIndex(b, R) = q * (R + 1) + R
    BY DEF BitmapIndex
  <1> HIDE DEF p, q
  <1>4. IsBitmapIndex(BitmapIndex(b, R), R)
    <2> DEFINE n == R + 1
               m == BitmapIndex(b, R)
    <2>1. n \in Nat \ {0} /\ R \in 0 .. n - 1 /\ m = q * n + R
      BY <1>3
    <2> HIDE DEF n, m
    <2>2. m \in Nat
      BY <1>1, <2>1
    <2>3. m % n = R
      BY <1>1, <2>1, <2>2, DivMod
    <2> QED
      BY <2>3 DEF IsBitmapIndex, n, m
  <1>5. p * (R + 1) \in Nat /\ q * (R + 1) \in Nat
    BY <1>1
  <1>6. ASSUME p =< q PROVE PayloadIndex(c, R) < BitmapIndex(b, R)
    <2>1. p * (R + 1) =< q * (R + 1)
      BY <1>1, <1>6
    <2> QED
      BY <2>1, <1>1, <1>2, <1>3, <1>5
  <1>7. ASSUME p > q PROVE PayloadIndex(c, R) > BitmapIndex(b, R)
    <2>1. (q + 1) * (R + 1) =< p * (R + 1)
      BY <1>1, <1>7
    <2>2. (q + 1) * (R + 1) = q * (R + 1) + R + 1
      BY <1>1
    <2>3. PayloadIndex(c, R) \in Int /\ PayloadIndex(c, R) >= p * (R + 1)
      BY <1>1, <1>2, <1>5
    <2>4. q * (R + 1) + R < (q + 1) * (R + 1)
      BY <2>2, <1>5
    <2>5. (q + 1) * (R + 1) \in Int
      BY <1>1
    <2> QED
      BY <2>1, <2>3, <2>4, <2>5, <1>3, <1>5
  <1> QED
    BY <1>4, <1>6, <1>7 DEF p, q

(***************************************************************************)
(* Two blocks never share an entry of the BAT.                             *)
(***************************************************************************)
THEOREM PayloadIndexUnique ==
  \A R \in Nat \ {0}, b \in Nat, c \in Nat :
    PayloadIndex(b, R) = PayloadIndex(c, R) => b = c
  <1> TAKE R \in Nat \ {0}, b \in Nat, c \in Nat
  <1>1. /\ PayloadIndex(b, R) \div (R + 1) = b \div R
        /\ PayloadIndex(c, R) \div (R + 1) = c \div R
        /\ PayloadIndex(b, R) % (R + 1) = b % R
        /\ PayloadIndex(c, R) % (R + 1) = c % R
    BY PayloadDivision
  <1>2. b = (b \div R) * R + (b % R)
    BY DivisionOf
  <1>4. c = (c \div R) * R + (c % R)
    BY DivisionOf
  <1>3. ASSUME PayloadIndex(b, R) = PayloadIndex(c, R) PROVE b = c
    <2>1. b \div R = c \div R /\ b % R = c % R
      BY <1>1, <1>3
    <2> QED
      BY <1>2, <1>4, <2>1
  <1> QED
    BY <1>3
-----------------------------------------------------------------------------
\* Rounding up a quotient.
LEMMA CeilDivBound ==
  ASSUME NEW a \in Nat, NEW n \in Nat \ {0}
  PROVE  CeilDiv(a, n) \in Nat /\ CeilDiv(a, n) * n >= a
  <1> DEFINE q == (a + n - 1) \div n
  <1>1. q \in Nat /\ a + n - 1 < (q + 1) * n
    OBVIOUS
  <1>2. (q + 1) * n = q * n + n /\ q * n \in Nat
    BY <1>1
  <1> QED
    BY <1>1, <1>2 DEF CeilDiv

\* The region holds every entry, and each disk has a sector bitmap entry.
LEMMA RegionHolds ==
  ASSUME NEW d \in Sizes
  PROVE  /\ d.payloads \in Nat \ {0} /\ d.ratio \in Nat \ {0}
         /\ BitmapCount(d) \in Nat \ {0}
         /\ Total(d) \in Nat /\ Total(d) > d.payloads
         /\ Capacity(d) \in Nat /\ Total(d) =< Capacity(d)
  <1>1. d.payloads \in Nat \ {0} /\ d.ratio \in Nat \ {0} /\ EntriesPerMib \in Nat \ {0}
    BY LayoutConstants, FormatConstants
  <1>2. BitmapCount(d) \in Nat /\ BitmapCount(d) * d.ratio >= d.payloads
    BY <1>1, CeilDivBound DEF BitmapCount
  <1>3. BitmapCount(d) # 0
    BY <1>1, <1>2
  <1>4. Total(d) \in Nat /\ Total(d) > d.payloads
    BY <1>1, <1>2, <1>3 DEF Total
  <1> DEFINE n == CeilDiv(Total(d), EntriesPerMib)
  <1>5. n \in Nat /\ n * EntriesPerMib >= Total(d)
    BY <1>1, <1>4, CeilDivBound
  <1> HIDE DEF n
  <1>6. MibCount(d) \in Nat /\ MibCount(d) >= n
    BY <1>5 DEF MibCount, n
  <1>7. MibCount(d) * EntriesPerMib \in Nat /\ MibCount(d) * EntriesPerMib >= n * EntriesPerMib
    BY <1>1, <1>5, <1>6
  <1>8. n * EntriesPerMib \in Nat
    BY <1>1, <1>5
  <1> QED
    BY <1>1, <1>2, <1>3, <1>4, <1>5, <1>7, <1>8 DEF Capacity

\* The first chunk, while the loop runs.
FirstChunk ==
  fixed =>
    /\ \A k \in 0 .. i - 1 : k < disk.ratio => bat[k] = k
    /\ i =< disk.ratio => sbWritten = 0
    /\ i > disk.ratio => bat[disk.ratio] = NotPresent

\* The first chunk holds before the loop writes anything.
LEMMA LayoutInit == Init => TypeOK /\ FirstChunk
  <1> SUFFICES ASSUME Init PROVE TypeOK /\ FirstChunk
    OBVIOUS
  <1>1. disk \in Sizes /\ disk.ratio \in Nat \ {0} /\ Total(disk) \in Nat
    BY RegionHolds DEF Init
  <1> QED
    BY <1>1, LayoutConstants DEF Init, TypeOK, FirstChunk

\* Writing a payload entry or a bitmap entry keeps the first chunk right.
LEMMA LayoutStep == TypeOK /\ FirstChunk /\ [Next]_vars => TypeOK' /\ FirstChunk'
  <1> SUFFICES ASSUME TypeOK, FirstChunk, [Next]_vars PROVE TypeOK' /\ FirstChunk'
    OBVIOUS
  <1> DEFINE R == disk.ratio
  <1>1. /\ R \in Nat \ {0} /\ BitmapCount(disk) \in Nat \ {0}
        /\ Total(disk) \in Nat /\ Capacity(disk) \in Nat /\ Total(disk) =< Capacity(disk)
    BY RegionHolds DEF TypeOK
  <1>2. i \in Nat /\ sbWritten \in Nat /\ sbWritten =< i
    BY <1>1 DEF TypeOK
  <1>3. ASSUME Writing
        PROVE  i \in 0 .. Capacity(disk) - 1 /\ i + 1 \in 0 .. Total(disk)
    BY <1>1, <1>2, <1>3 DEF Writing
  <1>4. CASE WriteBitmap
    <2>1. TypeOK'
      <3>1. sbWritten + 1 \in 0 .. i + 1
        BY <1>2
      <3>2. bat' \in [0 .. Capacity(disk) - 1 -> Nat \cup {NotPresent}]
        BY <1>4, <1>3 DEF WriteBitmap, TypeOK
      <3> QED
        BY <1>4, <1>3, <3>1, <3>2 DEF WriteBitmap, TypeOK
    <2>2. ASSUME fixed PROVE i >= R
      <3>1. CASE i < R
        <4>1. sbWritten = 0
          BY <3>1, <2>2, <1>1, <1>2 DEF FirstChunk
        <4>2. i > 0 /\ i % R = 0
          BY <4>1, <1>2, <1>4 DEF WriteBitmap, IsBitmap, PayloadsWritten
        <4>3. i % R = i
          BY <3>1, <1>1, <1>2
        <4> QED
          BY <4>2, <4>3
      <3> QED
        BY <3>1, <1>1, <1>2
    <2>3. FirstChunk'
      BY <1>1, <1>2, <1>3, <1>4, <2>2 DEF WriteBitmap, FirstChunk, TypeOK
    <2> QED
      BY <2>1, <2>3
  <1>5. CASE WritePayload
    <2>1. TypeOK'
      <3>1. sbWritten \in 0 .. i + 1 /\ PayloadsWritten \in Nat
        BY <1>2 DEF PayloadsWritten
      <3>2. bat' \in [0 .. Capacity(disk) - 1 -> Nat \cup {NotPresent}]
        BY <1>5, <1>3, <3>1 DEF WritePayload, TypeOK
      <3> QED
        BY <1>5, <1>3, <3>1, <3>2 DEF WritePayload, TypeOK
    <2>2. ASSUME fixed PROVE i # R
      <3>1. CASE i = R
        <4>1. sbWritten = 0
          BY <3>1, <2>2, <1>1 DEF FirstChunk
        <4>2. i % R = 0
          BY <3>1, <1>1
        <4>3. PayloadsWritten = i
          BY <4>1, <1>2 DEF PayloadsWritten
        <4>4. i > 0 /\ sbWritten < BitmapCount(disk)
          BY <4>1, <3>1, <1>1
        <4>5. IsBitmap
          BY <4>2, <4>3, <4>4 DEF IsBitmap
        <4> QED
          BY <4>5, <1>5 DEF WritePayload
      <3> QED
        BY <3>1
    <2>3. fixed /\ i < R => PayloadsWritten = i
      BY <1>1, <1>2 DEF FirstChunk, PayloadsWritten
    <2>4. FirstChunk'
      BY <1>1, <1>2, <1>3, <1>5, <2>2, <2>3 DEF WritePayload, FirstChunk, TypeOK
    <2> QED
      BY <2>1, <2>4
  <1>6. CASE UNCHANGED vars
    BY <1>6 DEF vars, TypeOK, FirstChunk
  <1> QED
    BY <1>4, <1>5, <1>6 DEF Next

\* What the invariant says of the first chunk, as the reader sees it.
LEMMA FirstChunkFollows == TypeOK /\ FirstChunk => FirstChunkAgrees
  <1> SUFFICES ASSUME TypeOK, FirstChunk, Created PROVE
           /\ \A b \in Payloads : b < disk.ratio => bat[PayloadIndex(b, disk.ratio)] = b
           /\ disk.payloads >= disk.ratio => bat[BitmapIndex(0, disk.ratio)] = NotPresent
    BY DEF FirstChunkAgrees
  <1>1. /\ disk.payloads \in Nat \ {0} /\ disk.ratio \in Nat \ {0}
        /\ Total(disk) \in Nat /\ Total(disk) > disk.payloads
    BY RegionHolds DEF TypeOK
  <1>2. fixed /\ i \in Nat /\ i > disk.payloads
    BY <1>1 DEF Created, TypeOK
  <1>3. ASSUME NEW b \in Payloads, b < disk.ratio
        PROVE  bat[PayloadIndex(b, disk.ratio)] = b
    <2>1. b \in Nat /\ b \div disk.ratio = 0
      BY <1>1, <1>3 DEF Payloads
    <2> QED
      <3>1. PayloadIndex(b, disk.ratio) = b /\ b \in 0 .. i - 1
        BY <2>1, <1>1, <1>2 DEF PayloadIndex, Payloads
      <3> QED
        BY <3>1, <1>2, <1>3 DEF FirstChunk
  <1>4. BitmapIndex(0, disk.ratio) = disk.ratio
    BY <1>1 DEF BitmapIndex
  <1> QED
    BY <1>1, <1>2, <1>3, <1>4 DEF FirstChunk

(***************************************************************************)
(* On every fixed disk the creator and the reader agree on the blocks of   *)
(* the first chunk (write_bat_entries against resolve_bat_entry_for_block).*)
(***************************************************************************)
THEOREM FirstChunkRight == Spec => []FirstChunkAgrees
  BY FirstChunkFollows, LayoutInit, LayoutStep, PTL DEF Spec

\* The entries of each whole chunk, and the payload entries of the last one,
\* are among those the creator counts.
LEMMA IndexBounds ==
  ASSUME NEW n \in Nat \ {0}, NEW R \in Nat \ {0}, NEW b \in 0 .. n - 1
  PROVE  /\ PayloadIndex(b, R) \in Nat /\ BitmapIndex(b, R) \in Nat
         /\ PayloadIndex(b, R) < n + CeilDiv(n, R)
         /\ (b \div R + 1) * R =< n => BitmapIndex(b, R) < n + CeilDiv(n, R)
  <1> DEFINE q == b \div R
             k == CeilDiv(n, R)
  <1>1. q \in Nat /\ b = q * R + (b % R) /\ b % R \in 0 .. R - 1 /\ q * R \in Nat
    <2>1. q \in Nat /\ b = q * R + (b % R) /\ b % R \in 0 .. R - 1
      BY DivisionOf
    <2> QED
      BY <2>1
  <1>2. k \in Nat /\ k * R >= n
    BY CeilDivBound
  <1>3. PayloadIndex(b, R) = b + q /\ BitmapIndex(b, R) = q * (R + 1) + R
    BY Zenon DEF PayloadIndex, BitmapIndex
  <1> HIDE DEF q, k
  <1>4. q < k
    <2>1. SUFFICES ASSUME k =< q PROVE FALSE
      BY <1>1, <1>2
    <2>2. k * R =< q * R
      BY <1>1, <1>2, <2>1
    <2>3. k * R \in Nat
      BY <1>2
    <2> QED
      BY <1>1, <1>2, <2>2, <2>3
  <1>5. PayloadIndex(b, R) < n + k
    BY <1>1, <1>2, <1>3, <1>4
  <1>6. ASSUME (q + 1) * R =< n PROVE BitmapIndex(b, R) < n + k
    <2>1. (q + 1) * R = q * R + R /\ q * (R + 1) = q * R + q
      BY <1>1
    <2> QED
      BY <1>1, <1>2, <1>3, <1>4, <1>6, <2>1
  <1>7. q * (R + 1) \in Nat
    BY <1>1
  <1>8. PayloadIndex(b, R) \in Nat /\ BitmapIndex(b, R) \in Nat
    BY <1>1, <1>3, <1>7
  <1> QED
    BY <1>5, <1>6, <1>8 DEF q, k

\* The region is large enough, whatever the entries hold.
LEMMA RegionFollows == TypeOK => EntriesInRegion
  <1> SUFFICES ASSUME TypeOK, NEW b \in Payloads
               PROVE  /\ PayloadIndex(b, disk.ratio) < Capacity(disk)
                      /\ (b \div disk.ratio + 1) * disk.ratio =< disk.payloads =>
                           BitmapIndex(b, disk.ratio) < Capacity(disk)
    BY DEF EntriesInRegion
  <1> DEFINE R == disk.ratio
             n == disk.payloads
  <1>1. /\ n \in Nat \ {0} /\ R \in Nat \ {0} /\ b \in 0 .. n - 1
        /\ Total(disk) \in Nat /\ Capacity(disk) \in Nat /\ Total(disk) =< Capacity(disk)
    BY RegionHolds DEF TypeOK, Payloads
  <1>2. Total(disk) = n + CeilDiv(n, R)
    BY DEF Total, BitmapCount
  <1>3. /\ PayloadIndex(b, R) \in Nat /\ BitmapIndex(b, R) \in Nat
        /\ PayloadIndex(b, R) < n + CeilDiv(n, R)
        /\ (b \div R + 1) * R =< n => BitmapIndex(b, R) < n + CeilDiv(n, R)
    BY <1>1, IndexBounds
  <1> HIDE DEF R, n
  <1>5. /\ PayloadIndex(b, R) < Capacity(disk)
        /\ (b \div R + 1) * R =< n => BitmapIndex(b, R) < Capacity(disk)
    BY <1>1, <1>2, <1>3
  <1> QED
    BY <1>5 DEF R, n

(***************************************************************************)
(* For every disk the BAT region that calculate_bat_size makes room for    *)
(* holds the payload entry of every block and the sector bitmap entry of   *)
(* every whole chunk.                                                      *)
(***************************************************************************)
THEOREM RegionLargeEnough == Spec => []EntriesInRegion
  BY RegionFollows, LayoutInit, LayoutStep, PTL DEF Spec
-----------------------------------------------------------------------------
(* Each place is given once: PlacesGiven counts what the loop has done.    *)

\* The first n places are each named by one entry, one of those written.
GivenOnce(f, n) ==
  \A b \in 0 .. n - 1 :
    \E k \in DOMAIN f : f[k] = b /\ \A l \in DOMAIN f : f[l] = b => l = k

PlacesGiven ==
  /\ sbWritten =< BitmapCount(disk)
  /\ \A k \in DOMAIN bat : bat[k] = NotPresent \/ bat[k] < PayloadsWritten
  /\ \A k \in DOMAIN bat : k >= i => bat[k] = NotPresent
  /\ GivenOnce(bat, PayloadsWritten)

LEMMA PlacesInit == Init => PlacesGiven
  <1> SUFFICES ASSUME Init PROVE PlacesGiven
    OBVIOUS
  <1>1. BitmapCount(disk) \in Nat
    BY RegionHolds DEF Init
  <1>2. PayloadsWritten = 0
    BY DEF Init, PayloadsWritten
  <1> QED
    BY <1>1, <1>2 DEF Init, PlacesGiven, GivenOnce

\* Writing an entry behind the others names one more place, or none.
LEMMA PlacesStep == TypeOK /\ PlacesGiven /\ [Next]_vars => PlacesGiven'
  <1> SUFFICES ASSUME TypeOK, PlacesGiven, [Next]_vars PROVE PlacesGiven'
    OBVIOUS
  <1> DEFINE D == 0 .. Capacity(disk) - 1
             n == PayloadsWritten
  <1>1. /\ BitmapCount(disk) \in Nat \ {0} /\ Total(disk) \in Nat
        /\ Capacity(disk) \in Nat /\ Total(disk) =< Capacity(disk)
    BY RegionHolds DEF TypeOK
  <1>2. i \in Nat /\ sbWritten \in Nat /\ sbWritten =< i /\ n \in Nat /\ n = i - sbWritten
    BY <1>1 DEF TypeOK, PayloadsWritten
  <1>3. DOMAIN bat = D /\ bat \in [D -> Nat \cup {NotPresent}] /\ NotPresent = -1
    BY DEF TypeOK, NotPresent
  <1>4. ASSUME Writing PROVE i \in D /\ bat[i] = NotPresent
    BY <1>1, <1>2, <1>3, <1>4 DEF Writing, PlacesGiven
  <1>5. CASE WriteBitmap
    <2>1. /\ bat' = [bat EXCEPT ![i] = NotPresent] /\ i' = i + 1
          /\ sbWritten' = sbWritten + 1 /\ sbWritten < BitmapCount(disk) /\ disk' = disk
      BY <1>5 DEF WriteBitmap, IsBitmap
    <2>2. bat' = bat
      BY <1>3, <1>4, <1>5, <2>1 DEF WriteBitmap
    <2>3. PayloadsWritten' = n
      BY <1>2, <2>1 DEF PayloadsWritten
    <2>4. sbWritten' =< BitmapCount(disk)'
      BY <1>1, <1>2, <2>1
    <2>5. \A k \in DOMAIN bat : k >= i' => bat[k] = NotPresent
      BY <1>2, <1>3, <2>1 DEF PlacesGiven
    <2> HIDE DEF n
    <2> QED
      BY <2>2, <2>3, <2>4, <2>5 DEF PlacesGiven, n
  <1>6. CASE WritePayload
    <2>1. /\ bat' = [bat EXCEPT ![i] = n] /\ i' = i + 1
          /\ sbWritten' = sbWritten /\ disk' = disk
      BY <1>6 DEF WritePayload
    <2>2. i \in D /\ bat[i] = NotPresent /\ DOMAIN bat' = D
      BY <1>3, <1>4, <1>6, <2>1 DEF WritePayload
    <2>3. bat'[i] = n /\ \A k \in D : k # i => bat'[k] = bat[k]
      BY <1>3, <2>1, <2>2
    <2>4. PayloadsWritten' = n + 1
      BY <1>2, <2>1 DEF PayloadsWritten
    <2>5. \A k \in D : bat[k] = NotPresent \/ bat[k] < n
      BY <1>3 DEF PlacesGiven
    <2>6. \A k \in D : bat[k] # n
      BY <1>2, <1>3, <2>5
    <2>7. \A k \in D : bat'[k] = NotPresent \/ bat'[k] < n + 1
      BY <1>2, <1>3, <2>3, <2>5
    <2>8. \A k \in D : k >= i + 1 => bat'[k] = NotPresent
      BY <1>2, <1>3, <2>3 DEF PlacesGiven
    <2>9. GivenOnce(bat', n + 1)
      <3> SUFFICES ASSUME NEW b \in 0 .. n
                   PROVE  \E k \in D : bat'[k] = b /\ \A l \in D : bat'[l] = b => l = k
        BY <1>2, <2>2 DEF GivenOnce
      <3>1. CASE b = n
        BY <2>2, <2>3, <2>6, <3>1
      <3>2. CASE b # n
        <4>1. b \in 0 .. n - 1 /\ b # NotPresent
          BY <1>2, <1>3, <3>2
        <4>2. PICK k \in D : bat[k] = b /\ \A l \in D : bat[l] = b => l = k
          BY <1>3, <4>1 DEF PlacesGiven, GivenOnce
        <4>3. k # i
          BY <2>2, <4>1, <4>2
        <4> HIDE DEF D, n
        <4> QED
          BY <2>3, <3>2, <4>2, <4>3
      <3> QED
        BY <3>1, <3>2
    <2>10. sbWritten' =< BitmapCount(disk)'
      BY <2>1 DEF PlacesGiven
    <2> HIDE DEF D, n
    <2> QED
      BY <2>1, <2>2, <2>4, <2>7, <2>8, <2>9, <2>10 DEF PlacesGiven
  <1>7. CASE UNCHANGED vars
    BY <1>7 DEF vars, PlacesGiven, GivenOnce, PayloadsWritten
  <1> QED
    BY <1>5, <1>6, <1>7 DEF Next

\* When the loop ends it has given as many places as there are blocks.
LEMMA PlacesFollow == TypeOK /\ PlacesGiven => EveryPlaceOnce
  <1> SUFFICES ASSUME TypeOK, PlacesGiven, Created, NEW b \in Payloads
               PROVE  \E k \in DOMAIN bat : bat[k] = b /\ \A l \in DOMAIN bat : bat[l] = b => l = k
    BY DEF EveryPlaceOnce
  <1>1. /\ BitmapCount(disk) \in Nat /\ disk.payloads \in Nat
        /\ Total(disk) = disk.payloads + BitmapCount(disk)
    BY RegionHolds DEF TypeOK, Total
  <1>2. PayloadsWritten \in Int /\ PayloadsWritten >= disk.payloads
    BY <1>1 DEF TypeOK, Created, PlacesGiven, PayloadsWritten
  <1>3. b \in 0 .. PayloadsWritten - 1
    BY <1>1, <1>2 DEF Payloads
  <1> QED
    BY <1>3 DEF PlacesGiven, GivenOnce

(***************************************************************************)
(* A finished fixed disk has one entry, and only one, for each of its      *)
(* blocks (write_bat_entries), although not always the one the reader      *)
(* looks up.                                                               *)
(***************************************************************************)
THEOREM PlacesGivenOnce == Spec => []EveryPlaceOnce
  <1>1. TypeOK /\ FirstChunk /\ PlacesGiven /\ [Next]_vars => TypeOK' /\ FirstChunk' /\ PlacesGiven'
    BY LayoutStep, PlacesStep
  <1> QED
    BY <1>1, PlacesFollow, LayoutInit, PlacesInit, PTL DEF Spec

(* The type invariant of the loop of write_bat_entries.                    *)
THEOREM LayoutTypeCorrect == Spec => []TypeOK
  BY LayoutInit, LayoutStep, PTL DEF Spec
-----------------------------------------------------------------------------
(* Where the loop puts each block, whatever becomes of the creation.       *)

\* Entries of the first chunk name their own number, those behind the sector
\* bitmap entries, which follow it all at once, are that many too far on.
EntryPlaces ==
  LET R == disk.ratio
      C == BitmapCount(disk)
  IN  /\ ~fixed => i = 0
      /\ i =< R => sbWritten = 0
      /\ i > R /\ i =< R + C => sbWritten = i - R
      /\ i > R + C => sbWritten = C
      /\ \A k \in DOMAIN bat : bat[k] # NotPresent =>
           /\ fixed /\ k < Total(disk)
           /\ \/ k < R /\ bat[k] = k
              \/ k >= R + C /\ bat[k] = k - C

LEMMA EntriesInit == Init => EntryPlaces
  <1> SUFFICES ASSUME Init PROVE EntryPlaces
    OBVIOUS
  <1>1. disk.ratio \in Nat \ {0} /\ BitmapCount(disk) \in Nat \ {0}
    BY RegionHolds DEF Init
  <1> QED
    BY <1>1 DEF Init, EntryPlaces

\* The loop writes a sector bitmap entry just when it stands between the two.
LEMMA EntriesStep == TypeOK /\ EntryPlaces /\ [Next]_vars => EntryPlaces'
  <1> SUFFICES ASSUME TypeOK, EntryPlaces, [Next]_vars PROVE EntryPlaces'
    OBVIOUS
  <1> DEFINE R == disk.ratio
             C == BitmapCount(disk)
  <1>1. /\ R \in Nat \ {0} /\ C \in Nat \ {0} /\ Total(disk) \in Nat
        /\ Capacity(disk) \in Nat /\ Total(disk) =< Capacity(disk)
    BY RegionHolds DEF TypeOK
  <1>2. /\ i \in Nat /\ sbWritten \in Nat /\ sbWritten =< i
        /\ bat \in [0 .. Capacity(disk) - 1 -> Nat \cup {NotPresent}]
    BY <1>1 DEF TypeOK
  <1>3. PayloadsWritten = i - sbWritten
    BY DEF PayloadsWritten
  <1>4. R % R = 0 /\ \A n \in 1 .. R - 1 : n % R # 0
    BY <1>1
  <1>5. CASE WriteBitmap
    <2>1. /\ bat' = [bat EXCEPT ![i] = NotPresent] /\ i' = i + 1 /\ disk' = disk /\ fixed' = fixed
          /\ sbWritten' = sbWritten + 1 /\ fixed /\ i < Total(disk)
          /\ i - sbWritten > 0 /\ (i - sbWritten) % R = 0 /\ sbWritten < C
      BY <1>3, <1>5 DEF WriteBitmap, Writing, IsBitmap
    <2>2. i >= R
      <3> SUFFICES ASSUME i < R PROVE FALSE
        BY <1>1, <1>2
      <3>1. sbWritten = 0
        BY <1>1, <1>2 DEF EntryPlaces
      <3>2. i \in 1 .. R - 1 /\ i % R = 0
        BY <1>1, <1>2, <2>1, <3>1
      <3> QED
        BY <1>4, <3>2
    <2>3. i < R + C
      BY <1>1, <1>2, <2>1, <2>2 DEF EntryPlaces
    <2>4. sbWritten' = i' - R /\ i' > R /\ i' =< R + C /\ BitmapCount(disk)' = C
      <3>1. sbWritten = i - R
        BY <1>1, <1>2, <2>2, <2>3 DEF EntryPlaces
      <3>2. BitmapCount(disk)' = C
        BY <2>1
      <3> HIDE DEF R, C
      <3> QED
        BY <1>1, <1>2, <2>1, <2>2, <2>3, <3>1, <3>2
    <2>5. \A k \in DOMAIN bat : bat'[k] # NotPresent => bat'[k] = bat[k]
      BY <1>2, <2>1
    <2>6. DOMAIN bat' = DOMAIN bat
      BY <1>2, <2>1
    <2> QED
      BY <1>1, <1>2, <2>1, <2>4, <2>5, <2>6 DEF EntryPlaces
  <1>6. CASE WritePayload
    <2>1. /\ bat' = [bat EXCEPT ![i] = i - sbWritten] /\ i' = i + 1 /\ disk' = disk /\ fixed' = fixed
          /\ sbWritten' = sbWritten /\ fixed /\ i < Total(disk)
          /\ ~(i - sbWritten > 0 /\ (i - sbWritten) % R = 0 /\ sbWritten < C)
      BY <1>3, <1>6 DEF WritePayload, Writing, IsBitmap
    <2>2. i < R \/ i >= R + C
      <3> SUFFICES ASSUME i >= R, i < R + C PROVE FALSE
        BY <1>1, <1>2
      <3>1. sbWritten = i - R
        BY <1>1, <1>2 DEF EntryPlaces
      <3>2. i - sbWritten = R /\ sbWritten < C
        BY <1>1, <1>2, <3>1
      <3> QED
        BY <1>1, <1>4, <2>1, <3>2
    <2>3. (i < R => sbWritten = 0) /\ (i >= R + C => sbWritten = C)
      BY <1>1, <1>2 DEF EntryPlaces
    <2>4. /\ i' =< R => sbWritten' = 0
          /\ i' > R /\ i' =< R + C => sbWritten' = i' - R
          /\ i' > R + C => sbWritten' = C
      BY <1>1, <1>2, <2>1, <2>2, <2>3
    <2>5. i \in DOMAIN bat /\ DOMAIN bat' = DOMAIN bat
      BY <1>1, <1>2, <2>1
    <2>6. \A k \in DOMAIN bat : k # i => bat'[k] = bat[k]
      BY <1>2, <2>1
    <2>7. bat'[i] = i - sbWritten
      BY <1>2, <2>1, <2>5
    <2>8. \A k \in DOMAIN bat : bat'[k] # NotPresent =>
            /\ fixed /\ k < Total(disk)
            /\ \/ k < R /\ bat'[k] = k
               \/ k >= R + C /\ bat'[k] = k - C
      <3> TAKE k \in DOMAIN bat
      <3>1. CASE k = i
        BY <1>1, <1>2, <2>1, <2>2, <2>3, <2>7, <3>1
      <3>2. CASE k # i
        BY <2>6, <3>2 DEF EntryPlaces
      <3> QED
        BY <3>1, <3>2
    <2>9. BitmapCount(disk)' = C /\ Total(disk)' = Total(disk)
      BY <2>1
    <2> HIDE DEF R, C
    <2>10. disk'.ratio = R
      BY <2>1 DEF R
    <2> QED
      BY <2>1, <2>4, <2>5, <2>8, <2>9, <2>10, <1>2 DEF EntryPlaces
  <1>7. CASE UNCHANGED vars
    BY <1>7 DEF vars, EntryPlaces
  <1> QED
    BY <1>5, <1>6, <1>7 DEF Next

\* Where the reader looks up a block there is that block or nothing.
LEMMA BlockAtItsPlace ==
  TypeOK /\ EntryPlaces =>
    \A b \in Payloads : bat[PayloadIndex(b, disk.ratio)] # NotPresent =>
      fixed /\ bat[PayloadIndex(b, disk.ratio)] \in Payloads
  <1> SUFFICES ASSUME TypeOK, EntryPlaces, NEW b \in Payloads,
                      bat[PayloadIndex(b, disk.ratio)] # NotPresent
               PROVE  fixed /\ bat[PayloadIndex(b, disk.ratio)] \in Payloads
    OBVIOUS
  <1> DEFINE R == disk.ratio
             C == BitmapCount(disk)
             n == disk.payloads
             at == PayloadIndex(b, R)
  <1>1. /\ R \in Nat \ {0} /\ C \in Nat \ {0} /\ n \in Nat \ {0} /\ b \in 0 .. n - 1
        /\ Total(disk) = n + C /\ Capacity(disk) \in Nat /\ Total(disk) =< Capacity(disk)
    BY RegionHolds DEF TypeOK, Payloads, Total
  <1>2. at \in Nat /\ at < n + C
    BY <1>1, IndexBounds DEF BitmapCount
  <1>3. at \in DOMAIN bat
    BY <1>1, <1>2 DEF TypeOK
  <1>4. fixed /\ ((at < R /\ bat[at] = at) \/ (at >= R + C /\ bat[at] = at - C))
    <2>1. \A j \in DOMAIN bat : bat[j] # NotPresent =>
            fixed /\ ((j < R /\ bat[j] = j) \/ (j >= R + C /\ bat[j] = j - C))
      BY DEF EntryPlaces
    <2>2. bat[at] # NotPresent
      OBVIOUS
    <2> HIDE DEF at, R, C
    <2> QED
      BY <1>3, <2>1, <2>2
  <1>5. at = b + b \div R /\ b \div R \in Nat
    <2>1. b \in Nat /\ R \in Nat \ {0}
      BY <1>1
    <2> HIDE DEF R
    <2>2. b \div R \in Nat
      BY <2>1, DivisionOf
    <2> QED
      BY <2>2 DEF PayloadIndex
  <1>6. at < R => at \in Payloads
    <2>1. ASSUME at < R PROVE b \div R = 0
      <3>1. b < R /\ b \in Nat
        <4> HIDE DEF at, R
        <4> QED
          BY <1>1, <1>5, <2>1
      <3> QED
        BY <1>1, <3>1
    <2>2. ASSUME at < R PROVE at = b
      BY <1>1, <1>5, <2>1, <2>2
    <2> QED
      BY <2>2
  <1>7. at >= R + C => at - C \in Payloads
    BY <1>1, <1>2 DEF Payloads
  <1> HIDE DEF R, C, n, at
  <1>8. fixed /\ bat[at] \in Payloads
    BY <1>4, <1>6, <1>7
  <1> QED
    BY <1>8 DEF at, R
-----------------------------------------------------------------------------
(* What stands where in the metadata of a new file.                        *)

ItemCount == IF o.parent = "none" THEN 5 ELSE 6

LEMMA ItemsStored ==
  /\ ItemCount \in {5, 6} /\ DOMAIN NewItems = 1 .. ItemCount
  /\ NewItems[1].id = "FileParameters"     /\ NewItems[1].len = 8
  /\ NewItems[2].id = "VirtualDiskSize"    /\ NewItems[2].len = 8
  /\ NewItems[3].id = "VirtualDiskId"      /\ NewItems[3].len = 16
  /\ NewItems[4].id = "LogicalSectorSize"  /\ NewItems[4].len = 4
  /\ NewItems[5].id = "PhysicalSectorSize" /\ NewItems[5].len = 4
  /\ ItemCount = 6 => NewItems[6].id = "ParentLocator" /\ NewItems[6].len = 184
  <1>1. LocatorLen = 184
    BY DEF LocatorLen, Bytes, PathChars
  <1>2. CASE o.parent = "none"
    BY <1>2 DEF NewItems, ItemCount
  <1>3. CASE o.parent # "none"
    BY <1>1, <1>3 DEF NewItems, ItemCount
  <1> QED
    BY <1>2, <1>3

LEMMA ItemsHold ==
  /\ NewItems[1].data.word = o.block
  /\ "parent" \in NewItems[1].data.flags <=> o.parent # "none"
  /\ "reserved" \notin NewItems[1].data.flags
  /\ NewItems[2].data.word = o.size
  /\ NewItems[4].data.word = o.lss
  /\ ItemCount = 6 => NewItems[6].data.kv = NewLocator
  <1> DEFINE F == (IF o.fixed THEN {"leave"} ELSE {}) \cup (IF o.parent # "none" THEN {"parent"} ELSE {})
             D(x) == [Zeros EXCEPT !.word = x]
             P == [Zeros EXCEPT !.word = o.block, !.flags = F]
             L == [Zeros EXCEPT !.kv = NewLocator]
  <1>1. /\ NewItems[1].data = P /\ NewItems[2].data = D(o.size) /\ NewItems[4].data = D(o.lss)
        /\ ItemCount = 6 => NewItems[6].data = L
    <2> HIDE DEF F, D, P, L
    <2>1. CASE o.parent = "none"
      BY <2>1 DEF NewItems, ItemCount, P, D, F
    <2>2. CASE o.parent # "none"
      BY <2>2 DEF NewItems, ItemCount, P, D, F, L
    <2> QED
      BY <2>1, <2>2
  <1>2. P.word = o.block /\ P.flags = F /\ L.kv = NewLocator /\ \A x : D(x).word = x
    BY DEF Zeros
  <1>3. ("parent" \in F <=> o.parent # "none") /\ "reserved" \notin F
    OBVIOUS
  <1> HIDE DEF F, D, P, L
  <1> QED
    BY <1>1, <1>2, <1>3

\* rel_metadata_offset, for all items: the recursion is over six numbers only.
LEMMA ItemPlaces ==
  /\ ItemAt[1] = TableSize      /\ ItemAt[2] = TableSize + 8  /\ ItemAt[3] = TableSize + 16
  /\ ItemAt[4] = TableSize + 32 /\ ItemAt[5] = TableSize + 36 /\ ItemAt[6] = TableSize + 40
  <1> DEFINE g == [k \in 1 .. 6 |-> CASE k = 1 -> TableSize [] k = 2 -> TableSize + 8
                                      [] k = 3 -> TableSize + 16 [] k = 4 -> TableSize + 32
                                      [] k = 5 -> TableSize + 36 [] k = 6 -> TableSize + 40]
             Sums(h) == [k \in 1 .. 6 |-> IF k = 1 THEN TableSize ELSE h[k - 1] + NewItems[k - 1].len]
  <1>1. TableSize \in Nat
    BY FormatConstants
  <1>2. /\ NewItems[1].len = 8 /\ NewItems[2].len = 8 /\ NewItems[3].len = 16
        /\ NewItems[4].len = 4 /\ NewItems[5].len = 4
    BY ItemsStored
  <1>3. g = Sums(g)
    <2>1. /\ g[1] = TableSize      /\ g[2] = TableSize + 8  /\ g[3] = TableSize + 16
          /\ g[4] = TableSize + 32 /\ g[5] = TableSize + 36 /\ g[6] = TableSize + 40
      OBVIOUS
    <2> DEFINE At(k) == IF k = 1 THEN TableSize ELSE g[k - 1] + NewItems[k - 1].len
    <2>2. g[1] = At(1)
      BY <2>1
    <2>3. g[2] = At(2)
      BY <1>1, <1>2, <2>1
    <2>4. g[3] = At(3)
      BY <1>1, <1>2, <2>1
    <2>5. g[4] = At(4)
      BY <1>1, <1>2, <2>1
    <2>6. g[5] = At(5)
      BY <1>1, <1>2, <2>1
    <2>7. g[6] = At(6)
      BY <1>1, <1>2, <2>1
    <2> HIDE DEF At
    <2>8. \A k \in 1 .. 6 : g[k] = At(k)
      <3> TAKE k \in 1 .. 6
      <3>1. k = 1 \/ k = 2 \/ k = 3 \/ k = 4 \/ k = 5 \/ k = 6
        OBVIOUS
      <3> HIDE DEF g
      <3> QED
        BY <2>2, <2>3, <2>4, <2>5, <2>6, <2>7, <3>1
    <2>9. g = [k \in 1 .. 6 |-> g[k]]
      OBVIOUS
    <2>10. Sums(g) = [k \in 1 .. 6 |-> At(k)]
      BY DEF At
    <2> HIDE DEF g, Sums
    <2> QED
      BY <2>8, <2>9, <2>10
  <1>4. \E h : h = Sums(h)
    BY <1>3
  <1>5. ItemAt = Sums(ItemAt)
    BY <1>4 DEF ItemAt
  <1>6. \A k \in 1 .. 6 : ItemAt[k] = IF k = 1 THEN TableSize ELSE ItemAt[k - 1] + NewItems[k - 1].len
    BY <1>5
  <1>7. /\ ItemAt[1] = TableSize                    /\ ItemAt[2] = ItemAt[1] + NewItems[1].len
        /\ ItemAt[3] = ItemAt[2] + NewItems[2].len  /\ ItemAt[4] = ItemAt[3] + NewItems[3].len
        /\ ItemAt[5] = ItemAt[4] + NewItems[4].len  /\ ItemAt[6] = ItemAt[5] + NewItems[5].len
    BY <1>6
  <1> QED
    BY <1>1, <1>2, <1>7

\* An entry is found by a GUID that no other one has.
LEMMA FoundById ==
  ASSUME NEW s, NEW n \in Nat, DOMAIN s = 1 .. n, NEW k \in 1 .. n,
         \A j \in 1 .. n : s[j].id = s[k].id => j = k
  PROVE  Has(s, s[k].id) /\ Find(s, s[k].id) = s[k]
  <1>1. Has(s, s[k].id)
    BY DEF Has
  <1> DEFINE First(j) == s[j].id = s[k].id /\ \A l \in 1 .. j - 1 : s[l].id # s[k].id
  <1>2. First(k)
    OBVIOUS
  <1>3. \A j \in 1 .. n : First(j) => j = k
    OBVIOUS
  <1>4. (CHOOSE j \in DOMAIN s : First(j)) = k
    BY <1>2, <1>3
  <1> QED
    BY <1>1, <1>4 DEF Find
-----------------------------------------------------------------------------
(* Reading a file of which all that describes the disk is there.           *)

LEMMA RegionPlaces ==
  TypeOK => /\ MibCount(disk) \in Nat \ {0} /\ BatAtMib = 4
            /\ MetadataAt = 4 + MibCount(disk) * 2 /\ MetadataAt \in Nat /\ MetadataAt >= 6
  <1> SUFFICES ASSUME TypeOK PROVE MibCount(disk) \in Nat \ {0}
    BY DEF BatAtMib, MetadataAt, Mib
  <1>1. Total(disk) \in Nat /\ EntriesPerMib \in Nat \ {0}
    BY RegionHolds, FormatConstants DEF TypeOK
  <1>2. CeilDiv(Total(disk), EntriesPerMib) \in Nat
    BY <1>1, CeilDivBound
  <1> QED
    BY <1>2 DEF MibCount

LEMMA RegionsFound ==
  /\ DOMAIN RegionTable = 1 .. 2
  /\ Has(RegionTable, "bat") /\ Find(RegionTable, "bat") = RegionTable[1]
  /\ Has(RegionTable, "metadata") /\ Find(RegionTable, "metadata") = RegionTable[2]
  <1>1. DOMAIN RegionTable = 1 .. 2 /\ RegionTable[1].id = "bat" /\ RegionTable[2].id = "metadata"
    BY DEF RegionTable
  <1>2. \A k \in 1 .. 2 : Has(RegionTable, RegionTable[k].id) /\ Find(RegionTable, RegionTable[k].id) = RegionTable[k]
    <2> TAKE k \in 1 .. 2
    <2>1. \A j \in 1 .. 2 : RegionTable[j].id = RegionTable[k].id => j = k
      BY <1>1
    <2> HIDE DEF Has, Find
    <2> QED
      BY <1>1, <2>1, FoundById
  <1> QED
    BY <1>1, <1>2

\* What the file must hold, and how long it must be, to say what disk it is.
Whole(f) ==
  /\ CurrentTable(f).entries = RegionTable
  /\ f.meta.at = MetadataAt /\ f.meta.entries = NewTable /\ f.meta.items = NewItemData
  /\ f.size \in Nat /\ f.size >= MetadataAt + Mib

WholeItems(m) == m.entries = NewTable /\ m.items = NewItemData /\ m.len = 2 * HalfMib

LEMMA MetadataIsRead ==
  ASSUME TypeOK, NEW f, Whole(f)
  PROVE  MetadataReadable(f) /\ WholeItems(Metadata(f)) /\ (f.meta.sig => Metadata(f).sig)
  <1>1. /\ Has(CurrentTable(f).entries, "metadata")
        /\ Find(CurrentTable(f).entries, "metadata") = RegionTable[2]
    BY RegionsFound DEF Whole
  <1>2. RegionTable[2].off = MetadataAt /\ RegionTable[2].len = Mib /\ Mib = 2
    BY DEF RegionTable, Mib
  <1>3. MetadataReadable(f)
    BY <1>1, <1>2, RegionPlaces, FormatConstants DEF MetadataReadable, Whole
  <1> DEFINE m == Metadata(f)
             here == RegionTable[2].off = f.meta.at
  <1>4. /\ m.sig = (here /\ f.meta.sig) /\ m.len = RegionTable[2].len * HalfMib
        /\ m.entries = (IF here THEN f.meta.entries ELSE <<>>)
        /\ m.items = (IF here THEN f.meta.items ELSE <<>>)
    BY <1>1 DEF Metadata
  <1>5. here /\ f.meta.entries = NewTable /\ f.meta.items = NewItemData
    BY <1>2 DEF Whole
  <1>6. m.entries = NewTable /\ m.items = NewItemData
    BY <1>4, <1>5
  <1>7. m.len = 2 * HalfMib
    BY <1>2, <1>4
  <1>8. f.meta.sig => m.sig
    BY <1>4, <1>5
  <1> QED
    BY <1>3, <1>6, <1>7, <1>8 DEF WholeItems

LEMMA TableOfItems ==
  /\ DOMAIN NewTable = 1 .. ItemCount
  /\ \A k \in 1 .. ItemCount :
       /\ NewTable[k].id = NewItems[k].id /\ NewTable[k].off = ItemAt[k] /\ NewTable[k].len = NewItems[k].len
       /\ NewTable[k].required = TRUE /\ NewTable[k].reserved = FALSE
  BY ItemsStored DEF NewTable

\* The items' lengths are fixed but for the sixth, which may not be there.
Lengths == <<8, 8, 16, 4, 4, 184>>

LEMMA ItemExtent ==
  \A k \in 1 .. ItemCount :
    /\ k \in 1 .. 6 /\ NewItems[k].len = Lengths[k]
    /\ ItemAt[k] \in Nat /\ ItemAt[k] >= TableSize /\ ItemAt[k] + Lengths[k] =< 2 * HalfMib
  <1> TAKE k \in 1 .. ItemCount
  <1>1. k \in 1 .. 6 /\ (k = 6 => ItemCount = 6)
    BY ItemsStored
  <1>2. NewItems[k].len = Lengths[k]
    BY <1>1, ItemsStored DEF Lengths
  <1>3. ItemAt[k] \in Nat /\ ItemAt[k] >= TableSize /\ ItemAt[k] + Lengths[k] =< 2 * HalfMib
    BY <1>1, ItemPlaces, FormatConstants DEF Lengths, Mib
  <1> QED
    BY <1>1, <1>2, <1>3

LEMMA ItemsApart ==
  \A j \in 1 .. ItemCount : \A k \in 1 .. ItemCount :
    /\ NewItems[j].id = NewItems[k].id => j = k
    /\ ItemAt[j] = ItemAt[k] => j = k
    /\ j < k => ItemAt[j] + NewItems[j].len =< ItemAt[k]
  <1> TAKE j \in 1 .. ItemCount
  <1> TAKE k \in 1 .. ItemCount
  <1>1. j \in 1 .. 6 /\ k \in 1 .. 6 /\ (j = 6 \/ k = 6 => ItemCount = 6)
    BY ItemsStored
  <1>2. NewItems[j].id = NewItems[k].id => j = k
    <2> DEFINE ids == <<"FileParameters", "VirtualDiskSize", "VirtualDiskId",
                        "LogicalSectorSize", "PhysicalSectorSize", "ParentLocator">>
    <2>1. NewItems[j].id = ids[j] /\ NewItems[k].id = ids[k]
      BY <1>1, ItemsStored
    <2>2. ids[j] = ids[k] => j = k
      BY <1>1
    <2> QED
      BY <2>1, <2>2
  <1>3. ItemAt[j] = ItemAt[k] => j = k
    BY <1>1, ItemPlaces, FormatConstants
  <1>4. j < k => ItemAt[j] + NewItems[j].len =< ItemAt[k]
    <2>1. NewItems[j].len = Lengths[j]
      BY ItemExtent
    <2>2. j < k => ItemAt[j] + Lengths[j] =< ItemAt[k]
      BY <1>1, ItemPlaces, FormatConstants DEF Lengths
    <2> QED
      BY <2>1, <2>2
  <1> QED
    BY <1>2, <1>3, <1>4

LEMMA ItemIsRead ==
  ASSUME NEW m, WholeItems(m), NEW k \in 1 .. ItemCount
  PROVE  /\ Has(m.entries, NewItems[k].id) /\ Find(m.entries, NewItems[k].id) = NewTable[k]
         /\ ItemData(m, NewItems[k].id) = [ok |-> TRUE, len |-> NewItems[k].len, data |-> NewItems[k].data]
  <1>1. NewTable[k].id = NewItems[k].id /\ NewTable[k].off = ItemAt[k] /\ NewTable[k].len = NewItems[k].len
    BY TableOfItems
  <1>2. Has(NewTable, NewItems[k].id) /\ Find(NewTable, NewItems[k].id) = NewTable[k]
    <2>1. \A j \in 1 .. ItemCount : NewTable[j].id = NewTable[k].id => j = k
      BY TableOfItems, ItemsApart
    <2>2. ItemCount \in Nat /\ DOMAIN NewTable = 1 .. ItemCount
      BY ItemsStored, TableOfItems
    <2> QED
      BY <1>1, <2>1, <2>2, FoundById
  <1>3. ItemAt[k] \in DOMAIN NewItemData /\ NewItemData[ItemAt[k]] = NewItems[k].data
    <2>1. DOMAIN NewItems = 1 .. ItemCount
      BY ItemsStored
    <2>2. (CHOOSE j \in DOMAIN NewItems : ItemAt[j] = ItemAt[k]) = k
      BY <2>1, ItemsApart
    <2> QED
      BY <2>1, <2>2 DEF NewItemData
  <1> DEFINE e == Find(m.entries, NewItems[k].id)
  <1>4. Has(m.entries, NewItems[k].id) /\ e = NewTable[k] /\ m.len = 2 * HalfMib /\ m.items = NewItemData
    BY <1>2 DEF WholeItems
  <1>5. e.off = ItemAt[k] /\ e.len = Lengths[k] /\ Lengths[k] > 0 /\ Lengths[k] \in Nat
        /\ ~(e.off + e.len > m.len)
    <2>1. k \in 1 .. 6 /\ NewItems[k].len = Lengths[k] /\ ItemAt[k] \in Nat
         /\ ItemAt[k] + Lengths[k] =< 2 * HalfMib /\ HalfMib \in Nat
      BY ItemExtent, FormatConstants
    <2>2. Lengths[k] > 0 /\ Lengths[k] \in Nat
      BY <2>1 DEF Lengths
    <2> HIDE DEF e
    <2> QED
      BY <1>1, <1>4, <2>1, <2>2
  <1>6. ItemData(m, NewItems[k].id) =
          CASE e.len = 0 -> [Missing EXCEPT !.ok = TRUE]
            [] e.len > 0 /\ e.off + e.len > m.len -> Missing
            [] OTHER -> [ok |-> TRUE, len |-> e.len,
                         data |-> IF e.off \in DOMAIN m.items THEN m.items[e.off] ELSE Zeros]
    BY <1>4 DEF ItemData
  <1> HIDE DEF e
  <1>7. e.len # 0
    BY <1>5
  <1>8. ItemData(m, NewItems[k].id) =
          [ok |-> TRUE, len |-> e.len, data |-> IF e.off \in DOMAIN m.items THEN m.items[e.off] ELSE Zeros]
    BY <1>5, <1>6, <1>7
  <1>9. ItemData(m, NewItems[k].id) = [ok |-> TRUE, len |-> NewItems[k].len, data |-> NewItems[k].data]
    BY <1>1, <1>3, <1>4, <1>5, <1>8
  <1> QED
    BY <1>2, <1>4, <1>9 DEF e, WholeItems
\* Where nothing is stored there are only zeros to read.
LEMMA NothingStored ==
  ASSUME NEW m, NEW id, m.entries = <<>> \/ m.items = <<>>
  PROVE  ItemData(m, id).data = Zeros
  <1>1. Missing.data = Zeros /\ [Missing EXCEPT !.ok = TRUE].data = Zeros
    BY DEF Missing
  <1>2. m.entries = <<>> => ~Has(m.entries, id)
    BY DEF Has
  <1> HIDE DEF Missing
  <1>3. CASE ~Has(m.entries, id)
    BY <1>1, <1>3 DEF ItemData
  <1>4. CASE Has(m.entries, id)
    <2> DEFINE e == Find(m.entries, id)
               D == IF e.off \in DOMAIN m.items THEN m.items[e.off] ELSE Zeros
    <2>1. ItemData(m, id) =
            CASE e.len = 0 -> [Missing EXCEPT !.ok = TRUE]
              [] e.len > 0 /\ e.off + e.len > m.len -> Missing
              [] OTHER -> [ok |-> TRUE, len |-> e.len, data |-> D]
      BY <1>4 DEF ItemData
    <2>2. D = Zeros
      BY <1>2, <1>4
    <2> HIDE DEF e, D
    <2> QED
      BY <1>1, <2>1, <2>2
  <1> QED
    BY <1>3, <1>4

\* The options are valid, and the disk is the one they ask for.
Sound == TypeOK /\ o \in Options /\ Valid(o) /\ disk = DiskOf(o) /\ fixed = o.fixed

LEMMA SoundOptions ==
  Sound => /\ o.size \in Nat \ {0} /\ o.block \in Nat \ {0} /\ o.lss \in {1, LargeSector} /\ o.size % o.lss = 0
           /\ o.fixed \in BOOLEAN /\ o.parent \in {"none", "guid 1", "guid 2"}
           /\ disk.payloads = CeilDiv(o.size, o.block * SectorsPerMib)
           /\ disk.ratio = ChunkRatio(o.block, o.lss)
           /\ disk.payloads \in Nat \ {0} /\ disk.ratio \in Nat \ {0}
  <1> SUFFICES ASSUME Sound PROVE
        /\ o.size \in Nat \ {0} /\ o.block \in Nat \ {0} /\ o.lss \in {1, LargeSector} /\ o.size % o.lss = 0
        /\ o.fixed \in BOOLEAN /\ o.parent \in {"none", "guid 1", "guid 2"}
        /\ disk.payloads = CeilDiv(o.size, o.block * SectorsPerMib)
        /\ disk.ratio = ChunkRatio(o.block, o.lss)
        /\ disk.payloads \in Nat \ {0} /\ disk.ratio \in Nat \ {0}
    OBVIOUS
  <1>1. /\ o \in [size : Nat, block : Nat, lss : Nat, pss : Nat, fixed : BOOLEAN,
                  parent : {"none", "guid 1", "guid 2"}]
    BY CreateConstants DEF Sound
  <1>2. o.size # 0 /\ o.size % o.lss = 0 /\ o.block \in PowersOfTwo /\ o.lss \in SectorSizes
    BY DEF Sound, Valid
  <1>3. disk.payloads \in Nat \ {0} /\ disk.ratio \in Nat \ {0}
    BY RegionHolds DEF Sound, TypeOK
  <1>4. /\ disk.payloads = CeilDiv(o.size, o.block * SectorsPerMib)
        /\ disk.ratio = ChunkRatio(o.block, o.lss)
    BY DEF Sound, DiskOf
  <1>5. /\ o.size \in Nat /\ o.block \in Nat /\ o.fixed \in BOOLEAN
        /\ o.parent \in {"none", "guid 1", "guid 2"}
    BY <1>1
  <1>6. o.block # 0 /\ o.lss \in {1, LargeSector}
    BY <1>2 DEF PowersOfTwo, SectorSizes
  <1> QED
    BY <1>2, <1>3, <1>4, <1>5, <1>6

\* The four numbers that describe the disk, as the readers of the items see them.
LEMMA NumbersRead ==
  ASSUME NEW m, WholeItems(m)
  PROVE  /\ FileParameters(m).ok /\ FileParameters(m).block = o.block
         /\ "parent" \in FileParameters(m).flags <=> o.parent # "none"
         /\ "reserved" \notin FileParameters(m).flags
         /\ \A k \in 2 .. 5 : ~NumberMissing(m, NewItems[k].id)
         /\ ItemData(m, "VirtualDiskSize").data.word = o.size
         /\ SectorSize(m) = o.lss
         /\ ~NumberMissing(m, "FileParameters") /\ ItemData(m, "FileParameters").data.word = o.block
         /\ ItemData(m, "LogicalSectorSize").data.word = o.lss
  <1>1. \A k \in 1 .. 5 :
          ItemData(m, NewItems[k].id) = [ok |-> TRUE, len |-> NewItems[k].len, data |-> NewItems[k].data]
    BY ItemIsRead, ItemsStored
  <1>2. /\ ItemData(m, "FileParameters") = [ok |-> TRUE, len |-> 8, data |-> NewItems[1].data]
        /\ ItemData(m, "VirtualDiskSize") = [ok |-> TRUE, len |-> 8, data |-> NewItems[2].data]
        /\ ItemData(m, "VirtualDiskId") = [ok |-> TRUE, len |-> 16, data |-> NewItems[3].data]
        /\ ItemData(m, "LogicalSectorSize") = [ok |-> TRUE, len |-> 4, data |-> NewItems[4].data]
        /\ ItemData(m, "PhysicalSectorSize") = [ok |-> TRUE, len |-> 4, data |-> NewItems[5].data]
    BY <1>1, ItemsStored
  <1>3. /\ ~NumberMissing(m, "FileParameters") /\ ~NumberMissing(m, "VirtualDiskSize")
        /\ ~NumberMissing(m, "VirtualDiskId") /\ ~NumberMissing(m, "LogicalSectorSize")
        /\ ~NumberMissing(m, "PhysicalSectorSize")
    BY <1>2 DEF NumberMissing, Width
  <1>4. \A k \in 2 .. 5 : ~NumberMissing(m, NewItems[k].id)
    BY <1>3, ItemsStored
  <1>5. FileParameters(m) = [ok |-> TRUE, block |-> NewItems[1].data.word, flags |-> NewItems[1].data.flags]
    <2> DEFINE d == ItemData(m, "FileParameters")
    <2>1. d.ok = TRUE /\ d.len >= Width("FileParameters") /\ d.data = NewItems[1].data
      BY <1>2 DEF Width
    <2>2. FileParameters(m) =
            [ok |-> d.ok,
             block |-> IF d.len >= Width("FileParameters") THEN d.data.word ELSE 0,
             flags |-> IF d.len >= Width("FileParameters") THEN d.data.flags ELSE {}]
      BY DEF FileParameters
    <2> HIDE DEF d
    <2> QED
      BY <2>1, <2>2
  <1>6. SectorSize(m) = NewItems[4].data.word
    BY <1>2, <1>3 DEF SectorSize
  <1> QED
    BY <1>2, <1>3, <1>4, <1>5, <1>6, ItemsHold

LEMMA ParamsRead ==
  ASSUME Sound, NEW f, Whole(f)
  PROVE  IoStarts(f) /\ IoParams(f) = Wanted
  <1>1. MetadataReadable(f) /\ WholeItems(Metadata(f))
    BY MetadataIsRead DEF Sound
  <1> DEFINE m == Metadata(f)
  <1>2. /\ FileParameters(m).block = o.block /\ SectorSize(m) = o.lss
        /\ "parent" \in FileParameters(m).flags <=> o.parent # "none"
        /\ ItemData(m, "VirtualDiskSize").data.word = o.size
    BY <1>1, NumbersRead
  <1>3. ~NumberMissing(m, "VirtualDiskSize")
    BY <1>1, NumbersRead, ItemsStored
  <1>4. IoStarts(f)
    <2>1. o.block \in Nat \ {0} /\ o.lss \in {1, LargeSector}
      BY SoundOptions
    <2>2. o.block # 0 /\ o.lss # 0
      BY <2>1, FormatConstants
    <2> QED
      BY <1>1, <1>2, <1>3, <2>2 DEF IoStarts
  <1> HIDE DEF m
  <1>5. IoParams(f) = [block |-> o.block, lss |-> o.lss, size |-> o.size,
                       ratio |-> ChunkRatio(o.block, o.lss), parent |-> o.parent # "none"]
    BY <1>2 DEF IoParams, m
  <1> QED
    BY <1>4, <1>5, SoundOptions DEF Wanted
\* The first block lies behind the metadata, and the file ends behind the last.
LEMMA SizeHolds ==
  Sound => /\ FirstPayload \in Nat /\ FirstPayload * Mib >= MetadataAt + Mib
           /\ FileSize \in Nat /\ FileSize >= MetadataAt + Mib
  <1> SUFFICES ASSUME Sound
               PROVE  /\ FirstPayload \in Nat /\ FirstPayload * Mib >= MetadataAt + Mib
                      /\ FileSize \in Nat /\ FileSize >= MetadataAt + Mib
    OBVIOUS
  <1> DEFINE B == o.block
             P == disk.payloads
             u == CeilDiv(MetadataAt + Mib, Mib)
             v == CeilDiv(u, B)
  <1>1. B \in Nat \ {0} /\ P \in Nat
    BY SoundOptions
  <1>2. Mib = 2 /\ MetadataAt \in Nat
    BY RegionPlaces DEF Mib, Sound
  <1>3. u \in Nat /\ u * 2 >= MetadataAt + Mib
    <2>1. MetadataAt + Mib \in Nat /\ 2 \in Nat \ {0}
      BY <1>2
    <2> QED
      BY <1>2, <2>1, CeilDivBound
  <1> HIDE DEF B, P, u
  <1>4. v \in Nat /\ v * B >= u
    BY <1>1, <1>3, CeilDivBound
  <1>5. FirstPayload = v * B
    BY DEF FirstPayload, u, B
  <1> HIDE DEF v
  <1>6. FirstPayload \in Nat /\ FirstPayload * Mib >= MetadataAt + Mib
    <2>1. v * B \in Nat
      BY <1>1, <1>4
    <2> QED
      BY <1>2, <1>3, <1>4, <1>5, <2>1
  <1>7. P * B \in Nat
    BY <1>1
  <1>8. FileSize = IF o.fixed THEN (FirstPayload + P * B) * Mib ELSE MetadataAt + Mib
    BY DEF FileSize, P, B
  <1> QED
    BY <1>2, <1>6, <1>7, <1>8

\* A block that is present lies behind the metadata and before the file's end.
LEMMA BlocksLie ==
  ASSUME Sound, EntryPlaces, "len" \in pieces
  PROVE  BlocksInFile(File)
  <1> SUFFICES ASSUME NEW b \in Payloads, File.bat.entries[PayloadIndex(b, disk.ratio)] # 0
               PROVE  LET place == File.bat.entries[PayloadIndex(b, disk.ratio)]
                      IN  place * Mib >= MetadataAt + Mib /\ (place + o.block) * Mib =< File.size
    BY DEF BlocksInFile
  <1> DEFINE at == PayloadIndex(b, disk.ratio)
             B == o.block
             P == disk.payloads
             F == FirstPayload
  <1>1. /\ B \in Nat \ {0} /\ P \in Nat \ {0} /\ F \in Nat /\ Mib = 2
        /\ F * Mib >= MetadataAt + Mib /\ MetadataAt \in Nat
    BY SoundOptions, SizeHolds, RegionPlaces DEF Mib, Sound
  <1>2. at \in DOMAIN bat
    <2>1. /\ disk.ratio \in Nat \ {0} /\ P \in Nat \ {0} /\ b \in 0 .. P - 1
          /\ Total(disk) = P + CeilDiv(P, disk.ratio)
          /\ Capacity(disk) \in Nat /\ Total(disk) =< Capacity(disk) /\ Total(disk) \in Nat
      BY RegionHolds DEF Sound, TypeOK, Payloads, Total, BitmapCount
    <2>2. at \in Nat /\ at < P + CeilDiv(P, disk.ratio)
      BY <2>1, IndexBounds
    <2> HIDE DEF at, P
    <2>3. at \in 0 .. Capacity(disk) - 1
      BY <2>1, <2>2
    <2> QED
      BY <2>3 DEF Sound, TypeOK
  <1>3. File.bat.entries[at] = IF bat[at] = NotPresent THEN 0 ELSE F + bat[at] * B
    BY <1>2 DEF File
  <1>4. fixed /\ bat[at] \in Payloads
    <2>1. bat[at] # NotPresent
      BY <1>3
    <2> QED
      BY <2>1, BlockAtItsPlace DEF Sound
  <1> DEFINE q == bat[at]
  <1>5. q \in 0 .. P - 1 /\ q # NotPresent
    BY <1>1, <1>4 DEF Payloads, NotPresent
  <1>6. File.size = (F + P * B) * Mib
    BY <1>4 DEF File, Extent, FileSize, Sound
  <1>7. File.bat.entries[at] = F + q * B
    BY <1>3, <1>5
  <1> HIDE DEF q, B, P, F, at
  <1>8. q * B \in Nat /\ q * B + B =< P * B /\ P * B \in Nat
    <2>1. q \in Nat /\ q + 1 =< P
      BY <1>1, <1>5
    <2>2. (q + 1) * B =< P * B
      BY <1>1, <2>1
    <2>3. (q + 1) * B = q * B + B /\ q * B \in Nat /\ P * B \in Nat
      BY <1>1, <2>1
    <2> QED
      BY <2>2, <2>3
  <1>9. (F + q * B) * Mib >= MetadataAt + Mib /\ (F + q * B + B) * Mib =< (F + P * B) * Mib
    BY <1>1, <1>8
  <1> QED
    BY <1>6, <1>7, <1>9 DEF at, B

\* What is in the file when an open gets as far as the parameters of I/O.
LEMMA WholeIfRead ==
  ASSUME Sound, CurrentIndex(File.hdr) # 0, CurrentTable(File).ok, IoStarts(File)
  PROVE  "len" \in pieces /\ Whole(File)
  <1> DEFINE T == [ok |-> TRUE, entries |-> RegionTable]
  <1>1. CurrentTable(File).entries = RegionTable
    <2>1. CurrentIndex(File.hdr) \in {1, 2}
      BY DEF CurrentIndex
    <2>2. \A s \in {1, 2} : File.rt[s] = T \/ File.rt[s] = NoTable
      <3>1. File.rt = <<IF "r1" \in pieces THEN T ELSE NoTable, IF "r2" \in pieces THEN T ELSE NoTable>>
        BY DEF File
      <3> HIDE DEF T
      <3> QED
        BY <3>1
    <2>3. CurrentTable(File) = T \/ CurrentTable(File) = NoTable
      BY <2>1, <2>2 DEF CurrentTable
    <2> QED
      BY <2>3 DEF NoTable
  <1>2. MetadataReadable(File) /\ FileParameters(Metadata(File)).block # 0
    BY DEF IoStarts
  <1>3. MetadataAt \in Nat /\ MetadataAt >= 6 /\ Mib = 2 /\ FileSize \in Nat /\ FileSize >= MetadataAt + Mib
    BY RegionPlaces, SizeHolds DEF Sound, Mib
  <1>4. Find(CurrentTable(File).entries, "metadata") = RegionTable[2]
    BY <1>1, RegionsFound
  <1>5. RegionTable[2].off = MetadataAt /\ RegionTable[2].len = Mib
    BY DEF RegionTable
  <1>6. "len" \in pieces /\ File.size = FileSize
    <2>1. MetadataAt + Mib =< File.size
      BY <1>2, <1>4, <1>5 DEF MetadataReadable
    <2>2. File.size = Extent
      BY DEF File
    <2>3. Extent = FileSize \/ Extent = MetadataAt + 1 \/ Extent = 1
      BY DEF Extent
    <2>4. "len" \in pieces
      BY <1>3, <2>1, <2>2 DEF Extent
    <2> QED
      BY <2>2, <2>4 DEF Extent
  <1> DEFINE m == Metadata(File)
  <1>7. /\ File.meta.at = MetadataAt
        /\ File.meta.entries = IF "table" \in pieces THEN NewTable ELSE <<>>
        /\ File.meta.items = IF "items" \in pieces THEN NewItemData ELSE <<>>
    BY DEF File
  <1>8. m.entries = File.meta.entries /\ m.items = File.meta.items
    BY <1>4, <1>5, <1>7 DEF Metadata
  <1>9. "table" \in pieces /\ "items" \in pieces
    <2>1. SUFFICES ASSUME "table" \notin pieces \/ "items" \notin pieces PROVE FALSE
      OBVIOUS
    <2>2. m.entries = <<>> \/ m.items = <<>>
      BY <1>7, <1>8, <2>1
    <2> HIDE DEF m
    <2>3. ItemData(m, "FileParameters").data.word = 0
      BY <2>2, NothingStored DEF Zeros
    <2>4. FileParameters(m).block = 0
      BY <2>3 DEF FileParameters
    <2> QED
      BY <1>2, <2>4 DEF m
  <1> QED
    BY <1>1, <1>3, <1>6, <1>7, <1>9 DEF Whole
-----------------------------------------------------------------------------
(* The invariant of a creation.                                            *)

\* The pieces that are in the file when the next one is written.
PiecesAt(p) ==
  CASE p = "h1" -> {"fti"}
    [] p = "h2" -> {"fti", "h1"}
    [] p = "r1" -> {"fti", "h1", "h2"}
    [] p = "r2" -> {"fti", "h1", "h2", "r1"}
    [] p = "len" -> {"fti", "h1", "h2", "r1", "r2"}
    [] p \in {"bat", "table"} -> {"fti", "h1", "h2", "r1", "r2", "len"}
    [] p = "items" -> {"fti", "h1", "h2", "r1", "r2", "len", "table"}
    [] p \in {"sync", "done"} -> {"fti", "h1", "h2", "r1", "r2", "len", "table", "items"}
    [] OTHER -> {}

CreateInv ==
  /\ TypeOK /\ FirstChunk /\ EntryPlaces
  /\ IF pc = "lost" THEN i = 0 ELSE PlacesGiven
  /\ o \in Options /\ fixed = o.fixed
  /\ Valid(o) => disk = DiskOf(o)
  /\ pc \in Steps \cup {"start", "refused", "done", "damaged", "failed", "lost"}
  /\ pc \notin {"start", "refused"} => Valid(o)
  /\ PiecesAt(pc) \subseteq pieces

LEMMA CreateInitial == CreateInit => CreateInv
  <1> SUFFICES ASSUME CreateInit PROVE CreateInv
    OBVIOUS
  <1>1. Init /\ pc = "start" /\ o \in Options /\ fixed = o.fixed
    BY DEF CreateInit
  <1>2. TypeOK /\ FirstChunk /\ EntryPlaces /\ PlacesGiven
    BY <1>1, LayoutInit, EntriesInit, PlacesInit
  <1>3. Valid(o) => disk = DiskOf(o)
    BY DEF CreateInit
  <1>4. PiecesAt(pc) = {}
    BY <1>1 DEF PiecesAt
  <1> QED
    BY <1>1, <1>2, <1>3, <1>4 DEF CreateInv

\* No step but a power loss does more to the table than the loop does.
LEMMA LoopStep ==
  ASSUME CreateInv, [Next]_vars, pc # "lost", pc' # "lost", o' = o
  PROVE  /\ TypeOK' /\ FirstChunk' /\ EntryPlaces'
         /\ IF pc' = "lost" THEN i' = 0 ELSE PlacesGiven'
         /\ o' \in Options /\ fixed' = o'.fixed /\ (Valid(o') => disk' = DiskOf(o'))
  <1>1. TypeOK' /\ FirstChunk' /\ EntryPlaces' /\ PlacesGiven'
    BY LayoutStep, EntriesStep, PlacesStep DEF CreateInv
  <1>2. fixed' = fixed /\ disk' = disk
    BY DEF Next, WriteBitmap, WritePayload, vars
  <1> QED
    BY <1>1, <1>2 DEF CreateInv

\* Writing a piece that is due, and going on to the next.
LEMMA PutStep ==
  ASSUME CreateInv, NEW p, NEW q, Put(p, q), p \in Steps, q \in Steps,
         PiecesAt(q) = PiecesAt(p) \cup {p}
  PROVE  CreateInv'
  <1>1. UNCHANGED vars /\ pc = p /\ pc' = q /\ o' = o /\ pieces' = pieces \cup {p}
    BY DEF Put
  <1>2. pc # "lost" /\ pc' # "lost" /\ pc \notin {"start", "refused"} /\ [Next]_vars
    BY <1>1 DEF Steps
  <1>3. PiecesAt(pc') \subseteq pieces'
    BY <1>1 DEF CreateInv
  <1> QED
    BY <1>1, <1>2, <1>3, LoopStep DEF CreateInv

LEMMA LossStep == CreateInv /\ PowerLoss => CreateInv'
  <1> SUFFICES ASSUME CreateInv, PowerLoss PROVE CreateInv'
    OBVIOUS
  <1>1. PICK K : bat' = [k \in DOMAIN bat |-> IF k \in K THEN bat[k] ELSE NotPresent]
    BY DEF PowerLoss
  <1>2. /\ i' = 0 /\ sbWritten' = 0 /\ disk' = disk /\ fixed' = fixed /\ o' = o /\ pc' = "lost"
        /\ pc \notin {"start", "refused"}
    BY DEF PowerLoss, Steps
  <1>3. /\ disk.ratio \in Nat \ {0} /\ BitmapCount(disk) \in Nat \ {0}
        /\ Total(disk) \in Nat /\ Capacity(disk) \in Nat
    BY RegionHolds DEF CreateInv, TypeOK
  <1>4. DOMAIN bat' = DOMAIN bat /\ \A k \in DOMAIN bat : bat'[k] # NotPresent => bat'[k] = bat[k]
    BY <1>1
  <1>5. TypeOK'
    <2>1. bat' \in [0 .. Capacity(disk) - 1 -> Nat \cup {NotPresent}]
      BY <1>1 DEF CreateInv, TypeOK
    <2> QED
      BY <1>2, <1>3, <2>1 DEF CreateInv, TypeOK
  <1>6. FirstChunk'
    BY <1>2, <1>3 DEF FirstChunk
  <1>7. EntryPlaces'
    BY <1>2, <1>3, <1>4 DEF CreateInv, EntryPlaces
  <1>8. PiecesAt(pc') \subseteq pieces'
    BY <1>2 DEF PiecesAt
  <1> QED
    BY <1>2, <1>5, <1>6, <1>7, <1>8 DEF CreateInv

LEMMA CreateStep == CreateInv /\ [CreateNext]_cvars => CreateInv'
  <1> SUFFICES ASSUME CreateInv, [CreateNext]_cvars PROVE CreateInv'
    OBVIOUS
  <1>1. CASE Validate
    <2>1. [Next]_vars /\ o' = o /\ pc = "start" /\ pieces' = pieces /\ pc' = IF Valid(o) THEN "fti" ELSE "refused"
      BY <1>1 DEF Validate
    <2>2. PiecesAt(pc') = {}
      BY <2>1 DEF PiecesAt
    <2> QED
      BY <2>1, <2>2, LoopStep DEF CreateInv, Steps
  <1>2. CASE WriteIdentifier \/ WriteHeaders \/ WriteTables \/ SetLength \/ WriteMetadata
    <2>1. CASE Put("fti", "h1")
      BY <2>1, PutStep DEF Steps, PiecesAt
    <2>2. CASE Put("h1", "h2")
      BY <2>2, PutStep DEF Steps, PiecesAt
    <2>3. CASE Put("h2", "r1")
      BY <2>3, PutStep DEF Steps, PiecesAt
    <2>4. CASE Put("r1", "r2")
      BY <2>4, PutStep DEF Steps, PiecesAt
    <2>5. CASE Put("r2", "len")
      BY <2>5, PutStep DEF Steps, PiecesAt
    <2>6. CASE Put("len", "bat")
      BY <2>6, PutStep DEF Steps, PiecesAt
    <2>7. CASE Put("table", "items")
      BY <2>7, PutStep DEF Steps, PiecesAt
    <2>8. CASE Put("items", "sync")
      BY <2>8, PutStep DEF Steps, PiecesAt
    <2> QED
      BY <1>2, <2>1, <2>2, <2>3, <2>4, <2>5, <2>6, <2>7, <2>8
         DEF WriteIdentifier, WriteHeaders, WriteTables, SetLength, WriteMetadata
  <1>3. CASE FillBat
    <2>1. [Next]_vars /\ o' = o /\ pc = "bat" /\ pc' = pc /\ pieces' = pieces
      BY <1>3 DEF FillBat
    <2> QED
      BY <2>1, LoopStep DEF CreateInv, Steps
  <1>4. CASE BatFilled \/ SyncFile \/ Fails \/ GoWrong
    <2>1. [Next]_vars /\ o' = o /\ pieces' = pieces /\ pc \in Steps \cup {"done"}
      BY <1>4 DEF BatFilled, SyncFile, Fails, GoWrong, Steps
    <2>2. \/ pc = "bat" /\ pc' = "table"
          \/ pc = "sync" /\ pc' = "done"
          \/ pc' \in {"failed", "damaged"}
      BY <1>4 DEF BatFilled, SyncFile, Fails, GoWrong
    <2>3. PiecesAt(pc') \subseteq PiecesAt(pc)
      BY <2>2 DEF PiecesAt
    <2> QED
      BY <2>1, <2>2, <2>3, LoopStep DEF CreateInv, Steps
  <1>5. CASE PowerLoss
    BY <1>5, LossStep
  <1>6. CASE UNCHANGED cvars
    <2>1. UNCHANGED vars /\ o' = o /\ pieces' = pieces /\ pc' = pc
      BY <1>6 DEF cvars, vars
    <2> QED
      BY <2>1 DEF CreateInv, vars, TypeOK, FirstChunk, EntryPlaces, PlacesGiven, GivenOnce, PayloadsWritten
  <1> QED
    BY <1>1, <1>2, <1>3, <1>4, <1>5, <1>6 DEF CreateNext

\* Whatever is opened, creation got as far as its first write.
LEMMA BegunIsSound == CreateInv /\ pc \notin {"start", "refused"} => Sound
  BY DEF CreateInv, Sound

(***************************************************************************)
(* The pieces of a creation (CreateOptions::finish) are written in order,  *)
(* and its BAT entries each stand where the loop put them, through every   *)
(* error and power loss.                                                   *)
(***************************************************************************)
THEOREM CreateInvariance == CreateSpec => []CreateInv
  BY CreateInitial, CreateStep, PTL DEF CreateSpec

(***************************************************************************)
(* What is proved above of the loop of write_bat_entries alone holds of it *)
(* within a creation too; a table that a power loss took is not complete.  *)
(***************************************************************************)
THEOREM LayoutInCreation ==
  CreateSpec => [](TypeOK /\ FirstChunkAgrees /\ EveryPlaceOnce /\ EntriesInRegion)
  <1>1. CreateInv => TypeOK /\ FirstChunkAgrees /\ EveryPlaceOnce /\ EntriesInRegion
    <2> SUFFICES ASSUME CreateInv PROVE TypeOK /\ FirstChunkAgrees /\ EveryPlaceOnce /\ EntriesInRegion
      OBVIOUS
    <2>1. TypeOK /\ FirstChunkAgrees /\ EntriesInRegion
      BY FirstChunkFollows, RegionFollows DEF CreateInv
    <2>2. CASE pc # "lost"
      BY <2>1, <2>2, PlacesFollow DEF CreateInv
    <2>3. CASE pc = "lost"
      <3>1. i = 0 /\ Total(disk) \in Nat \ {0}
        BY <2>1, <2>3, RegionHolds DEF CreateInv, TypeOK
      <3> QED
        BY <2>1, <3>1 DEF EveryPlaceOnce, Created
    <2> QED
      BY <2>2, <2>3
  <1> QED
    BY <1>1, CreateInvariance, PTL

(***************************************************************************)
(* What an error or a power loss leaves of a creation is refused by every  *)
(* open or is the disk that was asked for.                                 *)
(***************************************************************************)
THEOREM HalfCreatedIsHonest == CreateSpec => []HalfCreatedHonest
  <1>1. CreateInv => HalfCreatedHonest
    <2> SUFFICES ASSUME CreateInv, pc \in {"failed", "lost"},
                        Opens(File, FALSE, FALSE, "ReadOnlyNoReplay"), IoStarts(File)
                 PROVE  IoParams(File) = Wanted /\ BlocksInFile(File)
      BY DEF HalfCreatedHonest
    <2>1. Sound /\ EntryPlaces
      BY BegunIsSound DEF CreateInv
    <2>2. CurrentIndex(File.hdr) # 0 /\ CurrentTable(File).ok
      BY DEF Opens
    <2>3. "len" \in pieces /\ Whole(File)
      BY <2>1, <2>2, WholeIfRead
    <2> QED
      BY <2>1, <2>3, ParamsRead, BlocksLie
  <1> QED
    BY <1>1, CreateInvariance, PTL
-----------------------------------------------------------------------------
(* The validator against the open.                                         *)

(***************************************************************************)
(* Of every file, whoever wrote it: if the validator (SpecValidator), over *)
(* a loose read-only open, has no complaint, then OpenOptions::finish also *)
(* opens it strictly and for writing, and I/O starts but for the blind     *)
(* spots.                                                                  *)
(***************************************************************************)
THEOREM AcceptedFilesOpen ==
  \A f : Opens(f, FALSE, FALSE, "ReadOnlyNoReplay") /\ Accepts(f) =>
           /\ \A write \in BOOLEAN : Opens(f, write, TRUE, "Require")
           /\ IoStarts(f) \/ BlindSpot(f)
  <1> SUFFICES ASSUME NEW f, Opens(f, FALSE, FALSE, "ReadOnlyNoReplay"), Accepts(f)
               PROVE  /\ \A write \in BOOLEAN : Opens(f, write, TRUE, "Require")
                      /\ IoStarts(f) \/ BlindSpot(f)
    OBVIOUS
  <1> DEFINE es == CurrentTable(f).entries
  <1>1. MayReplaceHeader(f)
    BY DEF Accepts, ValidHeaders, ValidHeader, Slots, MayReplaceHeader
  <1>2. RegionsAccepted(es, TRUE)
    <2>1. \A k \in DOMAIN es : ValidRegion(es, k)
      BY DEF Accepts, ValidRegions
    <2> HIDE DEF es
    <2> QED
      BY <2>1 DEF ValidRegion, RegionsAccepted, Tolerated
  <1>3. Has(es, "metadata") => MetadataReadable(f)
    BY DEF Opens, MetadataAccepted
  <1>4. Has(es, "metadata") => SeenRegion(f, "metadata") /\ SeenMetadata(f) = Metadata(f)
    BY <1>3 DEF SeenRegion, SeenMetadata
  <1>5. MetadataAccepted(f, TRUE)
    <2> SUFFICES ASSUME Has(es, "metadata"), NEW k \in DOMAIN Metadata(f).entries
                 PROVE  Tolerated(Metadata(f).entries[k], KnownItems, TRUE)
      BY <1>3 DEF MetadataAccepted
    <2>1. ValidItem(Metadata(f).entries[k], Metadata(f).len)
      BY <1>4 DEF Accepts, ValidMetadata
    <2> QED
      BY <2>1 DEF ValidItem, Tolerated
  <1>6. \A write \in BOOLEAN : Opens(f, write, TRUE, "Require")
    BY <1>1, <1>2, <1>5 DEF Opens
  <1>7. IoStarts(f) \/ BlindSpot(f)
    <2> SUFFICES ASSUME ~BlindSpot(f) PROVE IoStarts(f)
      OBVIOUS
    <2>1. /\ Has(es, "metadata") /\ FileParameters(Metadata(f)).block # 0
          /\ SectorSize(Metadata(f)) # 0
      BY DEF BlindSpot
    <2>2. "VirtualDiskSize" \in KnownItems \ {"ParentLocator", "FileParameters"}
      BY DEF KnownItems
    <2>3. ~NumberMissing(Metadata(f), "VirtualDiskSize")
      BY <1>4, <2>1, <2>2 DEF Accepts, HasRequiredItems
    <2> QED
      BY <1>3, <2>1, <2>3 DEF IoStarts
  <1> QED
    BY <1>6, <1>7

(* So of every file that creation leaves, and of such a file damaged.      *)
THEOREM ValidatedFilesOpen == CreateSpec => []ValidatedOpens
  <1>1. ValidatedOpens
    BY AcceptedFilesOpen DEF ValidatedOpens
  <1> QED
    BY <1>1, PTL
-----------------------------------------------------------------------------
(* The file of a creation that succeeded.                                  *)

LEMMA DoneIsWhole ==
  ASSUME CreateInv, pc = "done"
  PROVE  /\ Sound /\ EntryPlaces /\ "len" \in pieces /\ Whole(File)
         /\ File.fti = TRUE /\ File.meta.sig = TRUE /\ File.size = FileSize
         /\ File.hdr = <<NewHeader(0), NewHeader(1)>>
         /\ \A s \in Slots : File.rt[s] = [ok |-> TRUE, entries |-> RegionTable]
         /\ CurrentIndex(File.hdr) = 2
  <1>1. Sound /\ EntryPlaces
    BY BegunIsSound DEF CreateInv
  <1>2. {"fti", "h1", "h2", "r1", "r2", "len", "table", "items"} \subseteq pieces
    BY DEF CreateInv, PiecesAt
  <1>3. /\ File.fti = TRUE /\ File.hdr = <<NewHeader(0), NewHeader(1)>>
        /\ File.rt = <<[ok |-> TRUE, entries |-> RegionTable], [ok |-> TRUE, entries |-> RegionTable]>>
        /\ File.meta = [at |-> MetadataAt, sig |-> TRUE, entries |-> NewTable, items |-> NewItemData]
        /\ File.size = FileSize
    BY <1>2 DEF File, Extent, SecondHeader
  <1>4. CurrentIndex(File.hdr) = 2
    BY <1>3 DEF CurrentIndex, NewHeader
  <1>5. \A s \in Slots : File.rt[s] = [ok |-> TRUE, entries |-> RegionTable]
    <2> DEFINE T == [ok |-> TRUE, entries |-> RegionTable]
    <2>1. File.rt = <<T, T>>
      BY <1>3
    <2> HIDE DEF T
    <2>2. \A s \in Slots : File.rt[s] = T
      BY <2>1 DEF Slots
    <2> QED
      BY <2>2 DEF T
  <1>6. Whole(File)
    BY <1>1, <1>3, <1>4, <1>5, SizeHolds DEF Whole, CurrentTable, Slots
  <1>7. File.meta.sig = TRUE /\ "len" \in pieces
    BY <1>2, <1>3
  <1> QED
    BY <1>1, <1>3, <1>4, <1>5, <1>6, <1>7

\* The parent locator, read back.
LEMMA LocatorIsRead ==
  ASSUME NEW d, d.len = 184, d.data.kv = NewLocator
  PROVE  /\ DOMAIN LocatorEntries(d) = {1, 2}
         /\ LocatorEntries(d)[1] = [koff |-> 44, klen |-> 28, voff |-> 72, vlen |-> 76]
         /\ LocatorEntries(d)[2] = [koff |-> 148, klen |-> 26, voff |-> 174, vlen |-> 10]
         /\ Text(d, 44, 28) = "parent_linkage" /\ Text(d, 72, 76) = o.parent
         /\ Text(d, 148, 26) = "relative_path" /\ Text(d, 174, 10) = "path"
  <1> DEFINE D == {<<44, 28>>, <<72, 76>>, <<148, 26>>, <<174, 10>>}
             G == [t \in D |-> CASE t[1] = 44 -> "parent_linkage" [] t[1] = 72 -> o.parent
                                 [] t[1] = 148 -> "relative_path" [] t[1] = 174 -> "path"]
             E == <<[koff |-> 44, klen |-> 28, voff |-> 72, vlen |-> 76],
                    [koff |-> 148, klen |-> 26, voff |-> 174, vlen |-> 10]>>
  <1>1. NewLocator = [entries |-> E, text |-> G]
    BY DEF NewLocator, Bytes, PathChars
  <1>2. d.data.kv.entries = E /\ d.data.kv.text = G
    BY <1>1
  <1>3. /\ DOMAIN LocatorEntries(d) = {1, 2}
        /\ LocatorEntries(d)[1] = E[1] /\ LocatorEntries(d)[2] = E[2]
    BY <1>2 DEF LocatorEntries
  <1>4. /\ G[<<44, 28>>] = "parent_linkage" /\ G[<<72, 76>>] = o.parent
        /\ G[<<148, 26>>] = "relative_path" /\ G[<<174, 10>>] = "path"
    OBVIOUS
  <1>5. \A t \in D : t[1] + t[2] =< 184 /\ t[2] % 2 = 0 /\ t[2] > 0
    OBVIOUS
  <1>6. DOMAIN G = D
    OBVIOUS
  <1> HIDE DEF G, D
  <1>7. ASSUME NEW a \in Nat, NEW n \in Nat, <<a, n>> \in D, a + n =< 184, n % 2 = 0, n > 0
        PROVE  Text(d, a, n) = G[<<a, n>>]
    <2>1. ~(a + n > d.len \/ n % 2 # 0) /\ n # 0
      BY <1>7
    <2>2. <<a, n>> \in DOMAIN d.data.kv.text
      BY <1>2, <1>6, <1>7
    <2> QED
      BY <1>2, <1>7, <2>1, <2>2 DEF Text
  <1>8. /\ Text(d, 44, 28) = G[<<44, 28>>] /\ Text(d, 72, 76) = G[<<72, 76>>]
        /\ Text(d, 148, 26) = G[<<148, 26>>] /\ Text(d, 174, 10) = G[<<174, 10>>]
    BY <1>7 DEF D
  <1> QED
    BY <1>3, <1>4, <1>8

\* The locator of a created file is the sixth item.
LEMMA LocatorIsFound ==
  ASSUME NEW m, WholeItems(m), o.parent # "none"
  PROVE  LET d == ItemData(m, "ParentLocator")
         IN  d.ok = TRUE /\ d.len = 184 /\ d.data.kv = NewLocator
  <1>1. ItemCount = 6 /\ 6 \in 1 .. ItemCount
    BY DEF ItemCount
  <1>2. NewItems[6].id = "ParentLocator" /\ NewItems[6].len = 184 /\ NewItems[6].data.kv = NewLocator
    BY <1>1, ItemsStored, ItemsHold
  <1>3. ItemData(m, NewItems[6].id) = [ok |-> TRUE, len |-> NewItems[6].len, data |-> NewItems[6].data]
    BY <1>1, ItemIsRead
  <1> QED
    BY <1>2, <1>3

(***************************************************************************)
(* A new differencing disk leads to the parent it was given                *)
(* (build_parent_locator against resolve_parent_path).                     *)
(***************************************************************************)
THEOREM ParentIsNamed == CreateSpec => []ParentNamed
  <1>1. CreateInv => ParentNamed
    <2> SUFFICES ASSUME CreateInv, pc = "done", o.parent # "none"
                 PROVE  LET d == ItemData(Metadata(File), "ParentLocator")
                            e == LocatorEntries(d)[1]
                        IN  ParentPath(d) = "path" /\ Text(d, e.voff, e.vlen) = o.parent
      BY DEF ParentNamed
    <2> DEFINE d == ItemData(Metadata(File), "ParentLocator")
    <2>1. WholeItems(Metadata(File))
      BY DoneIsWhole, MetadataIsRead DEF Sound
    <2>2. d.len = 184 /\ d.data.kv = NewLocator
      BY <2>1, LocatorIsFound
    <2> HIDE DEF d
    <2> DEFINE es == LocatorEntries(d)
    <2>3. /\ DOMAIN es = {1, 2}
          /\ es[1] = [koff |-> 44, klen |-> 28, voff |-> 72, vlen |-> 76]
          /\ es[2] = [koff |-> 148, klen |-> 26, voff |-> 174, vlen |-> 10]
          /\ Text(d, 44, 28) = "parent_linkage" /\ Text(d, 72, 76) = o.parent
          /\ Text(d, 148, 26) = "relative_path" /\ Text(d, 174, 10) = "path"
      BY <2>2, LocatorIsRead
    <2> HIDE DEF es
    <2> DEFINE Key(k) == Text(d, es[k].koff, es[k].klen)
               Value(k) == Text(d, es[k].voff, es[k].vlen)
               Given(n) == {k \in DOMAIN es : Key(k) = PathKeys[n]}
               First(n) == Given(n) # {} /\ \A j \in 1 .. n - 1 : Given(j) = {}
               Last(k) == \A j \in Given(1) : j =< k
    <2>4. /\ Key(1) = "parent_linkage" /\ Key(2) = "relative_path"
          /\ Value(1) = o.parent /\ Value(2) = "path"
      BY <2>3
    <2>5. Given(1) = {2} /\ Given(2) = {} /\ Given(3) = {} /\ DOMAIN PathKeys = 1 .. 3
      <3> HIDE DEF Key
      <3> QED
        BY <2>3, <2>4 DEF PathKeys
    <2>6. ParentPath(d) =
            IF \/ \E k \in DOMAIN es : Key(k) = "error"
               \/ \E n \in DOMAIN PathKeys : \E k \in Given(n) : Value(k) = "error"
               \/ \A n \in DOMAIN PathKeys : Given(n) = {}
            THEN "error"
            ELSE LET n == CHOOSE n \in DOMAIN PathKeys : First(n)
                     k == CHOOSE k \in Given(n) : \A j \in Given(n) : j =< k
                 IN  Value(k)
      BY DEF ParentPath, es
    <2> HIDE DEF Key, Value, Given
    <2>7. (CHOOSE n \in DOMAIN PathKeys : First(n)) = 1
      BY <2>5
    <2>8. (CHOOSE k \in Given(1) : Last(k)) = 2
      BY <2>5
    <2>9. ParentPath(d) = "path"
      BY <2>3, <2>4, <2>5, <2>6, <2>7, <2>8
    <2> QED
      BY <2>3, <2>9 DEF d, es
  <1> QED
    BY <1>1, CreateInvariance, PTL
LEMMA ItemsAreKnown == \A k \in DOMAIN NewTable : NewTable[k].id \in KnownItems
  <1> SUFFICES ASSUME NEW k \in 1 .. ItemCount PROVE NewItems[k].id \in KnownItems
    BY TableOfItems
  <1>1. k \in 1 .. 6 /\ (k = 6 => ItemCount = 6)
    BY ItemsStored
  <1> QED
    BY <1>1, ItemsStored DEF KnownItems
\* The two regions of a new file, against either side's checks.
LEMMA RegionsAreValid ==
  ASSUME TypeOK, NEW k \in DOMAIN RegionTable
  PROVE  ValidRegion(RegionTable, k)
  <1> DEFINE n == MibCount(disk)
             T == RegionTable
  <1>1. /\ T[1].off = 4 /\ T[1].len = n * 2 /\ T[1].id = "bat"
        /\ T[2].off = 4 + n * 2 /\ T[2].len = 2 /\ T[2].id = "metadata"
    BY RegionPlaces DEF RegionTable, Mib
  <1>2. n \in Nat \ {0} /\ k \in {1, 2} /\ Mib = 2
    BY RegionPlaces, RegionsFound DEF Mib
  <1> HIDE DEF n, T
  <1>3. (n * 2) % 2 = 0 /\ (4 + n * 2) % 2 = 0
    BY <1>2
  <1>4. CASE k = 1
    <2>1. T[k].id \in KnownRegions
      BY <1>1, <1>4 DEF KnownRegions
    <2>2. T[k].off % Mib = 0 /\ T[k].off >= Mib /\ T[k].len % Mib = 0
      BY <1>1, <1>2, <1>3, <1>4
    <2> QED
      BY <2>1, <2>2, <1>4 DEF ValidRegion, T
  <1>5. CASE k = 2
    <2>1. T[k].id \in KnownRegions
      BY <1>1, <1>5 DEF KnownRegions
    <2>2. T[k].off % Mib = 0 /\ T[k].off >= Mib /\ T[k].len % Mib = 0
      BY <1>1, <1>2, <1>3, <1>5
    <2>3. \A j \in 1 .. k - 1 : ~(T[k].off < T[j].off + T[j].len /\ T[j].off < T[k].off + T[k].len)
      BY <1>1, <1>2, <1>5
    <2> QED
      BY <2>1, <2>2, <2>3 DEF ValidRegion, T
  <1> QED
    BY <1>2, <1>4, <1>5

\* A file that is complete opens in every way.
LEMMA DoneOpens ==
  ASSUME CreateInv, pc = "done", NEW write \in BOOLEAN
  PROVE  Opens(File, write, TRUE, "Require")
  <1>1. /\ Sound /\ Whole(File) /\ File.fti = TRUE
        /\ File.hdr = <<NewHeader(0), NewHeader(1)>> /\ CurrentIndex(File.hdr) = 2
    BY DoneIsWhole
  <1>2. CurrentTable(File) = [ok |-> TRUE, entries |-> RegionTable]
    BY <1>1, DoneIsWhole DEF CurrentTable, Slots
  <1>3. MetadataReadable(File) /\ WholeItems(Metadata(File))
    BY <1>1, MetadataIsRead DEF Sound
  <1>4. File.size \in Nat /\ File.size >= 8 /\ Mib = 2
    BY <1>1, RegionPlaces DEF Whole, Sound, Mib
  <1>5. CurrentHeader(File) = NewHeader(1) /\ MayReplaceHeader(File)
    <2>1. File.hdr[1] = NewHeader(0) /\ File.hdr[2] = NewHeader(1)
      BY <1>1
    <2>2. NewHeader(0).ok /\ NewHeader(1).ok
      BY DEF NewHeader
    <2> QED
      BY <1>1, <2>1, <2>2 DEF CurrentHeader, MayReplaceHeader
  <1>6. /\ VersionSupported(CurrentHeader(File))
        /\ CurrentHeader(File).logOff + CurrentHeader(File).logLen =< File.size
    BY <1>4, <1>5 DEF NewHeader, VersionSupported, LogAt
  <1>7. RegionsAccepted(CurrentTable(File).entries, TRUE)
    <2>1. \A k \in DOMAIN RegionTable : ValidRegion(RegionTable, k)
      BY <1>1, RegionsAreValid DEF Sound
    <2> QED
      BY <1>2, <2>1 DEF ValidRegion, RegionsAccepted, Tolerated
  <1>8. MetadataAccepted(File, TRUE)
    <2>1. Metadata(File).entries = NewTable
      BY <1>3 DEF WholeItems
    <2>2. \A k \in DOMAIN NewTable : NewTable[k].id \in KnownItems
      BY ItemsAreKnown
    <2> QED
      BY <1>3, <2>1, <2>2 DEF MetadataAccepted, Tolerated
  <1>9. CurrentTable(File).ok /\ CurrentIndex(File.hdr) # 0 /\ File.size >= Mib
    BY <1>1, <1>2, <1>4
  <1>10. "Require" \notin {"InMemoryOnReadOnly", "ReadOnlyNoReplay"}
    OBVIOUS
  <1> QED
    BY <1>1, <1>5, <1>6, <1>7, <1>8, <1>9, <1>10 DEF Opens

\* The last sector that can be asked for is the last of the asked-for size.
LEMMA LastSector ==
  ASSUME Sound
  PROVE  (MaxSector(Wanted) + 1) * o.lss = o.size
  <1> DEFINE s == o.size
             w == o.lss
             n == s \div w
  <1>1. s \in Nat \ {0} /\ w \in {1, LargeSector} /\ s % w = 0
    BY SoundOptions
  <1>2. w \in Nat \ {0}
    BY <1>1, FormatConstants
  <1> HIDE DEF s, w
  <1>3. n \in Nat /\ s = n * w + (s % w)
    BY <1>1, <1>2, DivisionOf
  <1>4. s = n * w /\ n # 0
    BY <1>1, <1>2, <1>3
  <1>5. MaxSector(Wanted) = IF n = 0 THEN 0 ELSE n - 1
    BY DEF MaxSector, Wanted, s, w
  <1> HIDE DEF n
  <1>6. MaxSector(Wanted) + 1 = n
    BY <1>3, <1>4, <1>5
  <1> QED
    BY <1>4, <1>6 DEF s, w
\* What the validator sees of a whole file.
LEMMA SeenWhole ==
  ASSUME TypeOK, NEW f, Whole(f), f.meta.sig
  PROVE  /\ SeenRegion(f, "metadata") /\ SeenRegion(f, "bat")
         /\ WholeItems(SeenMetadata(f)) /\ SeenMetadata(f).sig
         /\ SeenWord(f, "FileParameters") = o.block /\ SeenWord(f, "LogicalSectorSize") = o.lss
         /\ SeenWord(f, "VirtualDiskSize") = o.size
         /\ (SeenParent(f) <=> o.parent # "none")
  <1>1. SeenRegion(f, "metadata") /\ SeenRegion(f, "bat")
    BY RegionsFound DEF SeenRegion, Whole
  <1>2. WholeItems(SeenMetadata(f)) /\ SeenMetadata(f).sig
    BY MetadataIsRead DEF SeenMetadata
  <1> DEFINE m == SeenMetadata(f)
  <1>3. /\ ~NumberMissing(m, "FileParameters") /\ ItemData(m, "FileParameters").data.word = o.block
        /\ ItemData(m, "LogicalSectorSize").data.word = o.lss
        /\ ItemData(m, "VirtualDiskSize").data.word = o.size
        /\ "parent" \in FileParameters(m).flags <=> o.parent # "none"
        /\ \A k \in 2 .. 5 : ~NumberMissing(m, NewItems[k].id)
    BY <1>2, NumbersRead
  <1>4. ~NumberMissing(m, "VirtualDiskSize") /\ ~NumberMissing(m, "LogicalSectorSize")
    BY <1>3, ItemsStored
  <1> QED
    BY <1>1, <1>2, <1>3, <1>4 DEF SeenWord, SeenParent

LEMMA DoneMetadataIsValid ==
  ASSUME TypeOK, NEW f, Whole(f), f.meta.sig
  PROVE  ValidMetadata(f) /\ HasRequiredItems(f)
  <1> DEFINE m == SeenMetadata(f)
  <1>1. SeenRegion(f, "metadata") /\ WholeItems(m) /\ m.sig /\ (SeenParent(f) <=> o.parent # "none")
    BY SeenWhole
  <1>2. m.entries = NewTable /\ m.len = 2 * HalfMib /\ DOMAIN NewTable = 1 .. ItemCount
    BY <1>1, TableOfItems DEF WholeItems
  <1> HIDE DEF m
  <1>3. \A k \in 1 .. ItemCount :
          /\ NewTable[k].off = ItemAt[k] /\ NewTable[k].len = Lengths[k] /\ k \in 1 .. 6
          /\ ItemAt[k] \in Nat /\ ItemAt[k] >= TableSize /\ ItemAt[k] + Lengths[k] =< 2 * HalfMib
          /\ NewTable[k].reserved = FALSE /\ NewTable[k].id \in KnownItems
          /\ NewTable[k].id = NewItems[k].id
    BY TableOfItems, ItemExtent, ItemsAreKnown
  <1>4. \A k \in 1 .. 6 : Lengths[k] > 0 /\ Lengths[k] \in Nat
    BY DEF Lengths
  <1>5. \A k \in 1 .. ItemCount : ValidItem(NewTable[k], 2 * HalfMib)
    BY <1>3, <1>4 DEF ValidItem
  <1>6. \A j \in 1 .. ItemCount : \A k \in 1 .. ItemCount :
          j < k => NewTable[j].off + NewTable[j].len =< NewTable[k].off
    BY ItemsApart, TableOfItems
  <1>7. \A j, k \in DOMAIN NewTable :
          j < k /\ NewTable[j].len > 0 /\ NewTable[k].len > 0 =>
            ~(NewTable[j].off < NewTable[k].off + NewTable[k].len
                /\ NewTable[k].off < NewTable[j].off + NewTable[j].len)
    <2> SUFFICES ASSUME NEW j \in 1 .. ItemCount, NEW k \in 1 .. ItemCount, j < k
                 PROVE  ~(NewTable[k].off < NewTable[j].off + NewTable[j].len)
      BY <1>2
    <2>1. NewTable[j].off + NewTable[j].len =< NewTable[k].off
      BY <1>6
    <2>2. NewTable[j].off \in Nat /\ NewTable[j].len \in Nat /\ NewTable[k].off \in Nat
      BY <1>3, <1>4
    <2> QED
      BY <2>1, <2>2
  <1>8. \A id \in KnownItems \ {"ParentLocator"} : Find(NewTable, id).len \notin 1 .. Width(id) - 1
    <2>1. \A k \in 1 .. 5 : Find(NewTable, NewItems[k].id).len = Lengths[k]
      <3> TAKE k \in 1 .. 5
      <3>1. k \in 1 .. ItemCount
        BY ItemsStored
      <3>2. Find(m.entries, NewItems[k].id) = NewTable[k]
        BY <1>1, <3>1, ItemIsRead DEF m
      <3> QED
        BY <1>2, <1>3, <3>1, <3>2
    <2>2. /\ Find(NewTable, "FileParameters").len = 8 /\ Find(NewTable, "VirtualDiskSize").len = 8
          /\ Find(NewTable, "VirtualDiskId").len = 16 /\ Find(NewTable, "LogicalSectorSize").len = 4
          /\ Find(NewTable, "PhysicalSectorSize").len = 4
      BY <2>1, ItemsStored DEF Lengths
    <2> QED
      BY <2>2 DEF KnownItems, Width
  <1>9. ValidMetadata(f)
    BY <1>1, <1>2, <1>5, <1>7, <1>8, FormatConstants DEF ValidMetadata, m, Mib
  <1>10. /\ FileParameters(m).ok /\ "reserved" \notin FileParameters(m).flags
         /\ \A k \in 2 .. 5 : ~NumberMissing(m, NewItems[k].id)
    BY <1>1, NumbersRead
  <1>11. \A id \in KnownItems \ {"ParentLocator", "FileParameters"} : ~NumberMissing(m, id)
    BY <1>10, ItemsStored DEF KnownItems
  <1>12. o.parent # "none" => ItemData(m, "ParentLocator").ok
    BY <1>1, LocatorIsFound
  <1> QED
    BY <1>1, <1>9, <1>10, <1>11, <1>12 DEF HasRequiredItems, m

LEMMA DoneLocatorIsValid ==
  ASSUME Sound, NEW f, Whole(f), f.meta.sig
  PROVE  ValidLocator(f)
  <1> DEFINE d == ItemData(SeenMetadata(f), "ParentLocator")
             es == LocatorEntries(d)
             Key(k) == Text(d, es[k].koff, es[k].klen)
             Linkages == {k \in DOMAIN es : Key(k) = "parent_linkage"}
  <1>1. SUFFICES ASSUME o.parent # "none"
                 PROVE  /\ \A k \in DOMAIN es : Key(k) \notin {"error", "parent_linkage2"}
                        /\ \E k \in Linkages :
                             /\ \A j \in Linkages : j =< k
                             /\ Text(d, es[k].voff, es[k].vlen) \in {"guid 1", "guid 2"}
                        /\ \E k \in DOMAIN es :
                             Key(k) \in {"relative_path", "volume_path", "absolute_win32_path"}
    BY SeenWhole DEF ValidLocator, Sound
  <1>2. d.len = 184 /\ d.data.kv = NewLocator
    BY <1>1, SeenWhole, LocatorIsFound DEF Sound
  <1> HIDE DEF d
  <1>3. /\ DOMAIN es = {1, 2} /\ Key(1) = "parent_linkage" /\ Key(2) = "relative_path"
        /\ Text(d, es[1].voff, es[1].vlen) = o.parent
    BY <1>2, LocatorIsRead
  <1>4. o.parent \in {"guid 1", "guid 2"}
    BY <1>1, SoundOptions
  <1> HIDE DEF es, Key
  <1>5. Linkages = {1}
    BY <1>3
  <1>6. \A k \in DOMAIN es : Key(k) \notin {"error", "parent_linkage2"}
    BY <1>3
  <1>7. \E k \in DOMAIN es : Key(k) \in {"relative_path", "volume_path", "absolute_win32_path"}
    BY <1>3
  <1> HIDE DEF Linkages
  <1>8. 1 \in Linkages /\ \A j \in Linkages : j =< 1
    BY <1>5
  <1>9. Text(d, es[1].voff, es[1].vlen) \in {"guid 1", "guid 2"}
    BY <1>3, <1>4
  <1> QED
    BY <1>6, <1>7, <1>8, <1>9
\* Within its first chunk an entry is the block of its own number.
LEMMA OneChunkEntries ==
  ASSUME TypeOK, EntryPlaces, ~(fixed /\ disk.payloads > disk.ratio), NEW k \in DOMAIN bat, bat[k] # NotPresent
  PROVE  k < disk.ratio /\ bat[k] = k
  <1> DEFINE R == disk.ratio
             C == BitmapCount(disk)
  <1>1. /\ R \in Nat \ {0} /\ C \in Nat \ {0} /\ disk.payloads \in Nat
        /\ Total(disk) = disk.payloads + C /\ k \in Nat
    BY RegionHolds DEF TypeOK, Total
  <1>2. fixed /\ k < Total(disk) /\ ((k < R /\ bat[k] = k) \/ (k >= R + C /\ bat[k] = k - C))
    BY DEF EntryPlaces
  <1>3. disk.payloads =< R
    BY <1>1, <1>2
  <1> HIDE DEF R, C
  <1>4. k < R /\ bat[k] = k
    BY <1>1, <1>2, <1>3
  <1> QED
    BY <1>4 DEF R

\* The table of a complete file, as the validator reads it.
LEMMA TableRead ==
  ASSUME Sound, EntryPlaces, Whole(File)
  PROVE  /\ BatLength(File) = Capacity(disk)
         /\ DOMAIN BatEntries(File) = DOMAIN bat
         /\ \A k \in DOMAIN bat : BatEntries(File)[k] =
              IF bat[k] = NotPresent THEN 0 ELSE FirstPayload + bat[k] * o.block
  <1> DEFINE n == MibCount(disk)
  <1>1. n \in Nat \ {0} /\ BatAtMib = 4 /\ MetadataAt = 4 + n * 2 /\ Mib = 2
    BY RegionPlaces DEF Sound, Mib
  <1>2. /\ Has(CurrentTable(File).entries, "bat")
        /\ Find(CurrentTable(File).entries, "bat") = RegionTable[1]
        /\ RegionTable[1].off = BatAtMib /\ RegionTable[1].len = n * Mib
    BY RegionsFound DEF Whole, RegionTable
  <1>3. BatLength(File) = n * EntriesPerMib
    <2> DEFINE x == n * EntriesPerMib
    <2>1. BatLength(File) = (n * 2 * EntriesPerMib) \div 2
      BY <1>1, <1>2 DEF BatLength
    <2> HIDE DEF n
    <2>2. x \in Nat /\ n * 2 * EntriesPerMib = 2 * x
      BY <1>1, FormatConstants
    <2> HIDE DEF x
    <2>3. (2 * x) \div 2 = x
      BY <2>2
    <2> QED
      BY <2>1, <2>2, <2>3 DEF x
  <1>4. Capacity(disk) = n * EntriesPerMib
    BY DEF Capacity
  <1>5. BatReadable(File)
    <2>1. File.size \in Nat /\ File.size >= MetadataAt + Mib
      BY DEF Whole
    <2> HIDE DEF n
    <2> QED
      BY <1>1, <1>2, <2>1 DEF BatReadable
  <1>6. DOMAIN bat = 0 .. Capacity(disk) - 1
    BY DEF Sound, TypeOK
  <1>7. BatEntries(File) = [k \in DOMAIN bat |-> BatAt(File, k)]
    BY <1>3, <1>4, <1>5, <1>6 DEF BatEntries
  <1>8. \A k \in DOMAIN bat : BatAt(File, k) =
          IF bat[k] = NotPresent THEN 0 ELSE FirstPayload + bat[k] * o.block
    <2>1. /\ File.bat.at = BatAtMib
          /\ File.bat.entries = [k \in DOMAIN bat |->
               IF bat[k] = NotPresent THEN 0 ELSE FirstPayload + bat[k] * o.block]
      BY DEF File
    <2> QED
      BY <1>2, <2>1 DEF BatAt
  <1> HIDE DEF n
  <1> QED
    BY <1>3, <1>4, <1>7, <1>8

LEMMA DoneBatIsValid ==
  ASSUME Sound, EntryPlaces, Whole(File), File.meta.sig, ~(fixed /\ disk.payloads > disk.ratio)
  PROVE  ValidBat(File)
  <1> DEFINE R == disk.ratio
             B == o.block
             F == FirstPayload
             E == BatEntries(File)
             v == CeilDiv(CeilDiv(MetadataAt + Mib, Mib), B)
             Payload == {k \in DOMAIN E : k % (R + 1) # R /\ E[k] # 0}
  <1>1. R \in Nat \ {0} /\ B \in Nat \ {0} /\ R = ChunkRatio(B, o.lss) /\ F = v * B
    BY SoundOptions DEF FirstPayload
  <1>2. DOMAIN E = DOMAIN bat /\ DOMAIN bat \subseteq Nat
    BY TableRead DEF Sound, TypeOK
  <1>3. \A k \in DOMAIN E : E[k] # 0 => k < R /\ k \in Nat /\ E[k] = F + k * B
    <2> SUFFICES ASSUME NEW k \in DOMAIN bat, E[k] # 0
                 PROVE  k < R /\ k \in Nat /\ E[k] = F + k * B
      BY <1>2
    <2>1. E[k] = IF bat[k] = NotPresent THEN 0 ELSE F + bat[k] * B
      BY TableRead
    <2>2. bat[k] # NotPresent
      BY <2>1
    <2>3. k < R /\ bat[k] = k
      BY <2>2, OneChunkEntries DEF Sound
    <2> QED
      BY <1>2, <2>1, <2>2, <2>3
  <1>4. v \in Nat /\ F \in Nat
    <2>1. Mib = 2 /\ MetadataAt + Mib \in Nat /\ 2 \in Nat \ {0}
      BY RegionPlaces DEF Sound, Mib
    <2>2. CeilDiv(MetadataAt + Mib, Mib) \in Nat
      BY <2>1, CeilDivBound
    <2> QED
      BY <1>1, <2>2, CeilDivBound, SizeHolds
  <1>5. BatLength(File) >= CeilDiv(o.size, B * SectorsPerMib)
    <2>1. disk.payloads = CeilDiv(o.size, B * SectorsPerMib)
      BY SoundOptions
    <2>2. BatLength(File) = Capacity(disk)
      BY TableRead
    <2>3. /\ Capacity(disk) \in Nat /\ Total(disk) \in Nat /\ disk.payloads \in Nat
          /\ Total(disk) =< Capacity(disk) /\ Total(disk) > disk.payloads
      BY RegionHolds DEF Sound, TypeOK
    <2> HIDE DEF B
    <2> QED
      BY <2>1, <2>2, <2>3
  <1> HIDE DEF R, B, F, E, v
  <1>6. \A k \in DOMAIN E : k % (R + 1) = R => E[k] = 0
    <2> SUFFICES ASSUME NEW k \in DOMAIN E, E[k] # 0 PROVE k % (R + 1) # R
      OBVIOUS
    <2>1. k < R /\ k \in Nat
      BY <1>3
    <2>2. k % (R + 1) = k
      BY <1>1, <2>1
    <2> QED
      BY <1>1, <2>1, <2>2
  <1>7. \A k \in Payload : E[k] % B = 0
    <2> SUFFICES ASSUME NEW k \in DOMAIN E, E[k] # 0 PROVE E[k] % B = 0
      OBVIOUS
    <2>1. k \in Nat /\ E[k] = v * B + k * B
      BY <1>1, <1>3
    <2> DEFINE q == v + k
    <2>2. q \in Nat /\ v * B + k * B = q * B
      BY <1>1, <1>4, <2>1
    <2> HIDE DEF q
    <2>3. q * B \in Nat
      BY <1>1, <2>2
    <2> DEFINE x == E[k]
    <2>4. x \in Nat /\ x = q * B + 0 /\ 0 \in 0 .. B - 1 /\ B \in Nat \ {0} /\ q \in Nat
      BY <1>1, <2>1, <2>2, <2>3
    <2> HIDE DEF x
    <2>5. x % B = 0
      BY <2>4, DivMod
    <2> QED
      BY <2>5 DEF x
  <1>8. \A j, k \in Payload : E[j] = E[k] => j = k
    <2> SUFFICES ASSUME NEW j \in DOMAIN E, NEW k \in DOMAIN E, E[j] # 0, E[k] # 0, E[j] = E[k] PROVE j = k
      OBVIOUS
    <2>1. j \in Nat /\ k \in Nat /\ F + j * B = F + k * B
      BY <1>3
    <2>2. j * B = k * B
      <3>1. j * B \in Nat /\ k * B \in Nat
        BY <1>1, <2>1
      <3> QED
        BY <1>4, <2>1, <3>1
    <2> QED
      BY <1>1, <2>1, <2>2
  <1>9. /\ SeenWord(File, "FileParameters") = B /\ SeenWord(File, "LogicalSectorSize") = o.lss
        /\ SeenWord(File, "VirtualDiskSize") = o.size
    BY SeenWhole DEF Sound, B
  <1> QED
    BY <1>1, <1>5, <1>6, <1>7, <1>8, <1>9 DEF ValidBat, E

\* The validator has no complaint about a file that is complete.
LEMMA DoneIsAccepted ==
  ASSUME CreateInv, pc = "done", ~(o.fixed /\ disk.payloads > disk.ratio)
  PROVE  Accepts(File)
  <1>1. /\ Sound /\ EntryPlaces /\ Whole(File) /\ File.fti /\ File.meta.sig
        /\ File.hdr = <<NewHeader(0), NewHeader(1)>> /\ CurrentIndex(File.hdr) = 2
    BY DoneIsWhole
  <1>2. ~(fixed /\ disk.payloads > disk.ratio)
    BY <1>1 DEF Sound
  <1>3. ValidBat(File) /\ ValidMetadata(File) /\ HasRequiredItems(File) /\ ValidLocator(File)
    BY <1>1, <1>2, DoneBatIsValid, DoneMetadataIsValid, DoneLocatorIsValid DEF Sound
  <1>4. ValidHeaders(File)
    <2>1. File.hdr[1] = NewHeader(0) /\ File.hdr[2] = NewHeader(1) /\ CurrentHeader(File) = NewHeader(1)
      BY <1>1 DEF CurrentHeader
    <2>2. ValidHeader(NewHeader(0)) /\ ValidHeader(NewHeader(1))
      BY DEF ValidHeader, VersionSupported, NewHeader
    <2>3. /\ NewHeader(0).seq # NewHeader(1).seq /\ NewHeader(0).logGuid = NewHeader(1).logGuid
          /\ NewHeader(1).logLen % Mib = 0 /\ NewHeader(1).logOff % Mib = 0
      BY DEF NewHeader, LogAt, Mib
    <2> QED
      BY <1>1, <2>1, <2>2, <2>3 DEF ValidHeaders, Slots
  <1>5. ValidRegions(File)
    <2>1. \A s \in Slots : File.rt[s].ok
      <3> DEFINE T == [ok |-> TRUE, entries |-> RegionTable]
      <3>1. \A s \in Slots : File.rt[s] = T
        BY DoneIsWhole
      <3>2. T.ok = TRUE
        OBVIOUS
      <3> HIDE DEF T
      <3> QED
        BY <3>1, <3>2
    <2>2. CurrentTable(File).entries = RegionTable
      BY <1>1 DEF Whole
    <2> QED
      BY <1>1, <2>1, <2>2, RegionsAreValid DEF ValidRegions, Sound
  <1> QED
    BY <1>1, <1>3, <1>4, <1>5 DEF Accepts

(***************************************************************************)
(* Of all options: the file that CreateOptions::finish reports success for *)
(* opens in both modes, has the parameters and the sectors asked for and   *)
(* its blocks within it, and passes the validator, fixed disks of more     *)
(* than one chunk excepted.                                                *)
(***************************************************************************)
THEOREM CreatedFilesAreGood == CreateSpec => []CreatedIsGood
  <1>1. CreateInv => CreatedIsGood
    <2> SUFFICES ASSUME CreateInv, pc = "done"
                 PROVE  /\ \A write \in BOOLEAN : Opens(File, write, TRUE, "Require")
                        /\ IoStarts(File) /\ IoParams(File) = Wanted
                        /\ (MaxSector(IoParams(File)) + 1) * o.lss = o.size
                        /\ BlocksInFile(File)
                        /\ Accepts(File) \/ (o.fixed /\ disk.payloads > disk.ratio)
      BY DEF CreatedIsGood
    <2>1. Sound /\ EntryPlaces /\ "len" \in pieces /\ Whole(File)
      BY DoneIsWhole
    <2>2. \A write \in BOOLEAN : Opens(File, write, TRUE, "Require")
      BY DoneOpens
    <2>3. IoStarts(File) /\ IoParams(File) = Wanted
      BY <2>1, ParamsRead
    <2>4. (MaxSector(IoParams(File)) + 1) * o.lss = o.size
      BY <2>1, <2>3, LastSector
    <2>5. BlocksInFile(File)
      BY <2>1, BlocksLie
    <2>6. Accepts(File) \/ (o.fixed /\ disk.payloads > disk.ratio)
      BY DoneIsAccepted
    <2> QED
      BY <2>2, <2>3, <2>4, <2>5, <2>6
  <1> QED
    BY <1>1, CreateInvariance, PTL
=============================================================================
