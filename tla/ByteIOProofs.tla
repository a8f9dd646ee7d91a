---------------------------- MODULE ByteIOProofs ----------------------------
(***************************************************************************)
(* Reads and writes of any length at any position of a range of sectors    *)
(* are reads and writes of an array of bytes, for every size of sectors,   *)
(* blocks and disk.                                                        *)
(***************************************************************************)
EXTENDS ByteIO, VirtualDiskProofs, FiniteSetTheorems

\* The cursor stays in its range, and the range on the disk.
CursorOK ==
  /\ view \in [start : Nat, count : Nat, pos : Nat]
  /\ view.start + view.count =< DiskSectors
  /\ view.pos =< RangeBytes

\* The bytes of a write lie in the range, from the cursor on, and in the sectors of
\* the request; what the request gives those sectors besides is what they hold.
CarryOK ==
  w.pc # "idle" =>
    /\ \E m \in Nat \ {0}, v \in Byte : /\ view.pos + m =< RangeBytes
                                       /\ carry = [a \in Here .. Here + m - 1 |-> v]
    /\ \A a \in DOMAIN carry : PlaceOf(a \div SectorBytes) \in w.req
    /\ \A x \in w.req : \A c \in Bytes :
         LET a == NumOf(x) * SectorBytes + c
         IN  w.val[x][c] = IF a \in DOMAIN carry THEN carry[a] ELSE ReadSector(x[1], x[2])[c]

\* Nothing changes on the disk while an answer stands.
AnswerOK == ReadsWhatIsThere /\ (got # Nothing => w.pc = "idle")

\* No other medium is ever kept for the parent.
ParentOK == parent \in {"none", "fits", "short"}

ByteInv == Inv /\ DiskInv /\ CursorOK /\ CarryOK /\ AnswerOK /\ ParentOK
-----------------------------------------------------------------------------
(* Where bytes and sectors are. *)

\* Quotient and remainder of a number of the form q * n + r.
LEMMA QuotientRemainder ==
  ASSUME NEW n \in Nat \ {0}, NEW q \in Nat, NEW r \in 0 .. n - 1
  PROVE  q * n + r \in Nat /\ (q * n + r) \div n = q /\ (q * n + r) % n = r
  <1> DEFINE m == q * n + r
  <1>1. m \in Nat
    OBVIOUS
  <1>2. m \div n = q
    OBVIOUS
  <1>3. m % n = r
    OBVIOUS
  <1> QED
    BY <1>1, <1>2, <1>3

\* A number is made of its quotient and its remainder.
LEMMA Divided ==
  ASSUME NEW m \in Nat, NEW n \in Nat \ {0}
  PROVE  m \div n \in Nat /\ m % n \in 0 .. n - 1 /\ m = (m \div n) * n + (m % n)
  <1>1. m \div n \in Nat
    OBVIOUS
  <1>2. m % n \in 0 .. n - 1
    OBVIOUS
  <1>3. m - (m \div n) * n = m % n
    BY SMTT(20)
  <1>4. (m \div n) * n \in Nat
    BY <1>1
  <1> QED
    BY <1>1, <1>2, <1>3, <1>4

\* A multiple of n above q * n is at least the next one.
LEMMA QuotientBelow ==
  ASSUME NEW n \in Nat \ {0}, NEW q \in Nat, NEW k \in Nat, q * n < k * n
  PROVE  q < k
  <1> SUFFICES ASSUME q >= k PROVE FALSE
    OBVIOUS
  <1>1. PICK d \in Nat : q = k + d
    <2>1. q - k \in Nat /\ q = k + (q - k)
      OBVIOUS
    <2> QED
      BY <2>1
  <1>2. q * n = k * n + d * n /\ d * n \in Nat /\ k * n \in Nat
    BY <1>1
  <1> QED
    BY <1>2

LEMMA ByteTypes ==
  /\ SectorBytes \in Nat \ {0} /\ SectorsPerBlock \in Nat \ {0}
  /\ NumBlocks \in Nat \ {0} /\ DiskSectors \in Nat \ {0}
  /\ DiskSectors =< NumBlocks * SectorsPerBlock
  /\ Sectors = 0 .. SectorsPerBlock - 1 /\ Blocks = 0 .. NumBlocks - 1
  /\ Data = [Bytes -> Byte] /\ Bytes = 0 .. SectorBytes - 1
  <1>1. NumBlocks * SectorsPerBlock \in Nat
    BY ByteConstants, ConstantsOK
  <1> QED
    BY <1>1, ByteConstants, ConstantsOK DEF Blocks, Bytes

\* Sector numbers and places.
LEMMA PlaceOfSector ==
  ASSUME NEW n \in 0 .. DiskSectors - 1
  PROVE  PlaceOf(n) \in Places /\ NumOf(PlaceOf(n)) = n
  <1> DEFINE k == SectorsPerBlock
             q == n \div k
             r == n % k
  <1>1. k \in Nat \ {0} /\ n \in Nat /\ n < NumBlocks * k /\ NumBlocks \in Nat
    <2>1. NumBlocks * k \in Nat
      BY ByteTypes
    <2> QED
      BY <2>1, ByteTypes
  <1> HIDE DEF k
  <1>2. q \in Nat /\ r \in 0 .. k - 1 /\ n = q * k + r
    BY <1>1, Divided
  <1> HIDE DEF q, r
  <1>3. q * k \in Nat /\ q * k =< n /\ NumBlocks * k \in Nat
    BY <1>1, <1>2
  <1>4. q < NumBlocks
    BY <1>1, <1>2, <1>3, QuotientBelow
  <1>5. q \in Blocks /\ r \in Sectors
    BY <1>2, <1>4, <1>1, ByteTypes DEF k
  <1>6. PlaceOf(n) = <<q, r>>
    BY DEF PlaceOf, q, r, k
  <1> QED
    BY <1>2, <1>5, <1>6 DEF Places, NumOf, k

\* Byte c of a sector is the byte of the disk at this position.
LEMMA ByteOfSector ==
  ASSUME NEW n \in Nat, NEW c \in Bytes
  PROVE  /\ n * SectorBytes + c \in Nat
         /\ (n * SectorBytes + c) \div SectorBytes = n
         /\ (n * SectorBytes + c) % SectorBytes = c
         /\ ByteAt(n * SectorBytes + c) = ReadSector(PlaceOf(n)[1], PlaceOf(n)[2])[c]
  <1>1. /\ n * SectorBytes + c \in Nat
        /\ (n * SectorBytes + c) \div SectorBytes = n
        /\ (n * SectorBytes + c) % SectorBytes = c
    BY ByteTypes, QuotientRemainder
  <1> QED
    BY <1>1 DEF ByteAt

\* A byte of the disk has its sector and its place in it.
LEMMA SectorOfByte ==
  ASSUME NEW a \in DiskBytes
  PROVE  /\ a \in Nat /\ a \div SectorBytes \in 0 .. DiskSectors - 1 /\ a % SectorBytes \in Bytes
         /\ a = (a \div SectorBytes) * SectorBytes + (a % SectorBytes)
         /\ PlaceOf(a \div SectorBytes) \in Places
         /\ NumOf(PlaceOf(a \div SectorBytes)) = a \div SectorBytes
  <1> DEFINE q == a \div SectorBytes
             r == a % SectorBytes
  <1>1. a \in Nat /\ a < DiskSectors * SectorBytes
    <2>1. DiskSectors * SectorBytes \in Nat
      BY ByteTypes
    <2> QED
      BY <2>1 DEF DiskBytes
  <1>2. q \in Nat /\ r \in 0 .. SectorBytes - 1 /\ a = q * SectorBytes + r
    BY <1>1, Divided, ByteTypes
  <1> HIDE DEF q, r
  <1>3. q * SectorBytes \in Nat /\ q * SectorBytes =< a /\ DiskSectors * SectorBytes \in Nat
    BY <1>1, <1>2, ByteTypes
  <1>4. q < DiskSectors
    BY <1>1, <1>2, <1>3, QuotientBelow, ByteTypes
  <1>5. q \in 0 .. DiskSectors - 1
    BY <1>2, <1>4, ByteTypes
  <1> QED
    BY <1>1, <1>2, <1>5, PlaceOfSector, ByteTypes DEF q, r

\* The bytes of the disk have values of bytes.
LEMMA ByteType ==
  ASSUME TypeOK, NEW a \in DiskBytes
  PROVE  ByteAt(a) \in Byte
  <1> DEFINE x == PlaceOf(a \div SectorBytes)
  <1>1. x \in Places /\ a % SectorBytes \in Bytes
    BY SectorOfByte
  <1>2. x[1] \in Blocks /\ x[2] \in Sectors
    BY <1>1 DEF Places
  <1> HIDE DEF x
  <1>3. ReadSector(x[1], x[2]) \in [Bytes -> Byte]
    BY <1>2, ReadType, ByteTypes
  <1> QED
    BY <1>1, <1>3 DEF ByteAt, x
-----------------------------------------------------------------------------
(* What a transfer of n bytes from the cursor on touches. *)

\* The sectors affected are those of the range that the bytes lie in.
LEMMA Window ==
  ASSUME CursorOK, NEW n \in Nat \ {0}, view.pos + n =< RangeBytes
  PROVE  /\ FirstSector \in Nat /\ AffectedCount(n) \in Nat \ {0}
         /\ FirstSector + AffectedCount(n) =< DiskSectors
         /\ FirstSkip \in Bytes /\ FirstSkip + n =< AffectedCount(n) * SectorBytes
         /\ Here = FirstSector * SectorBytes + FirstSkip
  <1> DEFINE N == SectorBytes
             q == view.pos \div N
             r == view.pos % N
             e == (view.pos + n - 1) \div N
             f == (view.pos + n - 1) % N
  <1>0. /\ N \in Nat \ {0} /\ view.pos \in Nat /\ view.start \in Nat /\ view.count \in Nat
        /\ view.start + view.count =< DiskSectors /\ DiskSectors \in Nat
    BY ByteTypes DEF CursorOK
  <1>1. view.pos + n - 1 \in Nat
    BY <1>0
  <1>2. view.pos + n =< view.count * N /\ view.count * N \in Nat
    BY <1>0 DEF RangeBytes
  <1>3. FirstSector = view.start + q /\ AffectedCount(n) = e - q + 1 /\ FirstSkip = r
    BY DEF FirstSector, AffectedCount, FirstSkip
  <1>4. Here = view.start * N + view.pos
    BY DEF Here
  <1> HIDE DEF N
  <1>5. /\ q \in Nat /\ r \in 0 .. N - 1 /\ view.pos = q * N + r
        /\ e \in Nat /\ f \in 0 .. N - 1 /\ view.pos + n - 1 = e * N + f
    BY <1>0, <1>1, Divided
  <1> HIDE DEF q, r, e, f
  <1>6. q * N \in Nat /\ e * N \in Nat /\ view.start * N \in Nat
    BY <1>0, <1>5
  <1>7. e < view.count
    <2>1. e * N < view.count * N
      BY <1>0, <1>1, <1>2, <1>5, <1>6
    <2> QED
      BY <2>1, <1>0, <1>5, QuotientBelow
  <1>8. q =< e
    <2>1. (e + 1) * N = e * N + N
      BY <1>0, <1>5, <1>6
    <2>2. q * N < (e + 1) * N
      BY <2>1, <1>0, <1>5, <1>6
    <2>3. q < e + 1
      BY <2>2, <1>0, <1>5, QuotientBelow
    <2> QED
      BY <2>3, <1>5
  <1>9. r + n =< (e - q + 1) * N
    <2>1. (e - q + 1) * N = e * N - q * N + N
      BY <1>0, <1>5
    <2> QED
      BY <2>1, <1>0, <1>5, <1>6
  <1>10. view.start * N + view.pos = (view.start + q) * N + r
    <2>1. (view.start + q) * N = view.start * N + q * N
      BY <1>0, <1>5
    <2> QED
      BY <2>1, <1>0, <1>5, <1>6
  <1>11. r \in Bytes
    BY <1>5, ByteTypes DEF N
  <1> QED
    BY <1>0, <1>3, <1>4, <1>5, <1>7, <1>8, <1>9, <1>10, <1>11 DEF N

\* Byte t of the sectors affected: which sector it is of, and where on the disk.
LEMMA WindowByte ==
  ASSUME CursorOK, NEW n \in Nat \ {0}, view.pos + n =< RangeBytes,
         NEW t \in 0 .. AffectedCount(n) * SectorBytes - 1
  PROVE  LET k == t \div SectorBytes
             a == FirstSector * SectorBytes + t
         IN  /\ k \in 0 .. AffectedCount(n) - 1 /\ t % SectorBytes \in Bytes
             /\ a \in DiskBytes /\ a \div SectorBytes = FirstSector + k
             /\ PlaceOf(FirstSector + k) \in Affected(n)
             /\ ByteAt(a) = ReadSector(PlaceOf(FirstSector + k)[1], PlaceOf(FirstSector + k)[2])[t % SectorBytes]
  <1> DEFINE N == SectorBytes
             A == AffectedCount(n)
             F == FirstSector
             k == t \div N
             c == t % N
  <1>0. /\ N \in Nat \ {0} /\ F \in Nat /\ A \in Nat \ {0} /\ F + A =< DiskSectors /\ DiskSectors \in Nat
    BY Window, ByteTypes
  <1> HIDE DEF A, F
  <1>1. A * N \in Nat /\ t \in Nat /\ t < A * N
    <2>1. A * N \in Nat
      BY <1>0
    <2> QED
      BY <2>1 DEF A
  <1>2. k \in Nat /\ c \in 0 .. N - 1 /\ t = k * N + c
    BY <1>0, <1>1, Divided
  <1>3. c \in Bytes
    BY <1>2, ByteTypes
  <1> HIDE DEF N, k, c
  <1>5. k * N \in Nat /\ F * N \in Nat
    BY <1>0, <1>2
  <1>6. k < A
    <2>1. k * N < A * N
      BY <1>1, <1>2, <1>5, <1>0
    <2> QED
      BY <2>1, <1>0, <1>2, QuotientBelow
  <1>7. F * N + t = (F + k) * N + c
    <2>1. (F + k) * N = F * N + k * N
      BY <1>0, <1>2
    <2> QED
      BY <2>1, <1>0, <1>2, <1>5
  <1>8. F + k \in Nat /\ F + k =< DiskSectors - 1
    BY <1>0, <1>2, <1>6
  <1>9. /\ F * N + t \in Nat /\ (F * N + t) \div N = F + k
        /\ ByteAt(F * N + t) = ReadSector(PlaceOf(F + k)[1], PlaceOf(F + k)[2])[c]
    BY <1>3, <1>7, <1>8, ByteOfSector DEF N
  <1>10. F * N + t =< DiskSectors * N - 1
    <2>1. F * N + t < (F + A) * N
      <3>1. (F + A) * N = F * N + A * N
        BY <1>0
      <3> QED
        BY <3>1, <1>0, <1>1, <1>5
    <2>2. (F + A) * N =< DiskSectors * N /\ DiskSectors * N \in Nat /\ (F + A) * N \in Nat
      <3>1. DiskSectors = F + A + (DiskSectors - (F + A)) /\ DiskSectors - (F + A) \in Nat
        BY <1>0
      <3>2. DiskSectors * N = (F + A) * N + (DiskSectors - (F + A)) * N
        BY <3>1, <1>0
      <3>3. (DiskSectors - (F + A)) * N \in Nat /\ (F + A) * N \in Nat
        BY <3>1, <1>0
      <3> QED
        BY <3>2, <3>3
    <2> QED
      BY <2>1, <2>2, <1>9
  <1>11. F * N + t \in DiskBytes
    <2>1. DiskSectors * N \in Nat
      BY <1>0
    <2> QED
      BY <2>1, <1>9, <1>10 DEF DiskBytes, N
  <1>12. PlaceOf(F + k) \in Affected(n)
    BY <1>2, <1>6, <1>0 DEF Affected, A, F
  <1>13. k \in 0 .. A - 1
    BY <1>0, <1>2, <1>6
  <1> QED
    BY <1>3, <1>9, <1>11, <1>12, <1>13 DEF N, A, F, k, c

\* What is read of it, as long as no other medium stands for the parent.
LEMMA TempHolds ==
  ASSUME CursorOK, NEW n \in Nat \ {0}, view.pos + n =< RangeBytes,
         NEW t \in 0 .. AffectedCount(n) * SectorBytes - 1, NEW p, p # "other"
  PROVE  ByteAt(FirstSector * SectorBytes + t) = Temp(n, p)[t]
  <1> DEFINE x == PlaceOf(FirstSector + t \div SectorBytes)
  <1>1. Temp(n, p)[t] = SectorSeen(x, p)[t % SectorBytes]
    BY DEF Temp
  <1>2. SectorSeen(x, p) = ReadSector(x[1], x[2])
    BY DEF SectorSeen
  <1>3. ByteAt(FirstSector * SectorBytes + t) = ReadSector(x[1], x[2])[t % SectorBytes]
    BY WindowByte
  <1> QED
    BY <1>1, <1>2, <1>3

\* The bytes from the cursor on, counted from the first sector affected.
LEMMA WindowHere ==
  ASSUME CursorOK, NEW n \in Nat \ {0}, view.pos + n =< RangeBytes, NEW j \in 0 .. n - 1
  PROVE  /\ FirstSkip + j \in 0 .. AffectedCount(n) * SectorBytes - 1
         /\ Here + j = FirstSector * SectorBytes + (FirstSkip + j)
  <1>1. /\ FirstSkip \in Nat /\ FirstSkip + n =< AffectedCount(n) * SectorBytes
        /\ AffectedCount(n) * SectorBytes \in Nat /\ FirstSector * SectorBytes \in Nat
        /\ Here = FirstSector * SectorBytes + FirstSkip
    BY Window, ByteTypes
  <1> DEFINE skip == FirstSkip
             len  == AffectedCount(n) * SectorBytes
             base == FirstSector * SectorBytes
  <1>2. skip \in Nat /\ skip + n =< len /\ len \in Nat /\ base \in Nat /\ Here = base + skip
    BY <1>1
  <1> HIDE DEF skip, len, base
  <1>3. skip + j \in 0 .. len - 1 /\ Here + j = base + (skip + j)
    BY <1>2
  <1> QED
    BY <1>3 DEF skip, len, base

\* The sectors affected are sectors of the disk, numbered in order.
LEMMA AffectedPlaces ==
  ASSUME CursorOK, NEW n \in Nat \ {0}, view.pos + n =< RangeBytes
  PROVE  /\ Affected(n) \subseteq Places /\ Affected(n) # {}
         /\ \A x \in Affected(n) : /\ NumOf(x) - FirstSector \in 0 .. AffectedCount(n) - 1
                                   /\ PlaceOf(NumOf(x)) = x
  <1>1. /\ FirstSector \in Nat /\ AffectedCount(n) \in Nat \ {0} /\ DiskSectors \in Nat
        /\ FirstSector + AffectedCount(n) =< DiskSectors
    BY Window, ByteTypes
  <1>2. ASSUME NEW k \in 0 .. AffectedCount(n) - 1
        PROVE  /\ PlaceOf(FirstSector + k) \in Places
               /\ NumOf(PlaceOf(FirstSector + k)) = FirstSector + k
    <2>1. FirstSector + k \in 0 .. DiskSectors - 1
      BY <1>1
    <2> QED
      BY <2>1, PlaceOfSector
  <1>3. 0 \in 0 .. AffectedCount(n) - 1
    BY <1>1
  <1>4. \A x \in Affected(n) : \E k \in 0 .. AffectedCount(n) - 1 : x = PlaceOf(FirstSector + k)
    BY DEF Affected
  <1>5. Affected(n) # {}
    BY <1>3 DEF Affected
  <1> QED
    BY <1>1, <1>2, <1>4, <1>5
\* Byte c of a sector affected, counted from the first one.
LEMMA ByteInWindow ==
  ASSUME CursorOK, NEW n \in Nat \ {0}, view.pos + n =< RangeBytes,
         NEW x \in Affected(n), NEW c \in Bytes
  PROVE  LET t == (NumOf(x) - FirstSector) * SectorBytes + c
             a == NumOf(x) * SectorBytes + c
         IN  /\ t \in 0 .. AffectedCount(n) * SectorBytes - 1
             /\ a = FirstSector * SectorBytes + t
             /\ t \in FirstSkip .. FirstSkip + n - 1 <=> a \in Here .. Here + n - 1
  <1> DEFINE N == SectorBytes
             g == NumOf(x) - FirstSector
             F == FirstSector
             A == AffectedCount(n)
             i == NumOf(x)
  <1>0. /\ F \in Nat /\ A \in Nat \ {0} /\ g \in 0 .. A - 1 /\ N \in Nat \ {0}
        /\ FirstSkip \in Nat /\ Here = F * N + FirstSkip /\ c \in 0 .. N - 1
    BY Window, AffectedPlaces, ByteTypes
  <1>1. i \in Int
    <2>1. x[1] \in Nat /\ x[2] \in Nat
      BY AffectedPlaces, ByteTypes DEF Places
    <2> QED
      BY <2>1, ByteTypes DEF NumOf
  <1>2. i = F + g
    BY <1>0, <1>1
  <1> HIDE DEF N, g, F, A, i
  <1>3. g * N \in Nat /\ A * N \in Nat /\ F * N \in Nat /\ (g + 1) * N = g * N + N
    BY <1>0
  <1>4. (g + 1) * N =< A * N
    <2>1. A - (g + 1) \in Nat /\ A = (g + 1) + (A - (g + 1))
      BY <1>0
    <2>2. A * N = (g + 1) * N + (A - (g + 1)) * N /\ (A - (g + 1)) * N \in Nat
      BY <2>1, <1>0
    <2> QED
      BY <2>2, <1>3, <1>0
  <1>5. g * N + c \in 0 .. A * N - 1
    BY <1>0, <1>3, <1>4
  <1>6. i * N + c = F * N + (g * N + c)
    <2>1. i * N = F * N + g * N
      BY <1>0, <1>2
    <2> QED
      BY <2>1, <1>0, <1>3
  <1>7. g * N + c \in FirstSkip .. FirstSkip + n - 1 <=> i * N + c \in Here .. Here + n - 1
    BY <1>0, <1>3, <1>5, <1>6
  <1> QED
    BY <1>5, <1>6, <1>7 DEF N, g, F, A, i

LEMMA MovedFits ==
  ASSUME CursorOK, NEW n \in Lengths
  PROVE  /\ RangeBytes \in Nat /\ view.pos \in Nat /\ Moved(n) \in Nat
         /\ view.pos + Moved(n) =< RangeBytes
  <1>1. /\ RangeBytes \in Nat /\ view.pos \in Nat /\ view.pos =< RangeBytes /\ n \in Nat
    BY ByteTypes, ByteConstants DEF CursorOK, RangeBytes
  <1> QED
    BY <1>1 DEF Moved

\* A step that leaves the disk alone leaves its bytes alone.
LEMMA SameBytes ==
  ASSUME UNCHANGED vars
  PROVE  /\ \A a : ByteAt(a)' = ByteAt(a)
         /\ \A b, s : ReadSector(b, s)' = ReadSector(b, s)
  BY DEF vars, fileVars, ByteAt, ReadSector, ReadPartial
-----------------------------------------------------------------------------
(* Reading. *)

\* Only a parent that fits is kept.
LEMMA ParentIsKept == ASSUME ParentOK, NEW S, NEW k PROVE Resolved(S, k) \in {"none", "fits", "short"}
  BY DEF ParentOK, Resolved

\* A read returns the bytes at the cursor and moves it behind them, or fails and
\* leaves it there.
LEMMA ReadRight ==
  ASSUME CursorOK, ParentOK, NEW n \in Lengths, NEW k \in Answers, Read(n, k)
  PROVE  CursorOK' /\ AnswerOK' /\ ParentOK'
  <1> DEFINE m == Moved(n)
             p == Resolved(Affected(m), k)
  <1>0. /\ m \in Nat \ {0} /\ view.pos + m =< RangeBytes /\ RangeBytes \in Nat /\ view.pos \in Nat
        /\ view \in [start : Nat, count : Nat, pos : Nat]
    BY MovedFits DEF Read, CursorOK
  <1>1. PICK ok \in BOOLEAN :
          /\ view' = IF ok THEN [view EXCEPT !.pos = @ + m] ELSE view
          /\ got' = IF ok THEN [ok |-> TRUE, at |-> Here, bytes |-> Part(m, p)] ELSE FailedAt(Here)
          /\ w.pc = "idle" /\ parent' = p /\ UNCHANGED vars
    BY DEF Read, Readable, MovedBy
  <1>8. p \in {"none", "fits", "short"}
    BY ParentIsKept
  <1> HIDE DEF m, p
  <1>2. view'.start = view.start /\ view'.count = view.count /\ RangeBytes' = RangeBytes
    BY <1>0, <1>1 DEF RangeBytes
  <1>3. CursorOK'
    BY <1>0, <1>1, <1>2 DEF CursorOK
  <1>4. ASSUME ok, NEW j \in 0 .. m - 1
        PROVE  Part(m, p)[j] = ByteAt(Here + j)
    <2>1. /\ FirstSkip + j \in 0 .. AffectedCount(m) * SectorBytes - 1
          /\ Here + j = FirstSector * SectorBytes + (FirstSkip + j)
      BY <1>0, WindowHere
    <2>2. ByteAt(Here + j) = Temp(m, p)[FirstSkip + j]
      BY <2>1, <1>0, <1>8, TempHolds
    <2> QED
      BY <2>2 DEF Part
  <1>5. DOMAIN Part(m, p) = 0 .. m - 1 /\ Cardinality(0 .. m - 1) = m
    <2>1. Cardinality(0 .. m - 1) = m
      BY <1>0, FS_Interval
    <2> QED
      BY <2>1 DEF Part
  <1>6. ok => Here' = Here + m
    <2>1. view.start * SectorBytes \in Nat
      BY <1>0, ByteTypes
    <2> QED
      BY <2>1, <1>0, <1>1, <1>2 DEF Here
  <1>7. ReadsWhatIsThere'
    <2>1. CASE ok
      <3>1. got'.bytes = Part(m, p) /\ got'.at = Here /\ got'.ok
        BY <2>1, <1>1
      <3>2. (\A j \in DOMAIN got.bytes : got.bytes[j] = ByteAt(got.at + j))'
        <4>1. \A j \in 0 .. m - 1 : got'.bytes[j] = ByteAt(got'.at + j)
          BY <3>1, <2>1, <1>4
        <4> QED
          BY <4>1, <3>1, <1>1, <1>5 DEF ByteAt, ReadSector, ReadPartial, vars, fileVars
      <3>3. Here' = got'.at + Cardinality(DOMAIN got'.bytes)
        BY <3>1, <2>1, <1>5, <1>6
      <3>4. (view.pos =< RangeBytes)'
        BY <1>3 DEF CursorOK
      <3>5. got'.ok = TRUE
        BY <2>1, <1>1
      <3> QED
        BY <3>2, <3>3, <3>4, <3>5 DEF ReadsWhatIsThere
    <2>2. CASE ~ok
      <3>1. got' = FailedAt(Here) /\ view' = view
        BY <2>2, <1>1
      <3>2. Here' = Here /\ (view.pos =< RangeBytes)'
        BY <3>1, <1>3 DEF Here, CursorOK
      <3> QED
        BY <3>1, <3>2 DEF ReadsWhatIsThere, FailedAt
    <2> QED
      BY <2>1, <2>2
  <1> QED
    BY <1>1, <1>3, <1>7, <1>8 DEF AnswerOK, ParentOK, vars
-----------------------------------------------------------------------------
(* Writing. *)

\* The sectors handed to write_full_sectors hold what was read of them, but for
\* the bytes written.
LEMMA NewSectorsRight ==
  ASSUME TypeOK, CursorOK, NEW n \in Nat \ {0}, view.pos + n =< RangeBytes, NEW v \in Byte,
         NEW p, p # "other"
  PROVE  /\ NewSectors(n, v, p) \in [Places -> Data]
         /\ \A x \in Affected(n) : \A c \in Bytes :
              NewSectors(n, v, p)[x][c] =
                IF NumOf(x) * SectorBytes + c \in Here .. Here + n - 1 THEN v
                ELSE ReadSector(x[1], x[2])[c]
  <1>1. ASSUME NEW x \in Affected(n), NEW c \in Bytes
        PROVE  /\ NewSectors(n, v, p)[x][c] =
                    IF NumOf(x) * SectorBytes + c \in Here .. Here + n - 1 THEN v
                    ELSE ReadSector(x[1], x[2])[c]
               /\ ReadSector(x[1], x[2])[c] \in Byte
    <2> DEFINE g == NumOf(x) - FirstSector
               t == g * SectorBytes + c
               a == NumOf(x) * SectorBytes + c
    <2>1. /\ x \in Places /\ PlaceOf(NumOf(x)) = x /\ NumOf(x) \in Nat
          /\ x[1] \in Blocks /\ x[2] \in Sectors
      <3>1. x \in Places /\ PlaceOf(NumOf(x)) = x
        BY AffectedPlaces
      <3>2. x[1] \in Blocks /\ x[2] \in Sectors
        BY <3>1 DEF Places
      <3>3. x[1] \in Nat /\ x[2] \in Nat
        BY <3>2, ByteTypes
      <3>4. SectorsPerBlock \in Nat
        BY ByteTypes
      <3>5. NumOf(x) \in Nat
        BY <3>3, <3>4 DEF NumOf
      <3> QED
        BY <3>1, <3>2, <3>5
    <2>2. ByteAt(a) = ReadSector(x[1], x[2])[c]
      BY <2>1, ByteOfSector
    <2>3. ReadSector(x[1], x[2]) \in [Bytes -> Byte]
      BY <2>1, ReadType, ByteTypes
    <2>4. /\ t \in 0 .. AffectedCount(n) * SectorBytes - 1
          /\ a = FirstSector * SectorBytes + t
          /\ t \in FirstSkip .. FirstSkip + n - 1 <=> a \in Here .. Here + n - 1
      BY ByteInWindow
    <2>5. Temp(n, p)[t] = ByteAt(a)
      BY <2>4, TempHolds
    <2>6. t \in DOMAIN Temp(n, p)
      BY <2>4 DEF Temp
    <2>7. NewSectors(n, v, p)[x][c] = Patched(n, v, p)[t]
      <3>1. NewSectors(n, v, p)[x] = [d \in Bytes |-> Patched(n, v, p)[g * SectorBytes + d]]
        BY <2>1 DEF NewSectors
      <3> QED
        BY <3>1
    <2> HIDE DEF t, a
    <2>8. Patched(n, v, p)[t] = IF t \in FirstSkip .. FirstSkip + n - 1 THEN v ELSE Temp(n, p)[t]
      BY <2>6 DEF Patched
    <2>9. NewSectors(n, v, p)[x][c] = IF a \in Here .. Here + n - 1 THEN v ELSE ReadSector(x[1], x[2])[c]
      BY <2>2, <2>4, <2>5, <2>7, <2>8
    <2> QED
      BY <2>3, <2>9 DEF a
  <1>2. ASSUME NEW x \in Places PROVE NewSectors(n, v, p)[x] \in Data
    <2>1. CASE x \in Affected(n)
      <3>1. \A c \in Bytes : NewSectors(n, v, p)[x][c] \in Byte
        BY <2>1, <1>1
      <3>2. NewSectors(n, v, p)[x] = [c \in Bytes |-> NewSectors(n, v, p)[x][c]]
        BY <2>1 DEF NewSectors
      <3> QED
        BY <3>1, <3>2, ByteTypes
    <2>2. CASE x \notin Affected(n)
      BY <2>2 DEF NewSectors, Data
    <2> QED
      BY <2>1, <2>2
  <1>3. NewSectors(n, v, p) = [x \in Places |-> NewSectors(n, v, p)[x]]
    BY DEF NewSectors
  <1> QED
    BY <1>1, <1>2, <1>3
-----------------------------------------------------------------------------
(* Steps. *)

\* What a byte reads as after a step that shows the sectors T.
LEMMA BytesAfter ==
  ASSUME NEW T, Shows(T), NEW a \in DiskBytes
  PROVE  LET x == PlaceOf(a \div SectorBytes)
         IN  ByteAt(a)' = IF x \in T THEN w.val[x][a % SectorBytes] ELSE ByteAt(a)
  <1> DEFINE x == PlaceOf(a \div SectorBytes)
  <1>1. x \in Places
    BY SectorOfByte
  <1>2. ReadSector(x[1], x[2])' = IF x \in T THEN w.val[x] ELSE ReadSector(x[1], x[2])
    BY <1>1, ContentAfter
  <1>3. ByteAt(a)' = ReadSector(x[1], x[2])'[a % SectorBytes]
    BY DEF ByteAt
  <1> QED
    BY <1>2, <1>3 DEF ByteAt

\* The bytes of the write in progress.
LEMMA Carried ==
  ASSUME CursorOK, CarryOK, w.pc # "idle"
  PROVE  \E m \in Nat \ {0}, v \in Byte :
           /\ view.pos + m =< RangeBytes
           /\ carry = [a \in Here .. Here + m - 1 |-> v]
           /\ DOMAIN carry = Here .. Here + m - 1
           /\ DOMAIN carry \subseteq DiskBytes /\ DOMAIN carry # {}
           /\ Cardinality(DOMAIN carry) = m
  <1>1. PICK m \in Nat \ {0}, v \in Byte : /\ view.pos + m =< RangeBytes
                                           /\ carry = [a \in Here .. Here + m - 1 |-> v]
    BY DEF CarryOK
  <1>2. Here \in Nat
    BY ByteTypes DEF CursorOK, Here
  <1>3. ASSUME NEW a \in Here .. Here + m - 1 PROVE a \in DiskBytes
    <2>1. a - Here \in 0 .. m - 1 /\ a = Here + (a - Here)
      BY <1>2
    <2>2. /\ FirstSkip + (a - Here) \in 0 .. AffectedCount(m) * SectorBytes - 1
          /\ a = FirstSector * SectorBytes + (FirstSkip + (a - Here))
      BY <1>1, <2>1, WindowHere
    <2> QED
      BY <1>1, <2>2, WindowByte
  <1>4. Here \in Here .. Here + m - 1 /\ Cardinality(Here .. Here + m - 1) = m
    <2>1. Cardinality(Here .. Here + m - 1) = m
      BY <1>2, FS_Interval
    <2> QED
      BY <2>1, <1>2
  <1>5. DOMAIN carry = Here .. Here + m - 1
    BY <1>1
  <1> QED
    BY <1>1, <1>3, <1>4, <1>5

\* A byte that is not written reads as before, as the request gives its sector
\* what it holds there.
LEMMA PartOfWrite ==
  ASSUME TypeOK, CursorOK, CarryOK, w.pc # "idle", NEW T \in SUBSET w.req, Shows(T)
  PROVE  LET U == {a \in DOMAIN carry : PlaceOf(a \div SectorBytes) \in T}
         IN  \A a \in DiskBytes : ByteAt(a)' = IF a \in U THEN carry[a] ELSE ByteAt(a)
  <1> SUFFICES ASSUME NEW a \in DiskBytes
               PROVE  ByteAt(a)' = IF a \in DOMAIN carry /\ PlaceOf(a \div SectorBytes) \in T
                                   THEN carry[a] ELSE ByteAt(a)
    OBVIOUS
  <1> DEFINE x == PlaceOf(a \div SectorBytes)
             c == a % SectorBytes
  <1>1. c \in Bytes /\ a = NumOf(x) * SectorBytes + c
    BY SectorOfByte
  <1>2. ByteAt(a)' = IF x \in T THEN w.val[x][c] ELSE ByteAt(a)
    BY BytesAfter
  <1>3. ByteAt(a) = ReadSector(x[1], x[2])[c]
    BY DEF ByteAt
  <1>4. x \in T => w.val[x][c] = IF a \in DOMAIN carry THEN carry[a] ELSE ReadSector(x[1], x[2])[c]
    <2> HIDE DEF x, c
    <2> QED
      BY <1>1 DEF CarryOK
  <1> QED
    BY <1>2, <1>3, <1>4

\* A step that leaves the disk and the write in progress alone.
LEMMA AsideHolds ==
  ASSUME ByteInv, UNCHANGED <<vars, carry, past1>>, w.pc = "idle" \/ view' = view,
         CursorOK', AnswerOK', ParentOK'
  PROVE  ByteInv' /\ UNCHANGED VD!vars /\ UNCHANGED BD!vars
  <1>1. Inv' /\ DiskInv'
    BY InvNext, ProceedHolds DEF ByteInv
  <1>2. CarryOK'
    <2>1. CASE w.pc = "idle"
      BY <2>1 DEF CarryOK, vars
    <2>2. CASE view' = view
      <3>1. \A b, s : ReadSector(b, s)' = ReadSector(b, s)
        BY SameBytes
      <3>2. Here' = Here /\ RangeBytes' = RangeBytes /\ w' = w /\ carry' = carry
        BY <2>2 DEF Here, RangeBytes, vars
      <3> QED
        BY <2>2, <3>1, <3>2 DEF CarryOK, ByteInv
    <2> QED
      BY <2>1, <2>2
  <1>3. UNCHANGED VD!vars
    BY SameBytes DEF VD!vars, vars
  <1>4. UNCHANGED BD!vars
    BY SameBytes DEF BD!vars, vars
  <1> QED
    BY <1>1, <1>2, <1>3, <1>4 DEF ByteInv

\* Opening and dropping a range, moving the cursor, reading.
LEMMA CursorHolds ==
  ASSUME ByteInv,
         \/ \E r \in Ranges : OpenRange(r)
         \/ DropRange
         \/ \E from \in {0, view.pos, RangeBytes}, d \in {-1, 0, 1} : Seek(from, d)
         \/ \E n \in Lengths, k \in Answers : Read(n, k)
  PROVE  ByteInv' /\ UNCHANGED VD!vars /\ UNCHANGED BD!vars
  <1>0. CursorOK /\ ParentOK
    BY DEF ByteInv
  <1>1. ASSUME NEW r \in Ranges, OpenRange(r)
        PROVE  ByteInv' /\ UNCHANGED VD!vars /\ UNCHANGED BD!vars
    <2>1. r.start \in Nat /\ r.count \in Nat /\ r.start + r.count =< DiskSectors
      BY <1>1, ByteTypes, ByteConstants DEF OpenRange
    <2>2. CursorOK'
      <3>1. view' = [start |-> r.start, count |-> r.count, pos |-> 0]
        BY <1>1 DEF OpenRange
      <3>2. r.count * SectorBytes \in Nat
        BY <2>1, ByteTypes
      <3> QED
        BY <2>1, <3>1, <3>2 DEF CursorOK, RangeBytes
    <2> QED
      BY <1>1, <2>2, <1>0, AsideHolds DEF OpenRange, AnswerOK, ParentOK, ReadsWhatIsThere
  <1>2. CASE DropRange
    <2>1. CursorOK'
      BY <1>2, ByteTypes DEF DropRange, Closed, CursorOK, RangeBytes
    <2> QED
      BY <1>2, <2>1, <1>0, AsideHolds DEF DropRange, AnswerOK, ParentOK, ReadsWhatIsThere
  <1>3. ASSUME NEW from \in {0, view.pos, RangeBytes}, NEW d \in {-1, 0, 1}, Seek(from, d)
        PROVE  ByteInv' /\ UNCHANGED VD!vars /\ UNCHANGED BD!vars
    <2>1. /\ from \in Int /\ RangeBytes \in Nat /\ view \in [start : Nat, count : Nat, pos : Nat]
      BY <1>0, ByteTypes DEF CursorOK, RangeBytes
    <2>2. PICK p \in 0 .. RangeBytes : view' = [view EXCEPT !.pos = p]
      <3> DEFINE q == CASE from + d < 0 -> 0 [] from + d > RangeBytes -> RangeBytes [] OTHER -> from + d
      <3>1. view' = [view EXCEPT !.pos = q]
        BY <1>3 DEF Seek
      <3>2. q \in 0 .. RangeBytes
        BY <2>1
      <3> QED
        BY <3>1, <3>2
    <2>3. CursorOK'
      BY <1>0, <2>1, <2>2 DEF CursorOK, RangeBytes
    <2> QED
      BY <1>3, <2>3, <1>0, AsideHolds DEF Seek, AnswerOK, ParentOK, ReadsWhatIsThere
  <1>4. ASSUME NEW n \in Lengths, NEW k \in Answers, Read(n, k)
        PROVE  ByteInv' /\ UNCHANGED VD!vars /\ UNCHANGED BD!vars
    BY <1>0, <1>4, ReadRight, AsideHolds DEF Read
  <1> QED
    BY <1>1, <1>2, <1>3, <1>4
\* A write begins: the bytes it writes are a request for an array of bytes.
LEMMA WriteBegins ==
  ASSUME ByteInv, NEW n \in Lengths, NEW v \in Written, NEW k \in Answers, StartWrite(n, v, k)
  PROVE  ByteInv' /\ [VD!Next]_(VD!vars) /\ [BD!Next]_(BD!vars)
  <1> DEFINE m == Moved(n)
             S == Affected(m)
             p == IF FastPath(m) THEN parent ELSE Resolved(S, k)
             F == NewSectors(m, v, p)
  <1>0. /\ m \in Nat \ {0} /\ view.pos + m =< RangeBytes /\ v \in Byte /\ CursorOK /\ TypeOK
        /\ Inv /\ DiskInv
    BY MovedFits, ByteConstants DEF StartWrite, ByteInv, Inv
  <1>9. p \in {"none", "fits", "short"} /\ parent' = p /\ ParentOK'
    <2>1. p \in {"none", "fits", "short"}
      BY ParentIsKept DEF ByteInv, ParentOK
    <2>2. parent' = p
      BY DEF StartWrite
    <2> QED
      BY <2>1, <2>2 DEF ParentOK
  <1>1. /\ F \in [Places -> Data] /\ S \in SUBSET Places
        /\ \A x \in S : \A c \in Bytes :
             F[x][c] = IF NumOf(x) * SectorBytes + c \in Here .. Here + m - 1 THEN v
                       ELSE ReadSector(x[1], x[2])[c]
    <2> HIDE DEF m, p
    <2>1. p # "other"
      BY <1>9
    <2> QED
      BY <1>0, <2>1, NewSectorsRight, AffectedPlaces
  <1>2. CASE /\ Begin(S, F)
             /\ carry' = [a \in Here .. Here + m - 1 |-> v]
             /\ past1' = [a \in DiskBytes |-> IF a \in DOMAIN carry' THEN past1[a] \cup {v} ELSE past1[a]]
             /\ got' = Nothing /\ view' = view
    <2> HIDE DEF F, S, m
    <2>1. DiskInv' /\ Shows({}) /\ VD!Next
      BY <1>0, <1>1, <1>2, BeginHolds, BeginMaps
    <2>2. Inv'
      BY <1>0, <1>1, <1>2, BeginInv, BeginType DEF Inv, FileOK
    <2>3. /\ w.pc = "idle" /\ w'.pc = "round" /\ w'.req = S /\ answer' = "none"
          /\ \A x \in S : w'.val[x] = F[x]
      <3>1. w \in Write
        BY <1>0 DEF TypeOK
      <3> QED
        BY <3>1, <1>1, <1>2 DEF Begin, Write
    <2>4. Here' = Here /\ RangeBytes' = RangeBytes /\ CursorOK'
      BY <1>0, <1>2 DEF Here, RangeBytes, CursorOK
    <2>5. DOMAIN carry' = Here .. Here + m - 1 /\ \A a \in DOMAIN carry' : carry'[a] = v
      BY <1>2
    <2>6. ASSUME NEW a \in DOMAIN carry' PROVE PlaceOf(a \div SectorBytes) \in S /\ a \in DiskBytes
      <3>1. Here \in Nat
        BY <1>0, ByteTypes DEF CursorOK, Here
      <3>2. a - Here \in 0 .. m - 1 /\ a = Here + (a - Here)
        BY <2>5, <2>6, <3>1, <1>0
      <3>3. /\ FirstSkip + (a - Here) \in 0 .. AffectedCount(m) * SectorBytes - 1
            /\ a = FirstSector * SectorBytes + (FirstSkip + (a - Here))
        BY <1>0, <3>2, WindowHere
      <3> QED
        BY <1>0, <3>3, WindowByte DEF S
    <2>7. \A x \in Places : ReadSector(x[1], x[2])' = ReadSector(x[1], x[2])
      BY <2>1, ContentAfter
    <2>8. \A x \in S : \A c \in Bytes :
            w'.val[x][c] = IF NumOf(x) * SectorBytes + c \in DOMAIN carry'
                           THEN carry'[NumOf(x) * SectorBytes + c]
                           ELSE ReadSector(x[1], x[2])'[c]
      BY <1>1, <2>3, <2>5, <2>7
    <2>9. CarryOK'
      BY <1>0, <1>2, <2>3, <2>4, <2>6, <2>8 DEF CarryOK
    <2>10. AnswerOK' /\ ParentOK'
      BY <1>2, <1>9 DEF AnswerOK, ReadsWhatIsThere
    <2>11. DOMAIN carry' \in (SUBSET DiskBytes) \ {{}}
      <3>1. Here \in Nat
        BY <1>0, ByteTypes DEF CursorOK, Here
      <3>2. Here \in DOMAIN carry'
        BY <2>5, <3>1, <1>0
      <3> QED
        BY <2>6, <3>2
    <2>12. \A a \in DiskBytes : ByteAt(a)' = ByteAt(a)
      BY <2>1, BytesAfter
    <2>13. BD!Begin(DOMAIN carry')
      BY <1>0, <1>2, <2>3, <2>5, <2>11, <2>12 DEF BD!Begin, BD!NoRequest
    <2>14. BD!Next
      BY <2>11, <2>13 DEF BD!Next
    <2> QED
      BY <2>1, <2>2, <2>4, <2>9, <2>10, <2>14 DEF ByteInv
  <1>3. CASE got' = FailedAt(Here) /\ UNCHANGED <<vars, carry, past1>> /\ view' = view
    <2>1. CursorOK'
      BY <1>0, <1>3 DEF CursorOK, RangeBytes
    <2>2. AnswerOK'
      <3>1. Here' = Here /\ w' = w /\ w.pc = "idle"
        BY <1>3 DEF StartWrite, Here, vars
      <3> QED
        BY <1>3, <2>1, <3>1 DEF AnswerOK, ReadsWhatIsThere, CursorOK, FailedAt
    <2> QED
      BY <1>3, <1>9, <2>1, <2>2, AsideHolds
  <1> QED
    BY <1>2, <1>3 DEF StartWrite

\* The steps of write_full_sectors show a part of the bytes written.
LEMMA GoOnHolds ==
  ASSUME ByteInv, GoOn
  PROVE  ByteInv' /\ VD!Next /\ BD!Next
  <1>0. Inv /\ DiskInv /\ TypeOK /\ CursorOK /\ CarryOK /\ Proceed
    BY DEF ByteInv, Inv, GoOn
  <1>1. /\ w.pc # "idle" /\ w'.pc # "idle" /\ w'.req = w.req /\ w'.val = w.val
        /\ past' = past /\ answer' = answer
        /\ view' = view /\ carry' = carry /\ past1' = past1 /\ got' = got
    BY <1>0, ProceedShows DEF GoOn
  <1>2. PICK T \in SUBSET w.req : Shows(T)
    BY <1>0, ProceedShows
  <1>3. Inv' /\ DiskInv'
    BY <1>0, InvNext, ProceedHolds DEF Next
  <1>4. Here' = Here /\ RangeBytes' = RangeBytes /\ CursorOK'
    BY <1>0, <1>1 DEF Here, RangeBytes, CursorOK
  <1>5. AnswerOK' /\ ParentOK'
    BY <1>1 DEF GoOn, ByteInv, AnswerOK, ReadsWhatIsThere, ParentOK
  <1>6. ASSUME NEW x \in w.req, NEW c \in Bytes
        PROVE  LET a == NumOf(x) * SectorBytes + c
               IN  w.val[x][c] = IF a \in DOMAIN carry THEN carry[a] ELSE ReadSector(x[1], x[2])'[c]
    <2>1. ReadSector(x[1], x[2])' = IF x \in T THEN w.val[x] ELSE ReadSector(x[1], x[2])
      BY <1>0, <1>2, ContentAfter, RoundTypes
    <2> QED
      BY <1>0, <1>1, <2>1 DEF CarryOK
  <1>7. CarryOK'
    BY <1>0, <1>1, <1>4, <1>6 DEF CarryOK
  <1> DEFINE U == {a \in DOMAIN carry : PlaceOf(a \div SectorBytes) \in T}
  <1>8. \A a \in DiskBytes : ByteAt(a)' = IF a \in U THEN carry[a] ELSE ByteAt(a)
    BY <1>0, <1>1, <1>2, PartOfWrite
  <1>9. BD!Apply(U)
    BY <1>1, <1>8 DEF BD!Apply
  <1>10. BD!Next
    BY <1>1, <1>9 DEF BD!Next
  <1> QED
    BY <1>0, <1>3, <1>4, <1>5, <1>7, <1>10, ProceedMaps DEF ByteInv

\* The write returns when all its bytes are there, and the cursor moves.
LEMMA WriteEnds ==
  ASSUME ByteInv, FinishWrite
  PROVE  ByteInv' /\ VD!Next /\ BD!Next
  <1>0. Inv /\ DiskInv /\ TypeOK /\ CursorOK /\ CarryOK /\ Return
    BY DEF ByteInv, Inv, FinishWrite
  <1>1. /\ w.pc = "round" /\ w'.pc = "idle" /\ w.todo = {} /\ answer' = "ok"
        /\ past1' = past1 /\ got' = got
    BY DEF FinishWrite, Return, Idle
  <1>2. PICK m \in Nat \ {0}, v \in Byte :
          /\ view.pos + m =< RangeBytes
          /\ carry = [a \in Here .. Here + m - 1 |-> v]
          /\ DOMAIN carry = Here .. Here + m - 1
          /\ DOMAIN carry \subseteq DiskBytes /\ DOMAIN carry # {}
          /\ Cardinality(DOMAIN carry) = m
    BY <1>0, <1>1, Carried
  <1>3. Inv' /\ DiskInv' /\ Shows({})
    BY <1>0, InvNext, ReturnHolds DEF Next
  <1>4. CursorOK'
    <2>1. view' = [view EXCEPT !.pos = @ + m]
      BY <1>2 DEF FinishWrite
    <2> QED
      BY <1>0, <1>2, <2>1 DEF CursorOK, RangeBytes
  <1>5. CarryOK' /\ AnswerOK' /\ ParentOK'
    BY <1>1 DEF FinishWrite, ByteInv, CarryOK, AnswerOK, ReadsWhatIsThere, ParentOK
  <1>6. \A a \in DiskBytes : ByteAt(a)' = ByteAt(a)
    BY <1>3, BytesAfter
  <1>7. ASSUME NEW a \in DOMAIN carry PROVE ByteAt(a) = carry[a]
    <2> DEFINE x == PlaceOf(a \div SectorBytes)
               c == a % SectorBytes
    <2>1. c \in Bytes /\ a = NumOf(x) * SectorBytes + c
      BY <1>2, SectorOfByte
    <2>2. x \in w.req
      BY <1>0, <1>1 DEF CarryOK
    <2>3. ByteAt(a) = ReadSector(x[1], x[2])[c]
      BY DEF ByteAt
    <2> HIDE DEF x, c
    <2>4. w.val[x][c] = carry[a]
      BY <1>0, <1>1, <2>1, <2>2 DEF CarryOK
    <2>5. ReadSector(x[1], x[2]) = w.val[x]
      BY <1>0, <1>1, <2>2, ReadIsShown DEF DiskInv, RoundInv, Done
    <2> QED
      BY <2>3, <2>4, <2>5
  <1> DEFINE r == [sectors |-> DOMAIN carry, value |-> carry]
  <1>8. r # [sectors |-> {}, value |-> <<>>]
    <2>1. r.sectors # {}
      BY <1>2
    <2> HIDE DEF r
    <2> QED
      BY <2>1
  <1>9. BD!Succeed
    BY <1>1, <1>2, <1>6, <1>7, <1>8 DEF BD!Succeed, BD!NoRequest
  <1>10. BD!Next
    BY <1>9 DEF BD!Next
  <1> QED
    BY <1>0, <1>3, <1>4, <1>5, <1>10, ReturnMaps DEF ByteInv

\* An error leaves a part of the bytes written, and the cursor where it was.
LEMMA WriteFails ==
  ASSUME ByteInv, HasParent => ~MayFail, FailWrite
  PROVE  ByteInv' /\ VD!Next /\ BD!Next
  <1>0. Inv /\ DiskInv /\ TypeOK /\ CursorOK /\ CarryOK /\ Fail
    BY DEF ByteInv, Inv, FailWrite
  <1>1. /\ w.pc # "idle" /\ w'.pc = "idle" /\ answer' = "error"
        /\ view' = view /\ past1' = past1 /\ got' = FailedAt(Here) /\ parent' = parent
    BY <1>0 DEF FailWrite, Fail, Idle
  <1>2. PICK T \in SUBSET w.req : Shows(T)
    BY <1>0, FailHolds
  <1>3. Inv' /\ DiskInv'
    BY <1>0, InvNext, FailHolds DEF Next
  <1>4. CursorOK' /\ CarryOK' /\ AnswerOK' /\ ParentOK'
    <2>1. CursorOK' /\ CarryOK' /\ ParentOK'
      BY <1>0, <1>1 DEF ByteInv, CursorOK, RangeBytes, CarryOK, ParentOK
    <2>2. Here' = Here
      BY <1>1 DEF Here
    <2> QED
      BY <1>1, <2>1, <2>2 DEF AnswerOK, ReadsWhatIsThere, CursorOK, FailedAt
  <1> DEFINE U == {a \in DOMAIN carry : PlaceOf(a \div SectorBytes) \in T}
  <1>5. \A a \in DiskBytes : ByteAt(a)' = IF a \in U THEN carry[a] ELSE ByteAt(a)
    BY <1>0, <1>1, <1>2, PartOfWrite
  <1> DEFINE r == [sectors |-> DOMAIN carry, value |-> carry]
  <1>6. r # [sectors |-> {}, value |-> <<>>]
    <2>1. r.sectors # {}
      BY <1>0, <1>1, Carried
    <2> HIDE DEF r
    <2> QED
      BY <2>1
  <1>7. BD!Abort(U)
    BY <1>1, <1>5, <1>6 DEF BD!Abort, BD!NoRequest
  <1>8. BD!Next
    BY <1>1, <1>7 DEF BD!Next
  <1> QED
    BY <1>0, <1>3, <1>4, <1>8, FailMaps DEF ByteInv

\* Every step keeps the invariant and is a step of both virtual disks.
LEMMA ByteStep ==
  ASSUME ByteInv, HasParent => ~MayFail, [ByteNext]_byteVars
  PROVE  ByteInv' /\ [VD!Next]_(VD!vars) /\ [BD!Next]_(BD!vars)
  <1>1. CASE UNCHANGED byteVars
    <2>1. CursorOK' /\ AnswerOK'
      <3>1. /\ \A a : ByteAt(a)' = ByteAt(a)
            /\ view' = view /\ got' = got /\ w' = w
        <4>1. UNCHANGED vars /\ view' = view /\ got' = got /\ w' = w
          BY <1>1 DEF byteVars, vars
        <4>2. \A a : ByteAt(a)' = ByteAt(a)
          BY <4>1, SameBytes
        <4>3. w' = w
          BY <4>1 DEF vars
        <4> QED
          BY <4>1, <4>2, <4>3
      <3>2. ReadsWhatIsThere'
        <4>1. ReadsWhatIsThere
          BY DEF ByteInv, AnswerOK
        <4>2. /\ UNCHANGED fileVars
              /\ view' = view /\ got' = got
          BY <1>1 DEF byteVars, vars
        <4> QED
          BY <4>1, <4>2 DEF ReadsWhatIsThere, Here, RangeBytes, ByteAt, ReadSector, ReadPartial, fileVars
      <3> QED
        BY <3>1, <3>2 DEF ByteInv, CursorOK, RangeBytes, AnswerOK
    <2>2. ParentOK'
      BY <1>1 DEF byteVars, ByteInv, ParentOK
    <2> QED
      BY <1>1, <2>1, <2>2, AsideHolds DEF byteVars
  <1>2. ASSUME NEW n \in Lengths, NEW k \in Answers, NEW v \in Written, StartWrite(n, v, k)
        PROVE  ByteInv' /\ [VD!Next]_(VD!vars) /\ [BD!Next]_(BD!vars)
    BY <1>2, WriteBegins
  <1>3. CASE GoOn \/ FinishWrite \/ FailWrite
    BY <1>3, GoOnHolds, WriteEnds, WriteFails
  <1> QED
    BY <1>1, <1>2, <1>3, CursorHolds DEF ByteNext

LEMMA ByteStart == ByteInit => ByteInv /\ VD!Init /\ BD!Init
  <1> SUFFICES ASSUME ByteInit PROVE ByteInv /\ VD!Init /\ BD!Init
    OBVIOUS
  <1>0. Init /\ Inv /\ DiskInv /\ TypeOK
    BY InvInit, DiskInit DEF ByteInit, Inv
  <1>1. w.pc = "idle" /\ answer = "none"
    BY <1>0 DEF Init, Idle
  <1>2. CursorOK
    BY ByteTypes DEF ByteInit, Closed, CursorOK, RangeBytes
  <1>3. CarryOK /\ AnswerOK /\ ParentOK
    BY <1>1 DEF ByteInit, CarryOK, AnswerOK, ReadsWhatIsThere, ParentOK
  <1>4. VD!Init
    BY <1>0, VirtualDiskInit
  <1>5. BD!Init
    BY <1>0, <1>1, ByteType DEF ByteInit, BD!Init, BD!NoRequest
  <1> QED
    BY <1>0, <1>2, <1>3, <1>4, <1>5 DEF ByteInv
-----------------------------------------------------------------------------
(***************************************************************************)
(* The inductive invariant of cursor, answer and write in progress.        *)
(* (ByteSpec has no power losses, and errors are for disks without parent, *)
(* see WritePathIsVirtualDisk.)                                            *)
(***************************************************************************)
THEOREM ByteInvariance ==
  ASSUME HasParent => ~MayFail
  PROVE  ByteSpec => []ByteInv
  <1> QED
    BY ByteStart, ByteStep, PTL DEF ByteSpec

(***************************************************************************)
(* Whatever the lengths of the buffers and wherever the cursor stands,     *)
(* over any mix of block states, and whatever the resolver answers: a read *)
(* that succeeds returns the bytes of the disk at the cursor and leaves    *)
(* the cursor behind them; a call that fails leaves it where it was.       *)
(***************************************************************************)
THEOREM ReadsAreRight ==
  ASSUME HasParent => ~MayFail
  PROVE  ByteSpec => []ReadsWhatIsThere
  <1>1. ByteInv => ReadsWhatIsThere
    BY DEF ByteInv, AnswerOK
  <1> QED
    BY <1>1, ByteInvariance, PTL

(***************************************************************************)
(* The requests that byte writes make of whole sectors are requests of a   *)
(* virtual disk of sectors: IsVirtualDisk holds with any bytes in them.    *)
(***************************************************************************)
THEOREM ByteWritesAreSectorWrites ==
  ASSUME HasParent => ~MayFail
  PROVE  ByteSpec => IsVirtualDisk
  <1> QED
    BY ByteStart, ByteStep, PTL DEF ByteSpec, IsVirtualDisk, VD!Spec

(***************************************************************************)
(* A write of any length at any position is a write to an array of bytes:  *)
(* it changes no byte but its own, although it reads whole sectors,        *)
(* patches them and writes all of them back.                               *)
(***************************************************************************)
THEOREM BytesAreVirtualDisk ==
  ASSUME HasParent => ~MayFail
  PROVE  ByteSpec => IsByteDisk
  <1> QED
    BY ByteStart, ByteStep, PTL DEF ByteSpec, IsByteDisk, BD!Spec
=============================================================================
