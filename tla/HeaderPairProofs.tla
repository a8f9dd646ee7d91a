-------------------------- MODULE HeaderPairProofs --------------------------
(***************************************************************************)
(* A VHDX file keeps a current header through every writable open, every   *)
(* failure and every power loss, for every sequence number.                *)
(***************************************************************************)
EXTENDS HeaderPair, TLAPS

\* The shape of the places, used in every step.
LEMMA OtherSlot == \A s \in Slots : Other(s) \in Slots /\ Other(s) # s /\ Other(Other(s)) = s
  BY DEF Slots, Other

\* A pair of which one header is valid, and both are not of the same number,
\* has a current header: the newest.
LEMMA CurrentOf ==
  ASSUME NEW p \in [Slots -> Header], NEW s \in Slots, p[s].ok,
         p[Other(s)].ok => p[Other(s)].seq # p[s].seq
  PROVE  LET i == CurrentIndex(p) IN
         /\ i \in Slots /\ p[i].ok /\ p[i].seq >= p[s].seq
         /\ p[Other(i)].ok => p[Other(i)].seq < p[i].seq
         /\ i = s \/ p[s].seq < p[i].seq
  <1>1. /\ p[1].ok \in BOOLEAN /\ p[2].ok \in BOOLEAN
        /\ p[1].seq \in Nat /\ p[2].seq \in Nat
    BY DEF Slots, Header
  <1>2. s = 1 \/ s = 2
    BY DEF Slots
  <1> QED
    BY <1>1, <1>2 DEF Slots, Other, CurrentIndex

\* What may survive of the two headers has a current one: no older than the
\* durable one, and with what it carried.
LEMMA Survives ==
  ASSUME TypeOK, DurablePlace, OtherPlace, NEW p \in Survivors
  PROVE  LET i == CurrentIndex(p) IN
         /\ p \in [Slots -> Header]
         /\ i \in Slots /\ p[i].ok /\ p[i].seq >= durable.seq /\ p[i].rest = rest
         /\ p[Other(i)].ok => p[Other(i)].seq < p[i].seq
         /\ i # durable.at => p[i].seq > durable.seq
  <1> DEFINE a == durable.at
             b == Other(durable.at)
  <1>1. a \in Slots /\ b \in Slots /\ durable.seq \in Nat /\ b # a
    BY OtherSlot DEF TypeOK
  <1>2. \A s \in Slots : p[s] \in disk[s]
    BY DEF Survivors, Slots
  <1>3. p \in [Slots -> Header]
    BY <1>2 DEF Survivors, TypeOK
  <1>4. /\ p[a].ok /\ p[a].seq >= durable.seq /\ (p[a].seq - durable.seq) % 2 = 0
        /\ p[a].rest = rest
    BY <1>1, <1>2 DEF DurablePlace
  <1>5. p[b].ok /\ p[b].seq >= durable.seq =>
          (p[b].seq - durable.seq) % 2 = 1 /\ p[b].rest = rest
    BY <1>1, <1>2 DEF OtherPlace
  <1>6. p[a].seq \in Nat /\ p[b].seq \in Nat
    BY <1>1, <1>3 DEF Header
  <1>7. p[b].ok => p[b].seq # p[a].seq
    BY <1>1, <1>4, <1>5, <1>6
  <1> DEFINE i == CurrentIndex(p)
  <1>8. /\ i \in Slots /\ p[i].ok /\ p[i].seq >= p[a].seq
        /\ p[Other(i)].ok => p[Other(i)].seq < p[i].seq
        /\ i = a \/ p[a].seq < p[i].seq
    BY <1>1, <1>3, <1>4, <1>7, CurrentOf
  <1>9. i = a \/ i = b
    BY <1>8, <1>1 DEF Slots
  <1>10. i \in Slots /\ p[i].ok /\ p[i].seq >= durable.seq /\ p[i].rest = rest
    BY <1>1, <1>4, <1>5, <1>6, <1>8, <1>9
  <1>11. i # a => p[i].seq > durable.seq
    BY <1>1, <1>4, <1>6, <1>8, <1>9
  <1> HIDE DEF i, a
  <1> QED
    BY <1>3, <1>8, <1>10, <1>11 DEF i, a

\* What the file reads as now is one of the things that may survive.
LEMMA SlotSurvives ==
  ASSUME TypeOK, SlotsMayLast PROVE slot \in Survivors
  BY DEF TypeOK, SlotsMayLast, Survivors, Slots
-----------------------------------------------------------------------------
\* The invariant holds of every file a medium may first open.
LEMMA InitInv == Init => Inv
  <1> SUFFICES ASSUME Init PROVE Inv
    OBVIOUS
  <1>1. PICK p \in [Slots -> {x \in [ok : BOOLEAN, seq : 0 .. MaxSeq, rest : Rests] : x.ok} \cup {Torn}] :
          /\ CurrentIndex(p) # 0
          /\ slot = p
          /\ disk = [s \in Slots |-> {p[s]}]
          /\ durable = [at |-> CurrentIndex(p), seq |-> p[CurrentIndex(p)].seq]
          /\ rest = p[CurrentIndex(p)].rest
    BY DEF Init
  <1>2. Torn \in Header /\ ~Torn.ok
    BY DEF Torn, Header
  <1>3. p \in [Slots -> Header]
    BY <1>2, HeaderConstants DEF Header
  <1>4. /\ p[1].ok \in BOOLEAN /\ p[2].ok \in BOOLEAN
        /\ p[1].seq \in Nat /\ p[2].seq \in Nat
    BY <1>3 DEF Slots, Header
  <1> DEFINE i == CurrentIndex(p)
  <1>5. /\ i \in Slots /\ p[i].ok
        /\ p[Other(i)].ok => p[Other(i)].seq < p[i].seq
    BY <1>1, <1>4 DEF CurrentIndex, Slots, Other
  <1>6. p[i].seq \in Nat /\ p[i].rest \in Rests
    BY <1>2, <1>5, <1>3 DEF Header
  <1>7. Other(i) \in Slots /\ p[Other(i)].seq \in Nat
    BY <1>3, <1>5, OtherSlot DEF Header
  <1>8. h = Closed /\ trouble \in Troubles /\ Closed \in [pc : {"closed", "update", "sync", "open"}, buf : [Slots -> Header]]
    BY <1>2 DEF Init, Closed
  <1> HIDE DEF i
  <1>9. /\ slot = p /\ disk = [s \in Slots |-> {p[s]}]
        /\ durable = [at |-> i, seq |-> p[i].seq] /\ rest = p[i].rest
    BY <1>1 DEF i
  <1>10. TypeOK
    BY <1>3, <1>5, <1>6, <1>8, <1>9 DEF TypeOK
  <1>11. DurablePlace
    BY <1>5, <1>6, <1>9 DEF DurablePlace
  <1>12. OtherPlace
    BY <1>5, <1>6, <1>7, <1>9 DEF OtherPlace
  <1>13. SlotsMayLast /\ BufferFresh /\ SyncOK /\ CachedHeaders
    BY <1>8, <1>9 DEF SlotsMayLast, BufferFresh, SyncOK, CachedHeaders, Closed
  <1>14. NothingPending
    BY <1>9 DEF NothingPending, i
  <1> QED
    BY <1>10, <1>11, <1>12, <1>13, <1>14 DEF Inv

\* What the header update writes, and where.
LEMMA Update ==
  ASSUME Inv, MayUpdate
  PROVE  LET i == Noncurrent(h.buf)
             x == Updated(h.buf) IN
         /\ h.buf = slot /\ i \in Slots /\ CurrentIndex(slot) = Other(i)
         /\ x \in Header /\ x.ok /\ x.rest = rest
         /\ x.seq = slot[Other(i)].seq + 1 /\ slot[Other(i)].seq \in Nat
         /\ slot[Other(i)].seq >= durable.seq
         /\ slot[i].ok /\ slot[i].seq < slot[Other(i)].seq
         /\ i = durable.at => slot[Other(i)].seq > durable.seq
  <1> DEFINE c == CurrentIndex(slot)
  <1>1. h.buf = slot /\ slot[1].ok /\ slot[2].ok
    BY DEF Inv, BufferFresh, MayUpdate
  <1>2. slot \in Survivors
    BY SlotSurvives DEF Inv
  <1>3. /\ slot \in [Slots -> Header]
        /\ c \in Slots /\ slot[c].ok /\ slot[c].seq >= durable.seq /\ slot[c].rest = rest
        /\ slot[Other(c)].ok => slot[Other(c)].seq < slot[c].seq
        /\ c # durable.at => slot[c].seq > durable.seq
    BY <1>2, Survives DEF Inv
  <1>4. slot[1].seq \in Nat /\ slot[2].seq \in Nat
    BY <1>3 DEF Slots, Header
  <1> HIDE DEF c
  <1>5. Other(c) \in Slots /\ slot[Other(c)].ok /\ Noncurrent(slot) = Other(c)
    BY <1>1, <1>3, <1>4 DEF Noncurrent, Other, Slots
  <1>6. Other(Other(c)) = c /\ Other(c) # c
    BY <1>3, OtherSlot
  <1>7. /\ Updated(slot) = [slot[c] EXCEPT !.seq = @ + 1]
        /\ slot[c] \in Header
    BY <1>3 DEF Updated, c
  <1>8. /\ Updated(slot) \in Header /\ Updated(slot).ok /\ Updated(slot).rest = rest
        /\ Updated(slot).seq = slot[c].seq + 1 /\ slot[c].seq \in Nat
    BY <1>7, <1>3 DEF Header
  <1> QED
    BY <1>1, <1>3, <1>5, <1>6, <1>8 DEF c

\* Every step keeps it.
LEMMA StepInv == Inv /\ [Next]_vars => Inv'
  <1> SUFFICES ASSUME Inv, [Next]_vars PROVE Inv'
    OBVIOUS
  <1> USE DEF Inv
  <1>0. /\ durable.at \in Slots /\ durable.seq \in Nat /\ Other(durable.at) \in Slots
        /\ Other(durable.at) # durable.at
    BY OtherSlot DEF TypeOK
  <1>1. CASE ReadHeaders
    BY <1>1 DEF ReadHeaders, TypeOK, DurablePlace, OtherPlace, SlotsMayLast, BufferFresh,
                SyncOK, NothingPending, CachedHeaders
  <1>2. ASSUME h' = Closed, h.pc # "sync" \/ trouble # "tear", UNCHANGED <<slot, disk, durable, rest, trouble>>
        PROVE  Inv'
    <2>1. Closed \in [pc : {"closed", "update", "sync", "open"}, buf : [Slots -> Header]]
      BY DEF Closed, Torn, Header
    <2> QED
      BY <1>2, <2>1 DEF TypeOK, DurablePlace, OtherPlace, SlotsMayLast, BufferFresh,
                SyncOK, NothingPending, CachedHeaders, Closed
  <1>3. CASE WriteHeader
    <2> DEFINE i == Noncurrent(h.buf)
               x == Updated(h.buf)
               T == IF trouble = "tear" THEN {Torn} ELSE {}
    <2>1. MayUpdate
      BY <1>3 DEF WriteHeader
    <2>2. /\ h.buf = slot /\ i \in Slots /\ CurrentIndex(slot) = Other(i)
          /\ x \in Header /\ x.ok /\ x.rest = rest
          /\ x.seq = slot[Other(i)].seq + 1 /\ slot[Other(i)].seq \in Nat
          /\ slot[Other(i)].seq >= durable.seq
          /\ slot[i].ok /\ slot[i].seq < slot[Other(i)].seq
          /\ i = durable.at => slot[Other(i)].seq > durable.seq
      BY <2>1, Update
    <2>3. /\ slot' = [slot EXCEPT ![i] = x]
          /\ disk' = [disk EXCEPT ![i] = @ \cup {x} \cup T]
          /\ h' = [h EXCEPT !.pc = "sync"]
          /\ UNCHANGED <<durable, rest, trouble>>
      BY <1>3 DEF WriteHeader
    <2>4. Torn \in Header /\ ~Torn.ok
      BY DEF Torn, Header
    <2>5. SyncOK' /\ BufferFresh' /\ NothingPending' /\ CachedHeaders'
      <3>1. h'.pc = "sync" /\ h'.buf = h.buf
        BY <2>3 DEF TypeOK
      <3>2. h.buf[1].ok /\ h.buf[2].ok
        BY <2>1 DEF MayUpdate
      <3> QED
        BY <2>2, <2>3, <3>1, <3>2 DEF SyncOK, BufferFresh, NothingPending, CachedHeaders,
           Noncurrent, Updated
    <2> HIDE DEF i, x
    <2>6. TypeOK'
      BY <2>2, <2>3, <2>4 DEF TypeOK
    <2>7. SlotsMayLast'
      BY <2>2, <2>3 DEF TypeOK, SlotsMayLast
    <2>8. slot[i] \in disk[i] /\ slot[Other(i)] \in disk[Other(i)]
      BY <2>2, OtherSlot DEF SlotsMayLast
    <2>9. slot[i].seq \in Nat
      BY <2>2 DEF TypeOK, Header
    <2>10. CASE i = durable.at
      <3>1. trouble # "tear"
        <4>1. h.pc # "sync"
          BY <2>1 DEF MayUpdate
        <4> QED
          BY <4>1, <2>2, <2>10, OtherSlot DEF NothingPending
      <3>2. (slot[Other(i)].seq - durable.seq) % 2 = 1
        <4>1. slot[Other(i)].ok
          BY <2>1, <2>2, <1>0, <2>10 DEF MayUpdate, Slots
        <4> QED
          BY <4>1, <2>2, <2>8, <2>10 DEF OtherPlace
      <3>3. (x.seq - durable.seq) % 2 = 0 /\ x.seq >= durable.seq
        BY <3>2, <2>2, <1>0
      <3>4. DurablePlace'
        BY <2>2, <2>3, <2>10, <3>1, <3>3 DEF DurablePlace, TypeOK
      <3>5. OtherPlace'
        BY <2>3, <2>10, <1>0 DEF OtherPlace, TypeOK
      <3> QED
        BY <2>5, <2>6, <2>7, <3>4, <3>5
    <2>11. CASE i = Other(durable.at)
      <3>1. Other(i) = durable.at
        BY <2>11, OtherSlot DEF TypeOK
      <3>2. (slot[Other(i)].seq - durable.seq) % 2 = 0
        BY <3>1, <2>8 DEF DurablePlace
      <3>3. (x.seq - durable.seq) % 2 = 1
        BY <3>2, <2>2, <1>0
      <3>4. DurablePlace'
        BY <2>3, <2>11, <1>0 DEF DurablePlace, TypeOK
      <3>5. OtherPlace'
        BY <2>2, <2>3, <2>4, <2>11, <3>3, <1>0 DEF OtherPlace, TypeOK
      <3> QED
        BY <2>5, <2>6, <2>7, <3>4, <3>5
    <2> QED
      BY <2>2, <2>10, <2>11, <1>0 DEF Slots, Other
  <1>4. CASE SyncHeader
    <2> DEFINE i == Noncurrent(h.buf)
               x == Updated(h.buf)
    <2>1. /\ h.pc = "sync"
          /\ disk' = [s \in Slots |-> {slot[s]}]
          /\ h' = [pc |-> "open", buf |-> [h.buf EXCEPT ![i] = x]]
          /\ durable' = [at |-> i, seq |-> x.seq]
          /\ UNCHANGED <<slot, rest, trouble>>
      BY <1>4 DEF SyncHeader
    <2>2. /\ h.buf[1].ok /\ h.buf[2].ok
          /\ CurrentIndex(h.buf) = Other(i)
          /\ slot = [h.buf EXCEPT ![i] = x]
      BY <2>1 DEF SyncOK
    <2>3. h.buf \in [Slots -> Header]
      BY DEF TypeOK
    <2>4. i \in Slots /\ Other(i) \in Slots /\ Other(i) # i
      BY OtherSlot DEF Noncurrent, Slots
    <2>5. /\ x = [h.buf[Other(i)] EXCEPT !.seq = @ + 1] /\ h.buf[Other(i)] \in Header
      BY <2>2, <2>3, <2>4 DEF Updated
    <2>6. /\ x \in Header /\ x.seq = h.buf[Other(i)].seq + 1 /\ h.buf[Other(i)].seq \in Nat
          /\ x.ok = h.buf[Other(i)].ok
      BY <2>5 DEF Header
    <2>7. x.ok
      BY <2>2, <2>4, <2>6 DEF Slots
    <2>8. slot[i] = x /\ slot[Other(i)] = h.buf[Other(i)]
      BY <2>2, <2>3, <2>4
    <2>9. CurrentIndex(slot) = i
      <3>1. slot \in [Slots -> Header]
        BY DEF TypeOK
      <3>2. slot[i].ok /\ slot[Other(i)].ok /\ slot[i].seq = slot[Other(i)].seq + 1
        BY <2>2, <2>4, <2>6, <2>7, <2>8 DEF Slots
      <3>3. slot[1].seq \in Nat /\ slot[2].seq \in Nat
        BY <3>1 DEF Slots, Header
      <3>4. i = 1 \/ i = 2
        BY <2>4 DEF Slots
      <3> HIDE DEF i
      <3> QED
        BY <3>2, <3>3, <3>4 DEF CurrentIndex, Other
    <2>10. x.rest = rest
      <3>1. slot \in Survivors
        BY SlotSurvives
      <3>2. slot[i].rest = rest
        BY <3>1, <2>9, Survives
      <3> QED
        BY <3>2, <2>8
    <2> HIDE DEF i, x
    <2>11. TypeOK'
      BY <2>1, <2>3, <2>4, <2>6 DEF TypeOK
    <2>12. DurablePlace'
      BY <2>1, <2>4, <2>6, <2>7, <2>8, <2>10 DEF DurablePlace, Header
    <2>13. OtherPlace'
      BY <2>1, <2>4, <2>6, <2>8 DEF OtherPlace
    <2>14. /\ SlotsMayLast' /\ BufferFresh' /\ SyncOK' /\ NothingPending' /\ CachedHeaders'
      BY <2>1, <2>2, <2>8, <2>9 DEF SlotsMayLast, BufferFresh, SyncOK, NothingPending, CachedHeaders
    <2> QED
      BY <2>11, <2>12, <2>13, <2>14
  <1>5. CASE PowerLoss
    <2> DEFINE p == slot'
               i == CurrentIndex(p)
    <2>1. p \in Survivors
      BY <1>5 DEF PowerLoss
    <2>2. /\ p \in [Slots -> Header]
          /\ i \in Slots /\ p[i].ok /\ p[i].seq >= durable.seq /\ p[i].rest = rest
          /\ p[Other(i)].ok => p[Other(i)].seq < p[i].seq
      BY <2>1, Survives
    <2>3. /\ disk' = [s \in Slots |-> {p[s]}]
          /\ h' = Closed
          /\ durable' = [at |-> i, seq |-> p[i].seq]
          /\ UNCHANGED <<rest, trouble>>
      BY <1>5 DEF PowerLoss
    <2>4. p[i].seq \in Nat /\ Other(i) \in Slots /\ p[Other(i)].seq \in Nat
      BY <2>2, OtherSlot DEF Header
    <2>5. Closed \in [pc : {"closed", "update", "sync", "open"}, buf : [Slots -> Header]]
      BY DEF Closed, Torn, Header
    <2>6. NothingPending'
      BY <2>3 DEF NothingPending
    <2> HIDE DEF p, i
    <2>7. TypeOK'
      BY <2>2, <2>3, <2>4, <2>5 DEF TypeOK, p
    <2>8. DurablePlace'
      BY <2>2, <2>3, <2>4 DEF DurablePlace
    <2>9. OtherPlace'
      BY <2>2, <2>3, <2>4 DEF OtherPlace
    <2>10. SlotsMayLast' /\ BufferFresh' /\ SyncOK' /\ CachedHeaders'
      BY <2>3 DEF SlotsMayLast, BufferFresh, SyncOK, CachedHeaders, Closed, p
    <2> QED
      BY <2>6, <2>7, <2>8, <2>9, <2>10
  <1>6. CASE UNCHANGED vars
    BY <1>6 DEF vars, TypeOK, DurablePlace, OtherPlace, SlotsMayLast, BufferFresh,
                SyncOK, NothingPending, CachedHeaders
  <1>7. CASE Leave \/ Close
    BY <1>7, <1>2 DEF Leave, Close
  <1>8. CASE SyncFails
    BY <1>8, <1>2, HeaderConstants DEF SyncFails
  <1> QED
    BY <1>1, <1>3, <1>4, <1>5, <1>6, <1>7, <1>8 DEF Next
-----------------------------------------------------------------------------
(***************************************************************************)
(* The header pair keeps its type and its strengthened invariant.          *)
(***************************************************************************)
THEOREM HeaderInvariance == Spec => []Inv
  BY InitInv, StepInv, PTL DEF Spec

(***************************************************************************)
(* Whatever a power loss leaves of the two headers during a writable open  *)
(* (apply_writable_header_update), the file has a current header, no older *)
(* than the last acknowledged one and with what it carried.                *)
(***************************************************************************)
THEOREM CurrentHeaderSurvives == Spec => []HeaderSurvives
  <1>1. Inv => HeaderSurvives
    <2> SUFFICES ASSUME Inv, NEW p \in Survivors
                 PROVE  LET i == CurrentIndex(p) IN
                        i # 0 /\ p[i].seq >= durable.seq /\ p[i].rest = rest
      BY DEF HeaderSurvives
    <2>1. LET i == CurrentIndex(p) IN
          i \in Slots /\ p[i].seq >= durable.seq /\ p[i].rest = rest
      BY Survives DEF Inv
    <2> QED
      BY <2>1 DEF Slots
  <1> QED
    BY <1>1, HeaderInvariance, PTL

(***************************************************************************)
(* An open medium caches the header section that is in the file, although  *)
(* it patches its copy by hand (apply_writable_header_update).             *)
(***************************************************************************)
THEOREM CacheIsTheFile == Spec => []CachedHeaders
  <1>1. Inv => CachedHeaders
    BY DEF Inv
  <1> QED
    BY <1>1, HeaderInvariance, PTL

(***************************************************************************)
(* No step, no failure and no power loss takes the durable sequence number *)
(* back.                                                                   *)
(***************************************************************************)
THEOREM DurableSequenceGrows == Spec => SequenceGrows
  <1>1. Inv /\ [Next]_vars => [durable'.seq >= durable.seq]_vars
    <2> SUFFICES ASSUME Inv, Next PROVE durable'.seq >= durable.seq
      OBVIOUS
    <2>0. durable.seq \in Nat
      BY DEF Inv, TypeOK
    <2>1. CASE SyncHeader
      <3> DEFINE i == Noncurrent(h.buf)
      <3>1. /\ CurrentIndex(h.buf) = Other(i) /\ slot = [h.buf EXCEPT ![i] = Updated(h.buf)]
            /\ durable'.seq = Updated(h.buf).seq /\ i \in Slots
        BY <2>1 DEF SyncHeader, Inv, SyncOK, Noncurrent, Slots
      <3>2. slot \in Survivors /\ Inv'
        BY SlotSurvives, StepInv DEF Inv
      <3>3. slot' = slot /\ slot[i] = Updated(h.buf) /\ durable'.at = i
        BY <3>1, <2>1 DEF SyncHeader, Inv, TypeOK
      <3>4. /\ slot[CurrentIndex(slot)].seq >= durable.seq
            /\ CurrentIndex(slot) \in Slots
        BY <3>2, Survives DEF Inv
      <3>5. Updated(h.buf).seq >= durable.seq
        <4> DEFINE c == CurrentIndex(h.buf)
        <4>1. c \in Slots /\ h.buf[c] \in Header /\ h.buf[Other(c)] \in Header
          BY <3>1, OtherSlot DEF Inv, TypeOK
        <4>2. Updated(h.buf).seq = h.buf[c].seq + 1 /\ slot[c] = h.buf[c] /\ h.buf[c].seq \in Nat
          BY <4>1, <3>1, OtherSlot DEF Updated, Header, Inv, TypeOK
        <4>3. CurrentIndex(slot) = i \/ CurrentIndex(slot) = c
          BY <3>1, <3>4, <4>1 DEF Slots, Other
        <4> QED
          BY <2>0, <3>3, <3>4, <4>2, <4>3
      <3> QED
        BY <3>1, <3>5
    <2>2. CASE PowerLoss
      <3>1. slot' \in Survivors
        BY <2>2 DEF PowerLoss
      <3>2. slot'[CurrentIndex(slot')].seq >= durable.seq
        BY <3>1, Survives DEF Inv
      <3> QED
        BY <3>2, <2>2 DEF PowerLoss
    <2> QED
      BY <2>0, <2>1, <2>2 DEF Next, ReadHeaders, Leave, WriteHeader, SyncFails, Close
  <1> QED
    BY <1>1, HeaderInvariance, PTL DEF Spec, SequenceGrows
=============================================================================
