---------------------------- MODULE MediumProofs ----------------------------
(***************************************************************************)
(* The caches of an open medium are coherent and every read of a region is *)
(* answered with what the file holds, for any number of threads, entries   *)
(* and values.  The proof rests on HeaderPair's: a medium with its caches  *)
(* takes the steps of HeaderPair and no others, so that the header section *)
(* it caches when it is opened is the one in the file.                     *)
(***************************************************************************)
EXTENDS Medium, HeaderPairProofs

(***************************************************************************)
(* An open medium with caches and threads is an open medium: opening,      *)
(* closing and power losses are HeaderPair's, all else leaves the headers  *)
(* alone.                                                                  *)
(***************************************************************************)
LEMMA StepOfHeaders == [MediumNext]_mvars => [Next]_vars
  <1> SUFFICES ASSUME MediumNext PROVE [Next]_vars
    BY DEF mvars, vars
  <1>1. CASE Opening
    BY <1>1 DEF Opening, Next
  <1>2. CASE FinishOpen
    BY <1>2 DEF FinishOpen, Next
  <1>3. CASE CloseMedium
    BY <1>3 DEF CloseMedium, Next
  <1>4. CASE LosePower
    BY <1>4 DEF LosePower, Next
  <1>5. ASSUME NEW t \in Readers, Step(t) \/ Acquire(t) \/ WantRef(t) PROVE UNCHANGED vars
    BY <1>5 DEF Step, Look, Load, Store, Answer, DropRef, Acquire, Lock, HoldRef, WantRef, Go
  <1>6. ASSUME NEW t \in Readers, NEW b \in Wanted[t], Ask(t, b) PROVE UNCHANGED vars
    BY <1>6 DEF Ask, Go
  <1>7. ASSUME NEW e \in Entries, NEW v \in Values, WriteEntry(e, v) \/ WriteEntryFails(e, v)
        PROVE  UNCHANGED vars
    BY <1>7 DEF WriteEntry, WriteEntryFails
  <1>8. ASSUME NEW f, GetMut(f) PROVE UNCHANGED vars
    BY <1>8 DEF GetMut
  <1>9. CASE BuildValidator
    BY <1>9 DEF BuildValidator
  <1> QED
    BY <1>1, <1>2, <1>3, <1>4, <1>5, <1>6, <1>7, <1>8, <1>9 DEF MediumNext

THEOREM MediumIsHeaderPair == MediumSpec => Spec
  <1>1. MediumInit => Init
    BY DEF MediumInit
  <1> QED
    BY <1>1, StepOfHeaders, PTL DEF MediumSpec, Spec
-----------------------------------------------------------------------------
(* The invariant.  Whatever is cached is right, of whichever generation it  *)
(* is; what a thread read is right until it has been given away, as nothing *)
(* changes the file while threads are about.                                *)

BytesOf(b) == CASE b = "header" -> [Slots -> Header]
                [] b = "bat"    -> [Entries -> Values]
                [] b = "meta"   -> Values
AnyBytes == {Empty} \cup [Slots -> Header] \cup [Entries -> Values] \cup Values

Right(b, x) == x \in BytesOf(b) /\ SameBytes(b, x, Truth(b))

MediumTypeOK ==
  /\ file \in [bat : [Entries -> Values], meta : Values]
  /\ DOMAIN cache = Caches
  /\ failed \subseteq Entries
  /\ th \in [Readers -> [pc : {"idle", "look", "lock", "read", "store", "done", "wantRef", "ref"},
                         want : Buffers, on : Buffers, bytes : AnyBytes]]

CachesRight  == \A b \in Buffers : cache[b] # Empty => Right(b, cache[b].bytes)
ValidRight   == cache["valid"] # Empty => \A b \in Buffers : Right(b, cache["valid"].bytes[b])
ThreadRight(t) ==
  /\ th[t].pc = "store" => Right(th[t].on, th[t].bytes)
  /\ th[t].pc = "done" => Right(th[t].want, th[t].bytes)
ThreadsRight == \A t \in Readers : ThreadRight(t)
Quiet == h.pc # "open" => cache = NoCache /\ \A t \in Readers : th[t].pc = "idle"

MediumInv == MediumTypeOK /\ CachesRight /\ ValidRight /\ ThreadsRight /\ Quiet

\* What a read of the file returns is right.
LEMMA TruthRight ==
  ASSUME Inv, MediumTypeOK, NEW b \in Buffers
  PROVE  Right(b, Truth(b))
  BY DEF Inv, TypeOK, MediumTypeOK, Buffers, Right, BytesOf, Truth, SameBytes

\* So is a buffer as it is cached, or read and cached.
LEMMA LoadedRight ==
  ASSUME Inv, MediumInv, NEW b \in Buffers
  PROVE  Right(b, Loaded(b).bytes)
  <1>1. CASE Fresh(b)
    BY <1>1 DEF MediumInv, CachesRight, Loaded, Fresh
  <1>2. CASE ~Fresh(b)
    BY <1>2, TruthRight DEF MediumInv, Loaded, Cached
  <1> QED
    BY <1>1, <1>2

\* What is right stays so while the file and the failures stay the same.
LEMMA StillRight ==
  ASSUME UNCHANGED <<slot, file, failed>>
  PROVE  \A b, x : Right(b, x) => Right(b, x)'
  BY DEF Right, SameBytes, Truth, BytesOf

\* Nobody is given anything by a step that finds no cache, or leaves none, and
\* no thread about.
LEMMA StillQuiet ==
  ASSUME MediumTypeOK, MediumTypeOK', cache' = NoCache,
         \A t \in Readers : th'[t].pc = "idle"
  PROVE  MediumInv'
  BY DEF MediumInv, CachesRight, ValidRight, ThreadsRight, ThreadRight, Quiet, NoCache, Caches, Buffers

LEMMA MediumInitInv == MediumInit => MediumInv
  BY DEF MediumInit, MediumInv, MediumTypeOK, CachesRight, ValidRight, ThreadsRight, ThreadRight,
         Quiet, NoCache, Resting, Caches, Buffers, AnyBytes
-----------------------------------------------------------------------------
(* One step.  First those of a thread. *)

\* What a thread goes on with once it has what it loads.
LEMMA HavingRight ==
  ASSUME MediumTypeOK, NEW t \in Readers, NEW x, Right(th[t].on, x)
  PROVE  /\ Having(t, x) \in [pc : {"done", "lock"}, want : Buffers, on : Buffers, bytes : AnyBytes]
         /\ Having(t, x).pc = "done" => Right(Having(t, x).want, Having(t, x).bytes)
  <1>1. x \in AnyBytes
    BY DEF MediumTypeOK, Right, BytesOf, AnyBytes, Buffers
  <1>2. th[t] \in [pc : {"idle", "look", "lock", "read", "store", "done", "wantRef", "ref"},
                   want : Buffers, on : Buffers, bytes : AnyBytes]
    BY DEF MediumTypeOK
  <1> QED
    BY <1>1, <1>2 DEF Having, AnyBytes

\* A thread takes on a new state, with the caches as they are.
LEMMA GoInv ==
  ASSUME MediumInv, h.pc = "open", NEW t \in Readers, NEW x, Go(t, x), UNCHANGED cache,
         x \in [pc : {"idle", "look", "lock", "read", "store", "done", "wantRef", "ref"},
                want : Buffers, on : Buffers, bytes : AnyBytes],
         x.pc = "store" => Right(x.on, x.bytes),
         x.pc = "done" => Right(x.want, x.bytes)
  PROVE  MediumInv'
  <1>1. UNCHANGED <<slot, file, failed, h>> /\ th' = [th EXCEPT ![t] = x]
    BY DEF Go, vars
  <1>2. MediumTypeOK'
    BY <1>1 DEF MediumInv, MediumTypeOK
  <1>3. CachesRight' /\ ValidRight'
    BY <1>1, StillRight DEF MediumInv, CachesRight, ValidRight
  <1>4. ASSUME NEW u \in Readers PROVE ThreadRight(u)'
    <2>1. u = t => th'[u] = x
      BY <1>1 DEF MediumInv, MediumTypeOK
    <2>2. u # t => th'[u] = th[u]
      BY <1>1 DEF MediumInv, MediumTypeOK
    <2> QED
      BY <1>1, <2>1, <2>2, StillRight DEF MediumInv, ThreadsRight, ThreadRight
  <1>5. Quiet'
    BY <1>1 DEF Quiet
  <1> QED
    BY <1>2, <1>3, <1>4, <1>5 DEF MediumInv, ThreadsRight

\* A step of a thread.
LEMMA ThreadStep ==
  ASSUME Inv, MediumInv, NEW t \in Readers,
         Step(t) \/ Acquire(t) \/ WantRef(t) \/ (\E b \in Wanted[t] : Ask(t, b))
  PROVE  MediumInv'
  <1>0. th[t] \in [pc : {"idle", "look", "lock", "read", "store", "done", "wantRef", "ref"},
                   want : Buffers, on : Buffers, bytes : AnyBytes]
    BY DEF MediumInv, MediumTypeOK
  <1>1. ASSUME th[t].pc # "idle" PROVE h.pc = "open"
    BY <1>1 DEF MediumInv, Quiet
  <1>2. Resting \in [pc : {"idle"}, want : Buffers, on : Buffers, bytes : AnyBytes]
    BY DEF Resting, Buffers, AnyBytes
  <1>3. CASE Look(t)
    <2>1. CASE Fresh(th[t].on) /\ Go(t, Having(t, cache[th[t].on].bytes))
      <3>1. Right(th[t].on, cache[th[t].on].bytes)
        BY <1>0, <2>1 DEF MediumInv, CachesRight, Fresh
      <3> QED
        BY <1>1, <1>3, <2>1, <3>1, HavingRight, GoInv DEF Look, MediumInv
    <2>2. CASE Go(t, [th[t] EXCEPT !.pc = "lock"])
      BY <1>0, <1>1, <1>3, <2>2, GoInv DEF Look
    <2>3. CASE Go(t, [th[t] EXCEPT !.on = "header"])
      BY <1>0, <1>1, <1>3, <2>3, GoInv DEF Look, Buffers
    <2> QED
      BY <1>3, <2>1, <2>2, <2>3 DEF Look
  <1>4. CASE Load(t)
    <2>1. Right(th[t].on, Truth(th[t].on))
      BY <1>0, TruthRight DEF MediumInv
    <2>2. Truth(th[t].on) \in AnyBytes
      BY <1>0, <2>1 DEF Right, BytesOf, AnyBytes, Buffers
    <2> QED
      BY <1>0, <1>1, <1>4, <2>1, <2>2, GoInv DEF Load
  <1>5. CASE Store(t)
    <2> DEFINE on == th[t].on
               bytes == IF Fresh(on) THEN cache[on].bytes ELSE th[t].bytes
    <2>1. Right(on, bytes)
      BY <1>0, <1>5 DEF MediumInv, CachesRight, ThreadsRight, ThreadRight, Fresh, Store
    <2>2. /\ cache' = [cache EXCEPT ![on] = Cached(bytes)]
          /\ Go(t, Having(t, bytes))
      BY <1>5 DEF Store
    <2>3. h.pc = "open"
      BY <1>1, <1>5 DEF Store
    <2> HIDE DEF bytes
    <2>4. UNCHANGED <<slot, file, failed, h>> /\ th' = [th EXCEPT ![t] = Having(t, bytes)]
      BY <2>2 DEF Go, vars
    <2>5. /\ Having(t, bytes) \in [pc : {"done", "lock"}, want : Buffers, on : Buffers, bytes : AnyBytes]
          /\ Having(t, bytes).pc = "done" => Right(Having(t, bytes).want, Having(t, bytes).bytes)
      BY <2>1, HavingRight DEF MediumInv
    <2>6. MediumTypeOK'
      BY <2>2, <2>4, <2>5 DEF MediumInv, MediumTypeOK
    <2>7. CachesRight'
      <3> SUFFICES ASSUME NEW b \in Buffers, (cache[b] # Empty)' PROVE Right(b, cache[b].bytes)'
        BY DEF CachesRight
      <3>1. CASE b = on
        BY <2>1, <2>2, <2>4, <3>1, StillRight DEF Cached, MediumInv, MediumTypeOK, Caches
      <3>2. CASE b # on
        BY <2>2, <2>4, <3>2, StillRight DEF MediumInv, CachesRight
      <3> QED
        BY <3>1, <3>2
    <2>8. ValidRight'
      <3>1. cache'["valid"] = cache["valid"]
        BY <1>0, <2>2 DEF Buffers
      <3> QED
        BY <2>4, <3>1, StillRight DEF MediumInv, ValidRight
    <2>9. ASSUME NEW u \in Readers PROVE ThreadRight(u)'
      <3>1. u = t => th'[u] = Having(t, bytes)
        BY <2>4 DEF MediumInv, MediumTypeOK
      <3>2. u # t => th'[u] = th[u]
        BY <2>4 DEF MediumInv, MediumTypeOK
      <3> QED
        BY <2>4, <2>5, <3>1, <3>2, StillRight DEF MediumInv, ThreadsRight, ThreadRight
    <2> QED
      BY <2>3, <2>4, <2>6, <2>7, <2>8, <2>9 DEF MediumInv, ThreadsRight, Quiet
  <1>6. CASE Answer(t)
    BY <1>1, <1>2, <1>6, GoInv DEF Answer
  <1>7. CASE DropRef(t)
    BY <1>1, <1>2, <1>7, GoInv DEF DropRef
  <1>8. CASE Lock(t)
    BY <1>0, <1>1, <1>8, GoInv DEF Lock
  <1>9. CASE HoldRef(t)
    BY <1>1, <1>2, <1>9, GoInv DEF HoldRef, Resting
  <1>10. CASE WantRef(t)
    BY <1>2, <1>10, GoInv DEF WantRef, Resting
  <1>11. ASSUME NEW b \in Wanted[t], Ask(t, b) PROVE MediumInv'
    BY <1>2, <1>11, GoInv, MediumConstants DEF Ask, Resting
  <1> QED
    BY <1>3, <1>4, <1>5, <1>6, <1>7, <1>8, <1>9, <1>10, <1>11 DEF Step, Acquire
-----------------------------------------------------------------------------
(* Then those that need the medium for themselves: no thread is about.     *)

LEMMA WriteEntryInv ==
  ASSUME Inv, MediumInv, NEW e \in Entries, NEW v \in Values, WriteEntry(e, v)
  PROVE  MediumInv'
  <1>1. /\ UNCHANGED <<slot, h, th>> /\ \A t \in Readers : th[t].pc = "idle"
        /\ h.pc = "open" /\ failed' = failed \ {e}
        /\ file' = [file EXCEPT !.bat[e] = v]
        /\ DOMAIN cache' = Caches
        /\ cache'["header"] = Loaded("header") /\ cache'["valid"] = Empty
        /\ cache'["meta"] = cache["meta"]
        /\ cache["bat"] = Empty => cache'["bat"] = Empty
        /\ cache["bat"] # Empty =>
             cache'["bat"] = [gen |-> generation + 1, bytes |-> [cache["bat"].bytes EXCEPT ![e] = v]]
    BY DEF WriteEntry, Alone, vars, MediumInv, MediumTypeOK, Caches, Buffers
  <1>2. file.bat \in [Entries -> Values] /\ file.meta \in Values
    BY DEF MediumInv, MediumTypeOK
  <1>3. file'.bat = [file.bat EXCEPT ![e] = v] /\ file'.meta = file.meta
    BY <1>1 DEF MediumInv, MediumTypeOK
  <1>4. MediumTypeOK'
    BY <1>1, <1>2 DEF MediumInv, MediumTypeOK
  <1>5. ASSUME (cache["header"] # Empty)' PROVE Right("header", cache["header"].bytes)'
    BY <1>1, LoadedRight DEF Buffers, Right, BytesOf, SameBytes, Truth
  <1>6. ASSUME (cache["meta"] # Empty)' PROVE Right("meta", cache["meta"].bytes)'
    BY <1>1, <1>3, <1>6 DEF MediumInv, CachesRight, Buffers, Right, BytesOf, SameBytes, Truth
  <1>7. ASSUME (cache["bat"] # Empty)' PROVE Right("bat", cache["bat"].bytes)'
    <2> DEFINE x == cache["bat"].bytes
    <2>1. x \in [Entries -> Values] /\ \A a \in Entries \ failed : x[a] = file.bat[a]
      BY <1>1, <1>7 DEF MediumInv, CachesRight, Buffers, Right, BytesOf, SameBytes, Truth
    <2>2. cache'["bat"].bytes = [x EXCEPT ![e] = v]
      BY <1>1, <1>7
    <2>3. \A a \in Entries \ failed' : [x EXCEPT ![e] = v][a] = file'.bat[a]
      BY <1>1, <1>2, <1>3, <2>1
    <2>4. [x EXCEPT ![e] = v] \in [Entries -> Values]
      BY <2>1
    <2> QED
      BY <2>2, <2>3, <2>4 DEF Right, BytesOf, SameBytes, Truth
  <1>8. CachesRight'
    BY <1>5, <1>6, <1>7 DEF CachesRight, Buffers
  <1> QED
    BY <1>1, <1>4, <1>8 DEF MediumInv, ValidRight, ThreadsRight, ThreadRight, Quiet

LEMMA WriteEntryFailsInv ==
  ASSUME Inv, MediumInv, NEW e \in Entries, NEW v \in Values, WriteEntryFails(e, v)
  PROVE  MediumInv'
  <1>1. /\ UNCHANGED <<slot, h, th>> /\ \A t \in Readers : th[t].pc = "idle"
        /\ h.pc = "open" /\ failed' = failed \cup {e}
        /\ file' \in {file, [file EXCEPT !.bat[e] = v]}
        /\ cache' = [cache EXCEPT !["header"] = Loaded("header")]
    BY DEF WriteEntryFails, Alone, vars
  <1>0. /\ DOMAIN cache' = Caches
        /\ cache'["header"] = Loaded("header")
        /\ \A c \in Caches \ {"header"} : cache'[c] = cache[c]
    BY <1>1 DEF MediumInv, MediumTypeOK, Caches, Buffers
  <1>2. file.bat \in [Entries -> Values] /\ file.meta \in Values
    BY DEF MediumInv, MediumTypeOK
  <1>3. file'.meta = file.meta /\ \A a \in Entries \ failed' : file'.bat[a] = file.bat[a]
    BY <1>1, <1>2 DEF MediumInv, MediumTypeOK
  <1>4. MediumTypeOK'
    BY <1>0, <1>1, <1>2 DEF MediumInv, MediumTypeOK
  <1>5. ASSUME NEW b \in Buffers, NEW x, Right(b, x) PROVE Right(b, x)'
    <2>1. CASE b = "bat"
      BY <1>1, <1>3, <1>5, <2>1 DEF Right, BytesOf, SameBytes, Truth
    <2>2. CASE b # "bat"
      BY <1>1, <1>3, <1>5, <2>2 DEF Right, BytesOf, SameBytes, Truth, Buffers
    <2> QED
      BY <2>1, <2>2
  <1>6. \A b \in Buffers : \A x : Right(b, x) => Right(b, x)'
    BY <1>5
  <1>7. CachesRight'
    BY <1>0, <1>6, LoadedRight DEF MediumInv, CachesRight, Buffers, Caches
  <1>8. ValidRight'
    BY <1>0, <1>6 DEF MediumInv, ValidRight, Buffers, Caches
  <1> QED
    BY <1>1, <1>4, <1>7, <1>8 DEF MediumInv, ThreadsRight, ThreadRight, Quiet

LEMMA BuildValidatorInv ==
  ASSUME Inv, MediumInv, BuildValidator
  PROVE  MediumInv'
  <1>1. /\ UNCHANGED <<slot, h, file, failed, th>> /\ \A t \in Readers : th[t].pc = "idle"
        /\ h.pc = "open"
    BY DEF BuildValidator, Alone, vars
  <1>2. /\ DOMAIN cache' = Caches
        /\ \A b \in Buffers : cache'[b] = Loaded(b)
        /\ cache'["valid"].bytes = [c \in Buffers |-> Loaded(c).bytes]
    BY DEF BuildValidator, Caches, Buffers, Cached
  <1>3. MediumTypeOK'
    BY <1>1, <1>2 DEF MediumInv, MediumTypeOK
  <1>4. \A b \in Buffers : \A x : Right(b, x) => Right(b, x)'
    BY <1>1, StillRight
  <1>5. CachesRight' /\ ValidRight'
    BY <1>2, <1>4, LoadedRight DEF CachesRight, ValidRight
  <1> QED
    BY <1>1, <1>3, <1>5 DEF MediumInv, ThreadsRight, ThreadRight, Quiet

LEMMA GetMutInv ==
  ASSUME Inv, MediumInv, NEW v \in Values,
         GetMut([file EXCEPT !.meta = v, !.bat = [e \in Entries |-> v]])
  PROVE  MediumInv'
  <1>1. /\ cache' = NoCache /\ failed' = {} /\ th' = th
        /\ \A t \in Readers : th[t].pc = "idle"
        /\ file' = [file EXCEPT !.meta = v, !.bat = [e \in Entries |-> v]]
    BY DEF GetMut, Alone
  <1>2. MediumTypeOK'
    BY <1>1 DEF MediumInv, MediumTypeOK, NoCache
  <1> QED
    BY <1>1, <1>2, StillQuiet DEF MediumInv
-----------------------------------------------------------------------------
(* And those that open and close it. *)

LEMMA OpeningInv ==
  ASSUME Inv, MediumInv, Opening \/ FinishOpen \/ CloseMedium \/ LosePower
  PROVE  MediumInv'
  <1>1. CASE Opening
    <2>1. h.pc # "open" /\ UNCHANGED <<file, cache, failed, th>>
      BY <1>1 DEF Opening, ReadHeaders, Leave, WriteHeader, MayUpdate, SyncFails, mediumVars
    <2>2. MediumTypeOK'
      BY <2>1 DEF MediumInv, MediumTypeOK
    <2> QED
      BY <2>1, <2>2, StillQuiet DEF MediumInv, Quiet
  <1>2. CASE FinishOpen
    <2>1. /\ UNCHANGED <<slot, file, failed, th>>
          /\ \A t \in Readers : th[t].pc = "idle"
          /\ h.pc = "sync" /\ h'.pc = "open"
          /\ cache' = [NoCache EXCEPT !["header"] = [gen |-> 0, bytes |-> h'.buf]]
      BY <1>2 DEF FinishOpen, SyncHeader, MediumInv, Quiet
    <2>2. Inv'
      BY <1>2, StepInv DEF FinishOpen, Next
    <2>3. h'.buf = slot' /\ slot' \in [Slots -> Header]
      BY <2>1, <2>2 DEF Inv, CachedHeaders, TypeOK
    <2>4. MediumTypeOK'
      BY <2>1 DEF MediumInv, MediumTypeOK, NoCache
    <2>5. CachesRight' /\ ValidRight'
      BY <2>1, <2>3 DEF CachesRight, ValidRight, NoCache, Caches, Buffers, Right, BytesOf, SameBytes, Truth
    <2> QED
      BY <2>1, <2>4, <2>5 DEF MediumInv, ThreadsRight, ThreadRight, Quiet
  <1>3. CASE CloseMedium
    <2>1. /\ cache' = NoCache /\ failed' = {} /\ UNCHANGED <<file, th>>
          /\ \A t \in Readers : th[t].pc = "idle"
      BY <1>3 DEF CloseMedium, Alone
    <2>2. MediumTypeOK'
      BY <2>1 DEF MediumInv, MediumTypeOK, NoCache
    <2> QED
      BY <2>1, <2>2, StillQuiet DEF MediumInv
  <1>4. CASE LosePower
    <2>1. /\ cache' = NoCache /\ failed' = {} /\ UNCHANGED file
          /\ th' = [t \in Readers |-> Resting]
      BY <1>4 DEF LosePower
    <2>2. MediumTypeOK' /\ \A t \in Readers : th'[t].pc = "idle"
      BY <2>1 DEF MediumInv, MediumTypeOK, NoCache, Resting, Buffers, AnyBytes
    <2> QED
      BY <2>1, <2>2, StillQuiet DEF MediumInv
  <1> QED
    BY <1>1, <1>2, <1>3, <1>4

LEMMA MediumStepInv == Inv /\ MediumInv /\ [MediumNext]_mvars => MediumInv'
  <1>1. ASSUME Inv, MediumInv, UNCHANGED mvars PROVE MediumInv'
    <2>1. UNCHANGED <<slot, h, file, cache, failed, th>>
      BY <1>1 DEF mvars, vars, mediumVars
    <2>2. MediumTypeOK' /\ Quiet'
      BY <1>1, <2>1 DEF MediumInv, MediumTypeOK, Quiet
    <2>3. CachesRight' /\ ValidRight'
      BY <1>1, <2>1, StillRight DEF MediumInv, CachesRight, ValidRight
    <2>4. ThreadsRight'
      BY <1>1, <2>1, StillRight DEF MediumInv, ThreadsRight, ThreadRight
    <2> QED
      BY <2>2, <2>3, <2>4 DEF MediumInv
  <1>2. ASSUME Inv, MediumInv, MediumNext PROVE MediumInv'
    BY <1>2, OpeningInv, ThreadStep, WriteEntryInv, WriteEntryFailsInv, GetMutInv, BuildValidatorInv
       DEF MediumNext
  <1> QED
    BY <1>1, <1>2

(***************************************************************************)
(* The invariant of the open medium and its caches: what is cached is      *)
(* right, and so is what each thread has read.                             *)
(***************************************************************************)
THEOREM CachesInvariance == MediumSpec => []MediumInv
  <1>1. MediumSpec => []Inv
    BY MediumIsHeaderPair, HeaderInvariance, PTL
  <1> QED
    BY <1>1, MediumInitInv, MediumStepInv, PTL DEF MediumSpec

(***************************************************************************)
(* No read of the header section, of the BAT or of the metadata, and not   *)
(* the validator, is given from a cache what the file does not hold        *)
(* (write_bat_entry, get_mut, invalidate_all_caches, the five buffers).    *)
(***************************************************************************)
THEOREM CachesCoherent == MediumSpec => []CacheCoherent
  <1>1. MediumInv => CacheCoherent
    BY DEF MediumInv, CachesRight, ValidRight, Right, CacheCoherent, Fresh
  <1> QED
    BY <1>1, CachesInvariance, PTL

(***************************************************************************)
(* Whichever thread wins the race to fill a cache, each is given the right *)
(* bytes (the comments on bat_buf and metadata_buf).                       *)
(***************************************************************************)
THEOREM AnswersAreCurrent == MediumSpec => []AnswersCurrent
  <1>1. MediumInv => AnswersCurrent
    BY DEF MediumInv, ThreadsRight, ThreadRight, Right, AnswersCurrent
  <1> QED
    BY <1>1, CachesInvariance, PTL
=============================================================================
