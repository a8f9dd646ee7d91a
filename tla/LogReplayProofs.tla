-------------------------- MODULE LogReplayProofs --------------------------
(***************************************************************************)
(* A writable open ends with the log replayed, completely and durably, and *)
(* an overlay shows the regions as that replay would leave them: for every *)
(* log, however often a replay died or lost power midway.  The reason is   *)
(* that a page no descriptor covers is never touched, and that a replay    *)
(* that is done up to descriptor k has given every other page what the     *)
(* last descriptor before k that covers it says.                           *)
(***************************************************************************)
EXTENDS LogReplay, WellFoundedInduction, TLAPS

Below == 0 .. log.last - 1
Kept  == Below \ written

DescsBelow == \A k \in 1 .. Len(log.descs) : DescPages(log.descs[k]) \subseteq Below

\* No length may last that cuts a page of the first file the log relies on.
LengthsKeep ==
  /\ len \in diskLen
  /\ \A n \in diskLen : n >= start.len \/ n >= log.last
  /\ \A p \in Pages : p >= start.len => start.file[p] = Zero

UncoveredKept ==
  \A p \in Kept : Covering(p) = {} => file[p] = start.file[p] /\ diskFile[p] = {start.file[p]}

\* The descriptors before k are replayed.
DoneBy(l, p, k) == {j \in 1 .. Len(l.descs) : p \in DescPages(l.descs[j]) /\ j < k}
ReplayedTo(k) ==
  \A p \in Kept : DoneBy(log, p, k) # {} => file[p] = log.descs[Largest(DoneBy(log, p, k))].val

Progress ==
  /\ m.pc = "replay" => pending /\ m.write /\ m.k =< Len(log.descs) + 1 /\ ReplayedTo(m.k)
  /\ m.pc = "header" /\ pending => ReplayedTo(Len(log.descs) + 1) /\ len >= log.last
  /\ m.pc = "open" /\ m.write /\ pending =>
       /\ ReplayedTo(Len(log.descs) + 1)
       /\ \A p \in Kept : diskFile[p] = {file[p]}
       /\ \A n \in diskLen : n >= log.last

ReplayInv == TypeOK /\ DescsBelow /\ LengthsKeep /\ UncoveredKept /\ Progress
-----------------------------------------------------------------------------
\* A nonempty set of numbers up to n has a largest element, and one only.
LEMMA LargestOf ==
  ASSUME NEW n \in Nat, NEW K \in SUBSET (0 .. n), K # {}
  PROVE  Largest(K) \in K /\ \A j \in K : j =< Largest(K)
  <1> DEFINE R == {ss \in Nat \X Nat : ss[1] < ss[2]}
             T == {y \in Nat : n - y \in K}
  <1>1. IsWellFoundedOn(R, Nat)
    BY NatLessThanWellFounded DEF OpToRel
  <1>2. T \subseteq Nat /\ T # {}
    <2>1. PICK j \in K : TRUE
      OBVIOUS
    <2>2. n - j \in Nat /\ n - (n - j) = j
      BY <2>1
    <2> QED
      BY <2>1, <2>2
  <1> HIDE DEF R
  <1>3. PICK x \in T : \A y \in T : ~ (<<y, x>> \in R)
    BY <1>1, <1>2, WFMin
  <1>4. \A y \in T : x =< y
    <2> SUFFICES ASSUME NEW y \in T, y < x PROVE FALSE
      BY <1>2
    <2>1. <<y, x>> \in R
      BY <1>2 DEF R
    <2> QED
      BY <1>3, <2>1
  <1>5. n - x \in K
    BY <1>3
  <1>6. ASSUME NEW j \in K PROVE j =< n - x
    <2>1. n - j \in T
      <3>1. n - j \in Nat /\ n - (n - j) = j
        BY <1>6
      <3> QED
        BY <3>1
    <2> QED
      BY <1>2, <1>4, <2>1
  <1>7. \E k \in K : \A j \in K : j =< k
    BY <1>5, <1>6
  <1> QED
    BY <1>7 DEF Largest

LEMMA LargestIs ==
  ASSUME NEW K \in SUBSET Nat, NEW k \in K, \A j \in K : j =< k
  PROVE  Largest(K) = k
  <1>1. Largest(K) \in K /\ \A j \in K : j =< Largest(K)
    BY DEF Largest
  <1>2. Largest(K) \in Nat /\ k \in Nat /\ k =< Largest(K) /\ Largest(K) =< k
    BY <1>1
  <1> QED
    BY <1>2

\* The descriptors of an active sequence.
LEMMA Descriptor ==
  ASSUME TypeOK, NEW k \in 1 .. Len(log.descs)
  PROVE  /\ log.descs[k] \in Desc
         /\ log.descs[k].at \in DescPages(log.descs[k])
         /\ log.descs[k].val \in Values
  <1>1. log.descs \in Seq(Desc)
    BY ReplayConstants DEF TypeOK, ActiveSequence
  <1>2. log.descs[k] \in Desc
    BY <1>1
  <1> QED
    BY <1>2, ReplayConstants DEF Desc, DescPages, Pages, Values

LEMMA LogTypes ==
  ASSUME TypeOK
  PROVE  log.last \in 0 .. PageCount /\ Len(log.descs) \in Nat /\ Below \subseteq Pages
  BY ReplayConstants DEF TypeOK, ActiveSequence, Below, Pages

\* What SetPages leaves of the types and of the lengths.
LEMMA PagesSet ==
  ASSUME TypeOK, NEW T \in SUBSET Pages, T # {}, NEW v \in Values, SetPages(T, v)
  PROVE  /\ file' \in [Pages -> Values] /\ diskFile' \in [Pages -> SUBSET Values]
         /\ len' \in 0 .. PageCount /\ len' >= len
         /\ diskLen' = diskLen \cup {len'} /\ diskLen' \subseteq 0 .. PageCount
  <1>1. Largest(T) \in T
    <2>1. PageCount \in Nat /\ T \subseteq 0 .. PageCount
      BY ReplayConstants DEF Pages
    <2> QED
      BY <2>1, LargestOf
  <1>2. Largest(T) \in 0 .. PageCount - 1
    BY <1>1 DEF Pages
  <1>3. len' \in 0 .. PageCount /\ len' >= len
    BY <1>2, ReplayConstants DEF SetPages, TypeOK
  <1> QED
    BY <1>3 DEF SetPages, TypeOK

\* Replaying one more descriptor.
LEMMA OneMore ==
  ASSUME NEW p, NEW k \in 1 .. Len(log.descs), Len(log.descs) \in Nat
  PROVE  /\ k \in Covering(p) => DoneBy(log, p, k + 1) # {} /\ Largest(DoneBy(log, p, k + 1)) = k
         /\ k \notin Covering(p) => DoneBy(log, p, k + 1) = DoneBy(log, p, k)
  <1>1. DoneBy(log, p, k + 1) \subseteq Nat /\ \A j \in DoneBy(log, p, k + 1) : j =< k
    BY DEF DoneBy, Covering
  <1>2. ASSUME k \in Covering(p) PROVE k \in DoneBy(log, p, k + 1)
    BY <1>2 DEF DoneBy, Covering
  <1>3. ASSUME k \notin Covering(p) PROVE DoneBy(log, p, k + 1) = DoneBy(log, p, k)
    BY <1>3 DEF DoneBy, Covering
  <1> QED
    BY <1>1, <1>2, <1>3, LargestIs

\* A replay that is done leaves every page as it should be.
LEMMA AllDone ==
  ASSUME TypeOK, UncoveredKept, ReplayedTo(Len(log.descs) + 1)
  PROVE  \A p \in Kept : file[p] = After(p)
  <1> SUFFICES ASSUME NEW p \in Kept PROVE file[p] = After(p)
    OBVIOUS
  <1>1. DoneBy(log, p, Len(log.descs) + 1) = Covering(p)
    BY LogTypes DEF DoneBy, Covering
  <1> QED
    BY <1>1 DEF After, UncoveredKept, ReplayedTo
-----------------------------------------------------------------------------
LEMMA ReplayInit == Init => ReplayInv
  <1> SUFFICES ASSUME Init PROVE ReplayInv
    OBVIOUS
  <1>1. TypeOK
    BY ReplayConstants DEF Init, TypeOK, Values, Medium, Closed, Pages
  <1>2. DescsBelow
    BY DEF Init, DescsBelow, Below
  <1>3. LengthsKeep
    <2>1. len \in diskLen /\ start.len = len /\ start.file = file
      BY DEF Init
    <2>2. \A n \in diskLen : n >= start.len
      BY <1>1, <2>1 DEF Init, TypeOK
    <2>3. \A p \in Pages : p >= start.len => start.file[p] = Zero
      BY <1>1, <2>1 DEF Init, TypeOK, Pages
    <2> QED
      BY <2>1, <2>2, <2>3 DEF LengthsKeep
  <1>4. UncoveredKept
    BY <1>1, LogTypes DEF Init, UncoveredKept, Kept
  <1>5. Progress
    BY DEF Init, Progress, Closed
  <1> QED
    BY <1>1, <1>2, <1>3, <1>4, <1>5 DEF ReplayInv

\* Steps that leave the file alone.
LEMMA FileAlone ==
  ASSUME ReplayInv, UNCHANGED <<fileVars, logVars, written>>, m' \in Medium, Progress'
  PROVE  ReplayInv'
  BY DEF ReplayInv, TypeOK, fileVars, logVars, DescsBelow, Below, LengthsKeep, UncoveredKept, Kept, Covering

\* The pages of one descriptor, or some of them, are written.
LEMMA PartReplayed ==
  ASSUME ReplayInv, NEW k \in 1 .. Len(log.descs), NEW T \in SUBSET DescPages(log.descs[k]),
         T # {}, SetPages(T, log.descs[k].val), UNCHANGED <<logVars, written>>,
         m' \in Medium, Progress'
  PROVE  ReplayInv'
  <1>1. /\ log.descs[k].val \in Values
        /\ T \subseteq Pages
    BY Descriptor DEF ReplayInv, DescPages
  <1>2. /\ file' \in [Pages -> Values] /\ diskFile' \in [Pages -> SUBSET Values]
        /\ len' \in 0 .. PageCount /\ len' >= len
        /\ diskLen' = diskLen \cup {len'} /\ diskLen' \subseteq 0 .. PageCount
    BY <1>1, PagesSet DEF ReplayInv
  <1>3. TypeOK'
    BY <1>2 DEF ReplayInv, TypeOK, logVars
  <1>4. LengthsKeep'
    BY <1>2, LogTypes DEF ReplayInv, LengthsKeep, logVars, TypeOK
  <1>5. ASSUME NEW p \in Kept, Covering(p) = {}
        PROVE  file'[p] = file[p] /\ diskFile'[p] = diskFile[p]
    <2>1. p \in Pages
      BY LogTypes DEF Kept, ReplayInv
    <2>2. p \notin T
      BY <1>5, <2>1 DEF Covering
    <2> QED
      BY <2>1, <2>2 DEF SetPages
  <1>6. UncoveredKept'
    BY <1>5 DEF ReplayInv, UncoveredKept, logVars, Kept, Below, Covering
  <1> QED
    BY <1>3, <1>4, <1>6 DEF ReplayInv, logVars, DescsBelow, Below

\* The steps of replay_to_file.
LEMMA ReplayStep ==
  ASSUME ReplayInv, ReplayDescriptor \/ SetLength \/ CloseMidway
  PROVE  ReplayInv'
  <1> DEFINE L == Len(log.descs)
  <1>0. L \in Nat /\ log.last \in 0 .. PageCount /\ Below \subseteq Pages
    BY LogTypes DEF ReplayInv
  <1>1. CASE ReplayDescriptor
    <2> DEFINE k == m.k
               d == log.descs[k]
    <2>1. /\ m.pc = "replay" /\ k \in 1 .. L /\ SetPages(DescPages(d), d.val)
          /\ m' = [m EXCEPT !.k = @ + 1] /\ UNCHANGED <<logVars, written>>
      BY <1>0, <1>1 DEF ReplayDescriptor, ReplayInv, TypeOK, Medium
    <2>2. DescPages(d) # {}
      BY <2>1, Descriptor DEF ReplayInv
    <2>3. m' \in Medium /\ m'.pc = "replay" /\ m'.k = k + 1 /\ m'.write = m.write
      BY <2>1 DEF ReplayInv, TypeOK, Medium
    <2>4. pending /\ m.write /\ ReplayedTo(k)
      BY <2>1 DEF ReplayInv, Progress
    <2>5. ASSUME NEW p \in Kept, DoneBy(log, p, k + 1) # {}
          PROVE  file'[p] = log.descs[Largest(DoneBy(log, p, k + 1))].val
      <3>1. p \in Pages /\ (p \in DescPages(d) <=> k \in Covering(p))
        BY <1>0, <2>1 DEF Kept, Covering
      <3>2. CASE k \in Covering(p)
        BY <2>1, <3>1, <3>2, <1>0, OneMore DEF SetPages
      <3>3. CASE k \notin Covering(p)
        <4>1. DoneBy(log, p, k + 1) = DoneBy(log, p, k)
          BY <2>1, <3>3, <1>0, OneMore
        <4>2. file'[p] = file[p]
          BY <2>1, <3>1, <3>3 DEF SetPages
        <4> QED
          BY <2>4, <2>5, <4>1, <4>2 DEF ReplayedTo
      <3> QED
        BY <3>2, <3>3
    <2>6. Progress'
      BY <1>0, <2>1, <2>3, <2>4, <2>5
      DEF Progress, ReplayedTo, logVars, Kept, Below
    <2> QED
      BY <2>1, <2>2, <2>3, <2>6, PartReplayed
  <1>2. CASE SetLength
    <2>1. /\ m.pc = "replay" /\ m.k > L
          /\ len' = log.last /\ diskLen' = diskLen \cup {log.last}
          /\ file' = [p \in Pages |-> IF p < log.last THEN file[p] ELSE Zero]
          /\ diskFile' = [p \in Pages |-> IF p < log.last THEN diskFile[p] ELSE diskFile[p] \cup {Zero}]
          /\ m' = [m EXCEPT !.pc = "header"] /\ UNCHANGED <<logVars, written>>
      BY <1>2 DEF SetLength
    <2>2. m' \in Medium /\ m'.pc = "header"
      BY <2>1 DEF ReplayInv, TypeOK, Medium
    <2>3. TypeOK'
      BY <1>0, <2>1, <2>2 DEF ReplayInv, TypeOK, logVars, Values
    <2>4. LengthsKeep'
      BY <1>0, <2>1 DEF ReplayInv, LengthsKeep, logVars, TypeOK
    <2>5. \A p \in Kept : file'[p] = file[p] /\ diskFile'[p] = diskFile[p]
      BY <1>0, <2>1 DEF Kept, Below
    <2>6. UncoveredKept'
      BY <2>1, <2>5 DEF ReplayInv, UncoveredKept, logVars, Kept, Below, Covering
    <2>7. m.k = L + 1 /\ ReplayedTo(m.k)
      BY <1>0, <2>1 DEF ReplayInv, Progress, TypeOK, Medium
    <2>8. Progress'
      <3>1. log' = log /\ pending' = pending /\ Kept' = Kept /\ len' = log.last
        BY <2>1 DEF logVars, Kept, Below
      <3>2. \A p \in Kept : DoneBy(log, p, L + 1) # {} =>
                file'[p] = log.descs[Largest(DoneBy(log, p, L + 1))].val
        BY <2>5, <2>7 DEF ReplayedTo
      <3>3. ReplayedTo(L + 1)'
        BY <3>1, <3>2 DEF ReplayedTo
      <3>4. Len(log'.descs) = L /\ len' >= log'.last
        BY <1>0, <3>1
      <3> QED
        BY <2>2, <3>3, <3>4 DEF Progress
    <2> QED
      BY <2>1, <2>3, <2>4, <2>6, <2>8 DEF ReplayInv, logVars, DescsBelow, Below
  <1>3. CASE CloseMidway
    <2> DEFINE k == m.k
               d == log.descs[k]
    <2>1. /\ k \in 1 .. L /\ m' = Closed /\ UNCHANGED <<logVars, written>>
      BY <1>0, <1>3 DEF CloseMidway, ReplayInv, TypeOK, Medium
    <2>2. PICK i \in 1 .. d.n - 1 : SetPages({p \in DescPages(d) : p < d.at + i}, d.val)
      BY <1>3 DEF CloseMidway
    <2>3. d.at \in DescPages(d) /\ d.at \in Nat /\ i \in Nat /\ i >= 1
      BY <2>1, <2>2, Descriptor DEF ReplayInv, Desc, Pages
    <2> DEFINE T == {p \in DescPages(d) : p < d.at + i}
    <2>4. T # {} /\ T \in SUBSET DescPages(d) /\ SetPages(T, d.val)
      BY <2>2, <2>3
    <2>5. m' \in Medium /\ Progress'
      BY <2>1 DEF Closed, Medium, Progress
    <2> HIDE DEF T
    <2> QED
      BY <2>1, <2>4, <2>5, PartReplayed
  <1> QED
    BY <1>1, <1>2, <1>3

\* The steps of an open besides the replay, and of the open medium.
LEMMA OpenStep ==
  ASSUME ReplayInv,
         \/ \E policy \in Policies : OpenReadOnly(policy) \/ OpenWritable(policy)
         \/ UpdateHeader \/ Close
  PROVE  ReplayInv'
  <1>1. ASSUME NEW policy \in Policies, OpenReadOnly(policy) PROVE ReplayInv'
    <2> DEFINE o == pending /\ policy \in {"Auto", "InMemoryOnReadOnly"}
    <2>0. m' = [pc |-> "open", write |-> FALSE, overlay |-> o, k |-> 1] /\ o \in BOOLEAN
      BY <1>1 DEF OpenReadOnly, Closed
    <2> HIDE DEF o
    <2>1. m' \in Medium /\ m'.pc = "open" /\ ~m'.write
      BY <2>0 DEF Medium
    <2>2. Progress'
      BY <2>1 DEF Progress
    <2> QED
      BY <1>1, <2>1, <2>2, FileAlone DEF OpenReadOnly
  <1>2. ASSUME NEW policy \in Policies, OpenWritable(policy) PROVE ReplayInv'
    <2>0. PICK c \in {"replay", "header"} :
            /\ c = IF pending THEN "replay" ELSE "header"
            /\ m' = [pc |-> c, write |-> TRUE, overlay |-> FALSE, k |-> 1]
      BY <1>2 DEF OpenWritable, Closed
    <2>a. m' \in Medium /\ m'.write = TRUE /\ m'.k = 1 /\ m'.pc = c
      BY <2>0 DEF Medium
    <2>b. UNCHANGED <<fileVars, logVars, written>>
      BY <1>2 DEF OpenWritable
    <2>1. /\ m' \in Medium /\ m'.write /\ m'.k = 1
          /\ m'.pc = IF pending THEN "replay" ELSE "header"
          /\ UNCHANGED <<fileVars, logVars, written>>
      BY <2>0, <2>a, <2>b
    <2>2. \A p : DoneBy(log, p, 1) = {}
      BY DEF DoneBy, Covering
    <2>3. ReplayedTo(1)' /\ Len(log'.descs) \in Nat /\ pending' = pending
      BY <2>1, <2>2, LogTypes DEF ReplayedTo, logVars, DoneBy, Covering, ReplayInv
    <2>4. Progress'
      BY <2>1, <2>3 DEF Progress
    <2> QED
      BY <2>1, <2>4, FileAlone
  <1>3. CASE UpdateHeader
    <2>1. /\ diskFile' = [p \in Pages |-> {file[p]}] /\ diskLen' = {len}
          /\ m' = [m EXCEPT !.pc = "open"] /\ m.pc = "header"
          /\ UNCHANGED <<file, len, logVars, written>>
      BY <1>3 DEF UpdateHeader
    <2>2. m' \in Medium /\ m'.pc = "open" /\ Below \subseteq Pages
      BY <2>1, LogTypes DEF ReplayInv, TypeOK, Medium
    <2>3. TypeOK'
      BY <2>1, <2>2 DEF ReplayInv, TypeOK, logVars
    <2>4. LengthsKeep'
      BY <2>1 DEF ReplayInv, LengthsKeep, logVars
    <2>5. UncoveredKept'
      BY <2>1, <2>2 DEF ReplayInv, UncoveredKept, logVars, Kept, Below, Covering
    <2>6. Progress'
      BY <2>1, <2>2 DEF ReplayInv, Progress, ReplayedTo, logVars, Kept, Below
    <2> QED
      BY <2>1, <2>3, <2>4, <2>5, <2>6 DEF ReplayInv, logVars, DescsBelow, Below
  <1>4. CASE Close
    <2>1. m' \in Medium /\ Progress'
      BY <1>4 DEF Close, Closed, Medium, Progress
    <2> QED
      BY <1>4, <2>1, FileAlone DEF Close
  <1> QED
    BY <1>1, <1>2, <1>3, <1>4

\* A write through the medium.
LEMMA WriteStep ==
  ASSUME ReplayInv, NEW q \in Pages, WritePage(q)
  PROVE  ReplayInv'
  <1>1. /\ m.pc = "open" /\ SetPages({q}, New) /\ written' = written \cup {q}
        /\ UNCHANGED <<logVars, m>>
    BY DEF WritePage
  <1>2. /\ file' \in [Pages -> Values] /\ diskFile' \in [Pages -> SUBSET Values]
        /\ len' \in 0 .. PageCount /\ len' >= len
        /\ diskLen' = diskLen \cup {len'} /\ diskLen' \subseteq 0 .. PageCount
    BY <1>1, PagesSet DEF ReplayInv, Values
  <1>3. TypeOK'
    BY <1>1, <1>2 DEF ReplayInv, TypeOK, logVars
  <1>4. LengthsKeep'
    BY <1>1, <1>2, LogTypes DEF ReplayInv, LengthsKeep, logVars, TypeOK
  <1>5. Kept' \subseteq Kept /\ Kept \subseteq Pages /\ Below' = Below
    BY <1>1, LogTypes DEF Kept, Below, logVars, ReplayInv
  <1>6. \A p \in Kept' : file'[p] = file[p] /\ diskFile'[p] = diskFile[p]
    BY <1>1, <1>5 DEF SetPages, Kept
  <1>7. UncoveredKept'
    BY <1>1, <1>5, <1>6 DEF ReplayInv, UncoveredKept, logVars, Covering
  <1>8. Progress'
    <2>1. ASSUME m.write, pending PROVE \A n \in diskLen' : n >= log.last
      BY <1>1, <1>2, <2>1, LogTypes DEF ReplayInv, Progress, LengthsKeep, TypeOK
    <2> QED
      BY <1>1, <1>5, <1>6, <2>1 DEF ReplayInv, Progress, ReplayedTo, logVars
  <1> QED
    BY <1>1, <1>3, <1>4, <1>5, <1>7, <1>8 DEF ReplayInv, logVars, DescsBelow

LEMMA LossStep ==
  ASSUME ReplayInv, PowerLoss
  PROVE  ReplayInv'
  <1>1. PICK f \in [Pages -> UNION {diskFile[p] : p \in Pages}] :
          /\ \A p \in Pages : f[p] \in diskFile[p]
          /\ file' = [p \in Pages |-> IF p < len' THEN f[p] ELSE Zero]
    BY DEF PowerLoss
  <1>2. /\ len' \in diskLen /\ diskLen' = {len'}
        /\ diskFile' = [p \in Pages |-> {file'[p]}]
        /\ m' = Closed /\ UNCHANGED <<logVars, written>>
    BY DEF PowerLoss
  <1>3. file' \in [Pages -> Values]
    BY <1>1 DEF ReplayInv, TypeOK, Values
  <1>4. TypeOK'
    BY <1>2, <1>3 DEF ReplayInv, TypeOK, logVars, Closed, Medium
  <1>5. LengthsKeep'
    BY <1>2 DEF ReplayInv, LengthsKeep, logVars
  <1>6. ASSUME NEW p \in Kept, Covering(p) = {}
        PROVE  file'[p] = start.file[p] /\ diskFile'[p] = {start.file[p]}
    <2>1. p \in Pages /\ p \in Nat /\ p < log.last /\ log.last \in Nat
      BY LogTypes DEF Kept, Below, ReplayInv
    <2>2. f[p] = start.file[p]
      BY <1>1, <1>6, <2>1 DEF ReplayInv, UncoveredKept
    <2>3. len' \in Nat /\ start.len \in Nat /\ (len' >= start.len \/ len' >= log.last)
      BY <1>2 DEF ReplayInv, LengthsKeep, TypeOK
    <2>4. p >= start.len => start.file[p] = Zero
      BY <2>1 DEF ReplayInv, LengthsKeep
    <2>5. file'[p] = start.file[p]
      BY <1>1, <2>1, <2>2, <2>3, <2>4
    <2> QED
      BY <1>2, <2>1, <2>5
  <1>7. UncoveredKept'
    BY <1>2, <1>6 DEF UncoveredKept, logVars, Kept, Below, Covering
  <1>8. Progress'
    BY <1>2 DEF Progress, Closed
  <1> QED
    BY <1>2, <1>4, <1>5, <1>7, <1>8 DEF ReplayInv, logVars, DescsBelow, Below

(***************************************************************************)
(* The invariant of opens, replays, writes and power losses: a page that   *)
(* no descriptor covers is never touched, any other is as far as the       *)
(* replay in progress (replay_to_file), and a finished open is durable.    *)
(***************************************************************************)
THEOREM ReplayInvariance == Spec => []ReplayInv
  <1>1. ReplayInv /\ [Next]_vars => ReplayInv'
    <2> SUFFICES ASSUME ReplayInv, [Next]_vars PROVE ReplayInv'
      OBVIOUS
    <2>1. CASE Next
      BY <2>1, ReplayStep, OpenStep, WriteStep, LossStep DEF Next
    <2>2. CASE UNCHANGED vars
      BY <2>2, FileAlone
      DEF vars, logVars, fileVars, ReplayInv, TypeOK, Progress, ReplayedTo, Kept, Below
    <2> QED
      BY <2>1, <2>2
  <1> QED
    BY <1>1, ReplayInit, PTL DEF Spec

(***************************************************************************)
(* A writable open returns with the log replayed, completely and durably,  *)
(* however many replays before it died or lost power (replay_to_file, and  *)
(* the sync of apply_writable_header_update).                              *)
(***************************************************************************)
THEOREM ReplayIsDurable == Spec => []ReplayComplete
  <1>1. ReplayInv => ReplayComplete
    <2> SUFFICES ASSUME ReplayInv, m.pc = "open", m.write, pending
                 PROVE  /\ \A p \in Kept : file[p] = After(p) /\ diskFile[p] = {After(p)}
                        /\ \A n \in diskLen : n >= log.last
      BY DEF ReplayComplete, Kept, Below
    <2> QED
      BY AllDone DEF ReplayInv, Progress
  <1> QED
    BY <1>1, ReplayInvariance, PTL

(* The type invariant of the file, the log and the medium of a replay.     *)
THEOREM ReplayTypeCorrect == Spec => []TypeOK
  <1>1. ReplayInv => TypeOK
    BY DEF ReplayInv
  <1> QED
    BY <1>1, ReplayInvariance, PTL
-----------------------------------------------------------------------------
\* Where zeros never follow data, the overlay holds what the replay leaves.
LEMMA OverlayRight ==
  ASSUME TypeOK, DataLast(log.descs), NEW p \in Pages, Covering(p) # {}
  PROVE  Overlay(p) = log.descs[Largest(Covering(p))].val
  <1> DEFINE L == Len(log.descs)
             C == Covering(p)
             D == {k \in C : log.descs[k].val # Zero}
             top == Largest(C)
  <1>1. L \in Nat /\ C \subseteq 1 .. L /\ DOMAIN log.descs = 1 .. L
    BY LogTypes, ReplayConstants DEF Covering, TypeOK, ActiveSequence
  <1>2. top \in C /\ \A j \in C : j =< top
    <2>1. C \in SUBSET (0 .. L) /\ C # {}
      BY <1>1
    <2> HIDE DEF C
    <2> QED
      BY <1>1, <2>1, LargestOf
  <1>3. Overlay(p) = IF D # {} THEN log.descs[Largest(D)].val ELSE Zero
    BY DEF Overlay
  <1>4. CASE D = {}
    BY <1>2, <1>3, <1>4
  <1>5. CASE D # {}
    <2> DEFINE j == Largest(D)
    <2>1. D \subseteq 0 .. L
      BY <1>1
    <2>2. j \in D
      BY <1>1, <1>5, <2>1, LargestOf
    <2>3. ASSUME log.descs[top].val = Zero PROVE FALSE
      <3>1. j \in C /\ j # top /\ j \in Nat /\ top \in Nat
        <4>1. j \in C /\ log.descs[j].val # Zero
          BY <2>2
        <4> HIDE DEF j, top, C
        <4> QED
          BY <1>1, <1>2, <2>3, <4>1
      <3>2. j < top
        <4> HIDE DEF j, top, C
        <4> QED
          BY <1>2, <3>1
      <3>3. DescPages(log.descs[j]) \cap DescPages(log.descs[top]) = {}
        BY <1>1, <1>2, <2>2, <2>3, <3>1, <3>2 DEF DataLast
      <3> QED
        BY <1>2, <2>2, <3>3 DEF Covering
    <2>4. top \in D /\ \A i \in D : i =< top
      BY <1>2, <2>3
    <2>5. Largest(D) = top
      BY <1>1, <2>4, LargestIs
    <2> QED
      BY <1>3, <1>5, <2>5
  <1> QED
    BY <1>4, <1>5

(***************************************************************************)
(* For logs that zero no page after giving it data, the overlay of         *)
(* build_replay_overlay shows the BAT and metadata regions as a replay     *)
(* into the file would leave them, whatever interrupted replays did to the *)
(* file below it.                                                          *)
(***************************************************************************)
THEOREM OverlayShowsReplay ==
  ASSUME \A l \in Logs : DataLast(l.descs)
  PROVE  Spec => []RegionView
  <1>1. ReplayInv => RegionView
    <2> SUFFICES ASSUME ReplayInv, m.overlay, NEW p \in Kept
                 PROVE  RegionRead(p) = After(p)
      BY DEF RegionView, Kept, Below
    <2>1. TypeOK /\ UncoveredKept /\ p \in Pages /\ DataLast(log.descs)
      BY LogTypes DEF ReplayInv, TypeOK, Kept
    <2>2. CASE Covering(p) = {}
      BY <2>1, <2>2 DEF RegionRead, After, UncoveredKept
    <2>3. CASE Covering(p) # {}
      BY <2>1, <2>3, OverlayRight DEF RegionRead, After
    <2> QED
      BY <2>2, <2>3
  <1> QED
    BY <1>1, ReplayInvariance, PTL
=============================================================================
