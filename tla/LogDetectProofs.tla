--------------------------- MODULE LogDetectProofs ---------------------------
(***************************************************************************)
(* The scan of the log never hands a gap or an incomplete sequence to the  *)
(* replay and finds the newest one, and the verdict of validate_log goes   *)
(* together with it, for every length of the log and of its entries.       *)
(***************************************************************************)
EXTENDS LogValidate, TLAPS

\* The scan has its types; while it extends, the next place to look at is the
\* end of the last entry taken.
Scan ==
  /\ pc \in {"write", "extend", "judge", "done"}
  /\ log \in [Offsets -> [seq : Nat, len : Nat, tail : Offsets]]
  /\ tail \in Offsets /\ head \in Offsets
  /\ cur \in Seq(Offsets) /\ cand \in Seq(Offsets)
  /\ pc = "write" => cur = <<>> /\ cand = <<>>
  /\ pc = "extend" /\ cur # <<>> => head = LastOf(cur) + log[LastOf(cur)].len
  /\ Chain(cur)
  /\ CandidateComplete

\* A remainder is an offset, and an offset is its own remainder.
LEMMA Remainder ==
  /\ \A m \in Nat : m % Size \in Offsets
  /\ \A m \in Offsets : m % Size = m
  BY LogConstants DEF Offsets

\* The empty sequence is a chain.
LEMMA EmptyChain == Chain(<<>>) /\ <<>> \in Seq(Offsets)
  BY DEF Chain

\* The scan starts well.
LEMMA ScanInit == Init => Scan /\ end \in Offsets /\ newest \in Offsets \cup {-1}
  <1> SUFFICES ASSUME Init PROVE Scan /\ end \in Offsets /\ newest \in Offsets \cup {-1}
    OBVIOUS
  <1>1. 0 \in Offsets
    BY LogConstants DEF Offsets
  <1>2. NoEntry \in [seq : Nat, len : Nat, tail : Offsets]
    BY <1>1 DEF NoEntry
  <1> QED
    BY <1>1, <1>2, EmptyChain DEF Init, Scan, CandidateComplete

\* Every step of the writer and of the scan keeps it.
LEMMA ScanStep ==
  Scan /\ end \in Offsets /\ newest \in Offsets \cup {-1} /\ [Next]_vars
    => Scan' /\ end' \in Offsets /\ newest' \in Offsets \cup {-1}
  <1> SUFFICES ASSUME Scan, end \in Offsets, newest \in Offsets \cup {-1}, [Next]_vars
               PROVE  Scan' /\ end' \in Offsets /\ newest' \in Offsets \cup {-1}
    OBVIOUS
  <1>0. 0 \in Offsets /\ Size \in Nat \ {0} /\ Offsets \subseteq Nat
    BY LogConstants DEF Offsets
  <1> DEFINE R == [seq : Nat, len : Nat, tail : Offsets]
  <1>a. \A S : Spared(S) \in [Offsets -> R]
    <2>1. NoEntry \in R
      BY <1>0 DEF NoEntry
    <2> QED
      BY <2>1 DEF Spared, Scan
  <1>1. ASSUME NEW len \in Lens, \/ \E t \in Offsets : WriteEntry(len, t)
                                 \/ \E W \in SUBSET Offsets : WriteHalf(len, W)
        PROVE  Scan' /\ end' \in Offsets /\ newest' \in Offsets \cup {-1}
    <2>1. len \in Nat
      BY LogConstants
    <2>2. end' \in Offsets /\ newest' \in Offsets \cup {-1}
      BY <1>0, <1>1, <2>1, Remainder DEF WriteEntry, WriteHalf, writerVars
    <2>3. NextSeq \in Nat
      BY DEF NextSeq, Scan
    <2>4. log' \in [Offsets -> R]
      <3>1. ASSUME NEW t \in Offsets, WriteEntry(len, t) PROVE log' \in [Offsets -> R]
        BY <1>a, <2>1, <2>3, <3>1 DEF WriteEntry
      <3>2. ASSUME NEW W \in SUBSET Offsets, WriteHalf(len, W) PROVE log' \in [Offsets -> R]
        BY <1>a, <3>2 DEF WriteHalf
      <3> QED
        BY <1>1, <3>1, <3>2
    <2>5. /\ cur' = <<>> /\ cand' = <<>> /\ tail' = tail /\ head' = head
          /\ pc' \in {"write", "extend"}
      BY <1>1 DEF WriteEntry, WriteHalf, MayWrite, Scan
    <2>6. Chain(<<>>)'
      BY DEF Chain
    <2> QED
      BY <2>2, <2>4, <2>5, <2>6, EmptyChain DEF Scan, CandidateComplete, Chain
  <1>2. CASE Open
    BY <1>2 DEF Open, Scan, writerVars, Chain, CandidateComplete, Accepted, InBuffer, HoldsTail, LastOf
  <1>3. CASE Extend
    <2> DEFINE n == Len(cur)
               x == head + log[head].len
    <2>1. /\ pc = "extend" /\ Accepted(head) /\ cur' = Append(cur, head)
          /\ head' = x % Size /\ UNCHANGED <<log, end, newest, tail, old, cand>>
          /\ pc' = IF head' = 0 THEN "judge" ELSE "extend"
          /\ cur # <<>> => log[head].seq = log[LastOf(cur)].seq + 1
      BY <1>3 DEF Extend, Continues, writerVars
    <2>2. x \in Nat /\ x =< Size
      <3>1. head \in Nat /\ log[head].len \in Nat
        BY <1>0 DEF Scan
      <3> QED
        BY <2>1, <3>1 DEF Accepted, InBuffer
    <2>3. /\ head' \in Offsets
          /\ pc' = "extend" => head' = x
      <3>1. x % Size \in Offsets
        BY <2>2, Remainder
      <3>2. CASE x = Size
        BY <3>1, <3>2, <2>1, <1>0
      <3>3. CASE x < Size
        <4>1. x \in Offsets
          BY <3>3, <2>2, <1>0 DEF Offsets
        <4> QED
          BY <4>1, <2>1, Remainder
      <3> QED
        BY <3>2, <3>3, <2>2, <1>0
    <2>4. /\ cur' \in Seq(Offsets) /\ Len(cur') = n + 1 /\ n \in Nat
          /\ cur'[n + 1] = head
          /\ \A k \in 1 .. n : cur'[k] = cur[k]
      BY <2>1 DEF Scan
    <2>5. Chain(cur')
      <3>1. ASSUME NEW k \in 1 .. n + 1
            PROVE  /\ Accepted(cur'[k])
                   /\ k > 1 => /\ cur'[k] = cur'[k - 1] + log[cur'[k - 1]].len
                               /\ log[cur'[k]].seq = log[cur'[k - 1]].seq + 1
        <4>1. CASE k \in 1 .. n
          <5>1. k > 1 => k - 1 \in 1 .. n
            BY <4>1, <2>4
          <5> QED
            BY <4>1, <5>1, <2>4 DEF Scan, Chain
        <4>2. CASE k = n + 1 /\ n = 0
          BY <4>2, <2>1, <2>4
        <4>3. CASE k = n + 1 /\ n > 0
          <5>1. cur # <<>> /\ n \in 1 .. n /\ cur'[n] = LastOf(cur) /\ k - 1 = n
            BY <4>3, <2>4 DEF LastOf
          <5>2. head = LastOf(cur) + log[LastOf(cur)].len
            BY <5>1, <2>1 DEF Scan
          <5> QED
            BY <4>3, <5>1, <5>2, <2>1, <2>4
        <4> QED
          BY <4>1, <4>2, <4>3, <2>4
      <3> QED
        BY <3>1, <2>4 DEF Chain
    <2>6. Chain(cur)' /\ CandidateComplete'
      BY <2>1, <2>5 DEF Chain, Accepted, InBuffer, CandidateComplete, HoldsTail, LastOf, Scan
    <2>7. pc' = "extend" /\ cur' # <<>> => head' = LastOf(cur') + log'[LastOf(cur')].len
      BY <2>1, <2>3, <2>4 DEF LastOf
    <2>8. pc' \in {"extend", "judge"}
      BY <2>1
    <2> QED
      BY <2>1, <2>3, <2>4, <2>6, <2>7, <2>8 DEF Scan, LastOf
  <1>4. CASE StopExtending
    BY <1>4 DEF StopExtending, Scan, writerVars, Chain, CandidateComplete, Accepted, InBuffer, HoldsTail, LastOf
  <1>5. CASE Judge
    <2>1. /\ UNCHANGED <<log, end, newest>>
          /\ cand' = (IF IsValid /\ IsNewer THEN cur ELSE cand)
          /\ tail' = NextTail
          /\ \/ pc' = "done" /\ head' = head /\ cur' = cur
             \/ pc' = "extend" /\ head' = NextTail /\ cur' = <<>>
      BY <1>5 DEF Judge, writerVars
    <2>2. NextTail \in Offsets
      <3>1. tail + 1 \in Nat
        BY <1>0 DEF Scan
      <3>2. ASSUME IsValid PROVE LastOf(cur) + log[LastOf(cur)].len \in Nat
        <4>1. LastOf(cur) \in Offsets
          BY <3>2 DEF IsValid, LastOf, Scan
        <4>2. LastOf(cur) \in Nat /\ log[LastOf(cur)].len \in Nat
          <5> DEFINE o == LastOf(cur)
          <5>1. o \in Offsets
            BY <4>1
          <5> HIDE DEF o
          <5>2. o \in Nat /\ log[o].len \in Nat
            BY <5>1, <1>0 DEF Scan
          <5> QED
            BY <5>2 DEF o
        <4> QED
          BY <4>2
      <3> QED
        BY <3>1, <3>2, Remainder DEF NextTail
    <2>3. Chain(cand') /\ (cand' # <<>> => HoldsTail(cand')) /\ cand' \in Seq(Offsets)
      BY <2>1 DEF Scan, CandidateComplete, IsValid
    <2>4. CandidateComplete'
      BY <2>1, <2>3 DEF CandidateComplete, Chain, Accepted, InBuffer, HoldsTail, LastOf
    <2>5. Chain(cur') /\ cur' \in Seq(Offsets) /\ head' \in Offsets
      BY <2>1, <2>2, EmptyChain DEF Scan
    <2>6. Chain(cur)'
      BY <2>1, <2>5 DEF Chain, Accepted, InBuffer
    <2> QED
      BY <2>1, <2>2, <2>3, <2>4, <2>5, <2>6 DEF Scan
  <1>6. CASE UNCHANGED vars
    BY <1>6 DEF vars, writerVars, Scan, Chain, CandidateComplete, Accepted, InBuffer, HoldsTail, LastOf
  <1> QED
    BY <1>1, <1>2, <1>3, <1>4, <1>5, <1>6 DEF Next

(***************************************************************************)
(* Whatever the ring holds, what detect_active_sequence returns is a       *)
(* complete run of consecutive entries.                                    *)
(***************************************************************************)
THEOREM ReplayIsComplete == Spec => []CandidateComplete
  <1> DEFINE I == Scan /\ end \in Offsets /\ newest \in Offsets \cup {-1}
  <1>1. Init => I
    BY ScanInit
  <1>2. I /\ [Next]_vars => I'
    BY ScanStep
  <1>3. I => CandidateComplete
    BY DEF Scan
  <1> HIDE DEF I
  <1> QED
    BY <1>1, <1>2, <1>3, PTL DEF Spec

\* The entries have their types, and the scan's tail stays in the ring.
EntriesTyped == log \in [Offsets -> Entry \cup {NoEntry}] /\ old \in Offsets

LEMMA TypesStep ==
  Scan /\ newest \in Offsets \cup {-1} /\ EntriesTyped /\ [Next]_vars /\ Scan' => EntriesTyped'
  <1> SUFFICES ASSUME Scan, Scan', newest \in Offsets \cup {-1}, EntriesTyped, [Next]_vars
               PROVE  EntriesTyped'
    OBVIOUS
  <1> DEFINE E == Entry \cup {NoEntry}
  <1>a. \A S : Spared(S) \in [Offsets -> E]
    BY DEF Spared, EntriesTyped
  <1>1. ASSUME NEW len \in Lens, NEW t \in Offsets, WriteEntry(len, t) PROVE EntriesTyped'
    <2> DEFINE e == [seq |-> NextSeq, len |-> len, tail |-> t]
    <2>1. NextSeq \in Nat \ {0}
      BY DEF NextSeq, Scan
    <2>2. e \in E
      BY <2>1 DEF Entry
    <2>3. old' = old /\ log' = [Spared(Steps(end, len)) EXCEPT ![end] = e]
      BY <1>1 DEF WriteEntry
    <2> HIDE DEF E, e
    <2>4. log' \in [Offsets -> E]
      BY <1>a, <2>2, <2>3
    <2> QED
      BY <2>3, <2>4 DEF EntriesTyped, E
  <1>b. ASSUME NEW len \in Lens, NEW W \in SUBSET Offsets, WriteHalf(len, W) PROVE EntriesTyped'
    BY <1>a, <1>b DEF WriteHalf, EntriesTyped
  <1>2. CASE Open \/ Extend \/ StopExtending
    BY <1>2 DEF Open, Extend, StopExtending, EntriesTyped
  <1>3. CASE Judge
    <2>1. log' = log /\ (old' = old \/ old' = tail')
      BY <1>3 DEF Judge
    <2> QED
      BY <2>1 DEF EntriesTyped, Scan
  <1>4. CASE UNCHANGED vars
    BY <1>4 DEF vars, EntriesTyped
  <1> QED
    BY <1>1, <1>b, <1>2, <1>3, <1>4 DEF Next

(* The type invariant of the ring, its writer and the scan.                *)
THEOREM ScanTypeCorrect == Spec => []TypeOK
  <1> DEFINE I == Scan /\ end \in Offsets /\ newest \in Offsets \cup {-1} /\ EntriesTyped
  <1>1. Init => I
    <2>1. Init => EntriesTyped
      BY LogConstants DEF Init, EntriesTyped, Offsets
    <2> QED
      BY <2>1, ScanInit
  <1>2. I /\ [Next]_vars => I'
    BY ScanStep, TypesStep
  <1>3. I => TypeOK
    BY DEF Scan, EntriesTyped, TypeOK
  <1> HIDE DEF I
  <1> QED
    BY <1>1, <1>2, <1>3, PTL DEF Spec
-----------------------------------------------------------------------------
(* The writer, and why the scan comes upon its newest entry. *)

Held(l, o) == l[o] # NoEntry
StepsOf(l, o) == Steps(o, l[o].len)
After(l, o) == (o + l[o].len) % Size
Oldest == log[newest].tail

\* What the writer leaves in the ring: entries that do not overlap, each of its
\* own number, and from the oldest one still needed to the newest one a run
\* without a gap.
Ring ==
  /\ \A o \in Offsets : log[o].len \in 1 .. Size /\ (Held(log, o) <=> log[o].seq > 0)
  /\ \A o, p \in Offsets : Held(log, o) /\ Held(log, p) /\ o # p => StepsOf(log, o) \cap StepsOf(log, p) = {}
  /\ \A o, p \in Offsets : Held(log, o) /\ Held(log, p) /\ log[o].seq = log[p].seq => o = p
  /\ newest = -1 => \A o \in Offsets : ~Held(log, o)
  /\ newest # -1 =>
       /\ Held(log, newest) /\ Held(log, Oldest)
       /\ \A o \in Offsets : log[o].seq =< log[newest].seq
       /\ end = After(log, newest)
       /\ \A o \in Offsets : Held(log, o) /\ log[o].seq >= log[Oldest].seq /\ o # newest =>
            log[After(log, o)].seq = log[o].seq + 1

\* The scan has found the newest entry, or has not passed the oldest one needed.
Found == cand # <<>> /\ LastOf(cand) = newest
HasOldest(s) == \E k \in 1 .. Len(s) : s[k] = Oldest
Toward ==
  /\ pc \in {"extend", "judge"}
  /\ tail = old /\ tail =< Oldest
  /\ cur = <<>> => head = tail
  /\ cur # <<>> => tail =< LastOf(cur)
  /\ ~HasOldest(cur) =>
       /\ head =< Oldest
       /\ cur # <<>> => head = LastOf(cur) + log[LastOf(cur)].len
       /\ pc = "judge" /\ cur = <<>> => tail < Oldest
  /\ HasOldest(cur) =>
       /\ LastOf(cur) =< newest
       /\ log[LastOf(cur)].seq >= log[Oldest].seq
       /\ pc = "judge" => LastOf(cur) = newest
Comes ==
  /\ pc = "write" => tail = 0 /\ old = 0 /\ head = 0
  /\ pc # "write" /\ newest # -1 /\ InOnePiece => Found \/ Toward
\* Once round the ring.
LEMMA Around ==
  /\ \A m \in 0 .. Size - 1 : m % Size = m
  /\ \A m \in Size .. 2 * Size - 1 : m % Size = m - Size
  BY LogConstants

\* An entry takes the step it starts at, and those up to its end.
LEMMA TakesSteps ==
  ASSUME NEW o \in Offsets, NEW n \in 1 .. Size
  PROVE  /\ o \in Steps(o, n) /\ Steps(o, n) \subseteq Offsets
         /\ (o + n) % Size \in Offsets
         /\ \A p \in Offsets : o < p /\ p < o + n => p \in Steps(o, n)
  <1>0. Size \in Nat \ {0} /\ o \in Nat /\ n \in Nat
    BY LogConstants DEF Offsets
  <1>1. o \in Steps(o, n)
    <2>1. 0 \in 0 .. n - 1 /\ o + 0 = o /\ o % Size = o
      BY <1>0, Remainder
    <2> QED
      BY <2>1 DEF Steps
  <1>2. Steps(o, n) \subseteq Offsets /\ (o + n) % Size \in Offsets
    <2>1. \A k \in 0 .. n - 1 : o + k \in Nat
      BY <1>0
    <2> QED
      BY <1>0, <2>1, Remainder DEF Steps
  <1>3. ASSUME NEW p \in Offsets, o < p, p < o + n PROVE p \in Steps(o, n)
    <2>1. p - o \in 0 .. n - 1 /\ o + (p - o) = p /\ p % Size = p
      BY <1>0, <1>3, Remainder DEF Offsets
    <2> QED
      BY <2>1 DEF Steps
  <1> QED
    BY <1>1, <1>2, <1>3

LEMMA RingInit == Init => Ring
  BY LogConstants DEF Init, Ring, Held, NoEntry, Offsets

\* A whole append keeps the writer's order.
LEMMA WriteKeepsRing ==
  ASSUME Scan, Ring, end \in Offsets, newest \in Offsets \cup {-1},
         NEW len \in Lens, NEW t \in Offsets, WriteEntry(len, t)
  PROVE  Ring'
  <1> DEFINE S == Steps(end, len)
             e == [seq |-> NextSeq, len |-> len, tail |-> t]
  <1>0. /\ Size \in Nat \ {0} /\ Offsets \subseteq Nat /\ len \in 1 .. Size
        /\ S \cap NeededSteps = {} /\ (newest # -1 => newest \in Offsets)
    <2>1. len =< Size /\ S \cap NeededSteps = {}
      BY DEF WriteEntry, MayWrite
    <2>2. Size \in Nat \ {0} /\ len \in Nat \ {0} /\ Offsets \subseteq Nat
      BY LogConstants DEF Offsets
    <2> QED
      BY <2>1, <2>2
  <1>1. /\ log' = [Spared(S) EXCEPT ![end] = e]
        /\ newest' = end /\ end' = (end + len) % Size /\ t \in Needed \cup {end}
    BY DEF WriteEntry
  <1>2. /\ log'[end] = e
        /\ \A o \in Offsets : o # end =>
             log'[o] = IF Held(log, o) /\ StepsOf(log, o) \cap S # {} THEN NoEntry ELSE log[o]
    BY <1>1 DEF Spared, Held, StepsOf
  <1>3. /\ NextSeq \in Nat \ {0}
        /\ \A o \in Offsets : log[o].seq \in Nat /\ log[o].seq < NextSeq
    <2>1. \A o \in Offsets : log[o].seq \in Nat
      BY DEF Scan
    <2>2. CASE newest = -1
      BY <2>1, <2>2 DEF NextSeq, Ring
    <2>3. CASE newest # -1
      BY <2>1, <2>3, <1>0 DEF NextSeq, Ring
    <2> QED
      BY <2>2, <2>3
  <1>4. Held(log', end)
    BY <1>2, <1>3 DEF Held, NoEntry
  <1>5. \A o \in Offsets : o # end /\ Held(log', o) =>
          /\ Held(log, o) /\ log'[o] = log[o] /\ StepsOf(log, o) \cap S = {}
          /\ StepsOf(log', o) = StepsOf(log, o) /\ After(log', o) = After(log, o)
    BY <1>2 DEF Held, StepsOf, After
  <1>6. StepsOf(log', end) = S
    BY <1>2 DEF StepsOf
  <1>7. ASSUME NEW o \in Needed
        PROVE  o \in Offsets /\ o # end /\ Held(log, o) /\ Held(log', o) /\ log'[o] = log[o]
    <2>1. o \in Offsets /\ Held(log, o) /\ StepsOf(log, o) \subseteq NeededSteps
      BY DEF Needed, NeededSteps, StepsOf, Held
    <2>2. o \in StepsOf(log, o) /\ end \in S
      BY <2>1, <1>0, TakesSteps DEF Ring, StepsOf
    <2> QED
      BY <2>1, <2>2, <1>0, <1>2 DEF Held
  <1>a. \A o \in Offsets : log'[o].len \in 1 .. Size /\ (Held(log', o) <=> log'[o].seq > 0)
    <2>1. NoEntry.len = 1 /\ NoEntry.seq = 0 /\ 1 \in 1 .. Size
      BY <1>0 DEF NoEntry
    <2>2. e.len = len /\ e.seq = NextSeq
      OBVIOUS
    <2>3. \A o \in Offsets : log[o].len \in 1 .. Size /\ (Held(log, o) <=> log[o].seq > 0)
      BY DEF Ring, Held
    <2> HIDE DEF e
    <2>4. ASSUME NEW o \in Offsets, o # end
          PROVE  log'[o].len \in 1 .. Size /\ (Held(log', o) <=> log'[o].seq > 0)
      <3>1. log'[o] = NoEntry \/ log'[o] = log[o]
        BY <1>2, <2>4
      <3> QED
        BY <3>1, <2>1, <2>3 DEF Held
    <2> QED
      BY <1>0, <1>2, <1>3, <1>4, <2>2, <2>4
  <1>b. \A o, p \in Offsets : Held(log', o) /\ Held(log', p) /\ o # p => StepsOf(log', o) \cap StepsOf(log', p) = {}
    BY <1>5, <1>6 DEF Ring
  <1>c. \A o, p \in Offsets : Held(log', o) /\ Held(log', p) /\ log'[o].seq = log'[p].seq => o = p
    BY <1>2, <1>3, <1>5 DEF Ring
  <1>d. \A o \in Offsets : log'[o].seq =< log'[end].seq
    <2>1. NoEntry.seq = 0 /\ e.seq = NextSeq
      BY DEF NoEntry
    <2> HIDE DEF e
    <2>2. ASSUME NEW o \in Offsets, o # end PROVE log'[o].seq =< NextSeq
      <3>1. log'[o] = NoEntry \/ log'[o] = log[o]
        BY <1>2, <2>2
      <3> QED
        BY <3>1, <1>3, <2>1
    <2> QED
      BY <1>2, <1>3, <2>1, <2>2
  <1>e. Held(log', t)
    BY <1>1, <1>4, <1>7
  <1>f. ASSUME NEW o \in Offsets, Held(log', o), log'[o].seq >= log'[t].seq, o # end
        PROVE  log'[After(log', o)].seq = log'[o].seq + 1
    <2>1. log'[o] = log[o] /\ Held(log, o) /\ After(log', o) = After(log, o) /\ After(log, o) \in Offsets
      BY <1>0, <1>5, <1>f, TakesSteps DEF After, Ring
    <2>2. t # end
      <3>1. log[o].seq \in Nat /\ log[o].seq < NextSeq /\ log'[end].seq = NextSeq
        BY <1>2, <1>3
      <3> QED
        BY <3>1, <1>3, <1>f, <2>1
    <2>3. t \in Needed /\ log'[t] = log[t] /\ newest # -1 /\ newest \in Offsets
      BY <1>0, <1>1, <1>7, <2>2 DEF Needed
    <2>4. o \in Needed /\ log[o].seq >= log[Oldest].seq
      <3>1. log[o].seq >= log[t].seq /\ log[t].seq >= log[Oldest].seq
        BY <1>f, <2>1, <2>3 DEF Needed, Oldest
      <3>2. Oldest \in Offsets
        BY <2>3 DEF Oldest, Scan
      <3> QED
        BY <3>1, <3>2, <2>1, <2>3 DEF Needed, Held, Oldest, Scan
    <2>5. CASE o = newest
      <3>1. After(log, o) = end /\ NextSeq = log[newest].seq + 1
        BY <2>3, <2>5 DEF Ring, NextSeq
      <3> QED
        BY <3>1, <2>1, <2>5, <1>2
    <2>6. CASE o # newest
      <3>1. log[After(log, o)].seq = log[o].seq + 1
        BY <2>1, <2>3, <2>4, <2>6 DEF Ring
      <3>2. After(log, o) \in Needed
        <4>1. Oldest \in Offsets
          BY <2>3 DEF Oldest, Scan
        <4>2. log[After(log, o)].seq > 0 /\ log[After(log, o)].seq >= log[Oldest].seq
          BY <3>1, <4>1, <1>3, <2>4
        <4>3. Held(log, After(log, o))
          BY <4>2, <2>1 DEF Ring
        <4> QED
          BY <4>2, <4>3, <2>1, <2>3 DEF Needed, Held, Oldest
      <3> QED
        BY <3>1, <3>2, <2>1, <1>7
    <2> QED
      BY <2>5, <2>6
  <1> HIDE DEF S
  <1>g. newest' # -1 /\ Oldest' = t /\ end' = After(log', end)
    BY <1>0, <1>1, <1>2 DEF Oldest, After
  <1> QED
    BY <1>1, <1>4, <1>a, <1>b, <1>c, <1>d, <1>e, <1>f, <1>g DEF Ring
\* So does one that is cut short: it overwrites no entry that is needed.
LEMMA HalfKeepsRing ==
  ASSUME Scan, Ring, end \in Offsets, newest \in Offsets \cup {-1},
         NEW len \in Lens, NEW W \in SUBSET Offsets, WriteHalf(len, W)
  PROVE  Ring'
  <1>0. /\ Size \in Nat \ {0} /\ Offsets \subseteq Nat
        /\ newest # -1 => newest \in Offsets
        /\ \A o \in Offsets : log[o].seq \in Nat
    BY LogConstants DEF Offsets, Scan
  <1>1. /\ W \cap NeededSteps = {} /\ log' = Spared(W) /\ newest' = newest /\ end' = end
    BY DEF WriteHalf, MayWrite, writerVars
  <1>2. \A o \in Offsets :
          log'[o] = IF Held(log, o) /\ StepsOf(log, o) \cap W # {} THEN NoEntry ELSE log[o]
    BY <1>1 DEF Spared, Held, StepsOf
  <1>3. \A o \in Offsets : Held(log', o) => Held(log, o) /\ log'[o] = log[o]
    BY <1>2 DEF Held
  <1>4. NoEntry.len = 1 /\ NoEntry.seq = 0 /\ 1 \in 1 .. Size
    BY <1>0 DEF NoEntry
  <1>5. \A o \in Needed : o \in Offsets /\ Held(log', o) /\ log'[o] = log[o]
    <2>1. \A o \in Needed : o \in Offsets /\ Held(log, o) /\ StepsOf(log, o) \subseteq NeededSteps
      BY DEF Needed, NeededSteps, StepsOf, Held
    <2> QED
      BY <2>1, <1>1, <1>2 DEF Held
  <1>6. \A o \in Offsets : log'[o].len \in 1 .. Size /\ (Held(log', o) <=> log'[o].seq > 0)
    BY <1>2, <1>4 DEF Ring, Held
  <1>7. \A o, p \in Offsets : Held(log', o) /\ Held(log', p) /\ o # p =>
          StepsOf(log', o) \cap StepsOf(log', p) = {}
    BY <1>3 DEF Ring, StepsOf
  <1>8. \A o, p \in Offsets : Held(log', o) /\ Held(log', p) /\ log'[o].seq = log'[p].seq => o = p
    BY <1>3 DEF Ring
  <1>9. newest = -1 => \A o \in Offsets : ~Held(log', o)
    BY <1>3 DEF Ring
  <1>10. ASSUME newest # -1
         PROVE  /\ Held(log', newest) /\ log'[newest] = log[newest]
                /\ Held(log', Oldest) /\ log'[Oldest] = log[Oldest] /\ Oldest \in Offsets
                /\ log[newest].seq >= log[Oldest].seq
    <2>1. Oldest \in Offsets /\ log[newest].seq >= log[Oldest].seq
      BY <1>0, <1>10 DEF Oldest, Scan, Ring
    <2>2. newest \in Needed /\ Oldest \in Needed
      <3>1. /\ Held(log, newest) /\ Held(log, Oldest) /\ newest \in Offsets
            /\ log[Oldest].seq >= log[Oldest].seq
        BY <2>1, <1>0, <1>10 DEF Ring
      <3> QED
        BY <3>1, <2>1, <1>10 DEF Needed, Held, Oldest
    <2> QED
      BY <2>1, <2>2, <1>5 DEF Needed, Held
  <1>11. ASSUME newest # -1, NEW o \in Offsets PROVE log'[o].seq =< log'[newest].seq
    <2>1. log'[o] = log[o] \/ log'[o].seq = 0
      BY <1>2, <1>4
    <2> QED
      BY <2>1, <1>0, <1>10, <1>11 DEF Ring
  <1>12. ASSUME newest # -1, NEW o \in Offsets, Held(log', o), log'[o].seq >= log'[Oldest].seq,
                o # newest
         PROVE  log'[After(log', o)].seq = log'[o].seq + 1
    <2>1. /\ Held(log, o) /\ log'[o] = log[o] /\ log[o].seq >= log[Oldest].seq
          /\ After(log', o) = After(log, o) /\ After(log, o) \in Offsets
      BY <1>3, <1>10, <1>12, TakesSteps DEF After, Ring
    <2>2. log[After(log, o)].seq = log[o].seq + 1
      BY <2>1, <1>12 DEF Ring
    <2>3. After(log, o) \in Needed
      <3>1. log[After(log, o)].seq > 0 /\ log[After(log, o)].seq >= log[Oldest].seq
        <4>1. log[o].seq \in Nat /\ log[Oldest].seq \in Nat /\ log[o].seq >= log[Oldest].seq
          BY <2>1, <1>0, <1>10, <1>12
        <4> QED
          BY <4>1, <2>2
      <3>2. Held(log, After(log, o))
        BY <3>1, <2>1 DEF Ring
      <3> QED
        BY <3>1, <3>2, <2>1, <1>12 DEF Needed, Held, Oldest
    <2> QED
      BY <2>1, <2>2, <2>3, <1>5
  <1>13. newest # -1 => Oldest' = Oldest /\ end = After(log', newest)
    BY <1>1, <1>10 DEF Oldest, After, Ring
  <1> QED
    BY <1>1, <1>6, <1>7, <1>8, <1>9, <1>10, <1>11, <1>12, <1>13 DEF Ring

\* The scan does not write.
LEMMA ScanKeepsRing == Ring /\ UNCHANGED <<log, end, newest>> => Ring'
  BY DEF Ring, Oldest

\* Every step keeps what the writer leaves.
LEMMA RingStep ==
  Scan /\ Ring /\ end \in Offsets /\ newest \in Offsets \cup {-1} /\ [Next]_vars => Ring'
  <1> SUFFICES ASSUME Scan, Ring, end \in Offsets, newest \in Offsets \cup {-1}, [Next]_vars
               PROVE  Ring'
    OBVIOUS
  <1>1. ASSUME NEW len \in Lens, NEW t \in Offsets, WriteEntry(len, t) PROVE Ring'
    BY <1>1, WriteKeepsRing
  <1>2. ASSUME NEW len \in Lens, NEW W \in SUBSET Offsets, WriteHalf(len, W) PROVE Ring'
    BY <1>2, HalfKeepsRing
  <1>3. CASE Open \/ Extend \/ StopExtending \/ Judge \/ UNCHANGED vars
    BY <1>3, ScanKeepsRing DEF Open, Extend, StopExtending, Judge, vars, writerVars
  <1> QED
    BY <1>1, <1>2, <1>3 DEF Next
\* Of two entries in the ring, the one before ends where the other begins, or
\* earlier.
LEMMA EndsBelow ==
  ASSUME Ring, NEW o \in Offsets, NEW p \in Offsets, Held(log, o), Held(log, p), o < p
  PROVE  o + log[o].len =< p
  <1>0. o \in Nat /\ p \in Nat /\ log[o].len \in 1 .. Size /\ log[p].len \in 1 .. Size
    BY LogConstants DEF Offsets, Ring
  <1>1. StepsOf(log, o) \cap StepsOf(log, p) = {} /\ p \in StepsOf(log, p)
    BY <1>0, TakesSteps DEF Ring, StepsOf
  <1>2. p < o + log[o].len => p \in StepsOf(log, o)
    BY <1>0, TakesSteps DEF StepsOf
  <1> QED
    BY <1>0, <1>1, <1>2

\* The last of a chain.
LEMMA LastOfChain ==
  ASSUME NEW s \in Seq(Offsets), s # <<>>, Chain(s)
  PROVE  LastOf(s) \in Offsets /\ Accepted(LastOf(s))
  <1>1. Len(s) \in 1 .. Len(s) /\ s[Len(s)] \in Offsets
    OBVIOUS
  <1> QED
    BY <1>1 DEF LastOf, Chain

\* What holds while the scan goes on and the needed entries stand in one piece.
OnePiece == newest # -1 /\ newest \in Offsets /\ InOnePiece

LEMMA PieceFacts ==
  ASSUME Scan, Ring, OnePiece
  PROVE  /\ Oldest \in Offsets /\ newest \in Offsets /\ Offsets \subseteq Nat
         /\ Oldest =< newest /\ Held(log, Oldest) /\ Held(log, newest)
         /\ \A o \in Offsets : /\ log[o].seq \in Nat /\ log[o].len \in 1 .. Size
                               /\ log[o].seq =< log[newest].seq
         /\ \A o \in Offsets : o < newest /\ Held(log, o) => o + log[o].len =< newest
         /\ \A o \in Offsets : o < Oldest /\ Held(log, o) => o + log[o].len =< Oldest
         /\ \A o \in Offsets : o =< newest /\ Held(log, o) => Accepted(o)
  <1>1. /\ Oldest \in Offsets /\ newest \in Offsets /\ Offsets \subseteq Nat /\ Size \in Nat \ {0}
        /\ Oldest =< newest /\ newest + log[newest].len =< Size
        /\ Held(log, Oldest) /\ Held(log, newest)
    BY LogConstants DEF OnePiece, InOnePiece, Oldest, Scan, Ring, Offsets
  <1>2. \A o \in Offsets : /\ log[o].seq \in Nat /\ log[o].len \in 1 .. Size
                           /\ log[o].seq =< log[newest].seq
                           /\ (Held(log, o) <=> log[o].seq > 0)
    BY <1>1 DEF Scan, Ring, OnePiece
  <1>3. /\ \A o \in Offsets : o < newest /\ Held(log, o) => o + log[o].len =< newest
        /\ \A o \in Offsets : o < Oldest /\ Held(log, o) => o + log[o].len =< Oldest
    BY <1>1, EndsBelow
  <1>4. ASSUME NEW o \in Offsets, o =< newest, Held(log, o) PROVE Accepted(o)
    <2>1. o + log[o].len =< Size
      <3>1. CASE o = newest
        BY <3>1, <1>1
      <3>2. CASE o < newest
        <4>1. o + log[o].len =< newest /\ newest \in 0 .. Size - 1 /\ o \in Nat
          BY <3>2, <1>1, <1>3, <1>4 DEF Offsets
        <4> QED
          BY <4>1, <1>1, <1>2
      <3> QED
        BY <3>1, <3>2, <1>1, <1>4
    <2> QED
      BY <2>1, <1>2, <1>4 DEF Accepted, InBuffer
  <1> QED
    BY <1>1, <1>2, <1>3, <1>4

\* One more entry does not take the scan past the oldest one needed.
LEMMA ExtendComes ==
  ASSUME Scan, Ring, OnePiece, Toward, Extend
  PROVE  Toward'
  <1> DEFINE x == head + log[head].len
             n == Len(cur)
  <1>0. /\ Oldest \in Offsets /\ newest \in Offsets /\ Offsets \subseteq Nat
        /\ Oldest =< newest /\ Held(log, Oldest) /\ Held(log, newest)
        /\ \A o \in Offsets : /\ log[o].seq \in Nat /\ log[o].len \in 1 .. Size
                              /\ log[o].seq =< log[newest].seq
        /\ \A o \in Offsets : o < newest /\ Held(log, o) => o + log[o].len =< newest
        /\ \A o \in Offsets : o < Oldest /\ Held(log, o) => o + log[o].len =< Oldest
    BY PieceFacts
  <1>1. /\ pc = "extend" /\ Accepted(head) /\ cur' = Append(cur, head)
        /\ head' = x % Size /\ UNCHANGED <<log, end, newest, tail, old, cand>>
        /\ pc' = IF head' = 0 THEN "judge" ELSE "extend"
        /\ cur # <<>> => log[head].seq = log[LastOf(cur)].seq + 1
    BY DEF Extend, Continues, writerVars
  <1>2. /\ head \in Offsets /\ Held(log, head) /\ x \in 1 .. Size /\ log[head].len \in 1 .. Size
        /\ tail \in Offsets /\ Size \in Nat \ {0} /\ newest < Size
    <2>1. head \in Offsets /\ log[head].seq > 0 /\ head + log[head].len =< Size
      BY <1>1 DEF Scan, Accepted, InBuffer
    <2>2. Held(log, head)
      BY <2>1 DEF Ring
    <2> QED
      <3>1. log[head].len \in 1 .. Size /\ head \in Nat /\ Size \in Nat \ {0} /\ tail \in Offsets
        BY <2>1, <1>0, LogConstants DEF Scan
      <3>2. newest < Size
        BY <1>0, LogConstants DEF Offsets
      <3> QED
        BY <2>1, <2>2, <3>1, <3>2
  <1>3. /\ x < Size => head' = x /\ pc' = "extend"
        /\ x = Size => head' = 0 /\ pc' = "judge"
    BY <1>1, <1>2, Around
  <1>4. /\ cur' \in Seq(Offsets) /\ cur' # <<>> /\ LastOf(cur') = head /\ n \in Nat
        /\ Len(cur') = n + 1 /\ cur'[n + 1] = head /\ \A k \in 1 .. n : cur'[k] = cur[k]
    BY <1>1, <1>2 DEF Scan, LastOf
  <1>5. HasOldest(cur') <=> HasOldest(cur) \/ head = Oldest
    BY <1>4 DEF HasOldest
  <1>6. Oldest' = Oldest /\ (HasOldest(cur)' <=> HasOldest(cur'))
    BY <1>1 DEF Oldest, HasOldest
  <1>7. cur # <<>> => LastOf(cur) \in Offsets /\ head = LastOf(cur) + log[LastOf(cur)].len
    BY <1>1, LastOfChain DEF Scan
  <1>8. tail =< head
    <2>1. ASSUME cur # <<>> PROVE tail =< head
      <3> DEFINE y == LastOf(cur)
      <3>1. y \in Offsets /\ head = y + log[y].len /\ tail =< y
        BY <2>1, <1>7 DEF Toward
      <3> HIDE DEF y
      <3>2. log[y].len \in 1 .. Size /\ y \in Nat /\ tail \in Nat
        BY <3>1, <1>0, <1>2
      <3> QED
        BY <3>1, <3>2
    <2> QED
      BY <2>1, <1>0, <1>2 DEF Toward
  <1>9. CASE ~HasOldest(cur) /\ head # Oldest
    <2>1. x =< Oldest /\ x < Size
      BY <1>0, <1>2, <1>9 DEF Toward
    <2> QED
      BY <2>1, <1>0, <1>1, <1>2, <1>3, <1>4, <1>5, <1>6, <1>8, <1>9 DEF Toward, LastOf
  <1>10. CASE HasOldest(cur) \/ head = Oldest
    <2>1. head =< newest /\ log[head].seq >= log[Oldest].seq
      <3>1. CASE head = Oldest
        BY <3>1, <1>0
      <3>2. CASE HasOldest(cur)
        <4> DEFINE y == LastOf(cur)
        <4>1. cur # <<>> /\ y =< newest /\ log[y].seq >= log[Oldest].seq
          BY <3>2, <1>4 DEF Toward, HasOldest
        <4>2. /\ y \in Offsets /\ Accepted(y) /\ head = y + log[y].len
              /\ log[head].seq = log[y].seq + 1
          BY <4>1, <1>1, <1>7, LastOfChain DEF Scan
        <4> HIDE DEF n, x, y
        <4>3. log[y].seq \in Nat /\ log[head].seq =< log[newest].seq
          BY <4>2, <1>0, <1>2
        <4>4. Held(log, y) /\ y # newest
          BY <4>2, <4>3 DEF Accepted, Ring
        <4>5. y < newest /\ log[Oldest].seq \in Nat
          BY <4>1, <4>2, <4>4, <1>0
        <4> QED
          BY <4>1, <4>2, <4>3, <4>4, <4>5, <1>0
      <3> QED
        BY <3>1, <3>2, <1>10
    <2>2. x = Size => head = newest
      BY <2>1, <1>0, <1>2
    <2>3. pc' \in {"extend", "judge"} /\ (pc' = "judge" => head = newest)
      BY <2>2, <1>2, <1>3
    <2>4. HasOldest(cur)' /\ LastOf(cur)' = head /\ cur' # <<>>
      BY <1>4, <1>5, <1>6, <1>10 DEF LastOf
    <2>5. /\ tail' = old' /\ tail' =< Oldest' /\ tail' =< head
          /\ head =< newest' /\ log'[head].seq >= log'[Oldest'].seq /\ newest' = newest
      BY <2>1, <1>1, <1>6, <1>8 DEF Toward
    <2> QED
      BY <2>3, <2>4, <2>5 DEF Toward
  <1> QED
    BY <1>9, <1>10
\* Where the scan stops extending, it has the newest entry or has not come to
\* the oldest one needed.
LEMMA StopComes ==
  ASSUME Scan, Ring, OnePiece, Toward, StopExtending
  PROVE  Toward'
  <1>0. /\ Oldest \in Offsets /\ newest \in Offsets /\ Offsets \subseteq Nat
        /\ Oldest =< newest /\ Held(log, Oldest) /\ Held(log, newest)
        /\ \A o \in Offsets : /\ log[o].seq \in Nat /\ log[o].len \in 1 .. Size
                              /\ log[o].seq =< log[newest].seq
        /\ \A o \in Offsets : o < newest /\ Held(log, o) => o + log[o].len =< newest
        /\ \A o \in Offsets : o =< newest /\ Held(log, o) => Accepted(o)
    BY PieceFacts
  <1>1. /\ pc = "extend" /\ ~Continues(head) /\ pc' = "judge"
        /\ UNCHANGED <<log, end, newest, tail, old, head, cur, cand>>
    BY DEF StopExtending, writerVars
  <1>2. ASSUME HasOldest(cur) PROVE LastOf(cur) = newest
    <2> DEFINE y == LastOf(cur)
    <2>1. cur # <<>> /\ y =< newest /\ log[y].seq >= log[Oldest].seq
      BY <1>2 DEF Toward, HasOldest
    <2>2. y \in Offsets /\ Accepted(y) /\ head = y + log[y].len
      BY <2>1, <1>1, LastOfChain DEF Scan
    <2> SUFFICES ASSUME y # newest PROVE FALSE
      OBVIOUS
    <2>3. ~(Accepted(head) /\ log[head].seq = log[y].seq + 1)
      BY <1>1, <2>1 DEF Continues
    <2> HIDE DEF y
    <2>4. Held(log, y) /\ y < newest /\ head =< newest
      BY <2>1, <2>2, <1>0 DEF Accepted, Ring
    <2>5. log[After(log, y)].seq = log[y].seq + 1
      BY <2>1, <2>2, <2>4 DEF Ring, OnePiece
    <2>6. head \in Offsets /\ After(log, y) = head
      <3>1. head \in Offsets
        BY <2>2, <2>4, <1>0, LogConstants DEF Scan, Offsets
      <3> QED
        BY <3>1, <2>2, Remainder DEF After
    <2>7. log[y].seq \in Nat
      BY <2>2, <1>0
    <2>8. Held(log, head)
      BY <2>5, <2>6, <2>7 DEF Ring
    <2> QED
      BY <2>3, <2>4, <2>5, <2>6, <2>8, <1>0
  <1>3. ASSUME ~HasOldest(cur), cur = <<>> PROVE tail < Oldest
    <2>1. head = tail /\ head =< Oldest /\ head \in Offsets
      BY <1>3 DEF Toward, Scan
    <2>2. head # Oldest
      BY <1>0, <1>1, <1>3 DEF Continues
    <2> QED
      BY <2>1, <2>2, <1>0
  <1>4. Oldest' = Oldest /\ HasOldest(cur)' = HasOldest(cur) /\ LastOf(cur)' = LastOf(cur)
    BY <1>1 DEF Oldest, HasOldest, LastOf
  <1>5. pc' = "judge" => (HasOldest(cur) => LastOf(cur) = newest)
                      /\ (~HasOldest(cur) /\ cur = <<>> => tail < Oldest)
    BY <1>2, <1>3
  <1> QED
    BY <1>1, <1>4, <1>5 DEF Toward

\* What was extended to the newest entry becomes the candidate; else the tail
\* moves on, but not past the oldest one needed.
LEMMA JudgeComes ==
  ASSUME Scan, Ring, OnePiece, Toward, Judge
  PROVE  Found' \/ Toward'
  <1>0. /\ Oldest \in Offsets /\ newest \in Offsets /\ Offsets \subseteq Nat
        /\ Held(log, newest) /\ Size \in Nat \ {0}
        /\ \A o \in Offsets : /\ log[o].seq \in Nat /\ log[o].len \in 1 .. Size
                              /\ log[o].seq =< log[newest].seq
    BY PieceFacts, LogConstants
  <1>1. /\ pc = "judge" /\ cand' = (IF IsValid /\ IsNewer THEN cur ELSE cand)
        /\ tail' = NextTail /\ UNCHANGED <<log, end, newest>>
        /\ ~(NextTail =< old) => pc' = "extend" /\ old' = NextTail /\ head' = NextTail /\ cur' = <<>>
    BY DEF Judge, writerVars
  <1>2. CASE HasOldest(cur)
    <2>1. cur # <<>> /\ LastOf(cur) = newest
      BY <1>1, <1>2 DEF Toward, HasOldest
    <2>2. IsValid
      BY <2>1, <1>2 DEF IsValid, HoldsTail, HasOldest, Oldest
    <2>3. CASE IsNewer
      BY <2>1, <2>2, <2>3, <1>1 DEF Found, LastOf
    <2>4. CASE ~IsNewer
      <3> DEFINE c == LastOf(cand)
      <3>1. cand # <<>> /\ ~(log[newest].seq > log[c].seq) /\ cand' = cand
        BY <2>1, <2>4, <1>1 DEF IsNewer
      <3>2. c \in Offsets /\ Accepted(c)
        BY <3>1, LastOfChain DEF Scan, CandidateComplete
      <3> HIDE DEF c
      <3>3. log[c].seq = log[newest].seq /\ Held(log, c)
        BY <3>1, <3>2, <1>0 DEF Accepted, Ring
      <3>4. c = newest
        BY <3>2, <3>3, <1>0 DEF Ring
      <3> QED
        BY <3>1, <3>4, <1>1 DEF Found, LastOf, c
    <2> QED
      BY <2>3, <2>4
  <1>3. CASE ~HasOldest(cur)
    <2>1. /\ tail \in Offsets /\ head \in Offsets /\ tail = old /\ head =< Oldest
          /\ cur = <<>> => tail < Oldest
      BY <1>1, <1>3 DEF Toward, Scan
    <2>2. ASSUME cur # <<>> PROVE tail < head /\ head = LastOf(cur) + log[LastOf(cur)].len
      <3> DEFINE y == LastOf(cur)
      <3>1. head = y + log[y].len /\ tail =< y /\ y \in Offsets
        BY <2>2, <1>3, LastOfChain DEF Toward, Scan
      <3> HIDE DEF y
      <3>2. log[y].len \in 1 .. Size /\ y \in Nat
        BY <3>1, <1>0
      <3>3. tail < head
        BY <3>1, <3>2, <2>1, <1>0
      <3> QED
        BY <3>1, <3>3 DEF y
    <2>3. NextTail > tail /\ NextTail =< Oldest /\ NextTail \in Offsets /\ ~(NextTail =< old)
      <3>1. CASE IsValid
        <4>1. NextTail = head % Size
          BY <3>1, <2>2 DEF NextTail, IsValid
        <4>2. NextTail = head
          BY <4>1, <2>1, Remainder
        <4> QED
          BY <4>2, <3>1, <2>1, <2>2, <1>0 DEF IsValid
      <3>2. CASE ~IsValid
        <4>1. tail < Oldest
          <5>1. CASE cur = <<>>
            BY <5>1, <2>1
          <5>2. CASE cur # <<>>
            BY <5>2, <2>1, <2>2, <1>0
          <5> QED
            BY <5>1, <5>2
        <4>2. tail + 1 \in Offsets /\ tail + 1 =< Oldest /\ tail + 1 > tail
          BY <4>1, <2>1, <1>0 DEF Offsets
        <4> QED
          BY <4>2, <3>2, <2>1, <1>0, Remainder DEF NextTail
      <3> QED
        BY <3>1, <3>2
    <2>4. ~HasOldest(cur)' /\ Oldest' = Oldest
      <3>1. cur' = <<>>
        BY <2>1, <2>3, <1>1
      <3> QED
        BY <3>1, <1>1 DEF HasOldest, Oldest
    <2> QED
      BY <2>1, <2>3, <2>4, <1>1 DEF Toward
  <1> QED
    BY <1>2, <1>3
\* Every step keeps what brings the scan to the newest entry.
LEMMA ComesStep ==
  ASSUME Scan, Scan', Ring, Ring', Comes, newest \in Offsets \cup {-1}, newest' \in Offsets \cup {-1},
         [Next]_vars
  PROVE  Comes'
  <1>0. 0 \in Offsets /\ Offsets \subseteq Nat
    BY LogConstants DEF Offsets
  <1>1. ASSUME NEW len \in Lens, NEW t \in Offsets, WriteEntry(len, t) PROVE Comes'
    BY <1>1 DEF WriteEntry, MayWrite, Comes
  <1>2. CASE Open \/ \E len \in Lens, W \in SUBSET Offsets : WriteHalf(len, W)
    <2>1. /\ pc' = "extend" /\ tail' = 0 /\ old' = 0 /\ head' = 0 /\ cur' = <<>>
      BY <1>2 DEF Open, WriteHalf, MayWrite, Comes, Scan
    <2>2. newest' # -1 => 0 =< Oldest'
      <3>1. newest' # -1 => Oldest' \in Offsets
        BY DEF Oldest, Scan
      <3> QED
        BY <3>1, LogConstants DEF Offsets
    <2>3. ~HasOldest(cur)'
      BY <2>1 DEF HasOldest
    <2> QED
      BY <2>1, <2>2, <2>3 DEF Comes, Toward
  <1>3. CASE Extend \/ StopExtending \/ Judge
    <2>1. pc # "write" /\ pc' # "write" /\ UNCHANGED <<log, newest>>
      BY <1>3 DEF Extend, StopExtending, Judge, writerVars
    <2>2. ASSUME newest # -1, InOnePiece PROVE Found' \/ Toward'
      <3>1. OnePiece /\ (Found \/ Toward)
        BY <2>1, <2>2 DEF OnePiece, Comes
      <3>2. CASE Found
        <4>1. CASE Extend \/ StopExtending
          BY <3>2, <4>1, <2>1 DEF Extend, StopExtending, Found, LastOf
        <4>2. CASE Judge
          <5>1. ~(IsValid /\ IsNewer)
            <6>1. ASSUME cur # <<>> PROVE ~(log[LastOf(cur)].seq > log[newest].seq)
              <7> DEFINE y == LastOf(cur)
              <7>1. y \in Offsets
                BY <6>1, LastOfChain DEF Scan
              <7> HIDE DEF y
              <7>2. log[y].seq =< log[newest].seq /\ log[y].seq \in Nat /\ log[newest].seq \in Nat
                BY <7>1, <2>2 DEF Ring, Scan
              <7> QED
                BY <7>2 DEF y
            <6> QED
              BY <6>1, <3>2 DEF IsValid, IsNewer, Found
          <5> QED
            BY <5>1, <4>2, <3>2, <2>1 DEF Judge, Found, LastOf
        <4> QED
          BY <4>1, <4>2, <1>3
      <3>3. CASE Toward
        BY <3>1, <3>3, <1>3, ExtendComes, StopComes, JudgeComes
      <3> QED
        BY <3>1, <3>2, <3>3
    <2>3. (InOnePiece)' = InOnePiece
      BY <2>1 DEF InOnePiece
    <2> QED
      BY <2>1, <2>2, <2>3 DEF Comes
  <1>4. CASE UNCHANGED vars
    BY <1>4 DEF vars, writerVars, Comes, InOnePiece, Found, Toward, HasOldest, Oldest, LastOf
  <1> QED
    BY <1>1, <1>2, <1>3, <1>4 DEF Next

\* The inductive invariant of the writer and the scan.
DetectInv == Scan /\ end \in Offsets /\ newest \in Offsets \cup {-1} /\ Ring /\ Comes

(* It holds of every ring and every scan.                                  *)
THEOREM DetectInvariance == Spec => []DetectInv
  <1>1. Init => DetectInv
    <2>1. Init => Comes
      BY DEF Init, Comes
    <2> QED
      BY <2>1, ScanInit, RingInit DEF DetectInv
  <1>2. DetectInv /\ [Next]_vars => DetectInv'
    BY ScanStep, RingStep, ComesStep DEF DetectInv
  <1> QED
    BY <1>1, <1>2, PTL DEF Spec

(***************************************************************************)
(* Wherever a writer stopped, in the middle of an append too: if the       *)
(* entries it still needed stand in one piece, detect_active_sequence ends *)
(* with the newest of them, for a log of any length and entries of any     *)
(* lengths.                                                                *)
(***************************************************************************)
THEOREM NewestIsFound == Spec => []NewestFound
  <1>1. DetectInv => NewestFound
    BY DEF DetectInv, Comes, Toward, Found, NewestFound
  <1> QED
    BY <1>1, DetectInvariance, PTL
-----------------------------------------------------------------------------
(***************************************************************************)
(* The validator.                                                          *)
(***************************************************************************)

\* The validator and what it needs of the ring are beside the scan.
LEMMA ValidateStepIsStep == [ValidateNext]_lvars => [Next]_vars
  BY DEF ValidateNext, lvars, WriteWhole, WritePart, OpenFile, Scanning, NextEntry, Answer, Next

(***************************************************************************)
(* A log with its validator is a log: what is proved of LogDetect holds.   *)
(***************************************************************************)
THEOREM ValidateImplementsDetect == ValidateSpec => Spec
  <1>1. ValidateInit => Init
    BY DEF ValidateInit
  <1> QED
    BY <1>1, ValidateStepIsStep, PTL DEF ValidateSpec, Spec

\* The walk of LogEntryIter: from the start of the ring, each header where the
\* entry before it ends.
Walk ==
  /\ at \in 0 .. Size /\ walked \in Seq(Offsets)
  /\ verdict \in {"none", "error", "replay", "clean"}
  /\ torn \subseteq Offsets /\ blank \in BOOLEAN
  /\ blank => \A o \in Offsets : ~Held(log, o)
  /\ pc # "done" => at = 0 /\ walked = <<>> /\ verdict = "none"
  /\ walked = <<>> => at = 0
  /\ walked # <<>> =>
       /\ walked[1] = 0
       /\ at = IF LastOf(walked) \in torn THEN Size
               ELSE LastOf(walked) + log[LastOf(walked)].len
  /\ \A k \in 1 .. Len(walked) : IsHeader(walked[k])
  /\ \A k \in 2 .. Len(walked) :
       /\ walked[k - 1] \notin torn
       /\ walked[k] = walked[k - 1] + log[walked[k - 1]].len

\* What the verdict says of the walk.
Judged ==
  verdict # "none" =>
    /\ ~MoreEntries
    /\ verdict = CASE Errs -> "error" [] ReplayRequired -> "replay" [] OTHER -> "clean"

\* An append leaves no header outside the ring, and the ring is not blank.
LEMMA WriteKeepsWalk ==
  ASSUME DetectInv, DetectInv', Walk, Judged,
         \/ \E len \in Lens, t \in Offsets : WriteWhole(len, t)
         \/ \E len \in Lens, W \in SUBSET Offsets : WritePart(len, W)
  PROVE  Walk' /\ Judged'
  <1>1. /\ pc = "write" /\ blank' = FALSE /\ UNCHANGED walkVars
        /\ torn' \subseteq Offsets
    BY DEF WriteWhole, WritePart, WriteEntry, WriteHalf, MayWrite, Beheaded, DetectInv
  <1>2. at' = 0 /\ walked' = <<>> /\ verdict' = "none"
    BY <1>1 DEF Walk, walkVars
  <1>3. /\ 0 \in 0 .. Size /\ <<>> \in Seq(Offsets)
        /\ \A k \in 1 .. Len(walked') : FALSE
        /\ \A k \in 2 .. Len(walked') : FALSE
    BY <1>2, LogConstants
  <1> QED
    BY <1>1, <1>2, <1>3 DEF Walk, Judged

\* One more entry of the walk.
LEMMA NextKeepsWalk ==
  ASSUME DetectInv, Walk, NextEntry
  PROVE  Walk' /\ Judged'
  <1> DEFINE n == Len(walked)
  <1>1. /\ pc = "done" /\ verdict = "none" /\ at < Size /\ IsHeader(at) /\ ~blank
        /\ walked' = Append(walked, at)
        /\ at' = IF at \in torn THEN Size ELSE at + log[at].len
        /\ UNCHANGED <<log, pc, torn, blank, verdict>>
    BY DEF NextEntry, MoreEntries, vars, ringVars
  <1>2. at \in Offsets /\ Size \in Nat \ {0}
    BY <1>1, LogConstants DEF Walk, Offsets
  <1>3. /\ walked' \in Seq(Offsets) /\ Len(walked') = n + 1 /\ n \in Nat
        /\ walked'[n + 1] = at /\ walked' # <<>> /\ LastOf(walked') = at
        /\ \A k \in 1 .. n : walked'[k] = walked[k]
    BY <1>1, <1>2 DEF Walk, LastOf
  <1>4. at' \in 0 .. Size
    <2>1. at \notin torn => at + log[at].len =< Size /\ log[at].len \in 1 .. Size
      BY <1>1, <1>2 DEF IsHeader, Accepted, InBuffer, DetectInv, Ring
    <2> QED
      BY <2>1, <1>1, <1>2 DEF Offsets
  <1>5. walked'[1] = 0
    <2>1. CASE n = 0
      BY <2>1, <1>3 DEF Walk
    <2>2. CASE n > 0
      BY <2>2, <1>3 DEF Walk
    <2> QED
      BY <2>1, <2>2, <1>3
  <1>6. \A k \in 1 .. n + 1 : IsHeader(walked'[k])
    BY <1>1, <1>3 DEF Walk
  <1>7. ASSUME NEW k \in 2 .. n + 1
        PROVE  /\ walked'[k - 1] \notin torn
               /\ walked'[k] = walked'[k - 1] + log[walked'[k - 1]].len
    <2>1. CASE k \in 2 .. n
      <3>1. k - 1 \in 1 .. n /\ k \in 1 .. n
        BY <2>1, <1>3
      <3> QED
        BY <2>1, <3>1, <1>3 DEF Walk
    <2>2. CASE k = n + 1
      <3>1. walked # <<>> /\ k - 1 \in 1 .. n /\ k - 1 = n /\ walked'[k - 1] = LastOf(walked)
        BY <2>2, <1>3 DEF LastOf
      <3> HIDE DEF n
      <3>2. LastOf(walked) \notin torn
        BY <3>1, <1>1 DEF Walk
      <3>3. at = LastOf(walked) + log[LastOf(walked)].len
        BY <3>1, <3>2 DEF Walk
      <3> QED
        BY <2>2, <3>1, <3>2, <3>3, <1>3
    <2> QED
      BY <2>1, <2>2, <1>3
  <1>8. /\ \A k \in 1 .. Len(walked') : IsHeader(walked[k])'
        /\ \A k \in 2 .. Len(walked') :
             /\ walked'[k - 1] \notin torn'
             /\ walked'[k] = walked'[k - 1] + log'[walked'[k - 1]].len
    BY <1>1, <1>3, <1>6, <1>7 DEF IsHeader, Accepted, InBuffer
  <1>9. at' = IF LastOf(walked)' \in torn' THEN Size ELSE LastOf(walked)' + log'[LastOf(walked)'].len
    BY <1>1, <1>3 DEF LastOf
  <1> QED
    BY <1>1, <1>3, <1>4, <1>5, <1>8, <1>9 DEF Walk, Judged

LEMMA WalkStep ==
  ASSUME DetectInv, DetectInv', Walk, Judged, [ValidateNext]_lvars
  PROVE  Walk' /\ Judged'
  <1>1. CASE \/ \E len \in Lens, t \in Offsets : WriteWhole(len, t)
             \/ \E len \in Lens, W \in SUBSET Offsets : WritePart(len, W)
    BY <1>1, WriteKeepsWalk
  <1>2. CASE OpenFile \/ Scanning
    <2>1. /\ pc # "done" /\ UNCHANGED <<log, torn, blank, at, walked, verdict>>
      BY <1>2 DEF OpenFile, Scanning, Open, Extend, StopExtending, Judge, ringVars, walkVars
    <2> QED
      BY <2>1 DEF Walk, Judged, LastOf, IsHeader, Accepted, InBuffer
  <1>3. CASE NextEntry
    BY <1>3, NextKeepsWalk
  <1>4. CASE Answer
    <2>1. /\ UNCHANGED <<log, pc, torn, blank, at, walked>> /\ pc = "done" /\ ~MoreEntries
          /\ verdict' = CASE Errs -> "error" [] ReplayRequired -> "replay" [] OTHER -> "clean"
      BY <1>4 DEF Answer, vars, ringVars
    <2>2. MoreEntries' = MoreEntries /\ Errs' = Errs /\ ReplayRequired' = ReplayRequired
      BY <2>1 DEF MoreEntries, Errs, ReplayRequired, IsHeader, Accepted, InBuffer, Damaged, Continuous
    <2>3. Judged'
      BY <2>1, <2>2 DEF Judged
    <2>4. verdict' \in {"none", "error", "replay", "clean"}
      BY <2>1
    <2>5. Walk'
      BY <2>1, <2>4 DEF Walk, LastOf, IsHeader, Accepted, InBuffer
    <2> QED
      BY <2>3, <2>5
  <1>5. CASE UNCHANGED lvars
    BY <1>5 DEF lvars, vars, writerVars, ringVars, walkVars, Walk, Judged, LastOf, MoreEntries, Errs,
                ReplayRequired, IsHeader, Accepted, InBuffer, Damaged, Continuous
  <1> QED
    BY <1>1, <1>2, <1>3, <1>4, <1>5 DEF ValidateNext
LEMMA WalkInit == ValidateInit => Walk /\ Judged
  <1> SUFFICES ASSUME ValidateInit PROVE Walk /\ Judged
    OBVIOUS
  <1>1. /\ at = 0 /\ walked = <<>> /\ verdict = "none" /\ torn = {} /\ blank = TRUE
        /\ \A o \in Offsets : ~Held(log, o)
    BY DEF ValidateInit, Init, Held
  <1>2. /\ 0 \in 0 .. Size /\ <<>> \in Seq(Offsets)
        /\ \A k \in 1 .. Len(walked) : FALSE
        /\ \A k \in 2 .. Len(walked) : FALSE
    BY <1>1, LogConstants
  <1> QED
    BY <1>1, <1>2 DEF Walk, Judged

LEMMA WalkInvariance == ValidateSpec => [](DetectInv /\ Walk /\ Judged)
  <1>1. ValidateInit => Walk /\ Judged
    BY WalkInit
  <1>2. DetectInv /\ DetectInv' /\ Walk /\ Judged /\ [ValidateNext]_lvars => Walk' /\ Judged'
    BY WalkStep
  <1> QED
    BY <1>1, <1>2, ValidateImplementsDetect, DetectInvariance, PTL DEF ValidateSpec

(***************************************************************************)
(* A log that validate_log accepts without an error or an issue holds no   *)
(* entry that an open would replay.                                        *)
(***************************************************************************)
THEOREM AcceptedLogsAreEmpty == ValidateSpec => []AcceptedHasNoLog
  <1>1. DetectInv /\ Walk /\ Judged => AcceptedHasNoLog
    <2> SUFFICES ASSUME DetectInv, Walk, Judged, verdict = "clean" PROVE cand = <<>>
      BY DEF AcceptedHasNoLog
    <2>1. ~Errs /\ ~ReplayRequired
      BY DEF Judged
    <2>2. blank
      BY <2>1 DEF Errs, ReplayRequired
    <2>3. \A o \in Offsets : ~Accepted(o)
      BY <2>2 DEF Walk, DetectInv, Ring, Accepted
    <2> QED
      BY <2>3, LastOfChain DEF DetectInv, Scan, CandidateComplete
  <1> QED
    BY <1>1, WalkInvariance, PTL
-----------------------------------------------------------------------------
(* The scan begins with the entries that the validator walks over. *)

\* The run of consecutive entries from the start of the ring, as far as it goes.
EndOf(s) == LastOf(s) + log[LastOf(s)].len
FromStart(s) ==
  /\ s # <<>> /\ s[1] = 0 /\ Chain(s)
  /\ EndOf(s) < Size => ~(Accepted(EndOf(s)) /\ log[EndOf(s)].seq = log[LastOf(s)].seq + 1)

\* The scan's first pass takes that run; then it has it, or a newer one.
FirstPass(s) ==
  /\ pc \in {"extend", "judge"} /\ cand = <<>> /\ Len(cur) =< Len(s)
  /\ \A k \in 1 .. Len(cur) : cur[k] = s[k]
  /\ pc = "extend" /\ cur = <<>> => head = 0
  /\ pc = "judge" => Len(cur) = Len(s)
HasRun(s) == cand # <<>> /\ log[LastOf(cand)].seq >= log[LastOf(s)].seq
TakesRun ==
  pc # "write" =>
    \A s \in Seq(Offsets) : FromStart(s) /\ HoldsTail(s) => FirstPass(s) \/ HasRun(s)

\* A first pass goes on along the run, up to its end.
LEMMA PassExtends ==
  ASSUME DetectInv, NEW s \in Seq(Offsets), FromStart(s), FirstPass(s), pc = "extend"
  PROVE  /\ Len(cur) < Len(s) => head = s[Len(cur) + 1] /\ Continues(head)
         /\ Len(cur) = Len(s) => ~Continues(head)
  <1> DEFINE n == Len(cur)
  <1>0. n \in Nat /\ Len(s) \in Nat /\ n =< Len(s) /\ Len(s) > 0 /\ head \in Offsets
    BY DEF DetectInv, Scan, FirstPass, FromStart
  <1>1. ASSUME n > 0 PROVE cur # <<>> /\ LastOf(cur) = s[n] /\ head = s[n] + log[s[n]].len
    BY <1>0, <1>1 DEF FirstPass, LastOf, DetectInv, Scan
  <1>2. ASSUME n < Len(s) PROVE head = s[n + 1] /\ Continues(head)
    <2>1. n + 1 \in 1 .. Len(s) /\ Accepted(s[n + 1])
      BY <1>0, <1>2 DEF FromStart, Chain
    <2>2. CASE n = 0
      BY <2>1, <2>2 DEF FirstPass, FromStart, Continues, DetectInv, Scan
    <2>3. CASE n > 0
      <3>1. s[n + 1] = s[n] + log[s[n]].len /\ log[s[n + 1]].seq = log[s[n]].seq + 1
        <4>1. n + 1 > 1 /\ (n + 1) - 1 = n
          BY <1>0, <2>3
        <4> HIDE DEF n
        <4> QED
          BY <2>1, <4>1 DEF FromStart, Chain
      <3> QED
        BY <2>1, <2>3, <3>1, <1>1 DEF Continues
    <2> QED
      BY <2>2, <2>3, <1>0
  <1>3. ASSUME n = Len(s) PROVE ~Continues(head)
    <2>1. LastOf(cur) = LastOf(s) /\ head = EndOf(s) /\ cur # <<>>
      BY <1>0, <1>1, <1>3 DEF LastOf, EndOf
    <2>2. head < Size
      BY <1>0, LogConstants DEF Offsets
    <2> QED
      BY <2>1, <2>2 DEF FromStart, Continues
  <1> QED
    BY <1>2, <1>3

LEMMA RunKept ==
  ASSUME DetectInv, NEW s \in Seq(Offsets), FromStart(s), HoldsTail(s),
         FirstPass(s) \/ HasRun(s), Extend \/ StopExtending \/ Judge
  PROVE  (FirstPass(s) \/ HasRun(s))'
  <1> DEFINE n == Len(cur)
  <1>0. n \in Nat /\ Len(s) \in Nat /\ head \in Offsets /\ cur \in Seq(Offsets)
    BY DEF DetectInv, Scan
  <1>1. CASE FirstPass(s) /\ Extend
    <2>1. /\ pc = "extend" /\ Continues(head) /\ cur' = Append(cur, head)
          /\ head' = (head + log[head].len) % Size /\ cand' = cand
          /\ pc' = IF head' = 0 THEN "judge" ELSE "extend"
      BY <1>1 DEF Extend
    <2>2. n < Len(s) /\ head = s[n + 1]
      BY <1>0, <1>1, <2>1, PassExtends DEF FirstPass
    <2>3. /\ Len(cur') = n + 1 /\ cur' # <<>> /\ cur'[n + 1] = head
          /\ \A k \in 1 .. n : cur'[k] = cur[k]
      BY <1>0, <2>1
    <2>4. \A k \in 1 .. Len(cur') : cur'[k] = s[k]
      BY <1>0, <1>1, <2>2, <2>3 DEF FirstPass
    <2>5. ASSUME head' = 0, n + 1 < Len(s) PROVE FALSE
      <3>1. head + log[head].len =< Size /\ log[head].len \in 1 .. Size /\ head \in Nat /\ Size \in Nat
        BY <1>0, <2>1, LogConstants DEF Continues, Accepted, InBuffer, DetectInv, Ring, Offsets
      <3>2. head + log[head].len = Size
        <4> DEFINE m == head + log[head].len
        <4>0. m % Size = 0
          BY <2>1, <2>5
        <4>1. m \in 1 .. Size /\ m % Size = 0
          BY <3>1, <4>0
        <4> HIDE DEF m
        <4>2. m # Size => m % Size = m
          <5>1. m # Size => m \in 0 .. Size - 1
            BY <4>1, <3>1
          <5> QED
            BY <5>1, Around
        <4>3. m = Size
          BY <4>1, <4>2, <3>1
        <4> QED
          BY <4>3 DEF m
      <3>3. n + 2 \in 1 .. Len(s) /\ n + 2 > 1 /\ (n + 2) - 1 = n + 1
        BY <1>0, <2>5
      <3> HIDE DEF n
      <3>4. s[n + 2] = s[n + 1] + log[s[n + 1]].len /\ s[n + 2] \in Offsets
        BY <3>3 DEF FromStart, Chain
      <3> QED
        BY <3>2, <3>4, <2>2, LogConstants DEF Offsets
    <2>6. cand' = <<>> /\ Len(cur') =< Len(s) /\ (pc' = "judge" => Len(cur') = Len(s))
      BY <1>0, <1>1, <2>1, <2>2, <2>3, <2>5 DEF FirstPass
    <2>7. pc' \in {"extend", "judge"}
      BY <2>1
    <2> QED
      BY <2>3, <2>4, <2>6, <2>7 DEF FirstPass
  <1>2. CASE FirstPass(s) /\ StopExtending
    <2>1. /\ pc = "extend" /\ ~Continues(head) /\ pc' = "judge" /\ cur' = cur /\ cand' = cand
      BY <1>2 DEF StopExtending
    <2>2. n = Len(s)
      BY <1>0, <1>2, <2>1, PassExtends DEF FirstPass
    <2> QED
      BY <1>2, <2>1, <2>2 DEF FirstPass
  <1>3. CASE FirstPass(s) /\ Judge
    <2>1. /\ pc = "judge" /\ cand' = (IF IsValid /\ IsNewer THEN cur ELSE cand) /\ log' = log
      BY <1>3 DEF Judge
    <2>2. Len(cur) = Len(s) /\ cand = <<>> /\ \A k \in 1 .. Len(s) : cur[k] = s[k]
      BY <1>3, <2>1 DEF FirstPass
    <2>3. cur = s
      BY <1>0, <2>2
    <2>4. IsValid /\ IsNewer
      BY <2>2, <2>3 DEF IsValid, IsNewer, FromStart
    <2>5. cand' = s /\ s # <<>> /\ LastOf(s) \in Offsets
      BY <2>1, <2>3, <2>4, LastOfChain DEF FromStart
    <2>6. log[LastOf(s)].seq \in Nat
      BY <2>5 DEF DetectInv, Scan
    <2> QED
      BY <2>1, <2>5, <2>6 DEF HasRun, LastOf
  <1>4. CASE HasRun(s) /\ (Extend \/ StopExtending)
    BY <1>4 DEF HasRun, Extend, StopExtending, LastOf
  <1>5. CASE HasRun(s) /\ Judge
    <2>1. /\ cand' = (IF IsValid /\ IsNewer THEN cur ELSE cand) /\ log' = log
      BY <1>5 DEF Judge
    <2>2. CASE IsValid /\ IsNewer
      <3> DEFINE x == LastOf(cur)
                 y == LastOf(cand)
                 z == LastOf(s)
      <3>1. cur # <<>> /\ log[x].seq > log[y].seq /\ log[y].seq >= log[z].seq
        BY <2>2, <1>5 DEF IsValid, IsNewer, HasRun
      <3>2. x \in Offsets /\ y \in Offsets /\ z \in Offsets
        BY <3>1, <1>5, LastOfChain DEF DetectInv, Scan, CandidateComplete, FromStart, HasRun
      <3>3. cand' = cur
        BY <2>1, <2>2
      <3> HIDE DEF x, y, z
      <3>4. log[x].seq \in Nat /\ log[y].seq \in Nat /\ log[z].seq \in Nat
        BY <3>2 DEF DetectInv, Scan
      <3>5. log[x].seq >= log[z].seq
        BY <3>1, <3>4
      <3> QED
        BY <3>1, <3>3, <3>5, <2>1 DEF HasRun, x, z, LastOf
    <2>3. CASE ~(IsValid /\ IsNewer)
      BY <2>1, <2>3, <1>5 DEF HasRun, LastOf
    <2> QED
      BY <2>2, <2>3
  <1> QED
    BY <1>1, <1>2, <1>3, <1>4, <1>5

LEMMA TakesRunStep ==
  ASSUME DetectInv, TakesRun, [Next]_vars
  PROVE  TakesRun'
  <1>1. ASSUME NEW len \in Lens, NEW t \in Offsets, WriteEntry(len, t) PROVE TakesRun'
    BY <1>1 DEF WriteEntry, MayWrite, TakesRun
  <1>2. CASE Open \/ \E len \in Lens, W \in SUBSET Offsets : WriteHalf(len, W)
    <2>1. /\ pc' = "extend" /\ head' = 0 /\ cur' = <<>> /\ cand' = <<>>
      BY <1>2 DEF Open, WriteHalf, MayWrite, DetectInv, Comes, Scan
    <2> QED
      BY <2>1 DEF TakesRun, FirstPass
  <1>3. CASE Extend \/ StopExtending \/ Judge
    <2>1. pc # "write" /\ log' = log
      BY <1>3 DEF Extend, StopExtending, Judge
    <2>2. ASSUME NEW s \in Seq(Offsets), FromStart(s)', HoldsTail(s)' PROVE (FirstPass(s) \/ HasRun(s))'
      <3>1. FromStart(s) /\ HoldsTail(s)
        BY <2>1, <2>2 DEF FromStart, HoldsTail, EndOf, LastOf, Chain, Accepted, InBuffer
      <3>2. FirstPass(s) \/ HasRun(s)
        BY <3>1, <2>1 DEF TakesRun
      <3> QED
        BY <3>1, <3>2, <1>3, RunKept
    <2> QED
      BY <2>2 DEF TakesRun
  <1>4. CASE UNCHANGED vars
    BY <1>4 DEF vars, writerVars, TakesRun, FromStart, FirstPass, HasRun, HoldsTail, EndOf, LastOf, Chain,
                Accepted, InBuffer
  <1> QED
    BY <1>1, <1>2, <1>3, <1>4 DEF Next

(***************************************************************************)
(* When validate_log asks for a replay of the entries it walked over, and  *)
(* they are complete, an open replays them or newer ones.                  *)
(***************************************************************************)
THEOREM ValidatorAndScanAgree == ValidateSpec => []ValidatorAgrees
  <1>1. Spec => []TakesRun
    <2>1. Init => TakesRun
      BY DEF Init, TakesRun
    <2>2. DetectInv /\ TakesRun /\ [Next]_vars => TakesRun'
      BY TakesRunStep
    <2> QED
      BY <2>1, <2>2, DetectInvariance, PTL DEF Spec
  <1>2. DetectInv /\ Walk /\ Judged /\ TakesRun => ValidatorAgrees
    <2> SUFFICES ASSUME DetectInv, Walk, Judged, TakesRun, verdict = "replay", HoldsTail(walked)
                 PROVE  cand # <<>> /\ log[LastOf(cand)].seq >= log[LastOf(walked)].seq
      BY DEF ValidatorAgrees
    <2>1. ReplayRequired /\ ~MoreEntries /\ pc = "done" /\ walked \in Seq(Offsets)
      BY DEF Judged, Walk
    <2>2. walked # <<>> /\ ~blank /\ ~Damaged(walked) /\ Continuous(walked)
      BY <2>1 DEF ReplayRequired, Errs
    <2>3. \A k \in 1 .. Len(walked) : walked[k] \notin torn /\ Accepted(walked[k])
      BY <2>2 DEF Damaged, Walk, IsHeader
    <2>4. Chain(walked)
      <3>1. ASSUME NEW k \in 1 .. Len(walked), k > 1
            PROVE  /\ walked[k] = walked[k - 1] + log[walked[k - 1]].len
                   /\ log[walked[k]].seq = log[walked[k - 1]].seq + 1
        <4>1. k \in 2 .. Len(walked)
          BY <3>1, <2>1
        <4> QED
          BY <4>1, <2>2 DEF Walk, Continuous
      <3> QED
        BY <2>3, <3>1 DEF Chain
    <2>5. LastOf(walked) \notin torn
      BY <2>1, <2>2, <2>3 DEF LastOf
    <2>6. at = EndOf(walked)
      BY <2>2, <2>5 DEF Walk, EndOf
    <2>7. FromStart(walked)
      BY <2>1, <2>2, <2>4, <2>6 DEF FromStart, MoreEntries, IsHeader, Walk
    <2> QED
      BY <2>1, <2>7 DEF TakesRun, FirstPass, HasRun
  <1> QED
    BY <1>1, <1>2, ValidateImplementsDetect, WalkInvariance, PTL
-----------------------------------------------------------------------------
(* A log whose first entry still stands at its start. *)

\* What the writer appended lies in one row, the newest entry last.
FirstLap ==
  log[0].seq = 1 =>
    /\ \A o \in Offsets : Held(log, o) => InBuffer(o)
    /\ \A o \in Offsets : Held(log, o) /\ o + log[o].len < Size /\ Held(log, o + log[o].len) =>
         log[o + log[o].len].seq = log[o].seq + 1
    /\ pc = "write" => newest # -1 /\ \A o \in Offsets : Held(log, o) => o =< newest

LEMMA WriteKeepsLap ==
  ASSUME DetectInv, DetectInv', FirstLap, NEW len \in Lens, NEW t \in Offsets, WriteEntry(len, t),
         log'[0].seq = 1
  PROVE  FirstLap'
  <1> DEFINE e == [seq |-> NextSeq, len |-> len, tail |-> t]
  <1>0. /\ Size \in Nat \ {0} /\ Offsets \subseteq Nat /\ len \in 1 .. Size /\ end \in Offsets
        /\ 0 \in Offsets /\ pc = "write" /\ newest' = end /\ pc' = pc
        /\ \A o \in Offsets : log[o].seq \in Nat /\ log[o].len \in 1 .. Size
    <2>1. /\ Size \in Nat \ {0} /\ Offsets \subseteq Nat /\ 0 \in Offsets /\ len \in Nat \ {0}
      BY LogConstants DEF Offsets
    <2>2. len =< Size /\ pc = "write" /\ newest' = end /\ pc' = pc
      BY DEF WriteEntry, MayWrite
    <2>3. end \in Offsets /\ \A o \in Offsets : log[o].seq \in Nat /\ log[o].len \in 1 .. Size
      BY DEF DetectInv, Scan, Ring
    <2> QED
      BY <2>1, <2>2, <2>3
  <1>1. /\ log' = [Spared(Steps(end, len)) EXCEPT ![end] = e]
    BY DEF WriteEntry
  <1>2. /\ log'[end] = e
        /\ \A o \in Offsets : o # end /\ Held(log', o) =>
             Held(log, o) /\ log'[o] = log[o] /\ StepsOf(log, o) \cap Steps(end, len) = {}
    BY <1>0, <1>1 DEF Spared, Held, StepsOf
  <1>3. CASE end = 0
    <2>1. NextSeq = 1 /\ newest = -1
      <3>1. NextSeq = 1
        BY <1>2, <1>3
      <3>2. newest # -1 => newest \in Offsets /\ log[newest].seq > 0 /\ log[newest].seq \in Nat
        BY <1>0 DEF DetectInv, Ring
      <3>3. newest # -1 => NextSeq > 1
        BY <3>2 DEF NextSeq
      <3> QED
        BY <3>1, <3>3
    <2>2. \A o \in Offsets : Held(log', o) => o = end
      BY <1>2, <2>1 DEF DetectInv, Ring
    <2>3. log'[end].len = len /\ end + len =< Size /\ len > 0
      BY <1>0, <1>2, <1>3
    <2>4. \A o \in Offsets : Held(log', o) => o + log'[o].len =< Size
      BY <2>2, <2>3
    <2>5. ASSUME NEW o \in Offsets, Held(log', o), o + log'[o].len < Size,
                 Held(log', o + log'[o].len)
          PROVE  FALSE
      <3>1. o = 0 /\ log'[o].len = len /\ len \in Offsets
        BY <2>2, <2>3, <2>5, <1>0, <1>3 DEF Offsets
      <3> QED
        BY <2>2, <2>5, <3>1, <1>0, <1>3
    <2>6. newest' # -1 /\ \A o \in Offsets : Held(log', o) => o =< newest'
      BY <2>2, <1>0
    <2> QED
      BY <2>4, <2>5, <2>6 DEF FirstLap, InBuffer
  <1>4. CASE end # 0
    <2>1. /\ log[0].seq = 1 /\ log'[0] = log[0] /\ Held(log, 0)
          /\ StepsOf(log, 0) \cap Steps(end, len) = {}
      <3>1. Held(log', 0)
        BY <1>0 DEF DetectInv, Ring
      <3> QED
        BY <3>1, <1>0, <1>2, <1>4
    <2>2. /\ newest # -1 /\ newest \in Offsets /\ Held(log, newest)
          /\ \A o \in Offsets : Held(log, o) => o + log[o].len =< Size /\ o =< newest
          /\ end = (newest + log[newest].len) % Size
      BY <2>1, <1>0 DEF FirstLap, InBuffer, DetectInv, Ring, After
    <2>3. end = newest + log[newest].len /\ newest < end
      <3>1. newest + log[newest].len \in 1 .. Size
        BY <2>2, <1>0
      <3>2. newest + log[newest].len # Size
        BY <2>2, <1>0, <1>4, Around
      <3>3. newest + log[newest].len \in 0 .. Size - 1
        BY <3>1, <3>2, <1>0
      <3> QED
        BY <3>3, <2>2, <1>0, Around
    <2>4. end + len =< Size
      <3> SUFFICES ASSUME end + len > Size PROVE FALSE
        BY <1>0
      <3>1. Size - end \in 0 .. len - 1 /\ end + (Size - end) = Size /\ Size % Size = 0
        BY <1>0, Around DEF Offsets
      <3>2. 0 \in Steps(end, len)
        BY <3>1 DEF Steps
      <3>3. 0 \in StepsOf(log, 0)
        BY <1>0, TakesSteps DEF StepsOf
      <3> QED
        BY <3>2, <3>3, <2>1
    <2>5. ASSUME NEW o \in Offsets, Held(log', o)
          PROVE  o + log'[o].len =< Size /\ o =< end
      <3>1. CASE o = end
        BY <3>1, <2>4, <1>0, <1>2
      <3>2. CASE o # end
        <4>1. Held(log, o) /\ log'[o] = log[o] /\ o =< newest
          BY <3>2, <2>2, <2>5, <1>2
        <4>2. o =< end
          BY <4>1, <2>2, <2>3, <1>0
        <4> QED
          BY <4>1, <4>2, <2>2
      <3> QED
        BY <3>1, <3>2
    <2>6. ASSUME NEW o \in Offsets, Held(log', o), o + log'[o].len < Size,
                 Held(log', o + log'[o].len)
          PROVE  log'[o + log'[o].len].seq = log'[o].seq + 1
      <3> DEFINE p == o + log'[o].len
      <3>1. log'[o].len \in 1 .. Size
        BY DEF DetectInv, Ring
      <3>2. p \in Offsets /\ o < p /\ p =< end
        BY <3>1, <2>5, <2>6, <1>0 DEF Offsets
      <3>3. o # end /\ Held(log, o) /\ log'[o] = log[o] /\ p = o + log[o].len
        BY <3>2, <2>6, <1>0, <1>2
      <3>4. CASE p = end
        <4>1. o = newest
          <5>1. o =< newest
            BY <2>2, <3>3
          <5>2. o < newest => p =< newest
            BY <3>3, <2>2, EndsBelow DEF DetectInv
          <5>3. ~(end =< newest)
            BY <2>2, <2>3, LogConstants DEF Offsets
          <5>4. ~(o < newest)
            BY <5>2, <5>3, <3>4
          <5> QED
            BY <5>1, <5>4, <2>2, LogConstants DEF Offsets
        <4>2. log'[end].seq = log[newest].seq + 1
          BY <1>2, <2>2 DEF NextSeq
        <4> QED
          BY <4>1, <4>2, <3>3, <3>4
      <3>5. CASE p # end
        <4>1. Held(log, p) /\ log'[p] = log[p] /\ p < Size
          BY <3>2, <3>5, <2>6, <1>2
        <4> HIDE DEF p
        <4>2. log[p].seq = log[o].seq + 1
          BY <4>1, <3>3, <2>1 DEF FirstLap
        <4> QED
          BY <4>1, <4>2, <3>3 DEF p
      <3> QED
        BY <3>4, <3>5
    <2>7. newest' # -1 /\ \A o \in Offsets : Held(log', o) => o =< newest'
      <3>1. newest' = end /\ end \in Nat
        BY <1>0
      <3>2. end # -1
        BY <3>1
      <3> QED
        BY <2>5, <3>1, <3>2
    <2> QED
      BY <2>5, <2>6, <2>7 DEF FirstLap, InBuffer
  <1> QED
    BY <1>3, <1>4

LEMMA HalfKeepsLap ==
  ASSUME DetectInv, FirstLap, NEW len \in Lens, NEW W \in SUBSET Offsets, WriteHalf(len, W)
  PROVE  FirstLap'
  <1>0. 0 \in Offsets /\ Size \in Nat \ {0} /\ \A o \in Offsets : o \in Nat /\ log[o].len \in 1 .. Size
    BY LogConstants DEF Offsets, DetectInv, Ring
  <1>1. \A o \in Offsets : log'[o] = log[o] \/ log'[o] = NoEntry
    BY DEF WriteHalf, Spared
  <1>2. \A o \in Offsets : Held(log', o) => Held(log, o) /\ log'[o] = log[o]
    BY <1>1 DEF Held
  <1>3. pc' = "extend"
    BY DEF WriteHalf
  <1>4. ASSUME log'[0].seq = 1 PROVE log[0].seq = 1
    <2>1. NoEntry.seq = 0
      BY DEF NoEntry
    <2> QED
      BY <2>1, <1>0, <1>1, <1>4
  <1>5. ASSUME log'[0].seq = 1, NEW o \in Offsets, Held(log', o)
        PROVE  o + log'[o].len =< Size
    BY <1>2, <1>4, <1>5 DEF FirstLap, InBuffer
  <1>6. ASSUME log'[0].seq = 1, NEW o \in Offsets, Held(log', o), o + log'[o].len < Size,
               Held(log', o + log'[o].len)
        PROVE  log'[o + log'[o].len].seq = log'[o].seq + 1
    <2> DEFINE p == o + log[o].len
    <2>1. log'[o] = log[o] /\ Held(log, o) /\ log[0].seq = 1
      BY <1>2, <1>4, <1>6
    <2>2. p \in Offsets /\ p < Size
      BY <2>1, <1>0, <1>6 DEF Offsets
    <2>3. Held(log', p)
      BY <2>1, <1>6
    <2> HIDE DEF p
    <2>4. Held(log, p) /\ log'[p] = log[p]
      BY <2>2, <2>3, <1>2
    <2> QED
      BY <2>1, <2>2, <2>4 DEF FirstLap, p
  <1> QED
    BY <1>3, <1>5, <1>6 DEF FirstLap, InBuffer

LEMMA LapStep ==
  ASSUME DetectInv, DetectInv', FirstLap, [Next]_vars
  PROVE  FirstLap'
  <1>1. ASSUME NEW len \in Lens, NEW t \in Offsets, WriteEntry(len, t) PROVE FirstLap'
    <2>1. log'[0].seq = 1 => FirstLap'
      BY <1>1, WriteKeepsLap
    <2> QED
      BY <2>1 DEF FirstLap
  <1>2. ASSUME NEW len \in Lens, NEW W \in SUBSET Offsets, WriteHalf(len, W) PROVE FirstLap'
    BY <1>2, HalfKeepsLap
  <1>3. CASE Open \/ Extend \/ StopExtending \/ Judge \/ UNCHANGED vars
    <2>1. log' = log /\ newest' = newest /\ (pc' = "write" => pc = "write")
      BY <1>3 DEF Open, Extend, StopExtending, Judge, vars, writerVars
    <2> QED
      BY <2>1 DEF FirstLap, InBuffer
  <1> QED
    BY <1>1, <1>2, <1>3 DEF Next

(***************************************************************************)
(* validate_log finds no fault with a log whose first entry stands at its  *)
(* start, unless an append left a damaged entry behind.                    *)
(***************************************************************************)
THEOREM FirstLapIsAccepted == ValidateSpec => []FirstLapAccepted
  <1>1. Spec => []FirstLap
    <2>1. Init => FirstLap
      <3>1. 0 \in Offsets /\ NoEntry.seq = 0
        BY LogConstants DEF Offsets, NoEntry
      <3> QED
        BY <3>1 DEF Init, FirstLap
    <2>2. DetectInv /\ DetectInv' /\ FirstLap /\ [Next]_vars => FirstLap'
      BY LapStep
    <2> QED
      BY <2>1, <2>2, DetectInvariance, PTL DEF Spec
  <1>2. DetectInv /\ Walk /\ Judged /\ FirstLap => FirstLapAccepted
    <2> SUFFICES ASSUME DetectInv, Walk, Judged, FirstLap, log[0].seq = 1, torn = {},
                        verdict = "error"
                 PROVE  FALSE
      BY DEF FirstLapAccepted
    <2>0. 0 \in Offsets /\ Size \in Nat \ {0}
      BY LogConstants DEF Offsets
    <2>1. Errs /\ ~MoreEntries
      BY DEF Judged
    <2>2. Held(log, 0) /\ Accepted(0)
      BY <2>0 DEF DetectInv, Ring, FirstLap, Accepted
    <2>3. walked # <<>>
      BY <2>0, <2>1, <2>2 DEF MoreEntries, IsHeader, Errs, Walk
    <2>4. ASSUME NEW k \in 2 .. Len(walked) PROVE log[walked[k]].seq = log[walked[k - 1]].seq + 1
      <3> DEFINE o == walked[k - 1]
                 p == walked[k]
      <3>1. k \in 1 .. Len(walked) /\ k - 1 \in 1 .. Len(walked) /\ Len(walked) \in Nat
        BY <2>4 DEF Walk
      <3>2. o \in Offsets /\ p \in Offsets /\ Accepted(o) /\ Accepted(p)
        BY <3>1 DEF Walk, IsHeader
      <3>3. p = o + log[o].len
        BY <2>4 DEF Walk
      <3> HIDE DEF o, p
      <3>4. Held(log, o) /\ Held(log, p) /\ p < Size
        BY <3>2, <2>0 DEF Accepted, DetectInv, Ring, Offsets
      <3>5. log[p].seq = log[o].seq + 1
        BY <3>2, <3>3, <3>4 DEF FirstLap
      <3> QED
        BY <3>5 DEF o, p
    <2>5. ~Damaged(walked) /\ Continuous(walked)
      BY <2>4 DEF Damaged, Continuous
    <2> QED
      BY <2>1, <2>3, <2>5 DEF Errs
  <1> QED
    BY <1>1, <1>2, ValidateImplementsDetect, WalkInvariance, PTL
=============================================================================
