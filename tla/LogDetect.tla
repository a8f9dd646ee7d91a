------------------------------ MODULE LogDetect ------------------------------
(***************************************************************************)
(* Finding the active sequence of the log when a file is opened:           *)
(* detect_active_sequence (src/src/log_replay/core.rs) over the ring a     *)
(* writer left behind.  The crate itself never writes log entries; the     *)
(* writer here is another implementation, which appends entries to the     *)
(* ring, records the oldest entry still needed in each of them, never      *)
(* overwrites that one or a later one, and may stop at any time, in the    *)
(* middle of an entry too.  Offsets count the 4 KB steps of the log.       *)
(***************************************************************************)
EXTENDS Integers, Sequences

CONSTANTS Size,     \* length of the log
          Lens,     \* lengths of entries
          MaxSeq    \* bound: the writer's last sequence number

ASSUME LogConstants ==
  /\ Size \in Nat \ {0}
  /\ Lens \subseteq Nat \ {0}
  /\ MaxSeq \in Nat

Offsets == 0 .. Size - 1
Entry   == [seq : Nat \ {0}, len : Lens, tail : Offsets]
NoEntry == [seq |-> 0, len |-> 1, tail |-> 0]

VARIABLES
  log,      \* log[o]: the entry that starts at o, or NoEntry
  end,      \* where the writer appends
  newest,   \* the writer's last complete entry, or -1
  pc,       \* who runs: "write", "extend", "judge", "done"
  tail,     \* current_tail
  old,      \* old_tail
  head,     \* where the current sequence may be extended
  cur,      \* current_entries: offsets
  cand      \* candidate_entries: offsets

writerVars == <<end, newest>>
vars == <<log, writerVars, pc, tail, old, head, cur, cand>>

Init ==
  /\ log = [o \in Offsets |-> NoEntry]
  /\ end \in Offsets
  /\ newest = -1
  /\ pc = "write"
  /\ tail = 0 /\ old = 0 /\ head = 0
  /\ cur = <<>> /\ cand = <<>>
-----------------------------------------------------------------------------
(* The writer. *)

Steps(o, n) == {(o + k) % Size : k \in 0 .. n - 1}

\* Entries that an append over S leaves untouched.
Spared(S) == [o \in Offsets |->
                IF log[o] # NoEntry /\ Steps(o, log[o].len) \cap S # {} THEN NoEntry ELSE log[o]]

\* The entries from the oldest one that newest says is needed.
Needed == IF newest = -1 THEN {}
          ELSE {o \in Offsets : log[o] # NoEntry /\ log[o].seq >= log[log[newest].tail].seq}
NeededSteps == UNION {Steps(o, log[o].len) : o \in Needed}

NextSeq == IF newest = -1 THEN 1 ELSE log[newest].seq + 1

MayWrite(len) ==
  /\ pc = "write" /\ NextSeq =< MaxSeq
  /\ len =< Size /\ Steps(end, len) \cap NeededSteps = {}

WriteEntry(len, t) ==
  /\ MayWrite(len)
  /\ t \in Needed \cup {end}
  /\ log' = [Spared(Steps(end, len)) EXCEPT ![end] = [seq |-> NextSeq, len |-> len, tail |-> t]]
  /\ newest' = end
  /\ end' = (end + len) % Size
  /\ UNCHANGED <<pc, tail, old, head, cur, cand>>

\* The writer dies in an append: some steps of the entry are overwritten, or all
\* but without its end.  The crate opens the file.
WriteHalf(len, W) ==
  /\ MayWrite(len) /\ W # {} /\ W \subseteq Steps(end, len)
  /\ log' = Spared(W)
  /\ pc' = "extend"
  /\ UNCHANGED <<writerVars, tail, old, head, cur, cand>>

\* The writer is gone, the crate opens the file.
Open ==
  /\ pc = "write"
  /\ pc' = "extend"
  /\ UNCHANGED <<log, writerVars, tail, old, head, cur, cand>>
-----------------------------------------------------------------------------
(* detect_active_sequence. *)

LastOf(s) == s[Len(s)]

\* parse_entry_at: the entry lies within the buffer.
InBuffer(o) == o + log[o].len =< Size

\* try_validate_entry: there is an entry, it is whole and has the log's GUID.
Accepted(o) == log[o].seq > 0 /\ InBuffer(o)

Continues(o) ==
  Accepted(o) /\ (cur # <<>> => log[o].seq = log[LastOf(cur)].seq + 1)

\* Mutant: the sequence number of a next entry is not looked at.
ExtendAny ==
  /\ pc = "extend"
  /\ Accepted(head) /\ Len(cur) < Size
  /\ cur' = Append(cur, head)
  /\ head' = (head + log[head].len) % Size
  /\ pc' = IF head' = 0 THEN "judge" ELSE "extend"
  /\ UNCHANGED <<log, writerVars, tail, old, cand>>

\* Step 3: one more entry, and a stop at the end of the buffer.
Extend ==
  /\ pc = "extend"
  /\ Continues(head)
  /\ cur' = Append(cur, head)
  /\ head' = (head + log[head].len) % Size
  /\ pc' = IF head' = 0 THEN "judge" ELSE "extend"
  /\ UNCHANGED <<log, writerVars, tail, old, cand>>

StopExtending ==
  /\ pc = "extend"
  /\ ~Continues(head)
  /\ pc' = "judge"
  /\ UNCHANGED <<log, writerVars, tail, old, head, cur, cand>>

HoldsTail(s) == \E k \in 1 .. Len(s) : s[k] = log[LastOf(s)].tail

\* Step 4.
IsValid == cur # <<>> /\ HoldsTail(cur)

\* Mutant: the last valid sequence is kept.
IsNewerAlways == TRUE

\* Step 5.
IsNewer == cand = <<>> \/ log[LastOf(cur)].seq > log[LastOf(cand)].seq

\* Mutant: the tail runs past the end of the log buffer.
NextTailUnwrapped == IF IsValid THEN LastOf(cur) + log[LastOf(cur)].len
                     ELSE (tail + 1) % Size

\* Step 6.
NextTail == IF IsValid THEN (LastOf(cur) + log[LastOf(cur)].len) % Size
            ELSE (tail + 1) % Size

\* Mutant: the scan ends only when the tail has moved back.
JudgeStrictly ==
  /\ pc = "judge"
  /\ cand' = IF IsValid /\ IsNewer THEN cur ELSE cand
  /\ tail' = NextTail
  /\ IF NextTail < old
     THEN pc' = "done" /\ UNCHANGED <<old, head, cur>>
     ELSE pc' = "extend" /\ old' = NextTail /\ head' = NextTail /\ cur' = <<>>
  /\ UNCHANGED <<log, writerVars>>

\* Steps 4 to 7.
Judge ==
  /\ pc = "judge"
  /\ cand' = IF IsValid /\ IsNewer THEN cur ELSE cand
  /\ tail' = NextTail
  /\ IF NextTail =< old
     THEN pc' = "done" /\ UNCHANGED <<old, head, cur>>
     ELSE pc' = "extend" /\ old' = NextTail /\ head' = NextTail /\ cur' = <<>>
  /\ UNCHANGED <<log, writerVars>>

Next ==
  \/ \E len \in Lens, t \in Offsets : WriteEntry(len, t)
  \/ \E len \in Lens, W \in SUBSET Offsets : WriteHalf(len, W)
  \/ Open
  \/ Extend \/ StopExtending \/ Judge

Spec == Init /\ [][Next]_vars
\* The detection is one loop of one call: it runs until it returns.
FairSpec == Spec /\ WF_vars(Extend \/ StopExtending \/ Judge)
-----------------------------------------------------------------------------
TypeOK ==
  /\ log \in [Offsets -> Entry \cup {NoEntry}]
  /\ end \in Offsets
  /\ newest \in Offsets \cup {-1}
  /\ pc \in {"write", "extend", "judge", "done"}
  /\ tail \in Offsets /\ old \in Offsets /\ head \in Offsets
  /\ cur \in Seq(Offsets) /\ cand \in Seq(Offsets)

\* A run of entries, each right after the one before it and one newer.
Chain(s) ==
  \A k \in 1 .. Len(s) :
    /\ Accepted(s[k])
    /\ k > 1 => /\ s[k] = s[k - 1] + log[s[k - 1]].len
                /\ log[s[k]].seq = log[s[k - 1]].seq + 1

(***************************************************************************)
(* What is replayed is safe to replay: consecutive complete entries, in    *)
(* the order they were written, none missing between the oldest one that   *)
(* the newest of them needs and that newest one.                           *)
(***************************************************************************)
CandidateComplete == Chain(cand) /\ (cand # <<>> => HoldsTail(cand))

\* The needed entries and the newest one do not run over the end of the ring.
InOnePiece ==
  LET t == log[newest].tail IN t =< newest /\ newest + log[newest].len =< Size

(***************************************************************************)
(* When the entries still needed stand in one piece, the scan ends with    *)
(* the newest complete entry of the log: an older sequence still in the    *)
(* ring or a half-written entry after it never hides it.                   *)
(***************************************************************************)
NewestFound ==
  pc = "done" /\ newest # -1 /\ InOnePiece => cand # <<>> /\ LastOf(cand) = newest

(***************************************************************************)
(* The same wherever the needed entries stand, as the documentation of a   *)
(* circular log says.                                                      *)
(***************************************************************************)
NewestFoundAnywhere ==
  pc = "done" /\ newest # -1 => cand # <<>> /\ LastOf(cand) = newest

(***************************************************************************)
(* The scan of the ring ends, whatever the ring holds.                     *)
(***************************************************************************)
ScanEnds == pc = "extend" ~> pc = "done"
=============================================================================
