----------------------------- MODULE LogValidate -----------------------------
(***************************************************************************)
(* What the validator says of a log (validate_log,                         *)
(* src/src/validation/log.rs) beside what the scan of LogDetect makes of   *)
(* it.  The validator walks the ring from its beginning, by the lengths of *)
(* the entries, and also comes upon entries that were overwritten in part: *)
(* their headers still stand.  The log GUID of the header is set, and is   *)
(* that of the entries.                                                    *)
(***************************************************************************)
EXTENDS LogDetect

VARIABLES
  torn,     \* offsets of headers in the buffer whose entry is damaged
  blank,    \* is the ring all zeros?
  at,       \* LogEntryIter: where it looks next
  walked,   \* the offsets of the entries it has found
  verdict   \* what validate_log returned: "none" yet, "error", "replay", "clean"

ringVars == <<torn, blank>>
walkVars == <<at, walked, verdict>>
lvars == <<vars, ringVars, walkVars>>

ValidateInit ==
  /\ Init
  /\ torn = {} /\ blank = TRUE
  /\ at = 0 /\ walked = <<>> /\ verdict = "none"

\* The headers an append over S leaves standing: theirs, but not their entries.
Beheaded(S) ==
  {o \in Offsets \ S : o \in torn
     \/ (log[o] # NoEntry /\ InBuffer(o) /\ Steps(o, log[o].len) \cap S # {})}

WriteWhole(len, t) ==
  /\ WriteEntry(len, t)
  /\ torn' = Beheaded(Steps(end, len)) /\ blank' = FALSE
  /\ UNCHANGED walkVars

\* The new entry's header may be what was written of it.
WritePart(len, W) ==
  /\ WriteHalf(len, W)
  /\ \/ torn' = Beheaded(W)
     \/ end \in W /\ end + len =< Size /\ torn' = Beheaded(W) \cup {end}
  /\ blank' = FALSE
  /\ UNCHANGED walkVars

OpenFile == Open /\ UNCHANGED <<ringVars, walkVars>>
Scanning ==
  /\ Extend \/ StopExtending \/ Judge
  /\ UNCHANGED <<ringVars, walkVars>>
-----------------------------------------------------------------------------
(* validate_log, asked of the opened medium. *)

\* parse_entry_at finds a header there, of an entry within the buffer.
IsHeader(o) == o \in torn \/ Accepted(o)
MoreEntries == ~blank /\ at < Size /\ IsHeader(at)

\* The entries are collected.  A damaged one is an error wherever the iterator
\* goes from there, so the model goes no further.
NextEntry ==
  /\ pc = "done" /\ verdict = "none"
  /\ MoreEntries
  /\ walked' = Append(walked, at)
  /\ at' = IF at \in torn THEN Size ELSE at + log[at].len
  /\ UNCHANGED <<vars, ringVars, verdict>>

\* Mutant: each entry is expected to have the sequence number before it.
ContinuousSame(s) == \A k \in 2 .. Len(s) : log[s[k]].seq = log[s[k - 1]].seq

\* validate_log_sequence_continuity
Continuous(s) == \A k \in 2 .. Len(s) : log[s[k]].seq = log[s[k - 1]].seq + 1

\* validate_log_entry_checksum
Damaged(s) == \E k \in 1 .. Len(s) : s[k] \in torn

\* Mutant: a log in which no entry is found is passed over.
ErrsInEntries == ~blank /\ (Damaged(walked) \/ ~Continuous(walked))

\* Does validate_log end in an error?
Errs == ~blank /\ (walked = <<>> \/ Damaged(walked) \/ ~Continuous(walked))

\* Its issue LOG_REPLAY_REQUIRED; its other one, of signatures between entries,
\* comes with this one or with an error.
ReplayRequired == ~blank /\ walked # <<>> /\ ~Errs

Answer ==
  /\ pc = "done" /\ verdict = "none"
  /\ ~MoreEntries
  /\ verdict' = CASE Errs -> "error" [] ReplayRequired -> "replay" [] OTHER -> "clean"
  /\ UNCHANGED <<vars, ringVars, at, walked>>

ValidateNext ==
  \/ \E len \in Lens, t \in Offsets : WriteWhole(len, t)
  \/ \E len \in Lens, W \in SUBSET Offsets : WritePart(len, W)
  \/ OpenFile \/ Scanning
  \/ NextEntry \/ Answer

ValidateSpec == ValidateInit /\ [][ValidateNext]_lvars /\ WF_lvars(Scanning)
-----------------------------------------------------------------------------
(***************************************************************************)
(* A log that the validator accepts without an error or an issue has       *)
(* nothing to replay: an open with the policy Require passes too, and the  *)
(* file's content is what it seems.                                        *)
(***************************************************************************)
AcceptedHasNoLog == verdict = "clean" => cand = <<>>

(***************************************************************************)
(* The validator's walk and the scan of an open agree: if the validator    *)
(* says that these entries must be replayed, and the oldest entry that the *)
(* last of them needs is among them, then the open replays them, or a      *)
(* newer sequence.                                                         *)
(***************************************************************************)
ValidatorAgrees ==
  verdict = "replay" /\ HoldsTail(walked) =>
    cand # <<>> /\ log[LastOf(cand)].seq >= log[LastOf(walked)].seq

(***************************************************************************)
(* The validator finds no fault with a log whose writer began at its start *)
(* and has not come round yet, unless an append was cut short in it.       *)
(* (It does with others: it walks from the start of the ring, where there  *)
(* may be no entry, or a newer one than behind it.)                        *)
(***************************************************************************)
FirstLapAccepted == log[0].seq = 1 /\ torn = {} => verdict # "error"
=============================================================================
