----------------------------- MODULE LogReplay -----------------------------
(***************************************************************************)
(* Opening a file with a pending log: what each replay policy does, the    *)
(* replay into the file of a writable open, the overlay of a read-only one *)
(* and reading through it (src/src/log_replay/core.rs, medium/open.rs,     *)
(* medium/core.rs, io/core.rs).  The file counts pages of 4 KB; the active *)
(* sequence is given as the descriptors of its entries in replay order     *)
(* (module LogDetect finds it).  One medium at a time has the file open.   *)
(***************************************************************************)
EXTENDS Integers, Sequences

CONSTANTS
  PageCount,  \* bound: pages of the file
  Logs,       \* the active sequences a file may hold: descs, flushed, last
  InitLens,   \* the lengths of the file
  Old,        \* the content of the pages before the log
  Zero,       \* the content of a page of zeros
  New,        \* the content of the pages written through the medium
  LogVals,    \* the contents in the log
  Stale,      \* what the caller's buffer held before a read
  MayCrash    \* can the power fail?

Pages  == 0 .. PageCount - 1
Values == LogVals \cup {Old, Zero, New}

\* A data descriptor covers one page, a zero descriptor n of them.
Desc == [at : Pages, n : 1 .. PageCount, val : LogVals \cup {Zero}]
ActiveSequence == [descs : Seq(Desc), flushed : 0 .. PageCount, last : 0 .. PageCount]

ASSUME ReplayConstants ==
  /\ PageCount \in Nat \ {0}
  /\ Logs \subseteq ActiveSequence
  /\ InitLens \subseteq 0 .. PageCount
  /\ {Old, Zero, New} \cap LogVals = {} /\ Zero # Old /\ New \notin {Old, Zero}
  /\ Stale \notin Values
  /\ MayCrash \in BOOLEAN

DescPages(d) == {p \in Pages : d.at =< p /\ p < d.at + d.n}

\* No page is zeroed after it was given data: the logs whose overlay is right.
DataLast(s) ==
  \A j, k \in DOMAIN s :
    j < k /\ s[j].val # Zero /\ s[k].val = Zero => DescPages(s[j]) \cap DescPages(s[k]) = {}

VARIABLES
  file, diskFile,   \* content of the pages: as read now, as a power loss may leave it
  len, diskLen,     \* length of the file, likewise
  pending,          \* is there a log to replay?
  log,              \* the active sequence, if so
  m,                \* the medium: see Medium
  start,            \* history: the file before anybody opened it, [len, file]
  written           \* history: pages written through the medium

fileVars == <<file, diskFile, len, diskLen>>
logVars  == <<pending, log, start>>
vars == <<fileVars, logVars, m, written>>

Medium == [pc : {"closed", "replay", "header", "open"},
           write : BOOLEAN,
           overlay : BOOLEAN,   \* is there a replay_overlay?
           k : Nat \ {0}]       \* the next descriptor to replay

Closed == [pc |-> "closed", write |-> FALSE, overlay |-> FALSE, k |-> 1]

Init ==
  /\ len \in InitLens
  /\ file = [p \in Pages |-> IF p < len THEN Old ELSE Zero]
  /\ diskFile = [p \in Pages |-> {file[p]}]
  /\ diskLen = {len}
  /\ pending \in BOOLEAN
  /\ log \in Logs
  /\ \A k \in 1 .. Len(log.descs) : DescPages(log.descs[k]) \subseteq 0 .. log.last - 1
  /\ m = Closed
  /\ start = [len |-> len, file |-> file]
  /\ written = {}

Largest(K) == CHOOSE k \in K : \A j \in K : j =< k

\* Pages are written; the file grows if they lie beyond its end.
SetPages(T, v) ==
  /\ file' = [p \in Pages |-> IF p \in T THEN v ELSE file[p]]
  /\ diskFile' = [p \in Pages |-> IF p \in T THEN diskFile[p] \cup {v} ELSE diskFile[p]]
  /\ len' = IF Largest(T) < len THEN len ELSE Largest(T) + 1
  /\ diskLen' = diskLen \cup {len'}
-----------------------------------------------------------------------------
(* Opening: finish of a read-only and of a writable OpenOptions.  An open  *)
(* that a policy or a check refuses changes nothing.                       *)

OpenReadOnly(policy) ==
  /\ m.pc = "closed"
  /\ policy = "Require" => ~pending
  /\ m' = [Closed EXCEPT !.pc = "open",
                         !.overlay = pending /\ policy \in {"Auto", "InMemoryOnReadOnly"}]
  /\ UNCHANGED <<fileVars, logVars, written>>

OpenWritable(policy) ==
  /\ m.pc = "closed"
  /\ policy \in {"Require", "Auto"}
  /\ policy = "Require" => ~pending
  /\ pending => len >= log.flushed
  /\ m' = [Closed EXCEPT !.write = TRUE, !.pc = IF pending THEN "replay" ELSE "header"]
  /\ UNCHANGED <<fileVars, logVars, written>>

\* replay_to_file: one descriptor.
ReplayDescriptor ==
  /\ m.pc = "replay" /\ m.k =< Len(log.descs)
  /\ LET d == log.descs[m.k] IN SetPages(DescPages(d), d.val)
  /\ m' = [m EXCEPT !.k = @ + 1]
  /\ UNCHANGED <<logVars, written>>

\* Mutant: one page too many.
SetLengthBeyond ==
  /\ m.pc = "replay" /\ m.k > Len(log.descs)
  /\ len' = log.last + 1 /\ diskLen' = diskLen \cup {log.last + 1}
  /\ m' = [m EXCEPT !.pc = "header"]
  /\ UNCHANGED <<file, diskFile, logVars, written>>

\* replay_to_file: the file gets the length LastFileOffset, whatever it had.
SetLength ==
  /\ m.pc = "replay" /\ m.k > Len(log.descs)
  /\ len' = log.last /\ diskLen' = diskLen \cup {log.last}
  /\ file' = [p \in Pages |-> IF p < log.last THEN file[p] ELSE Zero]
  /\ diskFile' = [p \in Pages |-> IF p < log.last THEN diskFile[p] ELSE diskFile[p] \cup {Zero}]
  /\ m' = [m EXCEPT !.pc = "header"]
  /\ UNCHANGED <<logVars, written>>

\* Mutant: the header is written and not synced.
UpdateHeaderUnsynced ==
  /\ m.pc = "header"
  /\ m' = [m EXCEPT !.pc = "open"]
  /\ UNCHANGED <<fileVars, logVars, written>>

\* apply_writable_header_update (module HeaderPair has its detail): the new
\* header keeps the log GUID, so the log stays pending; the sync is the one
\* that makes the replay durable.
UpdateHeader ==
  /\ m.pc = "header"
  /\ diskFile' = [p \in Pages |-> {file[p]}]
  /\ diskLen' = {len}
  /\ m' = [m EXCEPT !.pc = "open"]
  /\ UNCHANGED <<file, len, logVars, written>>

\* A write through the medium, in place or at the end of the file (module
\* BlockWrite has its detail).
WritePage(p) ==
  /\ m.pc = "open" /\ m.write
  /\ p =< len
  /\ SetPages({p}, New)
  /\ written' = written \cup {p}
  /\ UNCHANGED <<logVars, m>>

\* The medium is dropped; or an open fails, or its process dies.
Close ==
  /\ m.pc # "closed"
  /\ m' = Closed
  /\ UNCHANGED <<fileVars, logVars, written>>

\* The same in the middle of a descriptor's pages.
CloseMidway ==
  /\ m.pc = "replay" /\ m.k =< Len(log.descs)
  /\ LET d == log.descs[m.k] IN
       \E i \in 1 .. d.n - 1 : SetPages({p \in DescPages(d) : p < d.at + i}, d.val)
  /\ m' = Closed
  /\ UNCHANGED <<logVars, written>>

PowerLoss ==
  /\ MayCrash
  /\ len' \in diskLen
  /\ \E f \in [Pages -> UNION {diskFile[p] : p \in Pages}] :
       /\ \A p \in Pages : f[p] \in diskFile[p]
       /\ file' = [p \in Pages |-> IF p < len' THEN f[p] ELSE Zero]
  /\ diskFile' = [p \in Pages |-> {file'[p]}]
  /\ diskLen' = {len'}
  /\ m' = Closed
  /\ UNCHANGED <<logVars, written>>

Policies == {"Require", "Auto", "InMemoryOnReadOnly", "ReadOnlyNoReplay"}

Next ==
  \/ \E policy \in Policies : OpenReadOnly(policy) \/ OpenWritable(policy)
  \/ ReplayDescriptor \/ SetLength \/ UpdateHeader
  \/ \E p \in Pages : WritePage(p)
  \/ Close \/ CloseMidway \/ PowerLoss

Spec == Init /\ [][Next]_vars
-----------------------------------------------------------------------------
(* Reading through the overlay. *)

Covering(p) == {k \in 1 .. Len(log.descs) : p \in DescPages(log.descs[k])}

\* Mutant: a zero descriptor wins over data.
OverlayZeroFirst(p) ==
  IF \E k \in Covering(p) : log.descs[k].val = Zero THEN Zero
  ELSE log.descs[Largest(Covering(p))].val

\* What the overlay holds for a page that it covers: sectors win over zeros.
Overlay(p) ==
  LET datas == {k \in Covering(p) : log.descs[k].val # Zero} IN
  IF datas # {} THEN log.descs[Largest(datas)].val ELSE Zero

\* read_region_with_overlay, for a page of the BAT or metadata region.
RegionRead(p) == IF m.overlay /\ Covering(p) # {} THEN Overlay(p) ELSE file[p]

\* read_partially_present_range, for a page of a sector bitmap.
BitmapRead(p) == file[p]

\* How many pages ReplayOverlay::read returns of n at p: none, one page of data,
\* or what is left of the (first) zero region.
OverlayReads(p, n) ==
  IF Covering(p) = {} THEN {0}
  ELSE IF \E k \in Covering(p) : log.descs[k].val # Zero THEN {1}
  ELSE LET z == log.descs[CHOOSE k \in Covering(p) : \A j \in Covering(p) : k =< j]
           left == z.at + z.n - p
       IN {IF left < n THEN left ELSE n}

\* read_block_range_from_file: the i-th page of n read at p; any result of the
\* overlay is taken for the whole range.
PayloadRead(p, n, i) ==
  CASE ~m.overlay -> file[p + i]
    [] m.overlay /\ Covering(p) # {} ->
         IF \E c \in OverlayReads(p, n) : i < c THEN Overlay(p) ELSE Stale
    [] m.overlay /\ Covering(p) = {} /\ p < log.last -> Zero
    [] OTHER -> file[p + i]
-----------------------------------------------------------------------------
TypeOK ==
  /\ file \in [Pages -> Values] /\ diskFile \in [Pages -> SUBSET Values]
  /\ len \in 0 .. PageCount /\ diskLen \subseteq 0 .. PageCount
  /\ pending \in BOOLEAN /\ log \in Logs
  /\ m \in Medium
  /\ start \in [len : 0 .. PageCount, file : [Pages -> Values]]
  /\ written \subseteq Pages

\* What page p holds once the whole sequence is replayed.
After(p) == IF Covering(p) = {} THEN start.file[p] ELSE log.descs[Largest(Covering(p))].val

(***************************************************************************)
(* A writable open returns with the log replayed, completely and durably:  *)
(* however many earlier opens died or lost power in the middle of a        *)
(* replay, every page below LastFileOffset that nobody wrote since is what *)
(* the log and the file before it say, and stays so after a power loss.    *)
(***************************************************************************)
ReplayComplete ==
  m.pc = "open" /\ m.write /\ pending =>
    /\ \A p \in (0 .. log.last - 1) \ written : file[p] = After(p) /\ diskFile[p] = {After(p)}
    /\ \A n \in diskLen : n >= log.last

(***************************************************************************)
(* The overlay of a read-only open shows the BAT and metadata regions as a *)
(* replay into the file would leave them, even when an earlier writable    *)
(* open died in the middle of its own replay.                              *)
(***************************************************************************)
RegionView ==
  m.overlay => \A p \in (0 .. log.last - 1) \ written : p < len => RegionRead(p) = After(p)

(***************************************************************************)
(* The log is replayed before any payload I/O: what a medium wrote is not  *)
(* undone by the replay of a later open.                                   *)
(***************************************************************************)
WritesKept == \A p \in written : file[p] = New

(***************************************************************************)
(* The overlay of a read-only open gives "a consistent post-replay view":  *)
(* every read of a block, of any length, and of a sector bitmap returns    *)
(* what the replay would leave there.                                      *)
(***************************************************************************)
OverlayView ==
  m.overlay =>
    \A p \in (0 .. log.last - 1) \ written :
      /\ \A q \in 0 .. p : p < len => PayloadRead(q, p - q + 1, p - q) = After(p)
      /\ p < len => BitmapRead(p) = After(p)
=============================================================================
