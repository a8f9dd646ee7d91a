------------------------------- MODULE Medium -------------------------------
(***************************************************************************)
(* An open medium and its caches (src/src/medium/core.rs) on top of        *)
(* HeaderPair: the header section, the BAT and the metadata region are     *)
(* read when first asked for, by any number of threads that share the      *)
(* medium, and kept with the generation they were read in; what needs the  *)
(* medium for itself changes the file and raises the generation.           *)
(*                                                                         *)
(* The log's cache works as the metadata's.  The medium is open for        *)
(* writing, so no replay overlay is in the way.                            *)
(***************************************************************************)
EXTENDS HeaderPair

CONSTANTS
  Readers,   \* threads that share the medium
  Wanted,    \* the buffers each thread asks for (the header section it needs anyway)
  Entries,   \* BAT entries
  Values,    \* what an entry, or the metadata, may hold
  Free,      \* the inner mutex is held by no thread
  Empty,     \* nothing is cached
  Failing,   \* entries whose write may fail, one of them while a medium is open
  FirstSeqs, \* bound: the newest sequence number when the model begins
  MaxGen     \* bound on the generation

Buffers == {"header", "bat", "meta"}
Caches  == Buffers \cup {"valid"}

ASSUME MediumConstants ==
  /\ Free \notin Readers
  /\ Failing \subseteq Entries
  /\ Wanted \in [Readers -> SUBSET Buffers] /\ FirstSeqs \subseteq Nat
  /\ MaxGen \in Nat

VARIABLES
  file,         \* the file's BAT and metadata
  generation,
  cache,        \* header_buf, bat_buf, metadata_buf, validator_buf
  inner,        \* who holds the mutex of the underlying medium
  th,           \* the threads
  failed        \* history: the entries whose last write ended in an error

mediumVars == <<file, generation, cache, inner, th, failed>>
mvars == <<vars, mediumVars>>

NoCache == [b \in Caches |-> Empty]
Resting == [pc |-> "idle", want |-> "header", on |-> "header", bytes |-> Empty]

MediumInit ==
  /\ Init /\ durable.seq \in FirstSeqs
  /\ \E v \in Values : file = [bat |-> [e \in Entries |-> v], meta |-> v]
  /\ generation = 0 /\ cache = NoCache /\ inner = Free /\ failed = {}
  /\ th = [t \in Readers |-> Resting]

\* What a read of the file returns.
Truth(b) == CASE b = "header" -> slot
              [] b = "bat"    -> file.bat
              [] b = "meta"   -> file.meta

\* CacheEntry::valid_bytes
Fresh(b) == cache[b] # Empty /\ cache[b].gen = generation
Cached(b) == [gen |-> generation, bytes |-> b]
-----------------------------------------------------------------------------
(* Opening and closing. *)

Opening ==
  /\ ReadHeaders \/ Leave \/ WriteHeader \/ SyncFails
  /\ UNCHANGED mediumVars

\* finish, of the open for writing: the header section is cached as it is.
FinishOpen ==
  /\ SyncHeader
  /\ generation' = 0
  /\ cache' = [NoCache EXCEPT !["header"] = [gen |-> 0, bytes |-> h'.buf]]
  /\ UNCHANGED <<file, inner, th, failed>>

Alone == h.pc = "open" /\ \A t \in Readers : th[t].pc = "idle"

CloseMedium ==
  /\ Alone /\ Close
  /\ generation' = 0 /\ cache' = NoCache /\ failed' = {}
  /\ UNCHANGED <<file, inner, th>>

\* The process is gone (what the disk lost of the BAT is BlockWrite's matter).
LosePower ==
  /\ PowerLoss
  /\ generation' = 0 /\ cache' = NoCache /\ inner' = Free /\ failed' = {}
  /\ th' = [t \in Readers |-> Resting]
  /\ UNCHANGED file
-----------------------------------------------------------------------------
(* Threads that share the medium: header_buf_arc, bat_buf, metadata_buf.   *)
(* A thread that wants a region needs the header section first, to see     *)
(* where the region is; on is the buffer it works on.                      *)

Go(t, x) ==
  /\ th' = [th EXCEPT ![t] = x]
  /\ UNCHANGED <<vars, file, generation, failed>>

Ask(t, b) ==
  /\ h.pc = "open" /\ th[t].pc = "idle"
  /\ Go(t, [Resting EXCEPT !.pc = "look", !.want = b, !.on = b])
  /\ UNCHANGED <<cache, inner>>

\* What is loaded is the answer, or what was needed to go and lock for it.
Having(t, bytes) ==
  IF th[t].on = th[t].want THEN [th[t] EXCEPT !.pc = "done", !.bytes = bytes]
  ELSE [th[t] EXCEPT !.pc = "lock", !.on = th[t].want, !.bytes = Empty]

\* Mutant: the mutex is taken before the header section is asked for.
LookLocked(t) ==
  LET on == th[t].on IN
  /\ th[t].pc = "look"
  /\ \/ Fresh(on) /\ Go(t, Having(t, cache[on].bytes)) /\ UNCHANGED <<cache, inner>>
     \/ ~Fresh(on) /\ on = "header" /\ Go(t, [th[t] EXCEPT !.pc = "lock"]) /\ UNCHANGED <<cache, inner>>
     \/ /\ ~Fresh(on) /\ on # "header" /\ inner = Free /\ inner' = t
        /\ Go(t, [th[t] EXCEPT !.on = "header"]) /\ UNCHANGED cache

\* The check of a cache, under its read lock.
Look(t) ==
  LET on == th[t].on IN
  /\ th[t].pc = "look"
  /\ \/ Fresh(on) /\ Go(t, Having(t, cache[on].bytes))
     \/ ~Fresh(on) /\ on = "header" /\ Go(t, [th[t] EXCEPT !.pc = "lock"])
     \/ ~Fresh(on) /\ on # "header" /\ Go(t, [th[t] EXCEPT !.on = "header"])
  /\ UNCHANGED <<cache, inner>>

Lock(t) ==
  /\ th[t].pc = "lock" /\ inner = Free
  /\ inner' = t
  /\ Go(t, [th[t] EXCEPT !.pc = "read"])
  /\ UNCHANGED cache

Load(t) ==
  /\ th[t].pc = "read"
  /\ inner' = Free
  /\ Go(t, [th[t] EXCEPT !.pc = "store", !.bytes = Truth(th[t].on)])
  /\ UNCHANGED cache

\* Under the cache's write lock: what another thread stored first is taken.
Store(t) ==
  LET on == th[t].on
      bytes == IF Fresh(on) THEN cache[on].bytes ELSE th[t].bytes
  IN  /\ th[t].pc = "store"
      /\ cache' = [cache EXCEPT ![on] = Cached(bytes)]
      /\ Go(t, Having(t, bytes))
      /\ UNCHANGED inner

Answer(t) ==
  /\ th[t].pc = "done"
  /\ Go(t, Resting)
  /\ UNCHANGED <<cache, inner>>

\* get_ref: the guard holds the mutex; its owner drops it before it reads.
WantRef(t) ==
  /\ h.pc = "open" /\ th[t].pc = "idle"
  /\ Go(t, [Resting EXCEPT !.pc = "wantRef"])
  /\ UNCHANGED <<cache, inner>>
HoldRef(t) ==
  /\ th[t].pc = "wantRef" /\ inner = Free
  /\ inner' = t
  /\ Go(t, [Resting EXCEPT !.pc = "ref"])
  /\ UNCHANGED cache
DropRef(t) ==
  /\ th[t].pc = "ref"
  /\ inner' = Free
  /\ Go(t, Resting)
  /\ UNCHANGED cache
-----------------------------------------------------------------------------
(* What needs the medium for itself (&mut). *)

\* A buffer as it is cached, or read and cached.
Loaded(b) == IF Fresh(b) THEN cache[b] ELSE Cached(Truth(b))

\* Mutant: the cached BAT gets the new generation, but not the new entry.
WriteEntryUnpatched(e, v) ==
  /\ Alone /\ generation < MaxGen
  /\ file' = [file EXCEPT !.bat[e] = v]
  /\ generation' = generation + 1
  /\ cache' = [cache EXCEPT !["header"] = Loaded("header"), !["valid"] = Empty,
                 !["bat"] = IF @ = Empty THEN Empty ELSE [gen |-> generation + 1, bytes |-> @.bytes]]
  /\ failed' = failed \ {e}
  /\ UNCHANGED <<vars, inner, th>>

\* write_bat_entry: only the cached BAT follows to the new generation.
WriteEntry(e, v) ==
  /\ Alone /\ generation < MaxGen
  /\ file' = [file EXCEPT !.bat[e] = v]
  /\ generation' = generation + 1
  /\ cache' = [cache EXCEPT !["header"] = Loaded("header"), !["valid"] = Empty,
                 !["bat"] = IF @ = Empty THEN Empty
                            ELSE [gen |-> generation + 1, bytes |-> [@.bytes EXCEPT ![e] = v]]]
  /\ failed' = failed \ {e}
  /\ UNCHANGED <<vars, inner, th>>

\* Its file write fails, and may have been done nevertheless.
WriteEntryFails(e, v) ==
  /\ Alone /\ e \in Failing /\ failed = {}
  /\ file' \in {file, [file EXCEPT !.bat[e] = v]}
  /\ cache' = [cache EXCEPT !["header"] = Loaded("header")]
  /\ failed' = failed \cup {e}
  /\ UNCHANGED <<vars, generation, inner, th>>

\* Mutant: the caches are kept, as the generation tells that they are old.
GetMutKeeping(f) ==
  /\ Alone /\ generation < MaxGen
  /\ generation' = generation + 1 /\ failed' = {}
  /\ file' = f
  /\ UNCHANGED <<vars, cache, inner, th>>

\* get_mut, and what the caller changes with it.
GetMut(f) ==
  /\ Alone /\ generation < MaxGen
  /\ generation' = generation + 1 /\ cache' = NoCache /\ failed' = {}
  /\ file' = f
  /\ UNCHANGED <<vars, inner, th>>

\* validator_buf, build_validator_buf
BuildValidator ==
  /\ Alone /\ ~Fresh("valid")
  /\ cache' = [b \in Caches |->
                 IF b = "valid" THEN Cached([c \in Buffers |-> Loaded(c).bytes]) ELSE Loaded(b)]
  /\ UNCHANGED <<vars, file, generation, inner, th, failed>>

Step(t) == Look(t) \/ Load(t) \/ Store(t) \/ Answer(t) \/ DropRef(t)
Acquire(t) == Lock(t) \/ HoldRef(t)

MediumNext ==
  \/ Opening \/ FinishOpen \/ CloseMedium \/ LosePower
  \/ \E t \in Readers : Step(t) \/ Acquire(t) \/ WantRef(t) \/ (\E b \in Wanted[t] : Ask(t, b))
  \/ \E e \in Entries, v \in Values : WriteEntry(e, v) \/ WriteEntryFails(e, v)
  \/ \E v \in Values : GetMut([file EXCEPT !.meta = v, !.bat = [e \in Entries |-> v]])
  \/ BuildValidator

\* A thread that can go on does; one that waits for a mutex that is free again
\* and again gets it.
MediumFairness == \A t \in Readers : WF_mvars(Step(t)) /\ SF_mvars(Acquire(t))

MediumSpec == MediumInit /\ [][MediumNext]_mvars /\ MediumFairness
-----------------------------------------------------------------------------
\* The same bytes, apart from entries whose last write is not known to be done.
SameBytes(b, x, y) ==
  IF b = "bat" THEN \A e \in Entries \ failed : x[e] = y[e] ELSE x = y

(***************************************************************************)
(* The caches are coherent: what a read or the validator would be given    *)
(* without looking at the file is what the file holds, however the         *)
(* structured writes, direct access to the medium and the reads of threads *)
(* follow one another.  (write_bat_entry brings the cached BAT to a new    *)
(* generation without asking which one it was of.)                         *)
(***************************************************************************)
CacheCoherent ==
  h.pc = "open" =>
    /\ \A b \in Buffers : Fresh(b) => SameBytes(b, cache[b].bytes, Truth(b))
    /\ Fresh("valid") => \A b \in Buffers : SameBytes(b, cache["valid"].bytes[b], Truth(b))

(***************************************************************************)
(* What the comments on bat_buf and metadata_buf promise: whichever of     *)
(* several threads wins, the bytes each of them is given are right.        *)
(***************************************************************************)
AnswersCurrent ==
  \A t \in Readers : th[t].pc = "done" => SameBytes(th[t].want, th[t].bytes, Truth(th[t].want))

(***************************************************************************)
(* The threads do not lock each other or themselves out: each read and     *)
(* each get_ref comes to its end.                                          *)
(***************************************************************************)
ReadsEnd == \A t \in Readers : th[t].pc # "idle" ~> th[t].pc = "idle"
=============================================================================
