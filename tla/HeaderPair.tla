----------------------------- MODULE HeaderPair -----------------------------
(***************************************************************************)
(* The two headers of a VHDX file and how a writable open replaces the     *)
(* noncurrent one (src/src/header/core.rs, src/src/medium/open.rs), over a *)
(* disk that may lose or tear what was not synced.  One medium at a time   *)
(* has the file open.                                                      *)
(***************************************************************************)
EXTENDS HeaderSection

CONSTANTS
  Rests,     \* what an update carries over: log GUID and extent, versions, data GUID
  Lost,      \* the content of a header that fails its checksum
  MaxSeq,    \* bound: no update makes a sequence number larger (2^64 - 1 in the file)
  Troubles   \* what may go wrong: "tear", "fail"

\* "tear": a power loss may leave a 4 KB header half written.  "fail": an open
\* may end between the write of the header and its sync, without a power loss.
\* Both together can cost the last header (an open dies before its sync, the
\* next one rewrites the other header, a power loss tears both), so a behaviour
\* has trouble of one kind.
ASSUME HeaderConstants ==
  /\ MaxSeq \in Nat
  /\ Troubles \subseteq {"tear", "fail"}

Other(s) == 3 - s
Header  == [ok : BOOLEAN, seq : Nat, rest : Rests \cup {Lost}]
Torn    == [ok |-> FALSE, seq |-> 0, rest |-> Lost]

VARIABLES
  slot,     \* slot[i]: what a read of header i returns now
  disk,     \* disk[i]: what a power loss may leave there
  h,        \* the medium: its progress, and header_buf
  durable,  \* history: the newest header known to be on disk, and its place
  rest,     \* history: what the current header carried when the model began
  trouble   \* the kind of trouble of this behaviour; never changes

vars == <<slot, disk, h, durable, rest, trouble>>

Closed == [pc |-> "closed", buf |-> [s \in Slots |-> Torn]]

Init ==
  /\ \E p \in [Slots -> {x \in [ok : BOOLEAN, seq : 0 .. MaxSeq, rest : Rests] : x.ok} \cup {Torn}] :
       /\ CurrentIndex(p) # 0
       /\ slot = p
       /\ disk = [s \in Slots |-> {p[s]}]
       /\ durable = [at |-> CurrentIndex(p), seq |-> p[CurrentIndex(p)].seq]
       /\ rest = p[CurrentIndex(p)].rest
  /\ h = Closed
  /\ trouble \in Troubles
-----------------------------------------------------------------------------
\* finish: read the header section, pick the current header.
ReadHeaders ==
  /\ h.pc = "closed"
  /\ CurrentIndex(slot) # 0
  /\ h' = [pc |-> "update", buf |-> slot]
  /\ UNCHANGED <<slot, disk, durable, rest, trouble>>

\* A read-only open ends here; a writable one on any error of validation, of
\* the replay policy or of the log, and when either header is invalid.
Leave ==
  /\ h.pc = "update"
  /\ h' = Closed
  /\ UNCHANGED <<slot, disk, durable, rest, trouble>>

\* Mutants: the current header is replaced; the update carries nothing over.
NoncurrentSwapped(p) == IF p[1].seq > p[2].seq THEN 1 ELSE 2
UpdatedAfresh(p) == [p[CurrentIndex(p)] EXCEPT !.seq = @ + 1, !.rest = Lost]

\* apply_writable_header_update: which header is replaced, and by what.
Noncurrent(p) == IF p[1].seq > p[2].seq THEN 2 ELSE 1
Updated(p) == [p[CurrentIndex(p)] EXCEPT !.seq = @ + 1]

MayUpdate ==
  /\ h.pc = "update"
  /\ h.buf[1].ok /\ h.buf[2].ok
  /\ Updated(h.buf).seq =< MaxSeq

WriteHeader ==
  LET i == Noncurrent(h.buf) IN
  /\ MayUpdate
  /\ slot' = [slot EXCEPT ![i] = Updated(h.buf)]
  /\ disk' = [disk EXCEPT ![i] = @ \cup {Updated(h.buf)} \cup (IF trouble = "tear" THEN {Torn} ELSE {})]
  /\ h' = [h EXCEPT !.pc = "sync"]
  /\ UNCHANGED <<durable, rest, trouble>>

\* Mutants: the cached headers are not patched; the sync is left out.
SyncHeaderStale ==
  LET i == Noncurrent(h.buf) IN
  /\ h.pc = "sync"
  /\ disk' = [s \in Slots |-> {slot[s]}]
  /\ h' = [h EXCEPT !.pc = "open"]
  /\ durable' = [at |-> i, seq |-> Updated(h.buf).seq]
  /\ UNCHANGED <<slot, rest, trouble>>

SyncHeaderSkipped ==
  LET i == Noncurrent(h.buf) IN
  /\ h.pc = "sync"
  /\ h' = [pc |-> "open", buf |-> [h.buf EXCEPT ![i] = Updated(h.buf)]]
  /\ durable' = [at |-> i, seq |-> Updated(h.buf).seq]
  /\ UNCHANGED <<slot, disk, rest, trouble>>

\* The sync_data, after which header_buf is patched and the open returns.
SyncHeader ==
  LET i == Noncurrent(h.buf) IN
  /\ h.pc = "sync"
  /\ disk' = [s \in Slots |-> {slot[s]}]
  /\ h' = [pc |-> "open", buf |-> [h.buf EXCEPT ![i] = Updated(h.buf)]]
  /\ durable' = [at |-> i, seq |-> Updated(h.buf).seq]
  /\ UNCHANGED <<slot, rest, trouble>>

\* The sync fails, or the process dies before it.
SyncFails ==
  /\ trouble = "fail"
  /\ h.pc = "sync"
  /\ h' = Closed
  /\ UNCHANGED <<slot, disk, durable, rest, trouble>>

Close ==
  /\ h.pc = "open"
  /\ h' = Closed
  /\ UNCHANGED <<slot, disk, durable, rest, trouble>>

\* What a power loss may leave of the two headers.
Survivors == {p \in [Slots -> disk[1] \cup disk[2]] : p[1] \in disk[1] /\ p[2] \in disk[2]}

PowerLoss ==
  /\ slot' \in Survivors
  /\ disk' = [s \in Slots |-> {slot'[s]}]
  /\ h' = Closed
  /\ durable' = [at |-> CurrentIndex(slot'), seq |-> slot'[CurrentIndex(slot')].seq]
  /\ UNCHANGED <<rest, trouble>>

Next == ReadHeaders \/ Leave \/ WriteHeader \/ SyncHeader \/ SyncFails \/ Close \/ PowerLoss

Spec == Init /\ [][Next]_vars
-----------------------------------------------------------------------------
TypeOK ==
  /\ slot \in [Slots -> Header]
  /\ disk \in [Slots -> SUBSET Header]
  /\ h \in [pc : {"closed", "update", "sync", "open"}, buf : [Slots -> Header]]
  /\ durable \in [at : Slots, seq : Nat]
  /\ rest \in Rests
  /\ trouble \in Troubles

(***************************************************************************)
(* Whatever a power loss leaves, the file still has a current header: it   *)
(* is never older than one a writable open returned success for, and it    *)
(* still says where the log is and whose it is.                            *)
(***************************************************************************)
HeaderSurvives ==
  \A p \in Survivors :
    LET i == CurrentIndex(p) IN
    i # 0 /\ p[i].seq >= durable.seq /\ p[i].rest = rest

(***************************************************************************)
(* The header section cached by an open medium is the one in the file.     *)
(***************************************************************************)
CachedHeaders == h.pc = "open" => h.buf = slot

(***************************************************************************)
(* The durable sequence number never goes back.                            *)
(***************************************************************************)
SequenceGrows == [][durable'.seq >= durable.seq]_vars

\* The inductive strengthening: the place of the durable header holds nothing
\* older and nothing torn; the numbers that may follow are even steps away in
\* that place and odd steps away in the other, so that no two are equal.
DurablePlace ==
  \A x \in disk[durable.at] :
    x.ok /\ x.seq >= durable.seq /\ (x.seq - durable.seq) % 2 = 0 /\ x.rest = rest
OtherPlace ==
  \A x \in disk[Other(durable.at)] :
    x.ok /\ x.seq >= durable.seq => (x.seq - durable.seq) % 2 = 1 /\ x.rest = rest
SlotsMayLast == \A s \in Slots : slot[s] \in disk[s]
BufferFresh  == h.pc = "update" => h.buf = slot
SyncOK ==
  h.pc = "sync" =>
    /\ h.buf[1].ok /\ h.buf[2].ok
    /\ CurrentIndex(h.buf) = Other(Noncurrent(h.buf))
    /\ slot = [h.buf EXCEPT ![Noncurrent(h.buf)] = Updated(h.buf)]
NothingPending == trouble = "tear" /\ h.pc # "sync" =>
                    /\ disk = [s \in Slots |-> {slot[s]}]
                    /\ durable = [at |-> CurrentIndex(slot), seq |-> slot[CurrentIndex(slot)].seq]

Inv == /\ TypeOK
       /\ DurablePlace /\ OtherPlace
       /\ SlotsMayLast /\ BufferFresh /\ SyncOK /\ NothingPending
       /\ CachedHeaders
=============================================================================
