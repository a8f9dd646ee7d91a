---------------------------- MODULE VirtualDisk ----------------------------
(***************************************************************************)
(* What the sector I/O of an open VHDX promises its caller, without any    *)
(* file, BAT or bitmap: an array of virtual sectors, one write request at  *)
(* a time.  A request changes only the sectors it names, each only to what   *)
(* the request gives it; when it returns success all of them read so; when *)
(* it returns an error any part of it may have taken effect.               *)
(* A power loss may throw recent writes away, but a sector never reads as  *)
(* something it neither held nor was being given.                          *)
(***************************************************************************)
CONSTANTS Places,   \* the virtual sectors
          Data      \* the values a sector may hold

VARIABLES content,  \* content[x]: what reading sector x returns
          past,     \* past[x]: every value x held or was asked to hold
          request,  \* the sectors of the request in progress, and what they are given
          answer    \* what the last request returned: "ok" or "error", or "none"

vars == <<content, past, request, answer>>

NoRequest == [sectors |-> {}, value |-> <<>>]

Init == /\ content \in [Places -> Data]
        /\ past = [x \in Places |-> {content[x]}]
        /\ request = NoRequest
        /\ answer = "none"

Begin(S) ==
  /\ request = NoRequest
  /\ request' \in [sectors : {S}, value : [S -> Data]]
  /\ past' = [x \in Places |-> IF x \in S THEN past[x] \cup {request'.value[x]} ELSE past[x]]
  /\ answer' = "none"
  /\ UNCHANGED content

\* Part of the request in progress becomes visible.
Apply(T) ==
  /\ T \subseteq request.sectors
  /\ content' = [x \in Places |-> IF x \in T THEN request.value[x] ELSE content[x]]
  /\ UNCHANGED <<past, request, answer>>

Succeed ==
  /\ request # NoRequest
  /\ \A x \in request.sectors : content[x] = request.value[x]
  /\ request' = NoRequest
  /\ answer' = "ok"
  /\ UNCHANGED <<content, past>>

\* The request ends with an error after any part of it was applied.
Abort(T) ==
  /\ request # NoRequest
  /\ T \subseteq request.sectors
  /\ content' = [x \in Places |-> IF x \in T THEN request.value[x] ELSE content[x]]
  /\ request' = NoRequest
  /\ answer' = "error"
  /\ UNCHANGED past

PowerLoss ==
  /\ content' \in [Places -> Data]
  /\ \A x \in Places : content'[x] \in past[x]
  /\ request' = NoRequest
  /\ answer' = "none"
  /\ UNCHANGED past

Next == \/ \E S \in (SUBSET Places) \ {{}} : Begin(S)
        \/ \E T \in SUBSET request.sectors : Apply(T) \/ Abort(T)
        \/ Succeed
        \/ PowerLoss

Spec == Init /\ [][Next]_vars
=============================================================================
