---------------------------- MODULE MCLogReplay ----------------------------
(* Active sequences of up to three descriptors, for TLC. *)
EXTENDS LogReplay

CONSTANTS a, b    \* the contents of data sectors

Descs ==
  [at : {1}, n : {1}, val : {a, b}] \cup [at : {2}, n : {1}, val : {b}]
    \cup [at : {1}, n : {2}, val : {Zero}]

Sequences(n) == UNION {[1 .. k -> Descs] : k \in 1 .. n}

AllLogs  == [descs : Sequences(2), flushed : {3}, last : {3, 4}]
DataLogs == [descs : {s \in Sequences(3) : Len(s) > 1 /\ DataLast(s)},
             flushed : {2}, last : {2, 3}]
=============================================================================
