---------------------------- MODULE HeaderSection ----------------------------
(***************************************************************************)
(* Which of the two headers of a file is current (src/src/header/core.rs). *)
(***************************************************************************)
EXTENDS Integers

Slots == {1, 2}

\* current_header_index: 0 stands for its errors.
CurrentIndex(p) ==
  CASE p[1].ok /\ p[2].ok /\ p[1].seq > p[2].seq -> 1
    [] p[1].ok /\ p[2].ok /\ p[1].seq < p[2].seq -> 2
    [] p[1].ok /\ ~p[2].ok -> 1
    [] ~p[1].ok /\ p[2].ok -> 2
    [] OTHER -> 0
=============================================================================
