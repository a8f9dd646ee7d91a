------------------------------ MODULE MCMedium ------------------------------
(* Two threads want the BAT, one of them the metadata too. *)
EXTENDS Medium

SomeWanted == [t1 |-> {"bat", "meta"}, t2 |-> {"bat"}]
=============================================================================
