----------------------------- MODULE MCBatLayout -----------------------------
(* Disks of up to three whole chunks and a part of one, for TLC. *)
EXTENDS BatLayout

SmallSizes == [payloads : 1 .. 11, ratio : 1 .. 4]
=============================================================================
