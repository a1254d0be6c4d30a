----------------------------- MODULE MCKeyEvents -----------------------------
(***************************************************************************)
(* Instances of KeyEvents for TLC.  Codes share nothing but the room in    *)
(* the queue, so one code is enough; the two Ctrl keys share it.           *)
(***************************************************************************)
EXTENDS KeyEvents, TLC

CONSTANTS LCtrl, RCtrl, Ctrl

OneCode == [k \in Key |-> Ctrl]

Ctrls == Permutations({LCtrl, RCtrl})
=============================================================================
