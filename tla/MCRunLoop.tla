------------------------------ MODULE MCRunLoop ------------------------------
(***************************************************************************)
(* Instances of RunLoop for TLC.                                           *)
(***************************************************************************)
EXTENDS RunLoop

(* At most one button is down, or the pause button with the keyboard's.    *)
Hands == {{}, {"PAUSE", "OSK_ON"}} \cup {{b} : b \in Button}
=============================================================================
