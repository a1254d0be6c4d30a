-------------------------- MODULE MCScreenKeyboard --------------------------
(***************************************************************************)
(* Instances of ScreenKeyboard for TLC.                                    *)
(***************************************************************************)
EXTENDS ScreenKeyboard

(* One button is down, or CONFIRM with another, or two directions.         *)
Hands ==
  {{}} \cup {{b} : b \in Button \ {"POS"}} \cup
  {{"CONFIRM", b} : b \in {"CANCEL", "D", "L"}} \cup {{"U", "L"}}
=============================================================================
