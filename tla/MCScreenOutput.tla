---------------------------- MODULE MCScreenOutput ----------------------------
(* A small instance of ScreenOutput.                                       *)
EXTENDS ScreenOutput

(* What an earlier session may have left: a state saved in the pause       *)
(* screen, with its picture, and one with the keyboard up, without.        *)
Older ==
  LET size == CHOOSE s \in Sizes : TRUE
  IN {[mode |-> "PAUSE", size |-> size, copy |-> [st |-> "saved", bar |-> "clean"]],
      [mode |-> "KEY", size |-> size, copy |-> NoCopy]}
=============================================================================
