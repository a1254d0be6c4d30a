------------------------------ MODULE MCPadInput ------------------------------
(***************************************************************************)
(* Two pads with ports of their own for TLC.                               *)
(***************************************************************************)
EXTENDS PadInput

OwnPorts == [p \in Pads |-> p]

(* What the first pad holds, and what the second.                          *)
Hold(first, second) == [p \in Pads |-> IF p = 0 THEN first ELSE second]

(* Players with a mouse, who plug it in and out.                           *)
Mouse ==
  [held |-> {Hold({}, {}), Hold({"FIRE"}, {}), Hold({"MOUSE_L"}, {}), Hold({"JM_TOGGLE"}, {}),
             Hold({"FIRE", "JM_TOGGLE"}, {"JM_TOGGLE"}), Hold({}, {"HOST"})},
   options |-> [rate: {2}, port: BOOLEAN]]

(* Players with auto-fire, who change its rate.                            *)
Shooter ==
  [held |-> {Hold({}, {}), Hold({"AUTOFIRE"}, {}),
             Hold({"FIRE"}, {}), Hold({"AUTOFIRE", "FIRE"}, {})},
   options |-> [rate: Rates, port: {TRUE}]]

Both == {Mouse, Shooter}
=============================================================================
