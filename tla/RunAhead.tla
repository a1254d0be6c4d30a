------------------------------- MODULE RunAhead -------------------------------
(***************************************************************************)
(* A frontend that runs ahead, as libretro frontends do to hide the delay  *)
(* of a program: for every frame it shows, it runs the core once, keeps a  *)
(* savestate, runs the core Ahead times more, shows the last picture, and  *)
(* restores the state.  What a run after the first one does is undone, but *)
(* for what the savestate does not hold.  The player touches nothing.      *)
(***************************************************************************)
EXTENDS RunLoop

CONSTANT Ahead  \* frames run ahead, one or more

VARIABLE ran  \* how often the core has run since the last restore

RAInit == Init /\ ran = 0

(* The core runs, once more than Ahead times between two restores.         *)
RARun ==
  /\ pc = "idle" => ran <= Ahead /\ (ran = 1 => shot /= {})
  /\ \/ retro_run
     \/ ConfigUpdate(FALSE, FALSE)
     \/ InputUpdate({}, FALSE, FALSE)
     \/ OskFlags
     \/ ProcessReset(FALSE)
     \/ \E fails \in BOOLEAN : RunFrame(fails)
     \/ CrashTimer(FALSE)
     \/ Finish
  /\ ran' = IF pc = "finish" THEN ran + 1 ELSE ran

RASave == ran = 1 /\ shot = {} /\ retro_serialize /\ UNCHANGED ran

(* The state is restored and thrown away, and restores are not counted.    *)
RARestore ==
  /\ pc = "idle"
  /\ ran = Ahead + 1
  /\ ran' = 0
  /\ \E s \in shot : core_restore_state(s, FALSE)
  /\ shot' = {}
  /\ UNCHANGED <<pc, restores>>

RANext == RARun \/ RASave \/ RARestore

RAVars == <<vars, ran>>

(* The frontend keeps running, saving and restoring.                       *)
RASpec == RAInit /\ [][RANext]_RAVars /\ WF_RAVars(RANext)

-----------------------------------------------------------------------------
(* "Savestates are seamless, allowing run-ahead and netplay" (README.md:   *)
(* 266): a machine that has halted, in the frames that are not undone, is  *)
(* reset by the timer as it is without run-ahead.                          *)
HaltRecoversAhead ==
  ran = 0 /\ pc = "idle" /\ Halted ~> ran = 0 /\ pc = "idle" /\ ~Halted
=============================================================================
