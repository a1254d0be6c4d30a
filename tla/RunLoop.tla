------------------------------- MODULE RunLoop -------------------------------
(***************************************************************************)
(* retro_run and what the frontend may call between two of its calls       *)
(* (core.c), with the part of core_input_update that opens and closes the  *)
(* pause screen and the on-screen keyboard (core_input.c): resets, halts   *)
(* of the CPU, the timer that resets a halted machine, pause, and the      *)
(* savestate that brings an older set of flags back.                       *)
(*                                                                         *)
(* retro_run is cut where its stages read what another wrote: pc names the *)
(* stage that comes next.  The machine is external: a frame, or the start  *)
(* of the CPU after a reset, may halt it.                                  *)
(***************************************************************************)
EXTENDS Naturals

CONSTANTS
  Fps,         \* core_video_fps
  CrashTime,   \* core_crashtime in seconds, 0 for off
  Held,        \* what the player can hold down at a poll: sets of buttons
  MaxRestores  \* how often the frontend restores its savestate

ResetFlags == {"RESET_COLD", "RESET_WARM"}
RunFlags == ResetFlags \cup {"HALT", "PAUSE", "OSK"}
Button == {"PAUSE", "OSK_ON", "OSK_SHOT", "WARM_BOOT", "COLD_BOOT"}
Aux == Button \cup {"OSK_CLOSED"}
Mode == {"OFF", "PAUSE", "KEY", "KEY_SHOT"}

ASSUME RunLoopAssumption ==
  /\ Fps \in Nat \ {0}
  /\ CrashTime \in Nat
  /\ Held \subseteq SUBSET Button
  /\ MaxRestores \in Nat

VARIABLES
  pc,                 \* the stage of retro_run that is next, or "idle"
  core_runflags,      \* the flags that are set
  core_crash_frames,  \* frames counted since the CPU halted
  core_osk_mode,
  aux_buttons,        \* buttons of the last poll, and OSK_CLOSED
  shot,               \* the savestate kept by the frontend, a set of one or none
  restores            \* restores so far

flags == <<core_runflags, core_crash_frames>>
osk == <<core_osk_mode, aux_buttons>>
saves == <<shot, restores>>
vars == <<pc, flags, osk, saves>>

Halted == "HALT" \in core_runflags
Paused == core_osk_mode \in {"PAUSE", "KEY_SHOT"}

-----------------------------------------------------------------------------
(* Signals                                                                 *)

(* The flags become f, and if the CPU or the TOS fails on the way the      *)
(* machine is halted and its timer started (core_signal_halt,              *)
(* core_signal_tos_fail).                                                  *)
SetFlags(f, fails) ==
  /\ core_runflags' = IF fails THEN f \cup {"HALT"} ELSE f
  /\ core_crash_frames' = IF fails THEN 0 ELSE core_crash_frames

(* Reset_Cold and Reset_Warm only leave a signal; the CPU is restarted by  *)
(* retro_run.                                                              *)
core_signal_reset(f, cold) == f \cup {IF cold THEN "RESET_COLD" ELSE "RESET_WARM"}

core_m68k_reinit(f) == f \ (ResetFlags \cup {"HALT"})

(* A cold reset, one frame, and a cold reset that is left for retro_run.   *)
core_reset_colder(f) ==
  core_signal_reset(core_m68k_reinit(core_signal_reset(f, TRUE)), TRUE)

-----------------------------------------------------------------------------
(* The frontend, between two calls of retro_run                            *)

(* A bug retro_reset could have: it asks only the option.                  *)
ResetAsAsked(soft, fails) ==
  /\ pc = "idle"
  /\ aux_buttons' = IF core_osk_mode = "OFF" THEN aux_buttons
                    ELSE aux_buttons \cup {"OSK_CLOSED"}
  /\ core_osk_mode' = "OFF"
  /\ LET f == core_runflags \ {"PAUSE", "OSK"}
     IN IF soft THEN SetFlags(core_signal_reset(f, FALSE), FALSE)
                ELSE SetFlags(core_reset_colder(f \ {"HALT"}), fails)
  /\ UNCHANGED <<pc, saves>>

(* retro_reset: cold if the option says so or if the CPU has halted, and   *)
(* no overlay survives it.                                                 *)
retro_reset(soft, fails) ==
  /\ pc = "idle"
  /\ aux_buttons' = IF core_osk_mode = "OFF" THEN aux_buttons
                    ELSE aux_buttons \cup {"OSK_CLOSED"}
  /\ core_osk_mode' = "OFF"
  /\ LET f == core_runflags \ {"PAUSE", "OSK"}
     IN IF Halted \/ ~soft THEN SetFlags(core_reset_colder(f \ {"HALT"}), fails)
                           ELSE SetFlags(core_signal_reset(f, FALSE), FALSE)
  /\ UNCHANGED <<pc, saves>>

State == [runflags: SUBSET RunFlags, mode: Mode, aux: SUBSET Aux]

(* retro_serialize: the timer is not part of the state.  A state that can  *)
(* no longer be restored is not made.                                      *)
retro_serialize ==
  /\ pc = "idle"
  /\ restores < MaxRestores
  /\ shot' = {[runflags |-> core_runflags, mode |-> core_osk_mode, aux |-> aux_buttons]}
  /\ UNCHANGED <<pc, flags, osk, restores>>

(* core_serialize reads a state, and core_restore_state drops the reset    *)
(* that was pending in it; the check of the program counter may find the   *)
(* restored CPU halted.  It is the same for these variables if Hatari      *)
(* refuses its part of the state.                                          *)
core_restore_state(s, fails) ==
  /\ SetFlags(s.runflags \ ResetFlags, fails)
  /\ core_osk_mode' = s.mode
  /\ aux_buttons' = s.aux

retro_unserialize(fails) ==
  /\ pc = "idle"
  /\ restores < MaxRestores
  /\ \E s \in shot : core_restore_state(s, fails)
  /\ restores' = restores + 1
  /\ UNCHANGED <<pc, shot>>

retro_run ==
  /\ pc = "idle"
  /\ pc' = "config"
  /\ UNCHANGED <<flags, osk, saves>>

-----------------------------------------------------------------------------
(* The stages of retro_run                                                 *)

(* core_config_update: a changed option may need a cold reset.             *)
ConfigUpdate(reset, fails) ==
  /\ pc = "config"
  /\ pc' = "input"
  /\ IF reset THEN SetFlags(core_signal_reset(core_runflags, TRUE), fails)
              ELSE UNCHANGED flags
  /\ UNCHANGED <<osk, saves>>

(* The buttons that count: none but those that close it while paused.      *)
Active(held) ==
  CASE core_osk_mode = "KEY_SHOT" -> held \ {"WARM_BOOT", "COLD_BOOT", "PAUSE"}
    [] core_osk_mode = "PAUSE" -> held \ {"WARM_BOOT", "COLD_BOOT"}
    [] OTHER -> held

(* The reset buttons.                                                      *)
Resets(pressed, fails) ==
  LET warm == IF "WARM_BOOT" \in pressed THEN core_signal_reset(core_runflags, FALSE)
                                        ELSE core_runflags
  IN IF "COLD_BOOT" \in pressed THEN SetFlags(core_reset_colder(warm), fails)
                               ELSE SetFlags(warm, FALSE)

(* The mode after the pause button.                                        *)
PauseToggle(pressed) ==
  CASE "PAUSE" \in pressed /\ core_osk_mode = "OFF" -> "PAUSE"
    [] "PAUSE" \in pressed /\ core_osk_mode = "PAUSE" -> "OFF"
    [] OTHER -> core_osk_mode

(* The mode after the buttons that open the keyboard.                      *)
OskOpen(mode, pressed) ==
  IF mode /= "OFF" THEN mode
  ELSE IF "OSK_ON" \in pressed THEN "KEY"
  ELSE IF "OSK_SHOT" \in pressed THEN "KEY_SHOT" ELSE mode

(* A bug InputUpdate could have: an overlay that was just closed can be    *)
(* reopened at once by the buttons that are down.                          *)
InputRetriggers(held, closes, fails) ==
  LET down == Active(held)
      pressed == down \ aux_buttons
      mode == OskOpen(PauseToggle(pressed), pressed)
      shut == closes /\ core_osk_mode = mode /\ mode \in {"KEY", "KEY_SHOT"}
  IN /\ pc = "input"
     /\ pc' = "osk"
     /\ Resets(pressed, fails)
     /\ core_osk_mode' = IF shut THEN "OFF" ELSE mode
     /\ aux_buttons' = down \cup (IF shut THEN {"OSK_CLOSED"} ELSE {})
     /\ UNCHANGED saves

(* core_input_update, its auxiliary buttons: resets, then the pause        *)
(* toggle, then the keyboard, which the same press cannot open if an       *)
(* overlay was just closed, and last the keys of the on-screen keyboard,   *)
(* which may close it (closes), but not before it has been drawn           *)
(* (core_osk_begin).                                                       *)
InputUpdate(held, closes, fails) ==
  LET down == Active(held)
      pressed == down \ aux_buttons
      toggled == PauseToggle(pressed)
      closed == "OSK_CLOSED" \in aux_buttons \/ (Paused /\ toggled = "OFF")
      mode == OskOpen(toggled, IF closed THEN {} ELSE pressed)
      shut == closes /\ core_osk_mode = mode /\ mode \in {"KEY", "KEY_SHOT"}
  IN /\ pc = "input"
     /\ pc' = "osk"
     /\ Resets(pressed, fails)
     /\ core_osk_mode' = IF shut THEN "OFF" ELSE mode
     /\ aux_buttons' = down \cup (IF shut THEN {"OSK_CLOSED"} ELSE {})
     /\ UNCHANGED saves

(* The flags follow the mode.  PAUSE is not cleared when the keyboard that *)
(* does not pause is up.                                                   *)
OskFlags ==
  /\ pc = "osk"
  /\ pc' = "reset"
  /\ core_runflags' = IF core_osk_mode = "OFF" THEN core_runflags \ {"PAUSE", "OSK"}
                      ELSE core_runflags \cup {"OSK"} \cup (IF Paused THEN {"PAUSE"} ELSE {})
  /\ UNCHANGED <<core_crash_frames, osk, saves>>

(* A pending reset restarts the CPU, which may find nothing to run.        *)
ProcessReset(fails) ==
  /\ pc = "reset"
  /\ pc' = "frame"
  /\ IF core_runflags \cap ResetFlags = {} THEN UNCHANGED flags
     ELSE SetFlags(core_m68k_reinit(core_runflags), fails)
  /\ UNCHANGED <<osk, saves>>

(* m68k_go_frame                                                           *)
RunFrame(fails) ==
  /\ pc = "frame"
  /\ core_runflags \cap {"HALT", "PAUSE"} = {}
  /\ pc' = "finish"
  /\ SetFlags(core_runflags, fails)
  /\ UNCHANGED <<osk, saves>>

(* A bug TimerElapsed could have: it waits for one second more.            *)
TimerLate(frames) == frames \div Fps > CrashTime

TimerElapsed(frames) == frames \div Fps >= CrashTime

(* A bug CrashTimer could have: its count is lost with every frame.        *)
TimerRestarts(fails) ==
  /\ pc = "frame"
  /\ core_runflags \cap {"HALT", "PAUSE"} /= {}
  /\ pc' = "finish"
  /\ UNCHANGED <<flags, osk, saves>>

(* One more frame, and when the timer has counted CrashTime seconds it     *)
(* resets.                                                                 *)
TimerCounts(fails) ==
  IF TimerElapsed(core_crash_frames + 1)
  THEN /\ core_runflags' = core_reset_colder(core_runflags) \cup
                              (IF fails THEN {"HALT"} ELSE {})
       /\ core_crash_frames' = 0
  ELSE /\ core_crash_frames' = core_crash_frames + 1
       /\ UNCHANGED core_runflags

(* A bug CrashTimer could have: a pause starts its count over.             *)
TimerForgets(fails) ==
  /\ pc = "frame"
  /\ core_runflags \cap {"HALT", "PAUSE"} /= {}
  /\ pc' = "finish"
  /\ IF CrashTime = 0 \/ ~Halted THEN UNCHANGED flags
     ELSE IF "PAUSE" \in core_runflags THEN core_crash_frames' = 0 /\ UNCHANGED core_runflags
     ELSE TimerCounts(fails)
  /\ UNCHANGED <<osk, saves>>

(* The other branch: the timer counts while the machine is halted and not  *)
(* paused.                                                                 *)
CrashTimer(fails) ==
  /\ pc = "frame"
  /\ core_runflags \cap {"HALT", "PAUSE"} /= {}
  /\ pc' = "finish"
  /\ IF CrashTime = 0 \/ core_runflags \cap {"HALT", "PAUSE"} /= {"HALT"}
     THEN UNCHANGED flags
     ELSE TimerCounts(fails)
  /\ UNCHANGED <<osk, saves>>

(* The rest of retro_run shows the result.                                 *)
Finish ==
  /\ pc = "finish"
  /\ pc' = "idle"
  /\ UNCHANGED <<flags, osk, saves>>

-----------------------------------------------------------------------------
(* retro_init: main_init makes the first cold reset, which fails without a *)
(* TOS, and retro_load_game starts the CPU.                                *)
Init ==
  /\ pc = "idle"
  /\ core_runflags \in {{"RESET_COLD"}, {"RESET_COLD", "HALT"}}
  /\ core_crash_frames = 0
  /\ core_osk_mode = "OFF"
  /\ aux_buttons = {}
  /\ shot = {}
  /\ restores = 0

(* What the frontend does of its own accord.                               *)
Frontend ==
  \/ \E soft, fails \in BOOLEAN : retro_reset(soft, fails)
  \/ retro_serialize
  \/ \E fails \in BOOLEAN : retro_unserialize(fails)

(* retro_run from its call to its return.                                  *)
Run ==
  \/ retro_run
  \/ \E reset, fails \in BOOLEAN : ConfigUpdate(reset, fails)
  \/ \E held \in Held : \E closes, fails \in BOOLEAN : InputUpdate(held, closes, fails)
  \/ OskFlags
  \/ \E fails \in BOOLEAN : ProcessReset(fails)
  \/ \E fails \in BOOLEAN : RunFrame(fails)
  \/ \E fails \in BOOLEAN : CrashTimer(fails)
  \/ Finish

Next == Frontend \/ Run

(* A frontend keeps calling retro_run, and retro_run returns.  It need not *)
(* do anything else.                                                       *)
Spec == Init /\ [][Next]_vars /\ WF_vars(Run)

-----------------------------------------------------------------------------
TypeOK ==
  /\ pc \in {"idle", "config", "input", "osk", "reset", "frame", "finish"}
  /\ core_runflags \subseteq RunFlags
  /\ core_crash_frames \in 0..(Fps * CrashTime)
  /\ core_osk_mode \in Mode
  /\ aux_buttons \subseteq Aux
  /\ shot \subseteq State
  /\ \A s, t \in shot : s = t
  /\ restores \in 0..MaxRestores

(* The machine stands still exactly while a screen that pauses is up: the  *)
(* PAUSE flag, which retro_run does not clear while the other keyboard is  *)
(* up, and the flag of the overlay, agree with the mode when the frame is  *)
(* run, after any history of presses, resets and restored savestates.      *)
PausedAsShown ==
  pc \in {"reset", "frame", "finish"} =>
    /\ ("PAUSE" \in core_runflags) <=> Paused
    /\ ("OSK" \in core_runflags) <=> (core_osk_mode /= "OFF")

(* "halt always needs a cold reset" (core.c:1186): a halted machine starts *)
(* again by a cold reset or by a savestate, never by the reset the         *)
(* frontend asks for with the soft option on.  The button for a warm boot  *)
(* is the one exception (core_input.c:977).                                *)
HaltNeedsColdReset ==
  [][Halted /\ ~Halted' =>
       \/ "RESET_COLD" \in core_runflags \cup core_runflags'
       \/ pc = "reset" /\ "WARM_BOOT" \in aux_buttons
       \/ restores' > restores]_vars

(* While a machine is halted and the timer is on, the frames that are not  *)
(* paused count, and nothing else does: no button, pause, overlay, option  *)
(* or savestate takes anything off the count, but a reset or a restore.    *)
(* As TypeOK bounds the count, a halt outlasts CrashTime seconds of such   *)
(* frames only if it is restored.                                          *)
HaltIsTimed ==
  [][Halted /\ CrashTime > 0 =>
       \/ (core_runflags \cup core_runflags') \cap ResetFlags /= {}
       \/ restores' > restores
       \/ core_crash_frames' = core_crash_frames
                                 + (IF pc = "frame" /\ "PAUSE" \notin core_runflags THEN 1 ELSE 0)]_vars

(* A halted machine is reset when the timer is on ("this option will       *)
(* automatically reset after the chosen time", core_config.c:770), however *)
(* often the player pauses meanwhile and whatever is restored, as long as  *)
(* the machine is not left paused for ever.                                *)
HaltRecovers ==
  []<>(pc = "frame" /\ "PAUSE" \notin core_runflags) =>
    (CrashTime > 0 /\ Halted ~> ~Halted \/ core_runflags \cap ResetFlags /= {})
=============================================================================
