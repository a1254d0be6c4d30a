----------------------------- MODULE ScreenOutput -----------------------------
(***************************************************************************)
(* What the player is shown (core.c, core_osk.c, Hatari's screen.c): the   *)
(* surface the machine draws on, the overlay that is drawn over it at the  *)
(* end of retro_run and undone when the next one starts, the savestates    *)
(* that bring a picture along, and what the frontend is told of the size   *)
(* and the rate of the picture.                                            *)
(*                                                                         *)
(* A picture is abstracted to what it shows.  The flags of the overlay     *)
(* follow core_osk_mode (RunLoop, PausedAsShown), so the mode stands for   *)
(* them.  Whether the machine has halted is left open, and so is the rate  *)
(* that a savestate was made at.  The pause screen is one that darkens.    *)
(* Sound is left out.                                                      *)
(***************************************************************************)
EXTENDS Naturals

CONSTANTS
  Rates,      \* the rates of the machine's display
  ResetRates, \* those that a reset leaves it at, by its kind and its monitor
  Sizes,      \* the sizes a surface can have
  BlankSize,  \* 320 by 200, the size while there is no surface
  OldShots    \* savestates left by an earlier session

VARIABLES
  pc,                       \* the stage of retro_run that is next; "shown"
                            \* after retro_run, "idle" after another call
  core_osk_mode,
  surface,                  \* core_video_buffer and its size
  picture,                  \* what is on the ST's part of it, and its status bar
  bFullUpdate,
  screen,                   \* the surface last drawn over, and the size on record
  screen_copy,
  core_osk_screen_restore,
  core_statusbar_restore,
  core_video_changed,
  nScreenRefreshRate,       \* the rate of the machine's display
  core_rate_changed,
  core_video_fps,           \* the rate last put into a retro_system_av_info
  core_video_fps_new,
  told,                     \* the size and the rate the frontend was told
  shot,                     \* the savestate the frontend keeps, a set of one or none
  asleep,                   \* history: restored, and neither run nor reset since
  cut                       \* history: the bar may have lost the undoing of a pause

surfaces == <<surface, picture, bFullUpdate, core_video_changed>>
overlay == <<screen, screen_copy, core_osk_screen_restore>>
rate == <<nScreenRefreshRate, asleep, core_rate_changed, core_video_fps,
          core_video_fps_new>>
vars == <<pc, core_osk_mode, surfaces, overlay, core_statusbar_restore, rate, told,
          shot, cut>>

Mode == {"OFF", "PAUSE", "KEY", "KEY_SHOT"}
Paused(mode) == mode \in {"PAUSE", "KEY_SHOT"}

Address == {1, 2}
NULL == 0
Surface == [id: Address, size: Sizes]

(* "machine": what the machine shows now; "saved": what it showed when a   *)
(* restored state was made; "over": an overlay; "stale": anything else.    *)
Picture == [st: {"machine", "saved", "over", "stale"}, bar: {"clean", "dark"}]
NoCopy == [st |-> "none", bar |-> "none"]

(* A picture that goes with a savestate.                                   *)
Saved(p) == IF p.st \in {"machine", "stale"} THEN [p EXCEPT !.st = "saved"] ELSE p

Shot == [mode: Mode, size: Sizes, copy: Picture \cup {NoCopy}]

(* An earlier session left states whose status bar is not dark.            *)
ASSUME ScreenOutputAssumption ==
  /\ ResetRates \subseteq Rates
  /\ OldShots \subseteq Shot
  /\ \A s \in OldShots : s.copy.bar /= "dark"

(* A picture the machine has gone on from.                                 *)
Aged(p) == IF p.st = "machine" THEN [p EXCEPT !.st = "stale"] ELSE p

-----------------------------------------------------------------------------
(* Hatari's screen                                                         *)

(* A new surface in place of the old one, at an address that may be the    *)
(* same; core_video_update sees the blank screen in between.               *)
NewSurface(id, size, st) ==
  /\ surface' = [id |-> id, size |-> size]
  /\ picture' = [st |-> st, bar |-> "clean"]
  /\ core_video_changed' =
       (core_video_changed \/ surface.size /= BlankSize \/ size /= BlankSize)

(* Screen_ModeChanged(true)                                                *)
Screen_Forced ==
  /\ \E id \in Address, size \in Sizes : NewSurface(id, size, "stale")
  /\ bFullUpdate' = TRUE

(* Screen_Reset, part of every reset of the machine.                       *)
Screen_Reset ==
  /\ \/ UNCHANGED <<surface, picture, core_video_changed>>
     \/ \E id \in Address, size \in Sizes \ {surface.size} :
          NewSurface(id, size, "stale")
  /\ bFullUpdate' = TRUE

(* core_set_fps, called with each of the rates, and with r last.           *)
core_set_fps(rates, r) ==
  /\ core_rate_changed' = (core_rate_changed \/ rates /= {core_video_fps_new})
  /\ core_video_fps_new' = r
  /\ UNCHANGED core_video_fps

(* Video_ResetShifterTimings: part of every reset (Video_Reset) and of     *)
(* every VBL (Video_ClearOnVBL); here once for each of the rates.          *)
Video_ResetShifterTimings(rates, r) ==
  /\ nScreenRefreshRate' = r
  /\ core_set_fps(rates, r)
  /\ asleep' = FALSE

Reset_ST ==
  /\ \E r \in ResetRates : Video_ResetShifterTimings({r}, r)
  /\ Screen_Reset

(* core_reset_colder: a reset, one frame at a rate of its own, and another *)
(* reset.  The CPU may halt before the frame is drawn.                     *)
core_reset_colder ==
  /\ \/ /\ picture' \in {picture, [picture EXCEPT !.st = "machine"]}
        /\ UNCHANGED <<surface, core_video_changed>>
     \/ \E id \in Address, size \in Sizes, st \in {"stale", "machine"} :
          NewSurface(id, size, st)
  /\ bFullUpdate' = TRUE
  /\ \E r \in ResetRates, frame \in Rates : Video_ResetShifterTimings({r, frame}, r)

-----------------------------------------------------------------------------
(* The frontend, between two calls of retro_run                            *)

Between == pc \in {"idle", "shown"}

(* retro_reset closes the overlay without undoing it.                      *)
retro_reset(soft) ==
  /\ Between
  /\ pc' = "idle"
  /\ core_osk_mode' = "OFF"
  /\ IF soft THEN Reset_ST ELSE core_reset_colder
  /\ screen_copy' = Aged(screen_copy)
  /\ cut' = (cut \/ core_osk_mode = "PAUSE")
  /\ UNCHANGED <<screen, core_osk_screen_restore, core_statusbar_restore, told, shot>>

(* core_serialize, writing: the picture goes with a state that is paused.  *)
retro_serialize ==
  /\ Between
  /\ shot' = {[mode |-> core_osk_mode, size |-> screen.size,
               copy |-> IF Paused(core_osk_mode) /\ screen.id /= NULL
                        THEN Saved(screen_copy) ELSE NoCopy]}
  /\ UNCHANGED <<pc, core_osk_mode, surfaces, overlay, core_statusbar_restore, rate,
                 told, cut>>

(* core_osk_serialize_screen, reading.                                     *)
RestorePicture(s) ==
  IF Paused(s.mode)
  THEN /\ screen' = [screen EXCEPT !.size = s.size]
       /\ core_osk_screen_restore' = (s.copy /= NoCopy)
       /\ screen_copy' = IF s.copy = NoCopy THEN Aged(screen_copy) ELSE s.copy
  ELSE /\ screen_copy' = Aged(screen_copy)
       /\ UNCHANGED <<screen, core_osk_screen_restore>>

(* A bug SameScreen could have: it asks for the size alone.                *)
AnyScreen == screen.size = surface.size

(* core_osk_restore leaves a screen alone that it did not draw over.       *)
SameScreen == screen = surface /\ screen_copy /= NoCopy

(* A bug RestoreBar could have: it looks at the new mode alone.            *)
RestoreBarOfPause(s) ==
  core_statusbar_restore' = (core_statusbar_restore \/ s.mode = "PAUSE")

(* core_osk_serialize: out of the pause screen the bar is to be redrawn.   *)
RestoreBar(s) ==
  core_statusbar_restore' =
    (core_statusbar_restore \/ (core_osk_mode = "PAUSE" /\ s.mode /= "PAUSE"))

(* A bug RestoreRate could have: the rate that was due stays on record.    *)
RateForgotten ==
  /\ nScreenRefreshRate' \in Rates
  /\ asleep' = TRUE
  /\ core_rate_changed' = FALSE
  /\ UNCHANGED <<core_video_fps, core_video_fps_new>>

(* The state brings the rate it was made at along, behind the back of      *)
(* core_set_fps; core_serialize cancels a change of rate that is due, or   *)
(* that the reset has made.                                                *)
RestoreRate ==
  /\ nScreenRefreshRate' \in Rates
  /\ asleep' = TRUE
  /\ core_rate_changed' = FALSE
  /\ core_video_fps_new' = core_video_fps
  /\ UNCHANGED core_video_fps

(* core_serialize, reading: Hatari resets the machine and does not run it. *)
retro_unserialize(s) ==
  /\ Between
  /\ pc' = "idle"
  /\ core_osk_mode' = s.mode
  /\ RestoreBar(s)
  /\ Screen_Reset
  /\ RestoreRate
  /\ RestorePicture(s)
  /\ cut' = (cut \/ (core_osk_mode = "PAUSE" /\ s.mode = "PAUSE" /\ ~SameScreen'))
  /\ UNCHANGED <<told, shot>>

-----------------------------------------------------------------------------
(* The stages of retro_run                                                 *)

(* A bug Overlaid could have: only what pauses is undone.                  *)
OverlaidByPause == Paused(core_osk_mode) \/ core_osk_screen_restore

Overlaid == core_osk_mode /= "OFF" \/ core_osk_screen_restore

(* The start of retro_run.                                                 *)
Undo ==
  /\ Between
  /\ pc' = "config"
  /\ picture' = IF Overlaid /\ SameScreen THEN screen_copy ELSE picture
  /\ core_osk_screen_restore' = FALSE
  /\ UNCHANGED <<core_osk_mode, surface, bFullUpdate, core_video_changed, screen,
                 screen_copy, core_statusbar_restore, rate, told, shot, cut>>

(* core_config_update: options may ask for a new surface or for a reset.   *)
ConfigUpdate ==
  /\ pc = "config"
  /\ pc' = "input"
  /\ \/ UNCHANGED <<surfaces, screen_copy, rate>>
     \/ /\ (Screen_Forced /\ UNCHANGED rate) \/ Reset_ST
        /\ screen_copy' = Aged(screen_copy)
  /\ UNCHANGED <<core_osk_mode, screen, core_osk_screen_restore,
                 core_statusbar_restore, told, shot, cut>>

(* core_input_update: the buttons for a reset and for the status bar,      *)
(* which a paused machine does not take ...                                *)
InputButtons ==
  /\ pc = "input"
  /\ pc' = "osk"
  /\ \/ UNCHANGED <<surfaces, screen_copy, rate>>
     \/ /\ ~Paused(core_osk_mode)
        /\ (Screen_Forced /\ UNCHANGED rate) \/ Reset_ST \/ core_reset_colder
        /\ screen_copy' = Aged(screen_copy)
  /\ UNCHANGED <<core_osk_mode, screen, core_osk_screen_restore,
                 core_statusbar_restore, told, shot, cut>>

(* ... and then those that open an overlay or close it.                    *)
InputOverlay(mode) ==
  /\ pc = "osk"
  /\ pc' = "frame"
  /\ mode \in {core_osk_mode} \cup (IF core_osk_mode = "OFF" THEN Mode ELSE {"OFF"})
  /\ core_osk_mode' = mode
  /\ UNCHANGED <<surfaces, overlay, core_statusbar_restore, rate, told, shot, cut>>

(* m68k_go_frame: the machine redraws what changed, or all of it, and sets *)
(* the rate.                                                               *)
Frame ==
  /\ pc = "frame"
  /\ ~Paused(core_osk_mode)
  /\ pc' = "show"
  /\ \/ /\ picture' = IF bFullUpdate THEN [picture EXCEPT !.st = "machine"] ELSE picture
        /\ UNCHANGED <<surface, core_video_changed>>
     \/ \E id \in Address, size \in Sizes \ {surface.size} :
          NewSurface(id, size, "machine")
  /\ bFullUpdate' = FALSE
  /\ screen_copy' = Aged(screen_copy)
  /\ \E r \in Rates : Video_ResetShifterTimings({r}, r)
  /\ UNCHANGED <<core_osk_mode, screen, core_osk_screen_restore,
                 core_statusbar_restore, told, shot, cut>>

(* No frame: the machine is paused, or it has halted, and then the crash   *)
(* timer may reset it.                                                     *)
NoFrame ==
  /\ pc = "frame"
  /\ pc' = "show"
  /\ \/ UNCHANGED <<surfaces, screen_copy, rate>>
     \/ /\ ~Paused(core_osk_mode)
        /\ core_reset_colder
        /\ screen_copy' = Aged(screen_copy)
  /\ UNCHANGED <<core_osk_mode, screen, core_osk_screen_restore,
                 core_statusbar_restore, told, shot, cut>>

(* SET_SYSTEM_AV_INFO tells all of it, SET_GEOMETRY the size alone, though *)
(* both take the new rate on record (retro_get_system_av_info).            *)
Tell ==
  LET changed == core_rate_changed \/ core_video_changed
  IN /\ told' = [size |-> IF changed THEN surface.size ELSE told.size,
                  rate |-> IF core_rate_changed THEN core_video_fps_new ELSE told.rate]
     /\ core_video_fps' = IF changed THEN core_video_fps_new ELSE core_video_fps
     /\ core_rate_changed' = FALSE
     /\ core_video_changed' = FALSE
     /\ UNCHANGED <<nScreenRefreshRate, asleep, core_video_fps_new>>

(* core_osk_render over p: a copy is kept, and the pause screen darkens    *)
(* the status bar too.  ("refresh screen if reloaded": a restore that is   *)
(* still due would come first.)                                            *)
core_osk_render(p) ==
  LET under == IF core_osk_screen_restore /\ SameScreen THEN screen_copy ELSE p
  IN /\ screen' = surface
     /\ screen_copy' = under
     /\ picture' = [st |-> "over",
                    bar |-> IF core_osk_mode = "PAUSE" THEN "dark" ELSE under.bar]
     /\ core_osk_screen_restore' = FALSE

(* The end of retro_run.                                                   *)
Show ==
  /\ pc = "show"
  /\ pc' = "shown"
  /\ Tell
  /\ core_statusbar_restore' = FALSE
  /\ LET p == IF core_statusbar_restore THEN [picture EXCEPT !.bar = "clean"] ELSE picture
     IN IF core_osk_mode = "OFF" THEN picture' = p /\ UNCHANGED overlay
                                 ELSE core_osk_render(p)
  /\ UNCHANGED <<core_osk_mode, surface, bFullUpdate, shot, cut>>

-----------------------------------------------------------------------------
Init ==
  /\ pc = "idle"
  /\ core_osk_mode = "OFF"
  /\ surface \in [id: {1}, size: Sizes]
  /\ picture = [st |-> "stale", bar |-> "clean"]
  /\ bFullUpdate = TRUE
  /\ screen \in [id: {NULL}, size: {surface.size}]
  /\ screen_copy = NoCopy
  /\ core_osk_screen_restore = FALSE
  /\ core_statusbar_restore = FALSE
  /\ core_video_changed = FALSE
  /\ core_rate_changed = FALSE
  /\ nScreenRefreshRate \in ResetRates
  /\ core_video_fps = nScreenRefreshRate
  /\ core_video_fps_new = nScreenRefreshRate
  /\ told = [size |-> surface.size, rate |-> nScreenRefreshRate]
  /\ shot = {}
  /\ asleep = FALSE
  /\ cut = FALSE

Next ==
  \/ \E soft \in BOOLEAN : retro_reset(soft)
  \/ retro_serialize
  \/ \E s \in shot \cup OldShots : retro_unserialize(s)
  \/ Undo
  \/ ConfigUpdate
  \/ InputButtons
  \/ \E mode \in Mode : InputOverlay(mode)
  \/ Frame
  \/ NoFrame
  \/ Show

Spec == Init /\ [][Next]_vars

-----------------------------------------------------------------------------
(* Every variable keeps to its type.                                         *)
TypeOK ==
  /\ pc \in {"idle", "config", "input", "osk", "frame", "show", "shown"}
  /\ core_osk_mode \in Mode
  /\ surface \in Surface
  /\ picture \in Picture
  /\ screen \in [id: Address \cup {NULL}, size: Sizes]
  /\ screen_copy \in Picture \cup {NoCopy}
  /\ {nScreenRefreshRate, core_video_fps, core_video_fps_new} \subseteq Rates
  /\ told \in [size: Sizes, rate: Rates]
  /\ shot \subseteq Shot

(* The overlay is undone: without one the picture on the screen is what the*)
(* machine shows now, unless it is to redraw all of it with its next       *)
(* frame, whatever resets, options and savestates came between the drawing *)
(* of the overlay and its undoing (core.c:1233).                           *)
PictureRestored ==
  pc = "shown" /\ core_osk_mode = "OFF" /\ ~bFullUpdate => picture.st = "machine"

(* "If restoring out of pause, we need to redraw the status bar"           *)
(* (core_osk.c:692): the bar that the pause screen darkened is never left  *)
(* dark, except by a reset that closes the pause screen and by a state of  *)
(* the pause screen whose picture does not fit (cut).                      *)
BarRestored ==
  pc = "shown" /\ core_osk_mode /= "PAUSE" /\ ~cut => picture.bar = "clean"

(* When retro_run returns, the frontend has been told the size of what it  *)
(* is shown and the rate at which the machine shows it, although resets    *)
(* change the rate outside retro_run, and a restored savestate cancels a   *)
(* change that is due (core.c:883) and brings a rate of its own along.     *)
(* The rate of a restored machine that is paused, or that has halted, is   *)
(* told once it is run or reset.                                           *)
FrontendIsTold ==
  pc = "shown" =>
    /\ told.size = surface.size
    /\ told.rate = nScreenRefreshRate \/ asleep

(* "Refresh screen if reloaded" (core_osk.c:630): the picture that came    *)
(* with a restored state of a paused machine, if it fits, is on the screen *)
(* before the note that it is due is dropped, or is put there by the       *)
(* drawing of the overlay.                                                 *)
ReloadedPauseShown ==
  [][ /\ core_osk_screen_restore /\ ~core_osk_screen_restore'
      /\ Paused(core_osk_mode) /\ pc' /= "idle"
      /\ screen.size = surface.size
      => picture'.st = "saved" \/ pc = "show"]_vars
=============================================================================
