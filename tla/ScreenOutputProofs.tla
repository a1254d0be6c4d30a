-------------------------- MODULE ScreenOutputProofs --------------------------
(***************************************************************************)
(* Proofs about ScreenOutput: its types, that the frontend is told of what *)
(* it is shown, that the overlay is undone and that the status bar comes   *)
(* back.  Each property has a strengthening of its own, since they do not  *)
(* depend on each other but for the types and the note that a picture is   *)
(* due (RestoreDone).                                                      *)
(***************************************************************************)
EXTENDS ScreenOutput, TLAPS

InRun == pc \in {"config", "input", "osk", "frame", "show"}

-----------------------------------------------------------------------------
(* What the operators of the screen do to the types.                       *)

LEMMA AgedType ==
  ASSUME NEW p \in Picture \cup {NoCopy}
  PROVE  Aged(p) \in Picture \cup {NoCopy} /\ Aged(p).bar = p.bar
BY SMT DEF Aged, Picture, NoCopy

LEMMA SavedType ==
  ASSUME NEW p \in Picture \cup {NoCopy}
  PROVE  Saved(p) \in Picture \cup {NoCopy} /\ Saved(p).bar = p.bar
BY SMT DEF Saved, Picture, NoCopy

LEMMA NewSurfaceType ==
  ASSUME NEW id \in Address, NEW size \in Sizes, NEW st \in {"machine", "stale"},
         NewSurface(id, size, st)
  PROVE  surface' \in Surface /\ picture' \in Picture /\ picture'.bar = "clean"
BY SMT DEF NewSurface, Surface, Picture

(* A reset or a forced change leaves a screen of the type and darkens      *)
(* nothing.                                                                *)
LEMMA ScreenForcedEffect ==
  ASSUME TypeOK, Screen_Forced
  PROVE  surface' \in Surface /\ picture' \in Picture /\ picture'.bar = "clean"
BY NewSurfaceType, Zenon DEF Screen_Forced

LEMMA ScreenResetEffect ==
  ASSUME TypeOK, Screen_Reset
  PROVE  /\ surface' \in Surface /\ picture' \in Picture
         /\ picture'.bar = "clean" \/ picture'.bar = picture.bar
<1>1. CASE UNCHANGED <<surface, picture, core_video_changed>>
  BY <1>1, SMT DEF TypeOK
<1>2. CASE \E id \in Address, size \in Sizes \ {surface.size} :
             NewSurface(id, size, "stale")
  <2>1. PICK id \in Address, size \in Sizes \ {surface.size} :
          NewSurface(id, size, "stale")
    BY <1>2
  <2> QED  BY <2>1, NewSurfaceType
<1> QED  BY <1>1, <1>2, Zenon DEF Screen_Reset

LEMMA ColderEffect ==
  ASSUME TypeOK, core_reset_colder
  PROVE  /\ surface' \in Surface /\ picture' \in Picture
         /\ picture'.bar = "clean" \/ picture'.bar = picture.bar
<1>1. CASE UNCHANGED surface
           /\ picture' \in {picture, [picture EXCEPT !.st = "machine"]}
  BY <1>1, SMT DEF TypeOK, Picture
<1>2. CASE \E id \in Address, size \in Sizes, st \in {"stale", "machine"} :
             NewSurface(id, size, st)
  BY <1>2, NewSurfaceType
<1> QED  BY <1>1, <1>2, SMT DEF core_reset_colder

(* The rates keep their types whatever is done to them.                    *)
RatesOK == {nScreenRefreshRate, core_video_fps, core_video_fps_new} \subseteq Rates

LEMMA TimingsTypes ==
  ASSUME RatesOK, NEW r \in Rates, NEW rates, Video_ResetShifterTimings(rates, r)
  PROVE  RatesOK'
BY SMT DEF RatesOK, Video_ResetShifterTimings, core_set_fps

LEMMA ResetTypes ==
  ASSUME RatesOK, Reset_ST \/ core_reset_colder
  PROVE  RatesOK'
<1>1. ResetRates \subseteq Rates
  BY ScreenOutputAssumption DEF ScreenOutputAssumption
<1>2. PICK r \in ResetRates, rates \in SUBSET (ResetRates \cup Rates) :
        Video_ResetShifterTimings(rates, r)
  BY Zenon DEF Reset_ST, core_reset_colder
<1> QED  BY <1>1, <1>2, TimingsTypes

LEMMA RatesStay ==
  ASSUME RatesOK, UNCHANGED rate
  PROVE  RatesOK'
BY SMT DEF RatesOK, rate

-----------------------------------------------------------------------------
(* Types                                                                   *)

LEMMA TypesInit == ScreenOutputAssumption /\ Init => TypeOK
BY SMT DEF ScreenOutputAssumption, Init, TypeOK, Surface, Picture, Mode, Address, NULL

LEMMA TypesStep ==
  ASSUME ScreenOutputAssumption, TypeOK, [Next]_vars
  PROVE  TypeOK'
<1> USE DEF TypeOK
<1>0. RatesOK
  BY DEF RatesOK
<1>1. ASSUME NEW soft \in BOOLEAN, retro_reset(soft)
      PROVE  TypeOK'
  <2>1. surface' \in Surface /\ picture' \in Picture /\ RatesOK'
    <3>1. CASE soft
      <4>1. Reset_ST /\ Screen_Reset
        BY <1>1, <3>1 DEF retro_reset, Reset_ST
      <4> QED  BY <1>0, <4>1, ScreenResetEffect, ResetTypes
    <3>2. CASE ~soft
      <4>1. core_reset_colder
        BY <1>1, <3>2 DEF retro_reset
      <4> QED  BY <1>0, <4>1, ColderEffect, ResetTypes
    <3> QED  BY <3>1, <3>2
  <2>2. screen_copy' \in Picture \cup {NoCopy}
    BY <1>1, AgedType DEF retro_reset
  <2> QED  BY <1>1, <2>1, <2>2, SMT DEF retro_reset, Mode, RatesOK
<1>2. CASE retro_serialize
  <2>1. shot' \subseteq Shot
    <3>1. Saved(screen_copy) \in Picture \cup {NoCopy}
      BY SavedType
    <3>2. NoCopy \in Picture \cup {NoCopy}
      OBVIOUS
    <3> HIDE DEF Saved, NoCopy
    <3> QED  BY <1>2, <3>1, <3>2, SMT DEF retro_serialize, Shot
  <2> QED  BY <1>2, <2>1, SMT DEF retro_serialize, surfaces, overlay, rate
<1>3. ASSUME NEW s \in shot \cup OldShots, retro_unserialize(s)
      PROVE  TypeOK'
  <2>1. s \in Shot
    BY DEF ScreenOutputAssumption
  <2>2. surface' \in Surface /\ picture' \in Picture
    BY <1>3, ScreenResetEffect DEF retro_unserialize
  <2>3. screen_copy' \in Picture \cup {NoCopy}
    <3>1. Aged(screen_copy) \in Picture \cup {NoCopy} /\ s.copy \in Picture \cup {NoCopy}
      BY <2>1, AgedType DEF Shot
    <3> QED  BY <1>3, <3>1, Zenon DEF retro_unserialize, RestorePicture
  <2>4. screen' \in [id: Address \cup {NULL}, size: Sizes]
    BY <1>3, <2>1, SMT DEF retro_unserialize, RestorePicture, Shot
  <2>5. RatesOK'
    BY <1>0, <1>3, SMT DEF retro_unserialize, RestoreRate, RatesOK
  <2> QED  BY <1>3, <2>1, <2>2, <2>3, <2>4, <2>5, SMT DEF retro_unserialize, RatesOK, Shot
<1>4. CASE Undo
  <2>1. SameScreen => screen_copy \in Picture
    BY DEF SameScreen
  <2> QED  BY <1>4, <2>1, SMT DEF Undo, rate
<1>5. CASE ConfigUpdate
  <2>1. surface' \in Surface /\ picture' \in Picture
    BY <1>5, ScreenForcedEffect, ScreenResetEffect, Zenon DEF ConfigUpdate, Reset_ST, surfaces
  <2>2. screen_copy' \in Picture \cup {NoCopy}
    BY <1>5, AgedType, Zenon DEF ConfigUpdate
  <2>3. RatesOK'
    BY <1>0, <1>5, ResetTypes, RatesStay, Zenon DEF ConfigUpdate, rate
  <2> QED  BY <1>5, <2>1, <2>2, <2>3, SMT DEF ConfigUpdate, RatesOK
<1>6. CASE InputButtons
  <2>1. surface' \in Surface /\ picture' \in Picture
    BY <1>6, ScreenForcedEffect, ScreenResetEffect, ColderEffect, Zenon
       DEF InputButtons, Reset_ST, surfaces
  <2>2. screen_copy' \in Picture \cup {NoCopy}
    BY <1>6, AgedType, Zenon DEF InputButtons
  <2>3. RatesOK'
    BY <1>0, <1>6, ResetTypes, RatesStay, Zenon DEF InputButtons, rate
  <2> QED  BY <1>6, <2>1, <2>2, <2>3, SMT DEF InputButtons, RatesOK
<1>11. ASSUME NEW mode \in Mode, InputOverlay(mode)
       PROVE  TypeOK'
  BY <1>11, SMT DEF InputOverlay, surfaces, overlay, rate
<1>7. CASE Frame
  <2>1. surface' \in Surface /\ picture' \in Picture
    <3>1. CASE UNCHANGED surface
               /\ picture' = IF bFullUpdate THEN [picture EXCEPT !.st = "machine"] ELSE picture
      BY <3>1, SMT DEF Picture
    <3>2. CASE \E id \in Address, size \in Sizes \ {surface.size} :
                 NewSurface(id, size, "machine")
      <4>1. PICK id \in Address, size \in Sizes \ {surface.size} :
              NewSurface(id, size, "machine")
        BY <3>2
      <4> QED  BY <4>1, NewSurfaceType
    <3> QED  BY <1>7, <3>1, <3>2, SMT DEF Frame
  <2>2. screen_copy' \in Picture \cup {NoCopy}
    BY <1>7, AgedType DEF Frame
  <2>3. RatesOK'
    BY <1>0, <1>7, TimingsTypes, Zenon DEF Frame
  <2> QED  BY <1>7, <2>1, <2>2, <2>3, SMT DEF Frame, RatesOK
<1>8. CASE NoFrame
  <2>1. surface' \in Surface /\ picture' \in Picture
    BY <1>8, ColderEffect, Zenon DEF NoFrame, surfaces
  <2>2. screen_copy' \in Picture \cup {NoCopy}
    BY <1>8, AgedType, Zenon DEF NoFrame
  <2>3. RatesOK'
    BY <1>0, <1>8, ResetTypes, RatesStay, Zenon DEF NoFrame, rate
  <2> QED  BY <1>8, <2>1, <2>2, <2>3, SMT DEF NoFrame, RatesOK
<1>9. CASE Show
  <2> DEFINE p == IF core_statusbar_restore THEN [picture EXCEPT !.bar = "clean"] ELSE picture
  <2>1. p \in Picture
    BY SMT DEF Picture
  <2>2. SameScreen => screen_copy \in Picture
    BY DEF SameScreen
  <2>3. picture' \in Picture /\ screen_copy' \in Picture \cup {NoCopy}
        /\ screen' \in [id: Address \cup {NULL}, size: Sizes]
    <3>1. CASE core_osk_mode = "OFF"
      BY <1>9, <2>1, <3>1, SMT DEF Show, overlay
    <3>2. CASE core_osk_mode /= "OFF"
      <4>1. core_osk_render(p)
        BY <1>9, <3>2 DEF Show
      <4> HIDE DEF p
      <4> QED  BY <2>1, <2>2, <4>1, SMT DEF core_osk_render, Picture, Surface
    <3> QED  BY <3>1, <3>2
  <2>4. told' \in [size: Sizes, rate: Rates] /\ RatesOK'
    BY <1>9, SMT DEF Show, Tell, Surface, RatesOK
  <2> QED  BY <1>9, <2>3, <2>4, SMT DEF Show, RatesOK
<1>10. CASE UNCHANGED vars
  BY <1>10, SMT DEF vars, surfaces, overlay, rate
<1> QED  BY <1>1, <1>2, <1>3, <1>4, <1>5, <1>6, <1>7, <1>8, <1>9, <1>10, <1>11,
        Zenon DEF Next

(* Every variable keeps its type.                                          *)
THEOREM TypesHold == Spec => []TypeOK
<1>1. Init => TypeOK
  BY TypesInit, ScreenOutputAssumption DEF ScreenOutputAssumption
<1>2. TypeOK /\ [Next]_vars => TypeOK'
  BY TypesStep, ScreenOutputAssumption DEF ScreenOutputAssumption
<1> QED  BY <1>1, <1>2, PTL DEF Spec

-----------------------------------------------------------------------------
(* What the frontend is told: a difference between what it was told and    *)
(* what is the case is on record until retro_run tells it.  The rate that  *)
(* was last put into a retro_system_av_info is the one it was told, though *)
(* SET_GEOMETRY puts one there without telling it; that of the machine is  *)
(* on record too, unless it came with a savestate.                         *)

RateOnRecord ==
  /\ core_video_fps = told.rate
  /\ core_rate_changed \/ core_video_fps_new = told.rate
  /\ asleep \/ nScreenRefreshRate = core_video_fps_new
SizeOnRecord == core_video_changed \/ told.size = surface.size
ToldInv == RateOnRecord /\ SizeOnRecord /\ FrontendIsTold

LEMMA TimingsOnRecord ==
  ASSUME RateOnRecord, told' = told, NEW rates, NEW r \in rates,
         Video_ResetShifterTimings(rates, r)
  PROVE  RateOnRecord'
<1>1. /\ nScreenRefreshRate' = r /\ core_video_fps_new' = r
      /\ core_video_fps' = core_video_fps
      /\ core_rate_changed' = (core_rate_changed \/ rates /= {core_video_fps_new})
  BY DEF Video_ResetShifterTimings, core_set_fps
<1>2. core_rate_changed' \/ (core_video_fps_new = told.rate /\ r = core_video_fps_new)
  <2>1. CASE rates = {core_video_fps_new}
    <3>1. r = core_video_fps_new
      BY <2>1
    <3>2. core_rate_changed \/ core_video_fps_new = told.rate
      BY Zenon DEF RateOnRecord
    <3> QED  BY <1>1, <3>1, <3>2, Zenon
  <2>2. CASE rates /= {core_video_fps_new}
    BY <1>1, <2>2, Zenon
  <2> QED  BY <2>1, <2>2, Zenon
<1> QED  BY <1>1, <1>2, Zenon DEF RateOnRecord

LEMMA RateStays ==
  ASSUME RateOnRecord, told' = told, UNCHANGED rate
  PROVE  RateOnRecord'
BY Zenon DEF RateOnRecord, rate

LEMMA NewSizeOnRecord ==
  ASSUME SizeOnRecord, told' = told, NEW id, NEW size, NEW st, NewSurface(id, size, st)
  PROVE  SizeOnRecord'
<1>1. surface'.size = size
  BY DEF NewSurface
<1>2. CASE core_video_changed'
  BY <1>2 DEF SizeOnRecord
<1>3. CASE ~core_video_changed'
  <2>1. ~core_video_changed /\ surface.size = BlankSize /\ size = BlankSize
    BY <1>3, Zenon DEF NewSurface
  <2> QED  BY <1>1, <2>1 DEF SizeOnRecord
<1> QED  BY <1>2, <1>3

LEMMA ForcedOnRecord ==
  ASSUME SizeOnRecord, told' = told, Screen_Forced
  PROVE  SizeOnRecord'
<1>1. PICK id \in Address, size \in Sizes : NewSurface(id, size, "stale")
  BY DEF Screen_Forced
<1> QED  BY <1>1, NewSizeOnRecord

LEMMA ResetOnRecord ==
  ASSUME SizeOnRecord, told' = told, Screen_Reset
  PROVE  SizeOnRecord'
<1>1. CASE UNCHANGED <<surface, picture, core_video_changed>>
  BY <1>1, Zenon DEF SizeOnRecord
<1>2. CASE \E id \in Address, size \in Sizes \ {surface.size} :
             NewSurface(id, size, "stale")
  <2>1. PICK id \in Address, size \in Sizes \ {surface.size} :
          NewSurface(id, size, "stale")
    BY <1>2
  <2> QED  BY <2>1, NewSizeOnRecord
<1> QED  BY <1>1, <1>2, Zenon DEF Screen_Reset

LEMMA ResetRateOnRecord ==
  ASSUME RateOnRecord, told' = told, Reset_ST \/ core_reset_colder
  PROVE  RateOnRecord'
<1>1. CASE Reset_ST
  <2>1. PICK r \in ResetRates : Video_ResetShifterTimings({r}, r)
    BY <1>1 DEF Reset_ST
  <2> QED  BY <2>1, TimingsOnRecord
<1>2. CASE core_reset_colder
  <2>1. PICK r \in ResetRates, frame \in Rates : Video_ResetShifterTimings({r, frame}, r)
    BY <1>2 DEF core_reset_colder
  <2> QED  BY <2>1, TimingsOnRecord
<1> QED  BY <1>1, <1>2

LEMMA ColderOnRecord ==
  ASSUME SizeOnRecord, told' = told, core_reset_colder
  PROVE  SizeOnRecord'
<1>1. CASE UNCHANGED <<surface, core_video_changed>>
  BY <1>1, Zenon DEF SizeOnRecord
<1>2. CASE \E id \in Address, size \in Sizes, st \in {"stale", "machine"} :
             NewSurface(id, size, st)
  BY <1>2, NewSizeOnRecord
<1> QED  BY <1>1, <1>2, Zenon DEF core_reset_colder

LEMMA ToldStep ==
  ASSUME ToldInv, [Next]_vars
  PROVE  ToldInv'
<1> USE DEF ToldInv
<1> DEFINE Record == RateOnRecord /\ SizeOnRecord
<1>1. ASSUME NEW soft \in BOOLEAN, retro_reset(soft)
      PROVE  ToldInv'
  <2>1. told' = told /\ pc' = "idle"
    BY <1>1 DEF retro_reset
  <2>2. Record'
    <3>1. CASE soft
      <4>1. Reset_ST /\ Screen_Reset
        BY <1>1, <3>1 DEF retro_reset, Reset_ST
      <4> QED  BY <2>1, <4>1, ResetOnRecord, ResetRateOnRecord
    <3>2. CASE ~soft
      <4>1. core_reset_colder
        BY <1>1, <3>2 DEF retro_reset
      <4> QED  BY <2>1, <4>1, ColderOnRecord, ResetRateOnRecord
    <3> QED  BY <3>1, <3>2
  <2> QED  BY <2>1, <2>2 DEF FrontendIsTold
<1>2. CASE retro_serialize
  BY <1>2, Zenon DEF retro_serialize, surfaces, rate, RateOnRecord, SizeOnRecord,
     FrontendIsTold
<1>3. ASSUME NEW s \in shot \cup OldShots, retro_unserialize(s)
      PROVE  ToldInv'
  <2>1. told' = told /\ pc' = "idle" /\ Screen_Reset /\ RestoreRate
    BY <1>3 DEF retro_unserialize
  <2>2. RateOnRecord'
    BY <2>1, Zenon DEF RestoreRate, RateOnRecord
  <2> QED  BY <2>1, <2>2, ResetOnRecord DEF FrontendIsTold
<1>4. CASE Undo
  <2>1. pc' = "config" /\ UNCHANGED <<surface, core_video_changed, rate, told>>
    BY <1>4 DEF Undo
  <2> QED  BY <2>1, Zenon DEF rate, RateOnRecord, SizeOnRecord, FrontendIsTold
<1>5. CASE ConfigUpdate
  <2>1. told' = told /\ pc' = "input"
    BY <1>5 DEF ConfigUpdate
  <2>2. SizeOnRecord'
    <3>1. CASE UNCHANGED <<surfaces, screen_copy, rate>>
      BY <2>1, <3>1, Zenon DEF surfaces, SizeOnRecord
    <3>2. CASE Screen_Forced \/ Reset_ST
      BY <2>1, <3>2, ForcedOnRecord, ResetOnRecord DEF Reset_ST
    <3> QED  BY <1>5, <3>1, <3>2 DEF ConfigUpdate
  <2>3. RateOnRecord'
    BY <1>5, <2>1, ResetRateOnRecord, RateStays, Zenon DEF ConfigUpdate, rate
  <2> QED  BY <2>1, <2>2, <2>3 DEF FrontendIsTold
<1>6. CASE InputButtons
  <2>1. told' = told /\ pc' = "osk"
    BY <1>6 DEF InputButtons
  <2>2. SizeOnRecord'
    <3>1. CASE UNCHANGED <<surfaces, screen_copy, rate>>
      BY <2>1, <3>1, Zenon DEF surfaces, SizeOnRecord
    <3>2. CASE Screen_Forced \/ Reset_ST
      BY <2>1, <3>2, ForcedOnRecord, ResetOnRecord DEF Reset_ST
    <3>3. CASE core_reset_colder
      BY <2>1, <3>3, ColderOnRecord
    <3> QED  BY <1>6, <3>1, <3>2, <3>3 DEF InputButtons
  <2>3. RateOnRecord'
    BY <1>6, <2>1, ResetRateOnRecord, RateStays, Zenon DEF InputButtons, rate
  <2> QED  BY <2>1, <2>2, <2>3 DEF FrontendIsTold
<1>11. ASSUME NEW mode \in Mode, InputOverlay(mode)
       PROVE  ToldInv'
  <2>1. pc' = "frame" /\ UNCHANGED <<surfaces, rate, told>>
    BY <1>11 DEF InputOverlay
  <2> QED  BY <2>1, RateStays, Zenon DEF surfaces, SizeOnRecord, FrontendIsTold
<1>7. CASE Frame
  <2>1. told' = told /\ pc' = "show"
    BY <1>7 DEF Frame
  <2>2. SizeOnRecord'
    <3>1. CASE UNCHANGED <<surface, core_video_changed>>
      BY <2>1, <3>1, Zenon DEF SizeOnRecord
    <3>2. CASE \E id \in Address, size \in Sizes \ {surface.size} :
                 NewSurface(id, size, "machine")
      <4>1. PICK id \in Address, size \in Sizes \ {surface.size} :
              NewSurface(id, size, "machine")
        BY <3>2
      <4> QED  BY <2>1, <4>1, NewSizeOnRecord
    <3> QED  BY <1>7, <3>1, <3>2, Zenon DEF Frame
  <2>3. RateOnRecord'
    <3>1. PICK r \in Rates : Video_ResetShifterTimings({r}, r)
      BY <1>7 DEF Frame
    <3> QED  BY <2>1, <3>1, TimingsOnRecord
  <2> QED  BY <2>1, <2>2, <2>3 DEF FrontendIsTold
<1>8. CASE NoFrame
  <2>1. told' = told /\ pc' = "show"
    BY <1>8 DEF NoFrame
  <2>2. SizeOnRecord'
    <3>1. CASE UNCHANGED <<surfaces, screen_copy, rate>>
      BY <2>1, <3>1, Zenon DEF surfaces, SizeOnRecord
    <3>2. CASE core_reset_colder
      BY <2>1, <3>2, ColderOnRecord
    <3> QED  BY <1>8, <3>1, <3>2 DEF NoFrame
  <2>3. RateOnRecord'
    BY <1>8, <2>1, ResetRateOnRecord, RateStays, Zenon DEF NoFrame, rate
  <2> QED  BY <2>1, <2>2, <2>3 DEF FrontendIsTold
<1>9. CASE Show
  <2>1. Tell /\ surface' = surface
    BY <1>9 DEF Show
  <2>2. told'.size = surface.size
    BY <2>1, Zenon DEF Tell, SizeOnRecord
  <2>3. told'.rate = core_video_fps_new
    BY <2>1, Zenon DEF Tell, RateOnRecord
  <2>4. core_video_fps' = core_video_fps_new
    BY <2>1, Zenon DEF Tell, RateOnRecord
  <2>5. UNCHANGED <<nScreenRefreshRate, asleep, core_video_fps_new>>
    BY <2>1 DEF Tell
  <2>6. RateOnRecord'
    BY <2>3, <2>4, <2>5, Zenon DEF RateOnRecord
  <2>7. FrontendIsTold'
    BY <2>1, <2>2, <2>3, <2>5, Zenon DEF RateOnRecord, FrontendIsTold
  <2> QED  BY <2>1, <2>2, <2>6, <2>7 DEF SizeOnRecord
<1>10. CASE UNCHANGED vars
  BY <1>10, Zenon DEF vars, surfaces, rate, RateOnRecord, SizeOnRecord, FrontendIsTold
<1> QED  BY <1>1, <1>2, <1>3, <1>4, <1>5, <1>6, <1>7, <1>8, <1>9, <1>10, <1>11,
        Zenon DEF Next

(* When retro_run returns the frontend knows the size and the rate of what *)
(* it is shown.                                                            *)
THEOREM ToldWhatIsShown == Spec => []FrontendIsTold
<1>1. Init => ToldInv
  <2> SUFFICES ASSUME Init PROVE ToldInv
    OBVIOUS
  <2>1. told.size = surface.size /\ told.rate = core_video_fps
    BY DEF Init
  <2>2. core_video_fps_new = core_video_fps /\ nScreenRefreshRate = core_video_fps
    BY DEF Init
  <2> QED  BY <2>1, <2>2, Zenon DEF ToldInv, RateOnRecord, SizeOnRecord, FrontendIsTold
<1>2. ToldInv /\ [Next]_vars => ToldInv'
  BY ToldStep
<1>3. ToldInv => FrontendIsTold
  BY DEF ToldInv
<1> QED  BY <1>1, <1>2, <1>3, PTL DEF Spec

-----------------------------------------------------------------------------
(* The overlay is undone.  Unless the machine is to redraw everything, its *)
(* picture is on the screen during retro_run, and between two of them      *)
(* either there or in the copy that can be put back.                       *)

RestoreDone == pc /= "idle" => ~core_osk_screen_restore
RedrawAfterCall == pc = "idle" => bFullUpdate
PictureInRun == InRun /\ ~bFullUpdate => picture.st = "machine"
CopyKept ==
  pc = "shown" /\ core_osk_mode /= "OFF" /\ ~bFullUpdate =>
    screen = surface /\ screen_copy.st = "machine"
OverlayInv == RedrawAfterCall /\ PictureInRun /\ CopyKept /\ PictureRestored

LEMMA RestoreDoneStep ==
  ASSUME RestoreDone, [Next]_vars
  PROVE  RestoreDone'
<1> USE DEF RestoreDone
<1>1. CASE \E soft \in BOOLEAN : retro_reset(soft)
  BY <1>1 DEF retro_reset
<1>2. CASE retro_serialize
  BY <1>2, Zenon DEF retro_serialize, overlay
<1>3. CASE \E s \in shot \cup OldShots : retro_unserialize(s)
  BY <1>3 DEF retro_unserialize
<1>4. CASE Undo
  BY <1>4 DEF Undo
<1>5. CASE ConfigUpdate
  <2>1. pc = "config" /\ core_osk_screen_restore' = core_osk_screen_restore
    BY <1>5 DEF ConfigUpdate
  <2> QED  BY <2>1
<1>6. CASE InputButtons
  <2>1. pc = "input" /\ core_osk_screen_restore' = core_osk_screen_restore
    BY <1>6 DEF InputButtons
  <2> QED  BY <2>1
<1>11. ASSUME NEW mode \in Mode, InputOverlay(mode)
       PROVE  RestoreDone'
  <2>1. pc = "osk" /\ core_osk_screen_restore' = core_osk_screen_restore
    BY <1>11 DEF InputOverlay, overlay
  <2> QED  BY <2>1
<1>7. CASE Frame
  BY <1>7, Zenon DEF Frame
<1>8. CASE NoFrame
  BY <1>8, Zenon DEF NoFrame
<1>9. CASE Show
  BY <1>9, Zenon DEF Show, overlay, core_osk_render
<1>10. CASE UNCHANGED vars
  BY <1>10, Zenon DEF vars, overlay
<1> QED  BY <1>1, <1>2, <1>3, <1>4, <1>5, <1>6, <1>7, <1>8, <1>9, <1>10, <1>11
        DEF Next

LEMMA OverlayStep ==
  ASSUME TypeOK, RestoreDone, OverlayInv, [Next]_vars
  PROVE  OverlayInv'
<1> USE DEF OverlayInv, RedrawAfterCall, PictureInRun, CopyKept, PictureRestored, InRun
<1>1. ASSUME NEW soft \in BOOLEAN, retro_reset(soft)
      PROVE  OverlayInv'
  <2>1. pc' = "idle" /\ bFullUpdate'
    BY <1>1, Zenon DEF retro_reset, Reset_ST, Screen_Reset, core_reset_colder
  <2> QED  BY <2>1
<1>2. CASE retro_serialize
  BY <1>2, Zenon DEF retro_serialize, surfaces, overlay
<1>3. ASSUME NEW s \in shot \cup OldShots, retro_unserialize(s)
      PROVE  OverlayInv'
  <2>1. pc' = "idle" /\ bFullUpdate'
    BY <1>3, Zenon DEF retro_unserialize, Screen_Reset
  <2> QED  BY <2>1
<1>4. CASE Undo
  <2>1. Between /\ pc' = "config" /\ bFullUpdate' = bFullUpdate
        /\ picture' = IF Overlaid /\ SameScreen THEN screen_copy ELSE picture
    BY <1>4 DEF Undo
  <2>2. ASSUME ~bFullUpdate PROVE picture'.st = "machine"
    <3>1. pc = "shown" /\ ~core_osk_screen_restore
      BY <2>1, <2>2 DEF Between, RestoreDone
    <3>2. CASE core_osk_mode = "OFF"
      BY <2>1, <2>2, <3>1, <3>2 DEF Overlaid
    <3>3. CASE core_osk_mode /= "OFF"
      <4>1. screen = surface /\ screen_copy.st = "machine"
        BY <2>2, <3>1, <3>3
      <4>2. screen_copy /= NoCopy
        BY <4>1 DEF NoCopy
      <4> QED  BY <2>1, <3>3, <4>1, <4>2 DEF Overlaid, SameScreen
    <3> QED  BY <3>2, <3>3
  <2> QED  BY <2>1, <2>2
<1>5. CASE ConfigUpdate
  <2>1. pc = "config" /\ pc' = "input"
    BY <1>5 DEF ConfigUpdate
  <2>2. CASE UNCHANGED <<surfaces, screen_copy, rate>>
    BY <2>1, <2>2, Zenon DEF surfaces
  <2>3. CASE bFullUpdate'
    BY <2>1, <2>3
  <2> QED  BY <1>5, <2>2, <2>3, Zenon DEF ConfigUpdate, Screen_Forced, Reset_ST, Screen_Reset
<1>6. CASE InputButtons
  <2>1. pc = "input" /\ pc' = "osk"
    BY <1>6 DEF InputButtons
  <2>2. CASE UNCHANGED <<surfaces, screen_copy, rate>>
    BY <2>1, <2>2, Zenon DEF surfaces
  <2>3. CASE bFullUpdate'
    BY <2>1, <2>3
  <2> QED  BY <1>6, <2>2, <2>3, Zenon DEF InputButtons, Screen_Forced, Reset_ST, Screen_Reset,
              core_reset_colder
<1>11. ASSUME NEW mode \in Mode, InputOverlay(mode)
       PROVE  OverlayInv'
  <2>1. pc = "osk" /\ pc' = "frame" /\ UNCHANGED surfaces
    BY <1>11 DEF InputOverlay
  <2> QED  BY <2>1, Zenon DEF surfaces
<1>7. CASE Frame
  <2>1. pc = "frame" /\ pc' = "show"
    BY <1>7 DEF Frame
  <2>2. picture'.st = "machine"
    <3>1. CASE picture' = IF bFullUpdate THEN [picture EXCEPT !.st = "machine"] ELSE picture
      <4>1. CASE bFullUpdate
        BY <3>1, <4>1, SMT DEF TypeOK, Picture
      <4>2. CASE ~bFullUpdate
        BY <2>1, <3>1, <4>2
      <4> QED  BY <4>1, <4>2
    <3>2. CASE \E id \in Address, size \in Sizes \ {surface.size} :
                 NewSurface(id, size, "machine")
      BY <3>2, SMT DEF NewSurface
    <3> QED  BY <1>7, <3>1, <3>2, Zenon DEF Frame
  <2> QED  BY <2>1, <2>2
<1>8. CASE NoFrame
  <2>1. pc = "frame" /\ pc' = "show"
    BY <1>8 DEF NoFrame
  <2>2. CASE UNCHANGED <<surfaces, screen_copy, rate>>
    BY <2>1, <2>2, Zenon DEF surfaces
  <2>3. CASE bFullUpdate'
    BY <2>1, <2>3
  <2> QED  BY <1>8, <2>2, <2>3, Zenon DEF NoFrame, core_reset_colder
<1>9. CASE Show
  <2> DEFINE p == IF core_statusbar_restore THEN [picture EXCEPT !.bar = "clean"] ELSE picture
  <2>1. pc = "show" /\ pc' = "shown" /\ bFullUpdate' = bFullUpdate /\ surface' = surface
        /\ core_osk_mode' = core_osk_mode
    BY <1>9 DEF Show
  <2>2. ~bFullUpdate => p.st = "machine"
    BY <2>1, SMT DEF TypeOK, Picture
  <2>3. CASE core_osk_mode = "OFF"
    <3>1. picture' = p
      BY <1>9, <2>3 DEF Show
    <3> HIDE DEF p
    <3> QED  BY <2>1, <2>2, <2>3, <3>1
  <2>4. CASE core_osk_mode /= "OFF"
    <3>1. core_osk_render(p)
      BY <1>9, <2>4 DEF Show
    <3> HIDE DEF p
    <3>2. screen' = surface /\ screen_copy' = p
      BY <2>1, <3>1, Zenon DEF core_osk_render, RestoreDone
    <3> QED  BY <2>1, <2>2, <2>4, <3>2
  <2> QED  BY <2>3, <2>4
<1>10. CASE UNCHANGED vars
  BY <1>10, Zenon DEF vars, surfaces, overlay
<1> QED  BY <1>1, <1>2, <1>3, <1>4, <1>5, <1>6, <1>7, <1>8, <1>9, <1>10, <1>11,
        Zenon DEF Next

(* The overlay never stays on the screen: without one the machine's own    *)
(* picture is shown, or all of it is about to be redrawn.                  *)
THEOREM OverlayUndone == Spec => []PictureRestored
<1>1. Init => RestoreDone /\ OverlayInv
  BY Zenon DEF Init, OverlayInv, RestoreDone, RedrawAfterCall, PictureInRun, CopyKept,
     PictureRestored, InRun
<1>2. RestoreDone /\ [Next]_vars => RestoreDone'
  BY RestoreDoneStep
<1>3. TypeOK /\ RestoreDone /\ OverlayInv /\ [Next]_vars => OverlayInv'
  BY OverlayStep
<1>4. OverlayInv => PictureRestored
  BY DEF OverlayInv
<1> QED  BY <1>1, <1>2, <1>3, <1>4, TypesHold, PTL DEF Spec

-----------------------------------------------------------------------------
(* The status bar.  A dark bar is one that the pause screen darkened and   *)
(* that the copy will put back, or one that is noted for redrawing; no     *)
(* copy is dark itself.                                                    *)

BarNoted == pc = "shown" => ~core_statusbar_restore
CopyClean == ~cut => screen_copy.bar /= "dark"
ShotsClean == ~cut => \A s \in shot : s.copy.bar /= "dark"
BarDue == core_statusbar_restore \/ picture.bar = "clean"
BarInRun == InRun /\ ~cut => BarDue
BarBetween == Between /\ ~cut => BarDue \/ (core_osk_mode = "PAUSE" /\ SameScreen)
BarInv == BarNoted /\ CopyClean /\ ShotsClean /\ BarInRun /\ BarBetween

(* A step within retro_run that does not darken the bar.                   *)
LEMMA BarStays ==
  ASSUME BarInv, InRun, InRun', UNCHANGED <<core_statusbar_restore, cut, shot>>,
         screen_copy'.bar = screen_copy.bar,
         picture'.bar = "clean" \/ picture'.bar = picture.bar
  PROVE  BarInv'
<1> USE DEF BarInv, InRun
<1>1. BarNoted'
  BY DEF BarNoted
<1>2. CopyClean' /\ ShotsClean'
  BY DEF CopyClean, ShotsClean
<1>3. BarInRun'
  BY Zenon DEF BarInRun, BarDue
<1>4. BarBetween'
  BY DEF BarBetween, Between
<1> QED  BY <1>1, <1>2, <1>3, <1>4

LEMMA BarStep ==
  ASSUME ScreenOutputAssumption, TypeOK, RestoreDone, BarInv, [Next]_vars
  PROVE  BarInv'
<1>a. Aged(screen_copy).bar = screen_copy.bar
  BY AgedType DEF TypeOK
<1>1. ASSUME NEW soft \in BOOLEAN, retro_reset(soft)
      PROVE  BarInv'
  <2>1. pc' = "idle" /\ Between /\ shot' = shot /\ core_osk_mode' = "OFF"
        /\ core_statusbar_restore' = core_statusbar_restore
        /\ screen_copy'.bar = screen_copy.bar
    BY <1>1, <1>a DEF retro_reset
  <2>2. picture'.bar = "clean" \/ picture'.bar = picture.bar
    <3>1. CASE soft
      BY <1>1, <3>1, ScreenResetEffect DEF retro_reset, Reset_ST
    <3>2. CASE ~soft
      BY <1>1, <3>2, ColderEffect DEF retro_reset
    <3> QED  BY <3>1, <3>2
  <2>3. ~cut' => ~cut /\ core_osk_mode /= "PAUSE"
    BY <1>1, Zenon DEF retro_reset
  <2>4. ~cut' => BarDue'
    BY <2>1, <2>2, <2>3, Zenon DEF BarInv, BarBetween, BarDue
  <2> QED  BY <2>1, <2>3, <2>4 DEF BarInv, BarNoted, CopyClean, ShotsClean, BarInRun,
              BarBetween, InRun
<1>2. CASE retro_serialize
  <2>1. UNCHANGED <<pc, core_osk_mode, picture, screen, screen_copy, surface,
                    core_statusbar_restore, cut>> /\ Between
    BY <1>2, Zenon DEF retro_serialize, surfaces, overlay
  <2>2. ~cut => \A s \in shot' : s.copy.bar /= "dark"
    <3>1. Saved(screen_copy).bar = screen_copy.bar
      BY SavedType DEF TypeOK
    <3>2. NoCopy.bar /= "dark"
      BY DEF NoCopy
    <3> HIDE DEF NoCopy, Saved
    <3>3. \A s \in shot' : s.copy = Saved(screen_copy) \/ s.copy = NoCopy
      BY <1>2, SMT DEF retro_serialize
    <3> QED  BY <3>1, <3>2, <3>3, Zenon DEF BarInv, CopyClean
  <2>3. SameScreen' = SameScreen
    BY <2>1 DEF SameScreen
  <2> QED  BY <2>1, <2>2, <2>3, Zenon DEF BarInv, BarNoted, CopyClean, ShotsClean, BarInRun,
              BarBetween, BarDue, Between, InRun
<1>3. ASSUME NEW s \in shot \cup OldShots, retro_unserialize(s)
      PROVE  BarInv'
  <2>1. pc' = "idle" /\ Between /\ shot' = shot /\ core_osk_mode' = s.mode
        /\ (~cut' => ~cut)
    BY <1>3, Zenon DEF retro_unserialize
  <2>2. picture'.bar = "clean" \/ picture'.bar = picture.bar
    BY <1>3, ScreenResetEffect DEF retro_unserialize
  <2>3. ~cut => s.copy.bar /= "dark"
    BY DEF BarInv, ShotsClean, ScreenOutputAssumption
  <2>4. screen_copy' = s.copy \/ screen_copy' = Aged(screen_copy)
    BY <1>3, Zenon DEF retro_unserialize, RestorePicture
  <2>5. CopyClean'
    BY <2>1, <2>3, <2>4, <1>a DEF BarInv, CopyClean
  <2>6. ~cut' => BarDue' \/ (core_osk_mode' = "PAUSE" /\ SameScreen')
    <3>1. CASE BarDue
      <4>1. BarDue'
        BY <1>3, <2>2, <3>1, Zenon DEF retro_unserialize, RestoreBar, BarDue
      <4> QED  BY <4>1
    <3>2. CASE core_osk_mode = "PAUSE"
      <4>1. CASE s.mode = "PAUSE"
        <5>1. ~cut' => SameScreen'
          BY <1>3, <3>2, <4>1, Zenon DEF retro_unserialize
        <5> QED  BY <2>1, <4>1, <5>1
      <4>2. CASE s.mode /= "PAUSE"
        <5>1. core_statusbar_restore'
          BY <1>3, <3>2, <4>2, Zenon DEF retro_unserialize, RestoreBar
        <5> QED  BY <5>1 DEF BarDue
      <4> QED  BY <4>1, <4>2
    <3> QED  BY <2>1, <3>1, <3>2 DEF BarInv, BarBetween
  <2> QED  BY <2>1, <2>5, <2>6 DEF BarInv, BarNoted, ShotsClean, BarInRun, BarBetween, InRun
<1>4. CASE Undo
  <2>1. Between /\ pc' = "config" /\ UNCHANGED <<core_statusbar_restore, shot, cut, screen_copy>>
        /\ picture' = IF Overlaid /\ SameScreen THEN screen_copy ELSE picture
    BY <1>4 DEF Undo
  <2>2. ~cut => BarDue'
    <3>1. CASE Overlaid /\ SameScreen
      <4>1. screen_copy.bar \in {"clean", "dark"}
        BY <3>1, SMT DEF SameScreen, TypeOK, Picture
      <4> QED  BY <2>1, <3>1, <4>1 DEF BarInv, CopyClean, BarDue
    <3>2. CASE ~(Overlaid /\ SameScreen)
      <4>1. ~(core_osk_mode = "PAUSE" /\ SameScreen)
        BY <3>2 DEF Overlaid
      <4> QED  BY <2>1, <3>2, <4>1, Zenon DEF BarInv, BarBetween, BarDue
    <3> QED  BY <3>1, <3>2
  <2> QED  BY <2>1, <2>2, Zenon DEF BarInv, BarNoted, CopyClean, ShotsClean, BarInRun,
              BarBetween, InRun, Between
<1>5. CASE ConfigUpdate
  <2>1. pc = "config" /\ pc' = "input" /\ UNCHANGED <<core_statusbar_restore, cut, shot>>
    BY <1>5 DEF ConfigUpdate
  <2>2. screen_copy'.bar = screen_copy.bar
    BY <1>5, <1>a, Zenon DEF ConfigUpdate
  <2>3. picture'.bar = "clean" \/ picture'.bar = picture.bar
    BY <1>5, ScreenForcedEffect, ScreenResetEffect, Zenon DEF ConfigUpdate, Reset_ST, surfaces
  <2> QED  BY <2>1, <2>2, <2>3, BarStays DEF InRun
<1>6. CASE InputButtons
  <2>1. pc = "input" /\ pc' = "osk" /\ UNCHANGED <<core_statusbar_restore, cut, shot>>
    BY <1>6 DEF InputButtons
  <2>2. screen_copy'.bar = screen_copy.bar
    BY <1>6, <1>a, Zenon DEF InputButtons
  <2>3. picture'.bar = "clean" \/ picture'.bar = picture.bar
    BY <1>6, ScreenForcedEffect, ScreenResetEffect, ColderEffect, Zenon
       DEF InputButtons, Reset_ST, surfaces
  <2> QED  BY <2>1, <2>2, <2>3, BarStays DEF InRun
<1>11. ASSUME NEW mode \in Mode, InputOverlay(mode)
       PROVE  BarInv'
  <2>1. /\ pc = "osk" /\ pc' = "frame" /\ UNCHANGED <<core_statusbar_restore, cut, shot>>
        /\ screen_copy' = screen_copy /\ picture' = picture
    BY <1>11 DEF InputOverlay, surfaces, overlay
  <2> QED  BY <2>1, BarStays DEF InRun
<1>7. CASE Frame
  <2>1. pc = "frame" /\ pc' = "show" /\ UNCHANGED <<core_statusbar_restore, cut, shot>>
    BY <1>7 DEF Frame
  <2>2. screen_copy'.bar = screen_copy.bar
    BY <1>7, <1>a DEF Frame
  <2>3. picture'.bar = "clean" \/ picture'.bar = picture.bar
    <3>1. CASE picture' = IF bFullUpdate THEN [picture EXCEPT !.st = "machine"] ELSE picture
      BY <3>1, SMT DEF TypeOK, Picture
    <3>2. CASE \E id \in Address, size \in Sizes \ {surface.size} :
                 NewSurface(id, size, "machine")
      BY <3>2, SMT DEF NewSurface
    <3> QED  BY <1>7, <3>1, <3>2, Zenon DEF Frame
  <2> QED  BY <2>1, <2>2, <2>3, BarStays DEF InRun
<1>8. CASE NoFrame
  <2>1. pc = "frame" /\ pc' = "show" /\ UNCHANGED <<core_statusbar_restore, cut, shot>>
    BY <1>8 DEF NoFrame
  <2>2. screen_copy'.bar = screen_copy.bar
    BY <1>8, <1>a, Zenon DEF NoFrame
  <2>3. picture'.bar = "clean" \/ picture'.bar = picture.bar
    BY <1>8, ColderEffect, Zenon DEF NoFrame, surfaces
  <2> QED  BY <2>1, <2>2, <2>3, BarStays DEF InRun
<1>9. CASE Show
  <2> DEFINE p == IF core_statusbar_restore THEN [picture EXCEPT !.bar = "clean"] ELSE picture
  <2>1. pc = "show" /\ pc' = "shown" /\ ~core_statusbar_restore' /\ surface' = surface
        /\ UNCHANGED <<core_osk_mode, shot, cut>>
    BY <1>9 DEF Show
  <2>2. p \in Picture /\ (~cut => p.bar = "clean")
    <3>1. CASE core_statusbar_restore
      BY <3>1, SMT DEF TypeOK, Picture
    <3>2. CASE ~core_statusbar_restore
      BY <2>1, <3>2 DEF BarInv, BarInRun, BarDue, InRun, TypeOK
    <3> QED  BY <3>1, <3>2
  <2>3. CopyClean' /\ (~cut' => picture'.bar = "clean" \/ (core_osk_mode' = "PAUSE" /\ SameScreen'))
    <3>1. CASE core_osk_mode = "OFF"
      <4>1. picture' = p /\ screen_copy' = screen_copy
        BY <1>9, <3>1 DEF Show, overlay
      <4> HIDE DEF p
      <4> QED  BY <2>1, <2>2, <4>1 DEF BarInv, CopyClean
    <3>2. CASE core_osk_mode /= "OFF"
      <4>1. core_osk_render(p)
        BY <1>9, <3>2 DEF Show
      <4> HIDE DEF p
      <4>2. screen' = surface /\ screen_copy' = p
        BY <2>1, <4>1, Zenon DEF core_osk_render, RestoreDone
      <4>3. picture'.bar = IF core_osk_mode = "PAUSE" THEN "dark" ELSE p.bar
        BY <2>1, <4>1, SMT DEF core_osk_render, RestoreDone
      <4>4. p /= NoCopy
        BY <2>2, SMT DEF Picture, NoCopy
      <4>5. SameScreen'
        BY <2>1, <4>2, <4>4 DEF SameScreen
      <4>6. CASE core_osk_mode = "PAUSE"
        BY <2>1, <2>2, <4>2, <4>5, <4>6 DEF CopyClean
      <4>7. CASE core_osk_mode /= "PAUSE"
        BY <2>1, <2>2, <4>2, <4>3, <4>7 DEF CopyClean
      <4> QED  BY <4>6, <4>7
    <3> QED  BY <3>1, <3>2
  <2> HIDE DEF p
  <2> QED  BY <2>1, <2>3 DEF BarInv, BarNoted, ShotsClean, BarInRun, BarBetween, BarDue, InRun
<1>10. CASE UNCHANGED vars
  <2>1. UNCHANGED <<pc, core_osk_mode, picture, screen, screen_copy, surface,
                    core_statusbar_restore, cut, shot>>
    BY <1>10, Zenon DEF vars, surfaces, overlay
  <2>2. SameScreen' = SameScreen
    BY <2>1 DEF SameScreen
  <2> QED  BY <2>1, <2>2, Zenon DEF BarInv, BarNoted, CopyClean, ShotsClean, BarInRun,
              BarBetween, BarDue, Between, InRun
<1> QED  BY <1>1, <1>2, <1>3, <1>4, <1>5, <1>6, <1>7, <1>8, <1>9, <1>10, <1>11,
        Zenon DEF Next

(* The bar that the pause screen darkened does not stay dark, but for the  *)
(* two cases that cut notes.                                               *)
THEOREM BarComesBack == Spec => []BarRestored
<1>1. Init => RestoreDone /\ BarInv
  <2>1. Init => screen_copy.bar /= "dark" /\ picture.bar = "clean"
    BY DEF Init, NoCopy
  <2> QED  BY <2>1, Zenon DEF Init, BarInv, RestoreDone, BarNoted, CopyClean, ShotsClean,
              BarInRun, BarBetween, BarDue, InRun
<1>2. RestoreDone /\ [Next]_vars => RestoreDone'
  BY RestoreDoneStep
<1>3. TypeOK /\ RestoreDone /\ BarInv /\ [Next]_vars => BarInv'
  BY BarStep, ScreenOutputAssumption DEF ScreenOutputAssumption
<1>4. BarInv => BarRestored
  BY Zenon DEF BarInv, BarNoted, BarBetween, BarDue, BarRestored, Between
<1> QED  BY <1>1, <1>2, <1>3, <1>4, TypesHold, PTL DEF Spec
=============================================================================
