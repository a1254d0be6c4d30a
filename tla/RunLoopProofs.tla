---------------------------- MODULE RunLoopProofs ----------------------------
(***************************************************************************)
(* Proofs about RunLoop: types, that the machine is paused exactly while a *)
(* screen that pauses is shown, and that only a cold reset, a savestate or *)
(* the warm boot button ends a halt.  Both rest on one invariant, IInv: the *)
(* flags agree with the mode except between the poll of the buttons and    *)
(* OskFlags, savestates hold only agreeing flags, and a halted machine     *)
(* never waits for a warm reset that no button asked for.                  *)
(***************************************************************************)
EXTENDS RunLoop, TLAPS

(* The flags that follow the mode agree with it.                           *)
Agree(f, mode) ==
  /\ ("PAUSE" \in f) <=> (mode \in {"PAUSE", "KEY_SHOT"})
  /\ ("OSK" \in f) <=> (mode /= "OFF")

(* A halted machine that waits for a reset waits for a cold one.           *)
ColdIfHalted(f) ==
  "HALT" \in f /\ "RESET_WARM" \in f => "RESET_COLD" \in f

FlagsAgree ==
  /\ pc /= "osk" => Agree(core_runflags, core_osk_mode)
  /\ pc = "osk" /\ "PAUSE" \in core_runflags => core_osk_mode /= "KEY"
  /\ \A s \in shot : Agree(s.runflags, s.mode)

WaitsForCold ==
  \/ ColdIfHalted(core_runflags)
  \/ pc \in {"osk", "reset"} /\ "WARM_BOOT" \in aux_buttons

(* No frame starts with a reset pending.                                   *)
NoReset == pc = "frame" => core_runflags \cap ResetFlags = {}

IInv == TypeOK /\ FlagsAgree /\ WaitsForCold /\ NoReset

-----------------------------------------------------------------------------
(* The count stays within the seconds of the timer while the timer has not *)
(* elapsed.                                                                *)
LEMMA CountBound ==
  ASSUME RunLoopAssumption, NEW n \in Nat, ~TimerElapsed(n)
  PROVE  n \in 0..(Fps * CrashTime)
<1> DEFINE q == n \div Fps
           r == n % Fps
<1>1. Fps \in Nat /\ Fps > 0 /\ CrashTime \in Nat
  BY DEF RunLoopAssumption
<1>2. q \in Nat /\ r \in 0..(Fps - 1) /\ n = Fps * q + r
  BY <1>1
<1>3. q + 1 <= CrashTime
  BY <1>1, <1>2 DEF TimerElapsed
<1> HIDE DEF q, r
<1>4. Fps * (q + 1) <= Fps * CrashTime
  BY <1>1, <1>2, <1>3
<1>5. n <= Fps * (q + 1)
  BY <1>1, <1>2
<1> QED
  BY <1>1, <1>2, <1>4, <1>5

(* A signal adds nothing but HALT to the flags.                            *)
LEMMA SetFlagsFacts ==
  ASSUME TypeOK, RunLoopAssumption, NEW f \in SUBSET RunFlags, NEW fails \in BOOLEAN,
         SetFlags(f, fails)
  PROVE  /\ core_runflags' \in SUBSET RunFlags
         /\ core_crash_frames' \in 0..(Fps * CrashTime)
         /\ \A x \in RunFlags : x /= "HALT" => (x \in core_runflags' <=> x \in f)
         /\ "HALT" \in f => "HALT" \in core_runflags'
<1>1. Fps * CrashTime \in Nat
  BY DEF RunLoopAssumption
<1> QED
  BY <1>1 DEF SetFlags, TypeOK, RunFlags, ResetFlags

(* What each kind of reset does to the flags.                              *)
LEMMA ResetFacts ==
  ASSUME NEW f \in SUBSET RunFlags
  PROVE  /\ core_reset_colder(f) = (f \ {"RESET_WARM", "HALT"}) \cup {"RESET_COLD"}
         /\ core_signal_reset(f, TRUE) = f \cup {"RESET_COLD"}
         /\ core_signal_reset(f, FALSE) = f \cup {"RESET_WARM"}
         /\ core_m68k_reinit(f) = f \ {"RESET_WARM", "RESET_COLD", "HALT"}
  BY DEF core_reset_colder, core_signal_reset, core_m68k_reinit, ResetFlags

-----------------------------------------------------------------------------
(* The actions                                                             *)

LEMMA ResetStep ==
  ASSUME IInv, RunLoopAssumption, NEW soft \in BOOLEAN, NEW fails \in BOOLEAN,
         retro_reset(soft, fails)
  PROVE  IInv'
<1> DEFINE f == core_runflags \ {"PAUSE", "OSK"}
<1>1. f \in SUBSET RunFlags /\ f \ {"HALT"} \in SUBSET RunFlags
  BY DEF IInv, TypeOK
<1>2. PICK g \in SUBSET RunFlags, b \in BOOLEAN :
        /\ SetFlags(g, b)
        /\ "PAUSE" \notin g /\ "OSK" \notin g
        /\ "RESET_COLD" \in g \/ ("HALT" \notin g /\ ~b)
  <2>1. CASE Halted \/ ~soft
    <3> DEFINE g == core_reset_colder(f \ {"HALT"})
    <3>1. SetFlags(g, fails)
      BY <2>1 DEF retro_reset
    <3>2. /\ g \in SUBSET RunFlags
          /\ "PAUSE" \notin g /\ "OSK" \notin g /\ "RESET_COLD" \in g
      <4> DEFINE h == f \ {"HALT"}
      <4>1. h \in SUBSET RunFlags /\ "PAUSE" \notin h /\ "OSK" \notin h
        BY <1>1
      <4> HIDE DEF h
      <4>2. core_reset_colder(h) = (h \ {"RESET_WARM", "HALT"}) \cup {"RESET_COLD"}
        BY <4>1, ResetFacts
      <4> QED
        BY <4>1, <4>2 DEF RunFlags, ResetFlags, h
    <3> HIDE DEF g
    <3> QED
      BY <3>1, <3>2
  <2>2. CASE ~Halted /\ soft
    <3> DEFINE g == core_signal_reset(f, FALSE)
    <3>1. SetFlags(g, FALSE)
      BY <2>2 DEF retro_reset
    <3>2. /\ g \in SUBSET RunFlags
          /\ "PAUSE" \notin g /\ "OSK" \notin g /\ "HALT" \notin g
      <4>1. "PAUSE" \notin f /\ "OSK" \notin f /\ "HALT" \notin f
        BY <2>2 DEF Halted
      <4> HIDE DEF f
      <4>2. core_signal_reset(f, FALSE) = f \cup {"RESET_WARM"}
        BY <1>1, ResetFacts
      <4> QED
        BY <1>1, <4>1, <4>2 DEF RunFlags, ResetFlags
    <3> HIDE DEF g
    <3> QED
      BY <3>1, <3>2
  <2> QED
    BY <2>1, <2>2
<1>3. /\ pc = "idle" /\ pc' = pc
      /\ core_osk_mode' = "OFF"
      /\ aux_buttons' \in SUBSET Aux
      /\ UNCHANGED saves
  BY DEF retro_reset, IInv, TypeOK, Aux
<1>4. TypeOK'
  BY <1>2, <1>3, SetFlagsFacts DEF IInv, TypeOK, saves, Mode
<1>5. FlagsAgree'
  BY <1>2, <1>3, SetFlagsFacts DEF IInv, FlagsAgree, Agree, saves, RunFlags, ResetFlags
<1>6. WaitsForCold'
  BY <1>2, <1>3 DEF SetFlags, WaitsForCold, ColdIfHalted
<1> QED
  BY <1>3, <1>4, <1>5, <1>6 DEF IInv, NoReset

LEMMA SerializeStep ==
  ASSUME IInv, retro_serialize
  PROVE  IInv'
<1> USE DEF IInv, retro_serialize, flags, osk
<1>1. TypeOK'
  BY DEF TypeOK, State
<1>2. FlagsAgree'
  BY DEF FlagsAgree
<1>3. WaitsForCold'
  BY DEF WaitsForCold
<1> QED
  BY <1>1, <1>2, <1>3 DEF NoReset

LEMMA UnserializeStep ==
  ASSUME IInv, RunLoopAssumption, NEW fails \in BOOLEAN, retro_unserialize(fails)
  PROVE  IInv'
<1>1. PICK s \in shot : core_restore_state(s, fails)
  BY DEF retro_unserialize
<1>2. /\ s \in State /\ Agree(s.runflags, s.mode)
      /\ s.runflags \ ResetFlags \in SUBSET RunFlags
  BY DEF IInv, TypeOK, FlagsAgree, State
<1>3. /\ pc = "idle" /\ pc' = pc /\ shot' = shot
      /\ restores' \in 0..MaxRestores
  BY DEF retro_unserialize, IInv, TypeOK, RunLoopAssumption
<1>4. /\ SetFlags(s.runflags \ ResetFlags, fails)
      /\ core_osk_mode' = s.mode /\ aux_buttons' = s.aux
  BY <1>1 DEF core_restore_state
<1>5. TypeOK'
  BY <1>2, <1>3, <1>4, SetFlagsFacts DEF IInv, TypeOK, State
<1>6. FlagsAgree'
  <2>1. Agree(core_runflags', core_osk_mode')
    BY <1>2, <1>4, SetFlagsFacts DEF IInv, Agree, RunFlags, ResetFlags
  <2> QED
    BY <1>3, <2>1 DEF IInv, FlagsAgree
<1>7. WaitsForCold'
  BY <1>4 DEF SetFlags, ResetFlags, WaitsForCold, ColdIfHalted
<1> QED
  BY <1>3, <1>5, <1>6, <1>7 DEF IInv, NoReset

LEMMA ConfigStep ==
  ASSUME IInv, RunLoopAssumption, NEW reset \in BOOLEAN, NEW fails \in BOOLEAN,
         ConfigUpdate(reset, fails)
  PROVE  IInv'
<1>1. /\ pc = "config" /\ pc' = "input"
      /\ UNCHANGED <<core_osk_mode, aux_buttons, shot, restores>>
  BY DEF ConfigUpdate, osk, saves
<1>2. CASE reset
  <2> DEFINE g == core_runflags \cup {"RESET_COLD"}
  <2>1. g \in SUBSET RunFlags /\ SetFlags(g, fails)
    BY <1>2, ResetFacts DEF ConfigUpdate, IInv, TypeOK, RunFlags, ResetFlags
  <2>2. TypeOK'
    BY <1>1, <2>1, SetFlagsFacts DEF IInv, TypeOK
  <2>3. FlagsAgree'
    BY <1>1, <2>1, SetFlagsFacts DEF IInv, FlagsAgree, Agree, RunFlags, ResetFlags
  <2>4. WaitsForCold'
    BY <2>1 DEF SetFlags, WaitsForCold, ColdIfHalted
  <2> QED
    BY <1>1, <2>2, <2>3, <2>4 DEF IInv, NoReset
<1>3. CASE ~reset
  <2>1. UNCHANGED <<core_runflags, core_crash_frames>>
    BY <1>3 DEF ConfigUpdate, flags
  <2> QED
    BY <1>1, <2>1 DEF IInv, TypeOK, FlagsAgree, WaitsForCold, NoReset
<1> QED
  BY <1>2, <1>3

LEMMA InputStep ==
  ASSUME IInv, RunLoopAssumption, NEW held \in Held, NEW closes \in BOOLEAN,
         NEW fails \in BOOLEAN, InputUpdate(held, closes, fails)
  PROVE  IInv'
<1> DEFINE down == Active(held)
           pressed == down \ aux_buttons
           toggled == PauseToggle(pressed)
           closed == "OSK_CLOSED" \in aux_buttons \/ (Paused /\ toggled = "OFF")
           mode == OskOpen(toggled, IF closed THEN {} ELSE pressed)
           shut == closes /\ core_osk_mode = mode /\ mode \in {"KEY", "KEY_SHOT"}
           warm == IF "WARM_BOOT" \in pressed THEN core_runflags \cup {"RESET_WARM"}
                                              ELSE core_runflags
<1>1. down \in SUBSET Button
  BY DEF Active, RunLoopAssumption
<1>2. toggled \in Mode /\ mode \in Mode
  BY DEF PauseToggle, OskOpen, Mode, IInv, TypeOK
<1>3. /\ pc = "input" /\ pc' = "osk"
      /\ Resets(pressed, fails)
      /\ core_osk_mode' = IF shut THEN "OFF" ELSE mode
      /\ aux_buttons' = down \cup (IF shut THEN {"OSK_CLOSED"} ELSE {})
      /\ UNCHANGED <<shot, restores>>
  BY DEF InputUpdate, saves
<1>4. /\ warm \in SUBSET RunFlags
      /\ IF "COLD_BOOT" \in pressed
           THEN SetFlags((warm \ {"RESET_WARM", "HALT"}) \cup {"RESET_COLD"}, fails)
           ELSE SetFlags(warm, FALSE)
  <2>1. core_runflags \in SUBSET RunFlags /\ warm \in SUBSET RunFlags
    BY DEF IInv, TypeOK, RunFlags, ResetFlags
  <2>2. warm = IF "WARM_BOOT" \in pressed THEN core_signal_reset(core_runflags, FALSE)
                                          ELSE core_runflags
    BY <2>1, ResetFacts
  <2> HIDE DEF warm, pressed
  <2> QED
    BY <1>3, <2>1, <2>2, ResetFacts DEF Resets
<1>5. PICK g \in SUBSET RunFlags, b \in BOOLEAN :
        /\ SetFlags(g, b)
        /\ "PAUSE" \in g <=> "PAUSE" \in core_runflags
        /\ \/ "RESET_COLD" \in g
           \/ ~b /\ "WARM_BOOT" \in pressed
           \/ ~b /\ g = core_runflags
  <2> HIDE DEF pressed
  <2>1. CASE "COLD_BOOT" \in pressed
    BY <1>4, <2>1 DEF RunFlags, ResetFlags
  <2>2. CASE "COLD_BOOT" \notin pressed
    BY <1>4, <2>2
  <2> QED
    BY <2>1, <2>2
<1>6. core_osk_mode' \in Mode /\ aux_buttons' \in SUBSET Aux
  BY <1>1, <1>2, <1>3 DEF Mode, Aux
<1>7. TypeOK'
  BY <1>3, <1>5, <1>6, SetFlagsFacts DEF IInv, TypeOK
<1>8. FlagsAgree'
  <2>1. ASSUME "PAUSE" \in core_runflags'
        PROVE  core_osk_mode' /= "KEY"
    <3>1. Paused
      <4>1. "PAUSE" \in g
        BY <1>5, <2>1 DEF SetFlags
      <4> QED
        BY <1>3, <1>5, <4>1 DEF IInv, FlagsAgree, Agree, Paused
    <3>2. toggled = "OFF" \/ toggled = core_osk_mode
      BY <3>1 DEF PauseToggle, Paused
    <3> HIDE DEF toggled
    <3>3. mode \in {"OFF", "PAUSE", "KEY_SHOT"}
      BY <3>1, <3>2 DEF OskOpen, Paused
    <3> QED
      BY <1>3, <3>3
  <2> QED
    BY <1>3, <2>1 DEF IInv, FlagsAgree
<1>9. WaitsForCold'
  <2>1. CASE "RESET_COLD" \in g
    BY <1>5, <2>1 DEF SetFlags, WaitsForCold, ColdIfHalted
  <2>2. CASE ~b /\ "WARM_BOOT" \in pressed
    BY <1>3, <2>2 DEF WaitsForCold
  <2>3. CASE ~b /\ g = core_runflags
    BY <1>3, <1>5, <2>3 DEF SetFlags, IInv, WaitsForCold, ColdIfHalted
  <2> QED
    BY <1>5, <2>1, <2>2, <2>3
<1> QED
  BY <1>3, <1>7, <1>8, <1>9 DEF IInv, NoReset

LEMMA OskStep ==
  ASSUME IInv, OskFlags
  PROVE  IInv'
<1> USE DEF IInv, OskFlags, osk, saves
<1>1. TypeOK'
  BY DEF TypeOK, RunFlags
<1>2. FlagsAgree'
  BY DEF FlagsAgree, Agree, TypeOK, Mode, Paused
<1>3. WaitsForCold'
  BY DEF WaitsForCold, ColdIfHalted
<1> QED
  BY <1>1, <1>2, <1>3 DEF NoReset

LEMMA ProcessStep ==
  ASSUME IInv, RunLoopAssumption, NEW fails \in BOOLEAN, ProcessReset(fails)
  PROVE  IInv'
<1>1. /\ pc = "reset" /\ pc' = "frame"
      /\ UNCHANGED <<core_osk_mode, aux_buttons, shot, restores>>
  BY DEF ProcessReset, osk, saves
<1>2. core_runflags \in SUBSET RunFlags
  BY DEF IInv, TypeOK
<1>3. CASE core_runflags \cap ResetFlags = {}
  <2>1. UNCHANGED <<core_runflags, core_crash_frames>>
    BY <1>3 DEF ProcessReset, flags
  <2> QED
    BY <1>1, <1>3, <2>1 DEF IInv, TypeOK, FlagsAgree, WaitsForCold, ColdIfHalted, ResetFlags, NoReset
<1>4. CASE core_runflags \cap ResetFlags /= {}
  <2> DEFINE g == core_runflags \ {"RESET_WARM", "RESET_COLD", "HALT"}
  <2>1. core_m68k_reinit(core_runflags) = g
    BY <1>2, ResetFacts
  <2>2. SetFlags(g, fails)
    BY <1>4, <2>1 DEF ProcessReset
  <2>3. /\ g \in SUBSET RunFlags
        /\ g \cap ResetFlags = {}
        /\ "PAUSE" \in g <=> "PAUSE" \in core_runflags
        /\ "OSK" \in g <=> "OSK" \in core_runflags
    BY <1>2 DEF ResetFlags
  <2> HIDE DEF g
  <2>4. core_runflags' \cap ResetFlags = {}
    BY <2>2, <2>3 DEF SetFlags, ResetFlags
  <2>5. TypeOK'
    BY <1>1, <2>2, <2>3, SetFlagsFacts DEF IInv, TypeOK
  <2>6. FlagsAgree'
    <3>1. Agree(core_runflags, core_osk_mode)
      BY <1>1 DEF IInv, FlagsAgree
    <3>2. Agree(core_runflags', core_osk_mode')
      BY <1>1, <2>2, <2>3, <3>1 DEF SetFlags, Agree
    <3> QED
      BY <1>1, <3>2 DEF IInv, FlagsAgree
  <2>7. WaitsForCold'
    BY <2>4 DEF WaitsForCold, ColdIfHalted, ResetFlags
  <2> QED
    BY <2>4, <2>5, <2>6, <2>7 DEF IInv, NoReset
<1> QED
  BY <1>3, <1>4

LEMMA FrameStep ==
  ASSUME IInv, RunLoopAssumption, NEW fails \in BOOLEAN, RunFrame(fails)
  PROVE  IInv'
<1>1. /\ pc = "frame" /\ pc' = "finish"
      /\ SetFlags(core_runflags, fails)
      /\ "HALT" \notin core_runflags
      /\ UNCHANGED <<core_osk_mode, aux_buttons, shot, restores>>
  BY DEF RunFrame, osk, saves
<1>2. core_runflags \in SUBSET RunFlags
  BY DEF IInv, TypeOK
<1>3. TypeOK'
  BY <1>1, <1>2, SetFlagsFacts DEF IInv, TypeOK
<1>4. FlagsAgree'
  BY <1>1 DEF SetFlags, IInv, FlagsAgree, Agree
<1>5. WaitsForCold'
  BY <1>1 DEF SetFlags, IInv, NoReset, ResetFlags, WaitsForCold, ColdIfHalted
<1> QED
  BY <1>1, <1>3, <1>4, <1>5 DEF IInv, NoReset

LEMMA TimerStep ==
  ASSUME IInv, RunLoopAssumption, NEW fails \in BOOLEAN, CrashTimer(fails)
  PROVE  IInv'
<1>1. /\ pc = "frame" /\ pc' = "finish"
      /\ UNCHANGED <<core_osk_mode, aux_buttons, shot, restores>>
      /\ core_runflags \in SUBSET RunFlags
      /\ core_crash_frames \in 0..(Fps * CrashTime)
  BY DEF CrashTimer, TimerCounts, osk, saves, IInv, TypeOK
<1>2. \/ UNCHANGED <<core_runflags, core_crash_frames>>
      \/ /\ core_runflags' = core_reset_colder(core_runflags) \cup
                               (IF fails THEN {"HALT"} ELSE {})
         /\ core_crash_frames' = 0
      \/ /\ ~TimerElapsed(core_crash_frames + 1)
         /\ core_crash_frames' = core_crash_frames + 1
         /\ core_runflags' = core_runflags
  BY DEF CrashTimer, TimerCounts, flags
<1>3. core_reset_colder(core_runflags) =
        (core_runflags \ {"RESET_WARM", "HALT"}) \cup {"RESET_COLD"}
  BY <1>1, ResetFacts
<1>4. core_crash_frames' \in 0..(Fps * CrashTime)
  <2>1. Fps * CrashTime \in Nat /\ core_crash_frames + 1 \in Nat
    BY <1>1 DEF RunLoopAssumption
  <2>2. ~TimerElapsed(core_crash_frames + 1) =>
          core_crash_frames + 1 \in 0..(Fps * CrashTime)
    BY <2>1, CountBound
  <2> QED
    BY <1>1, <1>2, <2>1, <2>2
<1>5. /\ core_runflags' \in SUBSET RunFlags
      /\ "PAUSE" \in core_runflags' <=> "PAUSE" \in core_runflags
      /\ "OSK" \in core_runflags' <=> "OSK" \in core_runflags
      /\ core_runflags' = core_runflags \/ "RESET_COLD" \in core_runflags'
  BY <1>1, <1>2, <1>3 DEF RunFlags, ResetFlags
<1>6. TypeOK'
  BY <1>1, <1>4, <1>5 DEF IInv, TypeOK
<1>7. FlagsAgree'
  <2>1. Agree(core_runflags, core_osk_mode)
    BY <1>1 DEF IInv, FlagsAgree
  <2>2. Agree(core_runflags', core_osk_mode')
    BY <1>1, <1>5, <2>1 DEF Agree
  <2> QED
    BY <1>1, <2>2 DEF IInv, FlagsAgree
<1>8. WaitsForCold'
  BY <1>1, <1>5 DEF IInv, WaitsForCold, ColdIfHalted
<1> QED
  BY <1>1, <1>6, <1>7, <1>8 DEF IInv, NoReset

-----------------------------------------------------------------------------
(* The theorems                                                            *)

LEMMA InvInit ==
  ASSUME RunLoopAssumption, Init
  PROVE  IInv
<1>1. Fps * CrashTime \in Nat
  BY DEF RunLoopAssumption
<1> QED
  BY <1>1 DEF RunLoopAssumption, Init, IInv, TypeOK, FlagsAgree, Agree, WaitsForCold,
              ColdIfHalted, NoReset, RunFlags, ResetFlags, Mode, Aux, State

LEMMA InvNext ==
  ASSUME RunLoopAssumption, IInv, [Next]_vars
  PROVE  IInv'
<1>1. ASSUME NEW soft \in BOOLEAN, NEW fails \in BOOLEAN, retro_reset(soft, fails)
      PROVE  IInv'
  BY <1>1, ResetStep
<1>2. ASSUME retro_serialize
      PROVE  IInv'
  BY <1>2, SerializeStep
<1>3. ASSUME NEW fails \in BOOLEAN, retro_unserialize(fails)
      PROVE  IInv'
  BY <1>3, UnserializeStep
<1>4. ASSUME retro_run \/ Finish
      PROVE  IInv'
  <2>1. /\ pc \in {"idle", "finish"} /\ pc' \in {"config", "idle"}
        /\ UNCHANGED <<core_runflags, core_crash_frames, core_osk_mode, aux_buttons,
                       shot, restores>>
    BY <1>4 DEF retro_run, Finish, flags, osk, saves
  <2> QED
    BY <2>1 DEF IInv, TypeOK, FlagsAgree, WaitsForCold, NoReset
<1>5. ASSUME NEW reset \in BOOLEAN, NEW fails \in BOOLEAN, ConfigUpdate(reset, fails)
      PROVE  IInv'
  BY <1>5, ConfigStep
<1>6. ASSUME NEW held \in Held, NEW closes \in BOOLEAN, NEW fails \in BOOLEAN,
             InputUpdate(held, closes, fails)
      PROVE  IInv'
  BY <1>6, InputStep
<1>7. ASSUME OskFlags
      PROVE  IInv'
  BY <1>7, OskStep
<1>8. ASSUME NEW fails \in BOOLEAN, ProcessReset(fails)
      PROVE  IInv'
  BY <1>8, ProcessStep
<1>9. ASSUME NEW fails \in BOOLEAN, RunFrame(fails) \/ CrashTimer(fails)
      PROVE  IInv'
  BY <1>9, FrameStep, TimerStep
<1>10. ASSUME UNCHANGED vars
       PROVE  IInv'
  BY <1>10 DEF vars, flags, osk, saves, IInv, TypeOK, FlagsAgree, WaitsForCold, NoReset
<1> QED
  BY <1>1, <1>2, <1>3, <1>4, <1>5, <1>6, <1>7, <1>8, <1>9, <1>10
     DEF Next, Frontend, Run

LEMMA InvHolds == Spec => []IInv
<1> SUFFICES ASSUME RunLoopAssumption
             PROVE  Spec => []IInv
  BY RunLoopAssumption
<1>1. Init => IInv
  BY InvInit
<1>2. IInv /\ [Next]_vars => IInv'
  BY InvNext
<1> QED
  BY <1>1, <1>2, PTL DEF Spec

(* Every variable of the run loop keeps its type.                          *)
THEOREM TypesHold == Spec => []TypeOK
<1>1. IInv => TypeOK
  BY DEF IInv
<1> QED
  BY <1>1, InvHolds, PTL

(* The machine is paused exactly while the mode pauses it.                 *)
THEOREM PauseIsShown == Spec => []PausedAsShown
<1>1. IInv => PausedAsShown
  BY DEF IInv, FlagsAgree, Agree, PausedAsShown, Paused
<1> QED
  BY <1>1, InvHolds, PTL

(* One step that ends a halt.                                              *)
LEMMA HaltEnds ==
  ASSUME RunLoopAssumption, IInv, Next, Halted, ~Halted'
  PROVE  \/ "RESET_COLD" \in core_runflags \cup core_runflags'
         \/ pc = "reset" /\ "WARM_BOOT" \in aux_buttons
         \/ restores' > restores
<1> DEFINE Goal == \/ "RESET_COLD" \in core_runflags \cup core_runflags'
                   \/ pc = "reset" /\ "WARM_BOOT" \in aux_buttons
                   \/ restores' > restores
<1>1. core_runflags \in SUBSET RunFlags /\ restores \in Nat
  BY DEF IInv, TypeOK, RunLoopAssumption
<1>2. \A f \in SUBSET RunFlags : "RESET_COLD" \in core_reset_colder(f)
  BY ResetFacts
<1>3. ASSUME NEW soft \in BOOLEAN, NEW fails \in BOOLEAN, retro_reset(soft, fails)
      PROVE  Goal
  <2> DEFINE h == (core_runflags \ {"PAUSE", "OSK"}) \ {"HALT"}
  <2>1. h \in SUBSET RunFlags
    BY <1>1
  <2>2. SetFlags(core_reset_colder(h), fails)
    BY <1>3 DEF retro_reset
  <2> QED
    BY <1>2, <2>1, <2>2 DEF SetFlags
<1>4. ASSUME NEW fails \in BOOLEAN, retro_unserialize(fails)
      PROVE  Goal
  BY <1>1, <1>4 DEF retro_unserialize
<1>5. ASSUME NEW reset \in BOOLEAN, NEW fails \in BOOLEAN, ConfigUpdate(reset, fails)
      PROVE  Goal
  <2>1. reset /\ SetFlags(core_signal_reset(core_runflags, TRUE), fails)
    BY <1>5 DEF ConfigUpdate, flags, Halted
  <2>2. core_signal_reset(core_runflags, TRUE) = core_runflags \cup {"RESET_COLD"}
    BY <1>1, ResetFacts
  <2> QED
    BY <2>1, <2>2 DEF SetFlags
<1>6. ASSUME NEW held \in Held, NEW closes \in BOOLEAN, NEW fails \in BOOLEAN,
             InputUpdate(held, closes, fails)
      PROVE  Goal
  <2> DEFINE pressed == Active(held) \ aux_buttons
             warm == IF "WARM_BOOT" \in pressed
                       THEN core_signal_reset(core_runflags, FALSE)
                       ELSE core_runflags
  <2>1. warm \in SUBSET RunFlags /\ "HALT" \in warm
    <3>1. core_signal_reset(core_runflags, FALSE) = core_runflags \cup {"RESET_WARM"}
      BY <1>1, ResetFacts
    <3> HIDE DEF pressed
    <3> QED
      BY <1>1, <3>1 DEF Halted, RunFlags, ResetFlags
  <2>2. IF "COLD_BOOT" \in pressed THEN SetFlags(core_reset_colder(warm), fails)
                                   ELSE SetFlags(warm, FALSE)
    BY <1>6 DEF InputUpdate, Resets
  <2> HIDE DEF pressed, warm
  <2> QED
    BY <1>2, <2>1, <2>2 DEF SetFlags, Halted
<1>7. ASSUME NEW fails \in BOOLEAN, ProcessReset(fails)
      PROVE  Goal
  <2>1. core_runflags \cap ResetFlags /= {} /\ pc = "reset"
    BY <1>7 DEF ProcessReset, flags, Halted
  <2> QED
    BY <2>1 DEF IInv, WaitsForCold, ColdIfHalted, ResetFlags, Halted
<1>8. ASSUME NEW fails \in BOOLEAN, CrashTimer(fails)
      PROVE  Goal
  BY <1>1, <1>2, <1>8 DEF CrashTimer, TimerCounts, flags, Halted
<1>9. ASSUME retro_serialize \/ retro_run \/ OskFlags \/ Finish \/
             \E fails \in BOOLEAN : RunFrame(fails)
      PROVE  Goal
  BY <1>9 DEF retro_serialize, retro_run, OskFlags, Finish, RunFrame, flags, Halted
<1> QED
  BY <1>3, <1>4, <1>5, <1>6, <1>7, <1>8, <1>9 DEF Next, Frontend, Run

(* A halt ends with a cold reset, a savestate or the warm boot button.     *)
THEOREM HaltEndsCold == Spec => HaltNeedsColdReset
<1> SUFFICES ASSUME RunLoopAssumption
             PROVE  Spec => HaltNeedsColdReset
  BY RunLoopAssumption
<1>1. IInv /\ [Next]_vars =>
        [Halted /\ ~Halted' =>
           \/ "RESET_COLD" \in core_runflags \cup core_runflags'
           \/ pc = "reset" /\ "WARM_BOOT" \in aux_buttons
           \/ restores' > restores]_vars
  BY HaltEnds
<1> QED
  BY <1>1, InvHolds, PTL DEF Spec, HaltNeedsColdReset

(* What one step does to the count of a halted machine.                    *)
LEMMA HaltCounts ==
  ASSUME RunLoopAssumption, IInv, Next, Halted, CrashTime > 0
  PROVE  \/ (core_runflags \cup core_runflags') \cap ResetFlags /= {}
         \/ restores' > restores
         \/ core_crash_frames' = core_crash_frames
              + (IF pc = "frame" /\ "PAUSE" \notin core_runflags THEN 1 ELSE 0)
<1> DEFINE counts == pc = "frame" /\ "PAUSE" \notin core_runflags
           Reset == (core_runflags \cup core_runflags') \cap ResetFlags /= {}
           Goal == \/ Reset
                   \/ restores' > restores
                   \/ core_crash_frames' = core_crash_frames + (IF counts THEN 1 ELSE 0)
<1>1. /\ core_runflags \in SUBSET RunFlags /\ "HALT" \in core_runflags
      /\ restores \in Nat /\ core_crash_frames \in Nat
  BY DEF IInv, TypeOK, Halted, RunLoopAssumption
<1>2. \A f \in SUBSET RunFlags : "RESET_COLD" \in core_reset_colder(f)
  BY ResetFacts
<1>3. "RESET_COLD" \in core_runflags' => Reset
  BY DEF ResetFlags
<1>4. ~counts /\ core_crash_frames' = core_crash_frames => Goal
  BY <1>1
<1>5. ASSUME NEW soft \in BOOLEAN, NEW fails \in BOOLEAN, retro_reset(soft, fails)
      PROVE  Goal
  <2> DEFINE h == (core_runflags \ {"PAUSE", "OSK"}) \ {"HALT"}
  <2>1. h \in SUBSET RunFlags
    BY <1>1
  <2>2. SetFlags(core_reset_colder(h), fails)
    BY <1>1, <1>5 DEF retro_reset, Halted
  <2>3. "RESET_COLD" \in core_runflags'
    BY <1>2, <2>1, <2>2 DEF SetFlags
  <2> QED  BY <1>3, <2>3
<1>6. ASSUME NEW fails \in BOOLEAN, retro_unserialize(fails)
      PROVE  Goal
  BY <1>1, <1>6 DEF retro_unserialize
<1>7. ASSUME NEW reset \in BOOLEAN, NEW fails \in BOOLEAN, ConfigUpdate(reset, fails)
      PROVE  Goal
  <2>1. CASE reset
    <3>1. core_signal_reset(core_runflags, TRUE) = core_runflags \cup {"RESET_COLD"}
      BY <1>1, ResetFacts
    <3>2. "RESET_COLD" \in core_runflags'
      BY <1>7, <2>1, <3>1 DEF ConfigUpdate, SetFlags
    <3> QED  BY <1>3, <3>2
  <2>2. CASE ~reset
    <3>1. ~counts /\ core_crash_frames' = core_crash_frames
      BY <1>7, <2>2 DEF ConfigUpdate, flags
    <3> QED  BY <1>4, <3>1
  <2> QED  BY <2>1, <2>2
<1>8. ASSUME NEW held \in Held, NEW closes \in BOOLEAN, NEW fails \in BOOLEAN,
             InputUpdate(held, closes, fails)
      PROVE  Goal
  <2> DEFINE pressed == Active(held) \ aux_buttons
             warm == IF "WARM_BOOT" \in pressed
                       THEN core_signal_reset(core_runflags, FALSE)
                       ELSE core_runflags
  <2>1. warm \in SUBSET RunFlags
    <3>1. core_signal_reset(core_runflags, FALSE) = core_runflags \cup {"RESET_WARM"}
      BY <1>1, ResetFacts
    <3> HIDE DEF pressed
    <3> QED  BY <1>1, <3>1 DEF RunFlags, ResetFlags
  <2>2. /\ pc = "input"
        /\ IF "COLD_BOOT" \in pressed THEN SetFlags(core_reset_colder(warm), fails)
                                     ELSE SetFlags(warm, FALSE)
    BY <1>8 DEF InputUpdate, Resets
  <2> HIDE DEF pressed, warm
  <2>3. \/ "RESET_COLD" \in core_runflags'
        \/ ~counts /\ core_crash_frames' = core_crash_frames
    BY <1>2, <2>1, <2>2 DEF SetFlags
  <2> QED  BY <1>3, <1>4, <2>3
<1>9. ASSUME NEW fails \in BOOLEAN, ProcessReset(fails)
      PROVE  Goal
  <2>1. Reset \/ (~counts /\ core_crash_frames' = core_crash_frames)
    BY <1>9 DEF ProcessReset, flags
  <2> QED  BY <1>4, <2>1
<1>10. ASSUME NEW fails \in BOOLEAN, CrashTimer(fails)
       PROVE  Goal
  <2>1. CASE counts
    <3>1. core_runflags \cap {"HALT", "PAUSE"} = {"HALT"}
      BY <1>1, <2>1
    <3>2. \/ core_runflags' = core_reset_colder(core_runflags) \cup
                                 (IF fails THEN {"HALT"} ELSE {})
          \/ core_crash_frames' = core_crash_frames + 1
      BY <1>10, <3>1, RunLoopAssumption DEF CrashTimer, TimerCounts
    <3>3. \/ "RESET_COLD" \in core_runflags'
          \/ core_crash_frames' = core_crash_frames + 1
      BY <1>1, <1>2, <3>2
    <3> QED  BY <1>3, <2>1, <3>3
  <2>2. CASE ~counts
    <3>1. core_runflags \cap {"HALT", "PAUSE"} /= {"HALT"}
      BY <1>10, <2>2 DEF CrashTimer, TimerCounts
    <3>2. core_crash_frames' = core_crash_frames
      BY <1>10, <3>1 DEF CrashTimer, TimerCounts, flags
    <3> QED  BY <1>4, <2>2, <3>2
  <2> QED  BY <2>1, <2>2
<1>11. ASSUME retro_serialize \/ retro_run \/ OskFlags \/ Finish
       PROVE  Goal
  <2>1. ~counts /\ core_crash_frames' = core_crash_frames
    BY <1>11 DEF retro_serialize, retro_run, OskFlags, Finish, flags
  <2> QED  BY <1>4, <2>1
<1>12. ASSUME NEW fails \in BOOLEAN, RunFrame(fails)
       PROVE  FALSE
  BY <1>1, <1>12 DEF RunFrame
<1> QED
  BY <1>5, <1>6, <1>7, <1>8, <1>9, <1>10, <1>11, <1>12 DEF Next, Frontend, Run

(* The frames of a halt count, and nothing but a reset or a restored       *)
(* savestate takes them off the count.                                     *)
THEOREM HaltAlwaysTimed == Spec => HaltIsTimed
<1> SUFFICES ASSUME RunLoopAssumption
             PROVE  Spec => HaltIsTimed
  BY RunLoopAssumption
<1>1. IInv /\ [Next]_vars =>
        [Halted /\ CrashTime > 0 =>
           \/ (core_runflags \cup core_runflags') \cap ResetFlags /= {}
           \/ restores' > restores
           \/ core_crash_frames' = core_crash_frames
                + (IF pc = "frame" /\ "PAUSE" \notin core_runflags THEN 1 ELSE 0)]_vars
  BY HaltCounts
<1> QED
  BY <1>1, InvHolds, PTL DEF Spec, HaltIsTimed
=============================================================================
