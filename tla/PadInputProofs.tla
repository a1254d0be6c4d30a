---------------------------- MODULE PadInputProofs ----------------------------
(***************************************************************************)
(* Proofs about PadInput: types, that the ST's mouse button follows the    *)
(* button that is held, that one press acts once, and that auto-fire keeps *)
(* its rate.  They rest on one invariant, IInv, of what the core remembers *)
(* from one poll to the next; it is stated of a state and of the savestate *)
(* alike.                                                                  *)
(***************************************************************************)
EXTENDS PadInput, TLAPS

(* The ST's button is the one on record, or was lost in a reset.           *)
MouseKnown(button, aux, h) ==
  /\ button => "MOUSE_L" \in aux
  /\ "MOUSE_L" \in aux /\ ~h.lost => button

(* The toggle on record is what the last poll saw.                         *)
ToggleKnown(aux, h) ==
  "JM_TOGGLE" \in aux <=> h.live /\ Down(h.held, "JM_TOGGLE")

(* No other pad has the port of pad p.                                     *)
OwnPort(p) == \A q \in Pads \ {p} : core_joy_port_map[q] /= core_joy_port_map[p]

(* The countdown tells whether fire is down and how long the turn has been.*)
InRhythm(p, countdown, h) ==
  h.held[p] = {"AUTOFIRE"} /\ core_joy_port_map[p] /= NoPort =>
    /\ p \in h.fired <=> countdown > h.rate \div 2
    /\ h.beat[p] > 0 => countdown = h.rate - h.beat[p] + 1
    /\ countdown >= 1

(* Beats are counted only while auto-fire is held alone.                   *)
Counts(p, h) ==
  h.beat[p] > 0 => h.held[p] = {"AUTOFIRE"} /\ core_joy_port_map[p] /= NoPort

Remembered(button, aux, autofire, h) ==
  /\ MouseKnown(button, aux, h)
  /\ ToggleKnown(aux, h)
  /\ \A p \in Pads : OwnPort(p) => InRhythm(p, autofire[p], h) /\ Counts(p, h)

IInv ==
  /\ TypeOK
  /\ Remembered(bLButtonDown, aux_buttons, joy_autofire, past)
  /\ \A s \in shot : Remembered(s.button, s.aux, s.autofire, s.past)

-----------------------------------------------------------------------------
(* Types                                                                   *)

(* The buttons on record, and what a savestate holds.                      *)
Buttons == {"MOUSE_L", "JM_TOGGLE"}

Kept == [autofire: [Pads -> Countdown], index: Pads \cup {-1}, aux: SUBSET Buttons,
         paused: BOOLEAN, button: BOOLEAN, past: Past]

(* The countdown and what a poll makes of it are in its range.             *)
LEMMA CountdownFacts ==
  ASSUME PadInputAssumption, TypeOK, NEW p \in Pads
  PROVE  /\ joy_autofire[p] \in Nat /\ Counted(p) \in Countdown
         /\ core_autofire \in Countdown /\ core_autofire \in Nat /\ core_autofire >= 2
<1>1. joy_autofire[p] \in Countdown /\ core_autofire \in Rates
  BY DEF TypeOK
<1>2. core_autofire \in Nat /\ core_autofire >= 2
  BY <1>1 DEF PadInputAssumption
<1>3. PICK r \in Rates : joy_autofire[p] \in Nat /\ joy_autofire[p] <= r
  BY <1>1 DEF Countdown
<1>4. r \in Nat
  BY DEF PadInputAssumption
<1>5. Counted(p) \in Nat /\ Counted(p) <= r
  BY <1>3, <1>4 DEF Counted
<1> QED
  BY <1>1, <1>2, <1>3, <1>5 DEF Countdown

(* What a poll that is not paused leaves on record.                        *)
LEMMA LivePoll ==
  ASSUME PadInputAssumption, TypeOK, NEW held, NEW reset \in BOOLEAN,
         Poll(held, reset), ~paused
  PROVE  LET fired == {p \in Pads : core_joy_port_map[p] \in joy_stick'}
         IN /\ past'.held = held /\ past'.live = TRUE /\ past'.fired = fired
            /\ past'.lost = ((reset \/ past.lost) /\ "MOUSE_L" \in aux_buttons')
            /\ past'.rate = core_autofire
            /\ \A p \in Pads : past'.beat[p] = Beat(held, fired, p)
  BY DEF Poll, Remember

(* A paused poll leaves all but live.                                      *)
LEMMA PausedPoll ==
  ASSUME PadInputAssumption, TypeOK, NEW held, NEW reset \in BOOLEAN,
         Poll(held, reset), paused
  PROVE  /\ past' = [past EXCEPT !.live = FALSE]
         /\ joy_autofire' = joy_autofire
         /\ bLButtonDown' = bLButtonDown /\ ~reset
         /\ aux_buttons' = aux_buttons \cap {"MOUSE_L"}
<1>1. joy_autofire' = joy_autofire
  BY DEF Poll, Autofire, Autofires, Counted, TypeOK
<1>2. ~Plugged /\ ~reset
  BY DEF Poll, Plugged
<1>3. aux_buttons' = aux_buttons \cap {"MOUSE_L"}
  BY <1>2 DEF Poll, Aux
<1>4. bLButtonDown' = bLButtonDown
  BY <1>2 DEF Poll, MouseButton
<1> QED
  BY <1>1, <1>2, <1>3, <1>4 DEF Poll, Remember

LEMMA HeldType ==
  ASSUME PadInputAssumption, TypeOK
  PROVE  \A held \in players.held : held \in [Pads -> SUBSET Use]
  BY DEF PadInputAssumption, TypeOK

LEMMA PollType ==
  ASSUME PadInputAssumption, TypeOK, NEW held \in players.held, NEW reset \in BOOLEAN,
         Poll(held, reset)
  PROVE  TypeOK'
<1>1. held \in [Pads -> SUBSET Use]
  BY HeldType
<1>2. /\ players' = players /\ core_autofire' = core_autofire
      /\ core_mouse_port' = core_mouse_port /\ shot' = shot
      /\ pc' = "polled" /\ paused' \in BOOLEAN
  BY DEF Poll, options
<1>3. joy_autofire' \in [Pads -> Countdown]
  BY CountdownFacts DEF Poll, Autofire
<1>4. aux_buttons' \subseteq Buttons
  BY DEF Poll, Aux, Buttons
<1>5. jm_toggle_index' \in Pads \cup {-1}
  BY DEF Poll, JmToggle, TypeOK
<1>6. bLButtonDown' \in BOOLEAN
  BY DEF Poll, MouseButton, Plugged, TypeOK, vm_l, Down
<1>7. joy_stick' \subseteq Ports
  <2>1. vjoy_stick(held) \subseteq Ports
    BY DEF vjoy_stick, PadInputAssumption
  <2> QED
    BY <2>1 DEF Poll, TypeOK
<1>8. past' \in Past
  <2>1. CASE paused
    <3>1. past \in Past
      BY DEF TypeOK
    <3>2. past' = [past EXCEPT !.live = FALSE]
      BY <2>1, PausedPoll
    <3> QED
      BY <3>1, <3>2 DEF Past
  <2>2. CASE ~paused
    <3> DEFINE fired == {p \in Pads : core_joy_port_map[p] \in joy_stick'}
               lost == (reset \/ past.lost) /\ "MOUSE_L" \in aux_buttons'
               beat == [p \in Pads |-> Beat(held, fired, p)]
    <3>1. \A p \in Pads : Beat(held, fired, p) \in Nat
      BY DEF Beat, TypeOK, Past
    <3>2. past' = [held |-> held, live |-> TRUE,
                   lost |-> lost, fired |-> fired, rate |-> core_autofire,
                   beat |-> beat]
      BY <2>2 DEF Poll, Remember
    <3>3. fired \subseteq Pads /\ core_autofire \in Rates
      BY DEF TypeOK
    <3>4. lost \in BOOLEAN
      OBVIOUS
    <3>5. beat \in [Pads -> Nat]
      BY <3>1
    <3> HIDE DEF fired, lost, beat
    <3> QED
      BY <1>1, <3>2, <3>3, <3>4, <3>5, Zenon DEF Past
  <2> QED
    BY <2>1, <2>2
<1> QED
  BY <1>2, <1>3, <1>4, <1>5, <1>6, <1>7, <1>8 DEF TypeOK, Buttons

(* The steps between two polls keep the types.                             *)
LEMMA RestType ==
  ASSUME PadInputAssumption, TypeOK,
         \/ \E o \in players.options : ChangeOptions(o)
         \/ \E closes \in BOOLEAN : IKBD_Boot_ROM(closes)
         \/ retro_serialize
         \/ \E s \in shot : retro_unserialize(s)
  PROVE  TypeOK'
<1>0. (\A s \in shot : s \in Kept) /\ past \in Past
  BY DEF TypeOK, Kept, Buttons
<1>1. ASSUME NEW o \in players.options, ChangeOptions(o)
      PROVE  TypeOK'
  <2>1. o.rate \in Rates /\ o.port \in BOOLEAN
    BY DEF TypeOK, PadInputAssumption
  <2> QED
    BY <1>1, <2>1 DEF ChangeOptions, TypeOK, pads
<1>2. ASSUME NEW closes \in BOOLEAN, IKBD_Boot_ROM(closes)
      PROVE  TypeOK'
  <2>1. past' \in Past
    <3> DEFINE lost == "MOUSE_L" \in aux_buttons
    <3>1. past' = [past EXCEPT !.lost = lost] /\ lost \in BOOLEAN
      BY <1>2 DEF IKBD_Boot_ROM
    <3> HIDE DEF lost
    <3> QED
      BY <1>0, <3>1 DEF Past
  <2>2. paused' \in BOOLEAN /\ bLButtonDown' \in BOOLEAN
    BY <1>2 DEF IKBD_Boot_ROM, TypeOK
  <2> QED
    BY <1>2, <2>1, <2>2 DEF IKBD_Boot_ROM, TypeOK, options, pads
<1>3. CASE retro_serialize
  <2> DEFINE snap == [autofire |-> joy_autofire, index |-> jm_toggle_index,
                      aux |-> aux_buttons, paused |-> paused,
                      button |-> bLButtonDown, past |-> past]
  <2>1. snap \in Kept
    BY DEF TypeOK, Kept, Buttons
  <2>2. shot' = {snap}
    BY <1>3 DEF retro_serialize
  <2> HIDE DEF snap
  <2>3. (\A s \in shot' : s \in Kept) /\ (\A s, t \in shot' : s = t)
    BY <2>1, <2>2
  <2> QED
    BY <1>3, <2>3 DEF retro_serialize, TypeOK, options, pads, Kept, Buttons
<1>4. ASSUME NEW s \in shot, retro_unserialize(s)
      PROVE  TypeOK'
  <2>1. s \in Kept
    BY <1>0
  <2> QED
    BY <1>4, <2>1 DEF retro_unserialize, TypeOK, options, Kept, Buttons
<1> QED
  BY <1>1, <1>2, <1>3, <1>4

-----------------------------------------------------------------------------
(* What is remembered                                                      *)

(* A poll leaves the mouse button and the toggle known.                    *)
LEMMA PollKnown ==
  ASSUME PadInputAssumption, IInv, NEW held \in players.held, NEW reset \in BOOLEAN,
         Poll(held, reset)
  PROVE  MouseKnown(bLButtonDown', aux_buttons', past') /\ ToggleKnown(aux_buttons', past')
<1> USE DEF IInv, Remembered
<1>1. CASE paused
  <2>1. /\ past'.live = FALSE /\ past'.lost = past.lost
        /\ bLButtonDown' = bLButtonDown
        /\ aux_buttons' = aux_buttons \cap {"MOUSE_L"}
    BY <1>1, PausedPoll DEF TypeOK, Past
  <2> QED
    BY <2>1 DEF MouseKnown, ToggleKnown
<1>2. CASE ~paused
  <2>1. /\ past'.held = held /\ past'.live = TRUE
        /\ past'.lost = ((reset \/ past.lost) /\ "MOUSE_L" \in aux_buttons')
    BY <1>2, LivePoll
  <2>2. "JM_TOGGLE" \in aux_buttons' <=> Down(held, "JM_TOGGLE")
    BY <1>2 DEF Poll, Aux
  <2>3. "MOUSE_L" \in aux_buttons' <=>
          IF Plugged THEN vm_l(held) ELSE "MOUSE_L" \in aux_buttons
    BY DEF Poll, Aux
  <2>4. MouseKnown(bLButtonDown', aux_buttons', past')
    <3>1. CASE reset
      BY <2>1, <2>3, <3>1 DEF Poll, MouseButton, MouseKnown
    <3>2. CASE ~reset
      BY <2>1, <2>3, <3>2 DEF Poll, MouseButton, MouseKnown
    <3> QED
      BY <3>1, <3>2
  <2> QED
    BY <2>1, <2>2, <2>4 DEF ToggleKnown
<1> QED
  BY <1>1, <1>2

(* For a pad with a port of its own the port has fire when the pad fires.  *)
LEMMA FireOfOwnPort ==
  ASSUME PadInputAssumption, NEW held, NEW p \in Pads, OwnPort(p),
         core_joy_port_map[p] /= NoPort
  PROVE  core_joy_port_map[p] \in vjoy_stick(held) <=> Fires(held, p)
  BY DEF OwnPort, vjoy_stick

(* A live poll of a steady pad: the countdown, and what it says of fire.   *)
LEMMA SteadyPoll ==
  ASSUME PadInputAssumption, TypeOK, NEW held, NEW reset \in BOOLEAN,
         Poll(held, reset), ~paused,
         NEW p \in Pads, OwnPort(p), core_joy_port_map[p] /= NoPort,
         held[p] = {"AUTOFIRE"}
  PROVE  /\ joy_autofire'[p] = IF Counted(p) = 0 THEN core_autofire ELSE Counted(p)
         /\ p \in past'.fired <=> Counted(p) = 0 \/ Counted(p) > core_autofire \div 2
<1>1. Autofires(held, p)
  BY DEF Autofires
<1>2. joy_autofire'[p] = IF Counted(p) = 0 THEN core_autofire ELSE Counted(p)
  BY <1>1 DEF Poll, Autofire
<1>3. Fires(held, p) <=> Counted(p) = 0 \/ Counted(p) > core_autofire \div 2
  <2>1. "MOUSE_L" \notin held[p] /\ "FIRE" \notin held[p]
    OBVIOUS
  <2> QED
    BY <1>1, <2>1, Zenon DEF Fires
<1>4. p \in past'.fired <=> core_joy_port_map[p] \in joy_stick'
  BY LivePoll
<1>5. joy_stick' = vjoy_stick(held)
  BY DEF Poll
<1> QED
  BY <1>2, <1>3, <1>4, <1>5, FireOfOwnPort

(* In a steady poll fire comes down exactly when a turn is over.           *)
LEMMA SteadyBeat ==
  ASSUME PadInputAssumption, IInv, NEW held, NEW reset \in BOOLEAN,
         Poll(held, reset), ~paused,
         NEW p \in Pads, OwnPort(p), core_joy_port_map[p] /= NoPort,
         Steady(held, p)
  PROVE  /\ Counted(p) = joy_autofire[p] - 1
         /\ p \in past'.fired \ past.fired <=> Counted(p) = 0
<1>1. /\ held[p] = {"AUTOFIRE"} /\ past.rate = core_autofire
      /\ InRhythm(p, joy_autofire[p], past) /\ past.held[p] = {"AUTOFIRE"}
  BY DEF IInv, Remembered, Steady
<1>2. joy_autofire[p] \in Nat /\ core_autofire \in Nat /\ core_autofire >= 2
  BY CountdownFacts DEF IInv
<1>3. joy_autofire[p] >= 1 /\ (p \in past.fired <=> joy_autofire[p] > core_autofire \div 2)
  BY <1>1 DEF InRhythm
<1>4. Counted(p) = joy_autofire[p] - 1
  BY <1>2, <1>3 DEF Counted
<1>5. p \in past'.fired <=> Counted(p) = 0 \/ Counted(p) > core_autofire \div 2
  BY <1>1, SteadyPoll DEF IInv
<1>6. core_autofire \div 2 \in Nat /\ core_autofire \div 2 >= 1
  BY <1>2
<1> DEFINE half == core_autofire \div 2
<1> HIDE DEF half
<1>7. half \in Nat /\ half >= 1
  BY <1>6 DEF half
<1>8. /\ p \in past.fired <=> joy_autofire[p] > half
      /\ p \in past'.fired <=> Counted(p) = 0 \/ Counted(p) > half
  BY <1>3, <1>5 DEF half
<1> QED
  BY <1>2, <1>3, <1>4, <1>7, <1>8

(* A poll keeps the rhythm of every pad with a port of its own.            *)
LEMMA PollRhythm ==
  ASSUME PadInputAssumption, IInv, NEW held \in players.held, NEW reset \in BOOLEAN,
         Poll(held, reset), NEW p \in Pads, OwnPort(p)
  PROVE  InRhythm(p, joy_autofire'[p], past') /\ Counts(p, past')
<1>0. InRhythm(p, joy_autofire[p], past) /\ Counts(p, past) /\ TypeOK
  BY DEF IInv, Remembered
<1>1. CASE paused
  <2>1. /\ joy_autofire' = joy_autofire
        /\ past'.held = past.held /\ past'.fired = past.fired
        /\ past'.rate = past.rate /\ past'.beat = past.beat
    BY <1>0, <1>1, PausedPoll DEF TypeOK, Past
  <2> QED
    BY <1>0, <2>1 DEF InRhythm, Counts
<1>2. CASE ~paused
  <2> DEFINE fired == {q \in Pads : core_joy_port_map[q] \in joy_stick'}
             half == core_autofire \div 2
  <2>1. /\ past'.held = held /\ past'.fired = fired
        /\ past'.rate = core_autofire /\ past'.beat[p] = Beat(held, fired, p)
    BY <1>0, <1>2, LivePoll
  <2>2. /\ Counted(p) \in Nat /\ core_autofire \in Nat /\ core_autofire >= 2
    BY <1>0, CountdownFacts DEF Countdown
  <2>3. half \in Nat /\ half < core_autofire
    BY <2>2
  <2>4. past.beat[p] \in Nat
    BY <1>0 DEF TypeOK, Past
  <2>5. CASE core_joy_port_map[p] = NoPort
    <3>1. p \notin fired
      <4>1. core_joy_port_map[p] \notin joy_stick'
        BY <1>0, <1>2, <2>5, PollType DEF TypeOK, PadInputAssumption
      <4> QED
        BY <4>1
    <3>2. past.beat[p] = 0
      BY <1>0, <2>4, <2>5 DEF Counts
    <3>3. past'.beat[p] = 0
      BY <2>1, <3>1, <3>2 DEF Beat
    <3> QED
      BY <2>5, <3>3 DEF InRhythm, Counts
  <2>6. CASE core_joy_port_map[p] /= NoPort
    <3> HIDE DEF fired
    <3>1. CASE held[p] /= {"AUTOFIRE"}
      <4>1. past'.beat[p] = 0
        BY <2>1, <3>1 DEF Beat, Steady
      <4> QED
        BY <2>1, <3>1, <4>1 DEF InRhythm, Counts
    <3>2. CASE held[p] = {"AUTOFIRE"}
      <4>1. /\ joy_autofire'[p] = IF Counted(p) = 0 THEN core_autofire ELSE Counted(p)
            /\ p \in past'.fired <=> Counted(p) = 0 \/ Counted(p) > half
        BY <1>0, <1>2, <2>6, <3>2, SteadyPoll
      <4> HIDE DEF half
      <4>2. p \in past'.fired <=> joy_autofire'[p] > half
        BY <2>2, <2>3, <4>1
      <4>3. joy_autofire'[p] >= 1
        BY <2>2, <4>1
      <4>4. ASSUME past'.beat[p] > 0
            PROVE  joy_autofire'[p] = core_autofire - past'.beat[p] + 1
        <5>1. Steady(held, p)
          BY <2>1, <4>4 DEF Beat
        <5>2. /\ Counted(p) = joy_autofire[p] - 1
              /\ p \in fired \ past.fired <=> Counted(p) = 0
          BY <1>2, <2>1, <2>6, <5>1, SteadyBeat
        <5>3. CASE p \in fired \ past.fired
          <6>1. past'.beat[p] = 1
            BY <2>1, <5>1, <5>3 DEF Beat
          <6> QED
            BY <2>2, <4>1, <5>2, <5>3, <6>1
        <5>4. CASE p \notin fired \ past.fired
          <6>1. past.beat[p] > 0 /\ past'.beat[p] = past.beat[p] + 1
            BY <2>1, <4>4, <5>1, <5>4 DEF Beat
          <6>2. joy_autofire[p] = core_autofire - past.beat[p] + 1
            BY <1>0, <2>6, <5>1, <6>1 DEF InRhythm, Steady
          <6> QED
            BY <2>2, <2>4, <4>1, <5>2, <5>4, <6>1, <6>2
        <5> QED
          BY <5>3, <5>4
      <4> QED
        BY <2>1, <2>6, <3>2, <4>2, <4>3, <4>4 DEF InRhythm, Counts, half
    <3> QED
      BY <3>1, <3>2
  <2> QED
    BY <2>5, <2>6
<1> QED
  BY <1>1, <1>2

-----------------------------------------------------------------------------
(* The invariant                                                           *)

LEMMA InitInv == PadInputAssumption /\ Init => IInv
<1> SUFFICES ASSUME PadInputAssumption, Init PROVE IInv
  OBVIOUS
<1>1. core_autofire \in Rates /\ core_mouse_port \in BOOLEAN
  BY DEF Init, PadInputAssumption
<1>2. [p \in Pads |-> 0] \in [Pads -> Countdown]
  BY <1>1 DEF PadInputAssumption, Countdown
<1>3. past \in Past
  BY <1>1 DEF Init, Past, Nothing
<1>4. TypeOK
  BY <1>1, <1>2, <1>3 DEF Init, TypeOK
<1>5. \A p \in Pads : past.held[p] = {} /\ past.beat[p] = 0
  BY DEF Init, Nothing
<1>6. MouseKnown(bLButtonDown, aux_buttons, past) /\ ToggleKnown(aux_buttons, past)
  BY <1>5 DEF Init, MouseKnown, ToggleKnown, Down
<1>7. \A p \in Pads : InRhythm(p, joy_autofire[p], past) /\ Counts(p, past)
  <2>1. {} /= {"AUTOFIRE"}
    OBVIOUS
  <2>2. ASSUME NEW p \in Pads PROVE Counts(p, past)
    <3>1. ~(past.beat[p] > 0)
      BY <1>5
    <3> QED
      BY <3>1 DEF Counts
  <2>3. ASSUME NEW p \in Pads PROVE InRhythm(p, joy_autofire[p], past)
    BY <1>5, <2>1, Zenon DEF InRhythm
  <2> QED
    BY <2>2, <2>3
<1> QED
  BY <1>4, <1>6, <1>7 DEF IInv, Remembered, Init

LEMMA PollStep ==
  ASSUME PadInputAssumption, IInv, NEW held \in players.held, NEW reset \in BOOLEAN,
         Poll(held, reset)
  PROVE  IInv'
<1>1. TypeOK'
  BY PollType DEF IInv
<1>2. Remembered(bLButtonDown', aux_buttons', joy_autofire', past')
  BY PollKnown, PollRhythm DEF Remembered
<1>3. shot' = shot
  BY DEF Poll
<1> QED
  BY <1>1, <1>2, <1>3 DEF IInv

LEMMA RestStep ==
  ASSUME PadInputAssumption, IInv,
         \/ \E o \in players.options : ChangeOptions(o)
         \/ \E closes \in BOOLEAN : IKBD_Boot_ROM(closes)
         \/ retro_serialize
         \/ \E s \in shot : retro_unserialize(s)
  PROVE  IInv'
<1>1. TypeOK'
  BY RestType DEF IInv
<1>2. ASSUME NEW o \in players.options, ChangeOptions(o)
      PROVE  IInv'
  BY <1>1, <1>2 DEF IInv, ChangeOptions, pads
<1>3. ASSUME NEW closes \in BOOLEAN, IKBD_Boot_ROM(closes)
      PROVE  IInv'
  <2>1. /\ past'.lost = ("MOUSE_L" \in aux_buttons) /\ past'.live = past.live
        /\ past'.held = past.held /\ past'.fired = past.fired
        /\ past'.rate = past.rate /\ past'.beat = past.beat
    BY <1>3 DEF IKBD_Boot_ROM, IInv, TypeOK, Past
  <2>2. /\ bLButtonDown' = FALSE /\ aux_buttons' = aux_buttons
        /\ joy_autofire' = joy_autofire /\ shot' = shot
    BY <1>3 DEF IKBD_Boot_ROM, pads
  <2>3. MouseKnown(bLButtonDown', aux_buttons', past')
    BY <2>1, <2>2 DEF MouseKnown
  <2>4. ToggleKnown(aux_buttons', past')
    BY <2>1, <2>2 DEF IInv, Remembered, ToggleKnown
  <2>5. \A p \in Pads : OwnPort(p) => InRhythm(p, joy_autofire'[p], past') /\ Counts(p, past')
    BY <2>1, <2>2 DEF IInv, Remembered, InRhythm, Counts
  <2> QED
    BY <1>1, <2>2, <2>3, <2>4, <2>5 DEF IInv, Remembered
<1>4. CASE retro_serialize
  <2>1. \A s \in shot' : /\ s.button = bLButtonDown /\ s.aux = aux_buttons
                         /\ s.autofire = joy_autofire /\ s.past = past
    BY <1>4 DEF retro_serialize
  <2> QED
    BY <1>1, <1>4, <2>1 DEF IInv, retro_serialize, pads
<1>5. ASSUME NEW s \in shot, retro_unserialize(s)
      PROVE  IInv'
  BY <1>1, <1>5 DEF IInv, retro_unserialize
<1> QED
  BY <1>2, <1>3, <1>4, <1>5

LEMMA StutterStep ==
  ASSUME IInv, UNCHANGED vars
  PROVE  IInv'
<1>1. TypeOK'
  BY DEF IInv, TypeOK, vars, options, pads
<1> QED
  BY <1>1 DEF IInv, vars, options, pads

LEMMA NextStep == PadInputAssumption /\ IInv /\ [Next]_vars => IInv'
<1> SUFFICES ASSUME PadInputAssumption, IInv, [Next]_vars PROVE IInv'
  OBVIOUS
<1>1. CASE \E held \in players.held, reset \in BOOLEAN : Poll(held, reset)
  BY <1>1, PollStep
<1>2. CASE \/ \E o \in players.options : ChangeOptions(o)
           \/ \E closes \in BOOLEAN : IKBD_Boot_ROM(closes)
           \/ retro_serialize
           \/ \E s \in shot : retro_unserialize(s)
  BY <1>2, RestStep
<1>3. CASE UNCHANGED vars
  BY <1>3, StutterStep
<1> QED
  BY <1>1, <1>2, <1>3 DEF Next

LEMMA AlwaysInv == Spec => []IInv
<1>1. PadInputAssumption
  BY PadInputAssumption
<1>2. Init => IInv
  BY <1>1, InitInv
<1>3. IInv /\ [Next]_vars => IInv'
  BY <1>1, NextStep
<1> QED
  BY <1>2, <1>3, PTL DEF Spec

-----------------------------------------------------------------------------
(* The properties                                                          *)

(* Only a poll ends in "polled".                                           *)
LEMMA OnlyPolls ==
  ASSUME Next, pc' = "polled"
  PROVE  \E held \in players.held, reset \in BOOLEAN : Poll(held, reset)
  BY DEF Next, ChangeOptions, IKBD_Boot_ROM, retro_serialize, retro_unserialize

(* For any pads, ports and rates every variable keeps to its type; the     *)
(* countdown of auto-fire never leaves the range of the option.            *)
THEOREM TypesKept == Spec => []TypeOK
<1>1. IInv => TypeOK
  BY DEF IInv
<1> QED
  BY <1>1, AlwaysInv, PTL

(* For any pads and ports the left button of the ST's mouse is down        *)
(* exactly while somebody holds it, but for one that was down in a reset.  *)
THEOREM MouseAlwaysFollows == Spec => MouseFollows
<1> DEFINE Follows ==
      pc' = "polled" /\ ~paused /\ core_mouse_port =>
        IF past'.lost THEN bLButtonDown' => vm_l(past'.held)
                      ELSE bLButtonDown' <=> vm_l(past'.held)
<1>1. ASSUME PadInputAssumption, IInv, Next, pc' = "polled", ~paused, core_mouse_port
      PROVE  Follows
  <2>1. PICK held \in players.held, reset \in BOOLEAN : Poll(held, reset)
    BY <1>1, OnlyPolls
  <2>2. past'.held = held
    BY <1>1, <2>1, LivePoll DEF IInv
  <2>3. "MOUSE_L" \in aux_buttons' <=> vm_l(held)
    BY <1>1, <2>1 DEF Poll, Aux, Plugged
  <2>4. MouseKnown(bLButtonDown', aux_buttons', past')
    BY <1>1, <2>1, PollKnown
  <2>5. CASE past'.lost
    BY <2>2, <2>3, <2>4, <2>5 DEF MouseKnown
  <2>6. CASE ~past'.lost
    BY <2>2, <2>3, <2>4, <2>6 DEF MouseKnown
  <2> QED
    BY <2>5, <2>6
<1>2. IInv /\ [Next]_vars => [Follows]_vars
  BY <1>1, PadInputAssumption
<1> QED
  BY <1>2, AlwaysInv, PTL DEF Spec, MouseFollows

(* For any pads one press of an auxiliary button acts once.                *)
THEOREM OnePressAlwaysActsOnce == Spec => OnePressActsOnce
<1> DEFINE ActsOnce ==
      pc' = "polled" /\ past.live =>
        (jm_toggle_index' /= jm_toggle_index <=>
           ~paused /\ Down(past'.held, "JM_TOGGLE") /\ ~Down(past.held, "JM_TOGGLE"))
<1>1. ASSUME PadInputAssumption, IInv, Next, pc' = "polled", past.live
      PROVE  ActsOnce
  <2>1. PICK held \in players.held, reset \in BOOLEAN : Poll(held, reset)
    BY <1>1, OnlyPolls
  <2>2. "JM_TOGGLE" \in aux_buttons <=> Down(past.held, "JM_TOGGLE")
    BY <1>1 DEF IInv, Remembered, ToggleKnown
  <2>3. "JM_TOGGLE" \in Aux(held) \ aux_buttons <=>
          ~paused /\ Down(held, "JM_TOGGLE") /\ ~Down(past.held, "JM_TOGGLE")
    BY <2>2 DEF Aux
  <2>4. ~paused => past'.held = held
    BY <1>1, <2>1, LivePoll DEF IInv
  <2>5. jm_toggle_index' /= jm_toggle_index <=> "JM_TOGGLE" \in Aux(held) \ aux_buttons
    <3>1. jm_toggle_index \in Pads \cup {-1} /\ -1 \notin Pads
      BY <1>1 DEF IInv, TypeOK, PadInputAssumption
    <3>2. CASE "JM_TOGGLE" \notin Aux(held) \ aux_buttons
      <4>1. jm_toggle_index' \in {jm_toggle_index}
        BY <2>1, <3>2 DEF Poll, JmToggle
      <4> QED
        BY <3>2, <4>1
    <3>3. CASE "JM_TOGGLE" \in Aux(held) \ aux_buttons /\ jm_toggle_index /= -1
      <4>1. jm_toggle_index' \in {-1}
        BY <2>1, <3>3 DEF Poll, JmToggle
      <4> QED
        BY <3>3, <4>1
    <3>4. CASE "JM_TOGGLE" \in Aux(held) \ aux_buttons /\ jm_toggle_index = -1
      <4>1. jm_toggle_index' \in Pads
        BY <2>1, <3>4 DEF Poll, JmToggle
      <4> QED
        BY <3>1, <3>4, <4>1
    <3> QED
      BY <3>2, <3>3, <3>4
  <2> QED
    BY <2>3, <2>4, <2>5
<1>2. IInv /\ [Next]_vars => [ActsOnce]_vars
  BY <1>1, PadInputAssumption
<1> QED
  BY <1>2, AlwaysInv, PTL DEF Spec, OnePressActsOnce

(* For any pads and rates auto-fire keeps its rate while it is held.       *)
THEOREM AutofireAlwaysKeepsRate == Spec => AutofireKeepsRate
<1> DEFINE Keeps ==
      \A p \in Pads :
        /\ pc' = "polled" /\ ~paused
        /\ past.beat[p] > 0 /\ Steady(past'.held, p)
        /\ \A q \in Pads \ {p} : core_joy_port_map[q] /= core_joy_port_map[p]
        => (p \in past'.fired \ past.fired <=> past.beat[p] = core_autofire)
<1>1. ASSUME PadInputAssumption, IInv, Next, NEW p \in Pads, pc' = "polled", ~paused,
             past.beat[p] > 0, Steady(past'.held, p), OwnPort(p)
      PROVE  p \in past'.fired \ past.fired <=> past.beat[p] = core_autofire
  <2>1. PICK held \in players.held, reset \in BOOLEAN : Poll(held, reset)
    BY <1>1, OnlyPolls
  <2>2. past'.held = held
    BY <1>1, <2>1, LivePoll DEF IInv
  <2>3. InRhythm(p, joy_autofire[p], past) /\ Counts(p, past)
    BY <1>1 DEF IInv, Remembered
  <2>4. past.held[p] = {"AUTOFIRE"} /\ core_joy_port_map[p] /= NoPort
    BY <1>1, <2>3 DEF Counts
  <2>5. joy_autofire[p] = core_autofire - past.beat[p] + 1
    BY <1>1, <2>3, <2>4 DEF InRhythm, Steady
  <2>6. /\ Counted(p) = joy_autofire[p] - 1
        /\ p \in past'.fired \ past.fired <=> Counted(p) = 0
    BY <1>1, <2>1, <2>2, <2>4, SteadyBeat
  <2>7. core_autofire \in Nat /\ past.beat[p] \in Nat
    BY <1>1, CountdownFacts DEF IInv, TypeOK, Past
  <2> QED
    BY <2>5, <2>6, <2>7
<1>2. IInv /\ [Next]_vars => [Keeps]_vars
  <2>1. ASSUME IInv, Next PROVE Keeps
    BY <1>1, <2>1, PadInputAssumption DEF OwnPort
  <2> QED
    BY <2>1
<1> QED
  BY <1>2, AlwaysInv, PTL DEF Spec, AutofireKeepsRate
===============================================================================
