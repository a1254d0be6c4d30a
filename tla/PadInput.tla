------------------------------- MODULE PadInput -------------------------------
(***************************************************************************)
(* The pads and the mouse buttons in core_input_update (core_input.c): the *)
(* fire buttons the machine reads, auto-fire, the left mouse button, and   *)
(* the button that swaps joystick and mouse, which stands for all          *)
(* auxiliary buttons that act when they are pressed.                       *)
(*                                                                         *)
(* A poll is one core_input_update with the events it gives to Hatari      *)
(* before the frame.  What opens and closes a screen that pauses is in     *)
(* RunLoop, and left open here.  The queue of events has room (KeyEvents). *)
(* Directions, the motion of the pointer and the right button, which has   *)
(* the code of the left one but for the swap, are left out.                *)
(***************************************************************************)
EXTENDS Integers, FiniteSets

CONSTANTS
  Pads,              \* the retropads, numbers from 0
  Ports,             \* the joystick ports of the ST
  core_joy_port_map, \* the port of each pad, or NoPort
  NoPort,
  Rates,             \* settings of core_autofire
  Players            \* who plays: what they can hold down, and the options
                     \* they change between

(* What is assigned to a button; "HOST" is the host's mouse.               *)
Use == {"FIRE", "AUTOFIRE", "MOUSE_L", "JM_TOGGLE", "HOST"}

ASSUME PadInputAssumption ==
  /\ Pads \subseteq Nat /\ IsFiniteSet(Pads)
  /\ NoPort \notin Ports
  /\ core_joy_port_map \in [Pads -> Ports \cup {NoPort}]
  /\ Rates \subseteq Nat \ {0, 1}
  /\ Players \subseteq [held: SUBSET [Pads -> SUBSET Use],
                       options: SUBSET [rate: Rates, port: BOOLEAN]]

VARIABLES
  players,          \* a member of Players
  pc,               \* "polled" after a poll, "idle" after another step
  core_autofire,
  core_mouse_port,  \* the mouse is plugged in
  paused,           \* core_osk_mode is one that pauses
  joy_autofire,     \* countdown of each pad
  jm_toggle_index,  \* the pad whose joystick and mouse are swapped, or -1
  aux_buttons,
  joy_stick,        \* the ports at which the machine reads fire
  bLButtonDown,     \* the left button of the ST's mouse
  past,             \* history: what the last poll was about, see Past
  shot              \* the savestate the frontend keeps, a set of one or none

options == <<players, core_autofire, core_mouse_port>>
pads == <<joy_autofire, jm_toggle_index, aux_buttons>>
vars == <<pc, options, paused, pads, joy_stick, bLButtonDown, past, shot>>

(* held: what was down; live: the last poll was not paused, and of the     *)
(* last that was not the rest tells.  lost: the ST was reset under a mouse *)
(* button that is down; fired: the pads whose port had fire; beat: the     *)
(* polls since fire came down by auto-fire, if nothing but auto-fire was   *)
(* held at this rate since the poll before that one, or 0.                 *)
Past == [held: [Pads -> SUBSET Use], live: BOOLEAN, lost: BOOLEAN, fired: SUBSET Pads, rate: Rates,
         beat: [Pads -> Nat]]

-----------------------------------------------------------------------------
(* What is pressed                                                         *)

(* Somebody holds a button for use u.                                      *)
Down(held, u) == \E p \in Pads : u \in held[p]

(* Two bugs Counted could have: it counts below zero, or while paused.     *)
CountedBelow(p) == IF paused THEN joy_autofire[p] ELSE joy_autofire[p] - 1

CountedPaused(p) == IF joy_autofire[p] > 0 THEN joy_autofire[p] - 1
                                           ELSE joy_autofire[p]

(* The countdown of auto-fire, at the start of the poll.                   *)
Counted(p) == IF ~paused /\ joy_autofire[p] > 0 THEN joy_autofire[p] - 1
                                               ELSE joy_autofire[p]

Autofires(held, p) ==
  ~paused /\ "AUTOFIRE" \in held[p] /\ core_joy_port_map[p] /= NoPort

(* Fire, or for the swapped pad the left mouse button.  Auto-fire fires at *)
(* the start of its turn and on to the middle.                             *)
Fires(held, p) ==
  \/ (IF p = jm_toggle_index THEN "MOUSE_L" ELSE "FIRE") \in held[p]
  \/ Autofires(held, p) /\ (Counted(p) = 0 \/ Counted(p) > core_autofire \div 2)

(* The left mouse button, or for the swapped pad fire.                     *)
vm_l(held) ==
  \/ Down(held, "HOST")
  \/ \E p \in Pads : (IF p = jm_toggle_index THEN "FIRE" ELSE "MOUSE_L") \in held[p]

vjoy_stick(held) ==
  {core_joy_port_map[p] : p \in {q \in Pads : Fires(held, q)}} \ {NoPort}

-----------------------------------------------------------------------------
(* The poll                                                                *)

(* A turn of auto-fire begins.                                             *)
Autofire(held) ==
  joy_autofire' = [p \in Pads |-> IF Autofires(held, p) /\ Counted(p) = 0
                                  THEN core_autofire ELSE Counted(p)]

(* The ST listens to the mouse.                                            *)
Plugged == core_mouse_port /\ ~paused

(* A bug Aux could have: it records the mouse button although the ST is    *)
(* not told of it.                                                         *)
AuxUntold(held) ==
  (IF vm_l(held) THEN {"MOUSE_L"} ELSE {}) \cup
  (IF ~paused /\ Down(held, "JM_TOGGLE") THEN {"JM_TOGGLE"} ELSE {})

(* The buttons on record: the mouse button that the ST knows of, and the   *)
(* toggle, unless paused.                                                  *)
Aux(held) ==
  (IF IF Plugged THEN vm_l(held) ELSE "MOUSE_L" \in aux_buttons
   THEN {"MOUSE_L"} ELSE {}) \cup
  (IF ~paused /\ Down(held, "JM_TOGGLE") THEN {"JM_TOGGLE"} ELSE {})

(* A change of the mouse button is an event for Hatari.  When another      *)
(* button resets the ST, the event arrives before the reset or after it.   *)
MouseButton(held, reset) ==
  LET down == vm_l(held)
      event == Plugged /\ down /= ("MOUSE_L" \in aux_buttons)
  IN bLButtonDown' \in IF reset THEN {FALSE, event /\ down}
                       ELSE {IF event THEN down ELSE bLButtonDown}

(* The toggle, for the last of the pads that press it.                     *)
JmToggle(held) ==
  LET toggling == {p \in Pads : "JM_TOGGLE" \in held[p]}
  IN jm_toggle_index' \in
       IF "JM_TOGGLE" \notin Aux(held) \ aux_buttons THEN {jm_toggle_index}
       ELSE IF jm_toggle_index /= -1 THEN {-1}
       ELSE {p \in toggling : \A q \in toggling : q <= p}

(* The history.  A paused poll leaves it as it was.                        *)
Steady(held, p) ==
  held[p] = {"AUTOFIRE"} /\ past.held[p] = {"AUTOFIRE"} /\ past.rate = core_autofire

Beat(held, fired, p) ==
  IF Steady(held, p) /\ p \in fired \ past.fired THEN 1
  ELSE IF Steady(held, p) /\ past.beat[p] > 0 THEN past.beat[p] + 1 ELSE 0

Remember(held, reset) ==
  LET fired == {p \in Pads : core_joy_port_map[p] \in joy_stick'}
  IN past' =
       IF paused THEN [past EXCEPT !.live = FALSE]
       ELSE [held |-> held, live |-> TRUE,
             lost |-> (reset \/ past.lost) /\ "MOUSE_L" \in aux_buttons',
             fired |-> fired, rate |-> core_autofire,
             beat |-> [p \in Pads |-> Beat(held, fired, p)]]

Poll(held, reset) ==
  /\ reset => ~paused
  /\ pc' = "polled"
  /\ aux_buttons' = Aux(held)
  /\ Autofire(held)
  /\ MouseButton(held, reset)
  /\ joy_stick' = IF paused THEN joy_stick ELSE vjoy_stick(held)
  /\ JmToggle(held)
  /\ Remember(held, reset)
  /\ paused' \in BOOLEAN
  /\ UNCHANGED <<options, shot>>

-----------------------------------------------------------------------------
(* Between two polls                                                       *)

(* core_config_update.                                                     *)
ChangeOptions(o) ==
  /\ pc' = "idle"
  /\ core_autofire' = o.rate
  /\ core_mouse_port' = o.port
  /\ UNCHANGED <<players, paused, pads, joy_stick, bLButtonDown, past, shot>>

(* A reset of the ST's keyboard, by retro_reset or by a program.           *)
IKBD_Boot_ROM(closes) ==
  /\ pc' = "idle"
  /\ bLButtonDown' = FALSE
  /\ paused' = (paused /\ ~closes)
  /\ past' = [past EXCEPT !.lost = "MOUSE_L" \in aux_buttons]
  /\ UNCHANGED <<options, pads, joy_stick, shot>>

(* core_input_serialize: the joysticks are not part of the state.          *)
retro_serialize ==
  /\ pc' = "idle"
  /\ shot' = {[autofire |-> joy_autofire, index |-> jm_toggle_index, aux |-> aux_buttons,
               paused |-> paused, button |-> bLButtonDown, past |-> past]}
  /\ UNCHANGED <<options, paused, pads, joy_stick, bLButtonDown, past>>

(* A bug retro_unserialize could have: a savestate has no buttons.         *)
UnserializeNoButtons(s) ==
  /\ pc' = "idle"
  /\ joy_autofire' = s.autofire
  /\ jm_toggle_index' = s.index
  /\ paused' = s.paused
  /\ bLButtonDown' = s.button
  /\ past' = s.past
  /\ UNCHANGED <<options, aux_buttons, joy_stick, shot>>

retro_unserialize(s) ==
  /\ pc' = "idle"
  /\ joy_autofire' = s.autofire
  /\ jm_toggle_index' = s.index
  /\ aux_buttons' = s.aux
  /\ paused' = s.paused
  /\ bLButtonDown' = s.button
  /\ past' = s.past
  /\ UNCHANGED <<options, joy_stick, shot>>

-----------------------------------------------------------------------------
Nothing == [p \in Pads |-> {}]

Init ==
  /\ pc = "idle"
  /\ players \in Players
  /\ \E o \in players.options : core_autofire = o.rate /\ core_mouse_port = o.port
  /\ paused = FALSE
  /\ joy_autofire = [p \in Pads |-> 0]
  /\ jm_toggle_index = -1
  /\ aux_buttons = {}
  /\ joy_stick = {}
  /\ bLButtonDown = FALSE
  /\ past = [held |-> Nothing, live |-> TRUE, lost |-> FALSE,
             fired |-> {}, rate |-> core_autofire, beat |-> [p \in Pads |-> 0]]
  /\ shot = {}

Next ==
  \/ \E held \in players.held, reset \in BOOLEAN : Poll(held, reset)
  \/ \E o \in players.options : ChangeOptions(o)
  \/ \E closes \in BOOLEAN : IKBD_Boot_ROM(closes)
  \/ retro_serialize
  \/ \E s \in shot : retro_unserialize(s)

Spec == Init /\ [][Next]_vars

-----------------------------------------------------------------------------
Countdown == {n \in Nat : \E r \in Rates : n <= r}

TypeOK ==
  /\ players \in Players
  /\ pc \in {"idle", "polled"}
  /\ core_autofire \in Rates
  /\ core_mouse_port \in BOOLEAN
  /\ paused \in BOOLEAN
  /\ joy_autofire \in [Pads -> Countdown]
  /\ jm_toggle_index \in Pads \cup {-1}
  /\ aux_buttons \subseteq {"MOUSE_L", "JM_TOGGLE"}
  /\ joy_stick \subseteq Ports
  /\ bLButtonDown \in BOOLEAN
  /\ past \in Past
  /\ \A s \in shot :
       s \in [autofire: [Pads -> Countdown], index: Pads \cup {-1},
             aux: SUBSET {"MOUSE_L", "JM_TOGGLE"}, paused: BOOLEAN, button: BOOLEAN,
             past: Past]
  /\ \A s, t \in shot : s = t

(* The left button of the ST's mouse is down exactly while somebody holds  *)
(* it, by a pad, by the swapped pad's fire or by the host's mouse, whatever*)
(* pauses, toggles, unplugging, resets and savestates came between; only a *)
(* button that was down in a reset is up until it is pressed again.        *)
MouseFollows ==
  [][pc' = "polled" /\ ~paused /\ core_mouse_port =>
       IF past'.lost THEN bLButtonDown' => vm_l(past'.held)
                     ELSE bLButtonDown' <=> vm_l(past'.held)]_vars

(* One press of an auxiliary button acts once, at the poll that first sees *)
(* it and at no other, however many pads press it, and a savestate made    *)
(* while it is held does not make it act again: run-ahead restores one for *)
(* every frame.  Only a pause that begins and ends under the button does.  *)
OnePressActsOnce ==
  [][pc' = "polled" /\ past.live =>
       (jm_toggle_index' /= jm_toggle_index <=>
          ~paused /\ Down(past'.held, "JM_TOGGLE") /\ ~Down(past.held, "JM_TOGGLE"))]_vars

(* "Frames per button press with auto-fire" (core_config.c:305): while the *)
(* button is held, fire comes down again after as many polls as the option *)
(* says, and not before, also with a pause or a savestate in between, if   *)
(* the pad has a port of its own.                                          *)
AutofireKeepsRate ==
  [][\A p \in Pads :
       /\ pc' = "polled" /\ ~paused
       /\ past.beat[p] > 0 /\ Steady(past'.held, p)
       /\ \A q \in Pads \ {p} : core_joy_port_map[q] /= core_joy_port_map[p]
       => (p \in past'.fired \ past.fired <=> past.beat[p] = core_autofire)]_vars
=============================================================================
