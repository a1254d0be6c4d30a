------------------------------ MODULE KeyEvents ------------------------------
(***************************************************************************)
(* The keyboard on its way from the host to the ST (core_input.c, and      *)
(* keymap.c of Hatari).  The frontend reports keys by a callback that      *)
(* queues events, and by a state that can be asked for; pads and the       *)
(* on-screen keyboard press keys as well.  The core keeps retrok_down, the *)
(* keys it has reported as pressed, and Hatari keeps KeyStates, the codes  *)
(* that are pressed on the ST.  Callbacks can be lost, the queue can be    *)
(* full, the machine can be reset and a savestate brings back both tables, *)
(* but not the queue.  History variables, which no action depends on, tell *)
(* whose release a full queue has dropped, and for whom a savestate has    *)
(* separated an event in the queue from the tables it belongs to.          *)
(***************************************************************************)
EXTENDS Naturals, Sequences, FiniteSets

CONSTANTS
  Key,        \* keys of libretro
  Code,       \* scancodes of the ST
  NoCode,     \* stands for a key that the ST does not have
  Scan,       \* the scancode of each key
  QueueSize   \* EVENT_QUEUE_SIZE

ASSUME KeyAssumption ==
  /\ IsFiniteSet(Key)
  /\ NoCode \notin Code
  /\ Scan \in [Key -> Code \cup {NoCode}]
  /\ QueueSize \in Nat

VARIABLES
  host_keyboard,  \* core_host_keyboard: whether that keyboard is used
  paused,         \* core_osk_mode pauses: CORE_OSK_PAUSE or CORE_OSK_KEY_SHOT
  retrok_down,    \* keys the core has reported as pressed
  KeyStates,      \* Keyboard.KeyStates: codes pressed on the ST
  event_queue,    \* key events not yet given to Hatari
  shot,           \* the savestate kept by the frontend, or << >>
  lost,           \* history: codes whose last release found the queue full
  stray,          \* history: codes whose queued event and savestate disagree
  shot_history    \* history: the two above, for the savestate

history == <<lost, stray, shot_history>>

vars == <<host_keyboard, paused, retrok_down, KeyStates, event_queue, shot, history>>

Event == [key: Key, down: BOOLEAN, repeat: BOOLEAN]

Codes(keys) == {Scan[k] : k \in keys} \ {NoCode}

(* Of the keys held on the host, those that count.                         *)
Used(held) == IF host_keyboard THEN held ELSE {}

-----------------------------------------------------------------------------
(* The queue                                                               *)

(* A bug core_input_keyboard_event could have: the limit is one too high.  *)
QueueOneMore(k, down) ==
  LET room == Len(event_queue) <= QueueSize
      event == [key |-> k, down |-> down, repeat |-> down <=> k \in retrok_down]
  IN /\ event_queue' = IF room THEN Append(event_queue, event) ELSE event_queue
     /\ lost' = CASE down         -> lost
                  [] ~down /\ room -> lost \ Codes({k})
                  [] OTHER         -> lost \cup Codes({k})
     /\ stray' = IF ~down /\ room THEN stray \ Codes({k}) ELSE stray
     /\ retrok_down' = IF down THEN retrok_down \cup {k} ELSE retrok_down \ {k}

(* core_input_keyboard_event.  A full queue drops the event, but not what  *)
(* retrok_down says about it.                                              *)
core_input_keyboard_event(k, down) ==
  LET room == Len(event_queue) < QueueSize
      event == [key |-> k, down |-> down, repeat |-> down <=> k \in retrok_down]
  IN /\ event_queue' = IF room THEN Append(event_queue, event) ELSE event_queue
     /\ lost' = CASE down         -> lost
                  [] ~down /\ room -> lost \ Codes({k})
                  [] OTHER         -> lost \cup Codes({k})
     /\ stray' = IF ~down /\ room THEN stray \ Codes({k}) ELSE stray
     /\ retrok_down' = IF down THEN retrok_down \cup {k} ELSE retrok_down \ {k}

(* The events after the first i that press or release code s: a repeated   *)
(* press is ignored, and so are keys without a code.                       *)
Effective(q, i, s) ==
  {j \in i + 1 .. Len(q) : Scan[q[j].key] = s /\ ~(q[j].down /\ q[j].repeat)}

(* Main_EventHandler, Keymap_KeyDown and Keymap_KeyUp for all events after *)
(* the first i: the last event that concerns a code decides.               *)
Fed(keys, q, i) ==
  {s \in Code :
     LET events == Effective(q, i, s)
     IN \/ s \in keys /\ events = {}
        \/ \E j \in events : q[j].down /\ \A l \in events : l <= j}

-----------------------------------------------------------------------------
(* Actions of the frontend                                                 *)

(* core_input_keyboard_event_callback.                                     *)
HostEvent(k, down) ==
  /\ host_keyboard
  /\ core_input_keyboard_event(k, down)
  /\ UNCHANGED <<host_keyboard, paused, KeyStates, shot, shot_history>>

ChangeHostKeyboard ==
  /\ host_keyboard' = ~host_keyboard
  /\ UNCHANGED <<paused, retrok_down, KeyStates, event_queue, shot, history>>

(* A reset clears the keys of the ST.  A cold one first runs a frame that  *)
(* may take events from the queue.                                         *)
retro_reset(i) ==
  /\ i \in 0 .. Len(event_queue)
  /\ event_queue' = SubSeq(event_queue, i + 1, Len(event_queue))
  /\ KeyStates' = {}
  /\ paused' = FALSE
  /\ UNCHANGED <<host_keyboard, retrok_down, shot, history>>

(* The event queue is not part of a savestate.  A code that queued events  *)
(* are about to release is pressed in the savestate, for good.             *)
retro_serialize ==
  /\ shot' = <<retrok_down, KeyStates>>
  /\ shot_history' = <<lost, stray \cup (KeyStates \ Fed(KeyStates, event_queue, 0))>>
  /\ UNCHANGED <<host_keyboard, paused, retrok_down, KeyStates, event_queue, lost, stray>>

(* The events in the queue stay there when a savestate is loaded: a press  *)
(* meets a retrok_down that may say the key is up.                         *)
StrayPresses(keys) == Fed({}, event_queue, 0) \ Codes(keys)

(* A bug retro_unserialize could have: retrok_down is not restored.        *)
UnserializeStatesOnly ==
  /\ shot # << >>
  /\ KeyStates' = shot[2]
  /\ paused' \in BOOLEAN
  /\ lost' = shot_history[1]
  /\ stray' = shot_history[2] \cup StrayPresses(shot[1])
  /\ UNCHANGED <<host_keyboard, retrok_down, event_queue, shot, shot_history>>

retro_unserialize ==
  /\ shot # << >>
  /\ retrok_down' = shot[1]
  /\ KeyStates' = shot[2]
  /\ paused' \in BOOLEAN
  /\ lost' = shot_history[1]
  /\ stray' = shot_history[2] \cup StrayPresses(shot[1])
  /\ UNCHANGED <<host_keyboard, event_queue, shot, shot_history>>

-----------------------------------------------------------------------------
(* Frames                                                                  *)

(* The part of a set of events that a queue with some room takes.          *)
Taken(S, room) ==
  IF Cardinality(S) <= room THEN {S} ELSE {T \in SUBSET S : Cardinality(T) = room}

(* Bugs that Unstuck could have: it releases what a pad presses; or it     *)
(* leaves a held key alone though the host's keyboard is not used.         *)
UnstuckPads(held, joy) == IF paused THEN {} ELSE (retrok_down \cup joy) \ Used(held)

UnstuckByHost(held, joy) == IF paused THEN {} ELSE retrok_down \ (joy \cup held)

(* core_input_keyboard_unstick: what is released, unless paused.           *)
Unstuck(held, joy) == IF paused THEN {} ELSE retrok_down \ (joy \cup Used(held))

(* core_input_keyboard_joy: of the keys that pads and the on-screen        *)
(* keyboard press, only those that are not down yet become events.         *)
NewlyDown(joy) == joy \ retrok_down

(* core_input_update and core_input_post, when the host reports some keys  *)
(* as held, and pads and the on-screen keyboard press others: of those the *)
(* ones that are not down yet are pressed, then keys that nobody holds are *)
(* released, and Hatari takes all the events.  When a pad button resets    *)
(* the machine, that happens after the last of these events is queued; a   *)
(* cold reset runs a frame in which Hatari takes some, to be forgotten.    *)
Frame(held, joy, reset) ==
  LET new   == NewlyDown(joy)
      stuck == Unstuck(held, joy)
      room  == QueueSize - Len(event_queue)
  IN /\ reset => ~paused
     /\ event_queue' = << >>
     /\ retrok_down' = (retrok_down \cup joy) \ stuck
     /\ \E pressed \in Taken(new, room) : \E released \in Taken(stuck, room - Cardinality(pressed)) :
          /\ lost' = (lost \cup Codes(stuck)) \ Codes(released)
          /\ stray' = stray \ Codes(released)
          /\ IF reset
             THEN \E i \in 0 .. Len(event_queue), kept \in SUBSET pressed :
                    /\ i < Len(event_queue) => kept = pressed
                    /\ KeyStates' = (Fed({}, event_queue, i) \cup Codes(kept)) \ Codes(released)
             ELSE KeyStates' = (Fed(KeyStates, event_queue, 0) \cup Codes(pressed))
                                 \ Codes(released)

(* The frame may end with the pause or the on-screen keyboard opened or    *)
(* closed.                                                                 *)
retro_run(held, joy, reset) ==
  /\ Frame(held, joy, reset)
  /\ paused' \in BOOLEAN
  /\ UNCHANGED <<host_keyboard, shot, shot_history>>

(* A program of the ST resets its keyboard.                                *)
IKBD_Boot_ROM ==
  /\ KeyStates' = {}
  /\ UNCHANGED <<host_keyboard, paused, retrok_down, event_queue, shot, history>>

Init ==
  /\ host_keyboard \in BOOLEAN
  /\ paused = FALSE
  /\ retrok_down = {}
  /\ KeyStates = {}
  /\ event_queue = << >>
  /\ shot = << >>
  /\ lost = {}
  /\ stray = {}
  /\ shot_history = <<{}, {}>>

Next ==
  \/ \E k \in Key, down \in BOOLEAN : HostEvent(k, down)
  \/ ChangeHostKeyboard
  \/ \E i \in 0 .. Len(event_queue) : retro_reset(i)
  \/ retro_serialize
  \/ retro_unserialize
  \/ \E held, joy \in SUBSET Key, reset \in BOOLEAN : retro_run(held, joy, reset)
  \/ IKBD_Boot_ROM

Spec == Init /\ [][Next]_vars

-----------------------------------------------------------------------------
(* Properties                                                              *)

(* Every variable keeps to its type.                                       *)
TypeOK ==
  /\ host_keyboard \in BOOLEAN
  /\ paused \in BOOLEAN
  /\ retrok_down \in SUBSET Key
  /\ KeyStates \in SUBSET Code
  /\ event_queue \in Seq(Event) /\ Len(event_queue) <= QueueSize
  /\ shot = << >> \/ shot \in (SUBSET Key) \X (SUBSET Code)
  /\ lost \in SUBSET Code
  /\ stray \in SUBSET Code
  /\ shot_history \in (SUBSET Code) \X (SUBSET Code)

(* A code that is, or once the queue is empty will be, pressed on the ST   *)
(* belongs to a key that the core knows to be down: unstick, which looks   *)
(* at those keys only, can find it.  There are two exceptions.  The        *)
(* release of a code was dropped by a full queue: retrok_down takes it for *)
(* delivered (the overflow of event_queue_push), and nothing repeats it.   *)
(* Or its event and a savestate passed each other, as core_input_serialize *)
(* leaves the queue alone: its release was queued when the state was made, *)
(* or its press when the state was loaded.                                 *)
StuckKeysAreKnown ==
  Fed(KeyStates, event_queue, 0) \ Codes(retrok_down) \subseteq lost \cup stray

(* An unpaused frame after which a code is pressed on the ST though        *)
(* neither the user nor a pad presses a key for it.                        *)
Hangs(s) ==
  /\ ~paused /\ s \in KeyStates'
  /\ \E held, joy \in SUBSET Key, reset \in BOOLEAN :
       s \notin Codes(joy \cup Used(held)) /\ retro_run(held, joy, reset)

(* No loss of focus, pause, change of the option, reset or savestate       *)
(* leaves a key hanging (the comment at the call of                        *)
(* core_input_keyboard_unstick), but for the keys whose releases a full    *)
(* queue drops, and those whose event was queued while a savestate was     *)
(* made or loaded.                                                         *)
NoStuckKeys == [][\A s \in Code : Hangs(s) => s \in lost' \cup stray']_vars

(* A savestate does not need the event queue, says the comment of          *)
(* core_input_serialize: "should be empty, but even if not the pending     *)
(* events haven't effected emulation yet".  A key that hangs would be one  *)
(* that a full queue has lost.                                             *)
QueueNotNeeded == [][\A s \in Code : Hangs(s) => s \in lost']_vars

(* The frame that releases a code on the ST is not one in which its key is *)
(* held on the host or by a pad: unstick releases no key in use, whoever   *)
(* pressed it before.  Two keys with one code are the exception.           *)
HeldKeysStay ==
  [][\A k \in retrok_down :
       /\ Scan[k] \notin KeyStates' /\ Scan[k] \in Fed(KeyStates, event_queue, 0)
       /\ \A m \in retrok_down \ {k} : Scan[m] # Scan[k]
       => ~\E held, joy \in SUBSET Key :
             k \in Used(held) \cup joy /\ retro_run(held, joy, FALSE)]_vars
=============================================================================
