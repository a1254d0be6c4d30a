--------------------------- MODULE KeyEventsProofs ---------------------------
(***************************************************************************)
(* For every set of keys, every assignment of scancodes and every size of  *)
(* the queue: no key is left hanging on the ST but for those of a full     *)
(* queue and of an event that a savestate has passed, and none is released *)
(* while it is held.                                                       *)
(***************************************************************************)
EXTENDS KeyEvents, TLAPS

(* The savestate holds no code that its keys do not account for, save for  *)
(* those whose release was lost before or still queued.                    *)
ShotInv ==
  shot # << >> => shot[2] \ Codes(shot[1]) \subseteq shot_history[1] \cup shot_history[2]

IInv == TypeOK /\ StuckKeysAreKnown /\ ShotInv

-----------------------------------------------------------------------------
(* What the events in the queue do                                         *)

LEMMA FedType ==
  ASSUME NEW K, NEW q, NEW i
  PROVE  Fed(K, q, i) \subseteq Code
  BY DEF Fed

LEMMA FedNothing ==
  ASSUME NEW K \in SUBSET Code
  PROVE  Fed(K, << >>, 0) = K
<1>1. \A s : Effective(<< >>, 0, s) = {}
  BY DEF Effective
<1> QED  BY <1>1 DEF Fed

(* The codes that are pressed once one more event has been taken.          *)
LEMMA FedOneMore ==
  ASSUME NEW K, NEW q \in Seq(Event), NEW e \in Event
  PROVE  LET old == Fed(K, q, 0)
             new == Fed(K, Append(q, e), 0)
         IN /\ e.down /\ e.repeat => new \subseteq old
            /\ e.down => new \subseteq old \cup {Scan[e.key]}
            /\ ~e.down => new \subseteq old \ {Scan[e.key]}
<1> DEFINE r == Append(q, e)
           counts == ~(e.down /\ e.repeat)
           n == Len(q)
<1>1. /\ n \in Nat /\ Len(r) = n + 1 /\ r[n + 1] = e
      /\ \A j \in 1 .. n : r[j] = q[j]
  OBVIOUS
<1> HIDE DEF r
<1>2. ASSUME NEW s, ~(counts /\ Scan[e.key] = s)
      PROVE  Effective(r, 0, s) = Effective(q, 0, s)
  BY <1>1, <1>2 DEF Effective
<1>3. ASSUME NEW s, counts, Scan[e.key] = s
      PROVE  n + 1 \in Effective(r, 0, s) /\ \A l \in Effective(r, 0, s) : l <= n + 1
  BY <1>1, <1>3 DEF Effective
<1>4. \A s, l : l \in Effective(q, 0, s) => l \in 1 .. n /\ q[l] = r[l]
  BY <1>1 DEF Effective
<1>5. ASSUME NEW s \in Fed(K, r, 0), ~(counts /\ Scan[e.key] = s)
      PROVE  s \in Fed(K, q, 0)
  <2>1. Effective(r, 0, s) = Effective(q, 0, s)
    BY <1>2, <1>5
  <2> QED  BY <1>4, <1>5, <2>1 DEF Fed
<1>6. ASSUME NEW s \in Fed(K, r, 0), counts, Scan[e.key] = s
      PROVE  e.down
  <2>1. PICK j \in Effective(r, 0, s) : r[j].down /\ \A l \in Effective(r, 0, s) : l <= j
    BY <1>3, <1>6 DEF Fed
  <2>2. j = n + 1
    BY <1>1, <1>3, <1>6, <2>1 DEF Effective
  <2> QED  BY <1>1, <2>1, <2>2
<1> QED  BY <1>5, <1>6 DEF r

(* Events that are forgotten, with the keys pressed before, press no code  *)
(* that was not going to be pressed.                                       *)
LEMMA FedLater ==
  ASSUME NEW K, NEW q \in Seq(Event), NEW i \in 0 .. Len(q)
  PROVE  Fed({}, q, i) \subseteq Fed(K, q, 0)
<1> SUFFICES ASSUME NEW s \in Fed({}, q, i)
             PROVE  s \in Fed(K, q, 0)
  OBVIOUS
<1>1. PICK j \in Effective(q, i, s) : q[j].down /\ \A l \in Effective(q, i, s) : l <= j
  BY DEF Fed
<1>2. j \in Effective(q, 0, s) /\ \A l \in Effective(q, 0, s) : l <= j
  BY <1>1 DEF Effective
<1> QED  BY <1>1, <1>2 DEF Fed

LEMMA FedSuffix ==
  ASSUME NEW q \in Seq(Event), NEW i \in 0 .. Len(q)
  PROVE  Fed({}, SubSeq(q, i + 1, Len(q)), 0) \subseteq Fed({}, q, i)
<1> DEFINE r == SubSeq(q, i + 1, Len(q))
<1>1. Len(r) = Len(q) - i /\ \A j \in 1 .. Len(r) : r[j] = q[j + i]
  OBVIOUS
<1> HIDE DEF r
<1>2. \A s, j : j \in Effective(r, 0, s) => j + i \in Effective(q, i, s) /\ r[j] = q[j + i]
  BY <1>1 DEF Effective
<1>3. \A s, l : l \in Effective(q, i, s) => l - i \in Effective(r, 0, s)
  BY <1>1 DEF Effective
<1>4. ASSUME NEW s \in Fed({}, r, 0)
      PROVE  s \in Fed({}, q, i)
  <2>1. PICK j \in Effective(r, 0, s) : r[j].down /\ \A l \in Effective(r, 0, s) : l <= j
    BY <1>4 DEF Fed
  <2>2. j + i \in Effective(q, i, s) /\ q[j + i].down
    BY <1>2, <2>1
  <2>3. j \in Nat
    BY <2>1 DEF Effective
  <2>4. ASSUME NEW l \in Effective(q, i, s) PROVE l <= j + i
    <3>1. l \in Nat /\ l - i <= j
      BY <1>3, <2>1, <2>4 DEF Effective
    <3> QED  BY <2>3, <3>1
  <2> QED  BY <1>4, <2>2, <2>4 DEF Fed
<1> QED  BY <1>4 DEF r

-----------------------------------------------------------------------------
(* What a frame does                                                       *)

LEMMA TakenPart ==
  ASSUME NEW S, NEW room, NEW T \in Taken(S, room)
  PROVE  T \subseteq S
  BY DEF Taken

LEMMA CodesType ==
  ASSUME NEW keys \in SUBSET Key
  PROVE  Codes(keys) \subseteq Code
  BY KeyAssumption DEF KeyAssumption, Codes

(* The codes after a frame are those that were going to be pressed and     *)
(* those it presses itself, but not those it releases; without a reset     *)
(* there are no others missing.                                            *)
FrameEffect(held, joy, reset) ==
  \E pressed \in SUBSET joy, released \in SUBSET Unstuck(held, joy) :
    /\ KeyStates' \subseteq
         (Fed(KeyStates, event_queue, 0) \cup Codes(pressed)) \ Codes(released)
    /\ ~reset => KeyStates' =
         (Fed(KeyStates, event_queue, 0) \cup Codes(pressed)) \ Codes(released)
    /\ lost' = (lost \cup Codes(Unstuck(held, joy))) \ Codes(released)
    /\ stray' = stray \ Codes(released)

LEMMA FrameStates ==
  ASSUME TypeOK, NEW held \in SUBSET Key, NEW joy \in SUBSET Key, NEW reset \in BOOLEAN,
         Frame(held, joy, reset)
  PROVE  FrameEffect(held, joy, reset)
<1> DEFINE stuck == Unstuck(held, joy)
           room == QueueSize - Len(event_queue)
           states(K, p, r) == (K \cup Codes(p)) \ Codes(r)
<1>0. PICK pressed \in Taken(joy \ retrok_down, room) :
        \E released \in Taken(stuck, room - Cardinality(pressed)) :
          /\ lost' = (lost \cup Codes(stuck)) \ Codes(released)
          /\ stray' = stray \ Codes(released)
          /\ IF reset
             THEN \E i \in 0 .. Len(event_queue), kept \in SUBSET pressed :
                    KeyStates' = states(Fed({}, event_queue, i), kept, released)
             ELSE KeyStates' = states(Fed(KeyStates, event_queue, 0), pressed, released)
  BY DEF Frame, NewlyDown
<1>1. PICK released \in Taken(stuck, room - Cardinality(pressed)) :
        /\ lost' = (lost \cup Codes(stuck)) \ Codes(released)
        /\ stray' = stray \ Codes(released)
        /\ IF reset
           THEN \E i \in 0 .. Len(event_queue), kept \in SUBSET pressed :
                  KeyStates' = states(Fed({}, event_queue, i), kept, released)
           ELSE KeyStates' = states(Fed(KeyStates, event_queue, 0), pressed, released)
  BY <1>0
<1>2. pressed \subseteq joy \ retrok_down /\ released \subseteq stuck
  BY TakenPart
<1>3. lost' = (lost \cup Codes(stuck)) \ Codes(released) /\ stray' = stray \ Codes(released)
  BY <1>1
<1> HIDE DEF stuck
<1>4. KeyStates' \subseteq states(Fed(KeyStates, event_queue, 0), pressed, released)
  <2>1. CASE ~reset
    BY <1>1, <2>1
  <2>2. CASE reset
    <3>1. PICK i \in 0 .. Len(event_queue), kept \in SUBSET pressed :
            KeyStates' = states(Fed({}, event_queue, i), kept, released)
      BY <1>1, <2>2
    <3>2. Fed({}, event_queue, i) \subseteq Fed(KeyStates, event_queue, 0)
      BY FedLater DEF TypeOK
    <3>3. Codes(kept) \subseteq Codes(pressed)
      BY DEF Codes
    <3> QED  BY <3>1, <3>2, <3>3
  <2> QED  BY <2>1, <2>2
<1>5. ~reset => KeyStates' = states(Fed(KeyStates, event_queue, 0), pressed, released)
  BY <1>1
<1>6. pressed \in SUBSET joy /\ released \in SUBSET Unstuck(held, joy)
  BY <1>2 DEF stuck
<1>7. /\ lost' = (lost \cup Codes(Unstuck(held, joy))) \ Codes(released)
      /\ stray' = stray \ Codes(released)
  BY <1>3 DEF stuck
<1> QED  BY <1>4, <1>5, <1>6, <1>7 DEF FrameEffect

(* With the events that were queued accounted for, so is what a frame      *)
(* leaves.                                                                 *)
LEMMA FrameKnown ==
  ASSUME TypeOK, StuckKeysAreKnown,
         NEW held \in SUBSET Key, NEW joy \in SUBSET Key, NEW reset \in BOOLEAN,
         Frame(held, joy, reset)
  PROVE  KeyStates' \ Codes(retrok_down') \subseteq lost' \cup stray'
<1>0. PICK pressed \in SUBSET joy, released \in SUBSET Unstuck(held, joy) :
        /\ KeyStates' \subseteq
             (Fed(KeyStates, event_queue, 0) \cup Codes(pressed)) \ Codes(released)
        /\ ~reset => KeyStates' =
             (Fed(KeyStates, event_queue, 0) \cup Codes(pressed)) \ Codes(released)
        /\ lost' = (lost \cup Codes(Unstuck(held, joy))) \ Codes(released)
        /\ stray' = stray \ Codes(released)
  BY FrameStates DEF FrameEffect
<1> SUFFICES ASSUME NEW s \in KeyStates', s \notin Codes(retrok_down')
             PROVE  s \in lost' \cup stray'
  OBVIOUS
<1>1. s \notin Codes(released) /\ s \in Fed(KeyStates, event_queue, 0) \cup Codes(joy)
  BY <1>0 DEF Codes
<1>2. retrok_down' = (retrok_down \cup joy) \ Unstuck(held, joy)
  BY DEF Frame
<1>3. s \in lost \cup stray \/ s \in Codes(retrok_down \cup joy)
  BY <1>1 DEF StuckKeysAreKnown, Codes
<1>4. s \in Codes(retrok_down \cup joy) => s \in Codes(Unstuck(held, joy))
  BY <1>2 DEF Codes
<1> QED  BY <1>0, <1>1, <1>3, <1>4

-----------------------------------------------------------------------------
(* Types                                                                   *)

LEMMA HistoryAfterEvent ==
  ASSUME NEW k \in Key, NEW down \in BOOLEAN, HostEvent(k, down)
  PROVE  /\ down => lost' = lost /\ stray' = stray
         /\ ~down /\ Len(event_queue) < QueueSize =>
              lost' = lost \ Codes({k}) /\ stray' = stray \ Codes({k})
         /\ ~down /\ ~(Len(event_queue) < QueueSize) =>
              lost' = lost \cup Codes({k}) /\ stray' = stray
<1>1. /\ lost' = CASE down -> lost
                  [] ~down /\ Len(event_queue) < QueueSize -> lost \ Codes({k})
                  [] OTHER -> lost \cup Codes({k})
      /\ stray' = IF ~down /\ Len(event_queue) < QueueSize THEN stray \ Codes({k}) ELSE stray
  BY DEF HostEvent, core_input_keyboard_event
<1> QED  BY <1>1

LEMMA HostEventTypes ==
  ASSUME TypeOK, NEW k \in Key, NEW down \in BOOLEAN, HostEvent(k, down)
  PROVE  TypeOK'
<1> DEFINE e == [key |-> k, down |-> down, repeat |-> (down <=> k \in retrok_down)]
           room == Len(event_queue) < QueueSize
<1>1. /\ event_queue' = IF room THEN Append(event_queue, e) ELSE event_queue
      /\ retrok_down' = IF down THEN retrok_down \cup {k} ELSE retrok_down \ {k}
      /\ UNCHANGED <<host_keyboard, paused, KeyStates, shot, shot_history>>
  BY DEF HostEvent, core_input_keyboard_event
<1>2. e \in Event
  BY DEF Event
<1>3. lost' \in SUBSET Code /\ stray' \in SUBSET Code
  BY HistoryAfterEvent, CodesType DEF TypeOK
<1> HIDE DEF e
<1> QED  BY <1>1, <1>2, <1>3, KeyAssumption DEF KeyAssumption, TypeOK

LEMMA retro_resetTypes ==
  ASSUME TypeOK, NEW i \in 0 .. Len(event_queue), retro_reset(i)
  PROVE  TypeOK'
<1>1. /\ event_queue' = SubSeq(event_queue, i + 1, Len(event_queue))
      /\ KeyStates' = {} /\ paused' = FALSE
      /\ UNCHANGED <<host_keyboard, retrok_down, shot, lost, stray, shot_history>>
  BY DEF retro_reset, history
<1>2. event_queue \in Seq(Event) /\ Len(event_queue) \in Nat
  BY DEF TypeOK
<1>3. event_queue' \in Seq(Event) /\ Len(event_queue') <= Len(event_queue)
  BY <1>1, <1>2
<1>4. Len(event_queue') <= QueueSize
  BY <1>2, <1>3, KeyAssumption DEF KeyAssumption, TypeOK
<1> QED  BY <1>1, <1>3, <1>4 DEF TypeOK

LEMMA retro_runTypes ==
  ASSUME TypeOK, NEW held \in SUBSET Key, NEW joy \in SUBSET Key, NEW reset \in BOOLEAN,
         retro_run(held, joy, reset)
  PROVE  TypeOK'
<1>0. Frame(held, joy, reset)
  BY DEF retro_run
<1>1. paused' \in BOOLEAN /\ UNCHANGED <<host_keyboard, shot, shot_history>>
  BY DEF retro_run
<1>2. /\ event_queue' = << >>
      /\ retrok_down' = (retrok_down \cup joy) \ Unstuck(held, joy)
  BY <1>0 DEF Frame
<1>3. KeyStates' \subseteq Code /\ lost' \subseteq Code /\ stray' \subseteq Code
  <2>0. FrameEffect(held, joy, reset)
    BY <1>0, FrameStates
  <2>1. PICK pressed \in SUBSET joy, released \in SUBSET Unstuck(held, joy) :
          /\ KeyStates' \subseteq
               (Fed(KeyStates, event_queue, 0) \cup Codes(pressed)) \ Codes(released)
          /\ ~reset => KeyStates' =
               (Fed(KeyStates, event_queue, 0) \cup Codes(pressed)) \ Codes(released)
          /\ lost' = (lost \cup Codes(Unstuck(held, joy))) \ Codes(released)
          /\ stray' = stray \ Codes(released)
    BY <2>0 DEF FrameEffect
  <2>2. Unstuck(held, joy) \in SUBSET Key
    BY DEF Unstuck, TypeOK
  <2> QED  BY <2>1, <2>2, FedType, CodesType DEF TypeOK
<1> QED  BY <1>1, <1>2, <1>3, KeyAssumption DEF KeyAssumption, TypeOK

LEMMA NextTypes == TypeOK /\ [Next]_vars => TypeOK'
<1>1. ASSUME TypeOK, ChangeHostKeyboard \/ IKBD_Boot_ROM \/ UNCHANGED vars
      PROVE  TypeOK'
  BY <1>1 DEF TypeOK, ChangeHostKeyboard, IKBD_Boot_ROM, vars, history
<1>2. ASSUME TypeOK, retro_serialize
      PROVE  TypeOK'
  BY <1>2, FedType DEF TypeOK, retro_serialize
<1>3. ASSUME TypeOK, retro_unserialize
      PROVE  TypeOK'
  <2>1. StrayPresses(shot[1]) \subseteq Code
    BY FedType DEF StrayPresses
  <2> QED  BY <1>3, <2>1 DEF TypeOK, retro_unserialize
<1> QED  BY <1>1, <1>2, <1>3, HostEventTypes, retro_resetTypes, retro_runTypes DEF Next

LEMMA InitTypes == Init => TypeOK
<1> SUFFICES ASSUME Init PROVE TypeOK
  OBVIOUS
<1>1. event_queue \in Seq(Event) /\ Len(event_queue) <= QueueSize
  BY KeyAssumption DEF KeyAssumption, Init
<1> QED  BY <1>1 DEF Init, TypeOK

-----------------------------------------------------------------------------
(* What is known about the codes that are pressed                          *)

Known == StuckKeysAreKnown /\ ShotInv

LEMMA HostEventKeeps ==
  ASSUME IInv, NEW k \in Key, NEW down \in BOOLEAN, HostEvent(k, down)
  PROVE  Known'
<1> DEFINE e == [key |-> k, down |-> down, repeat |-> (down <=> k \in retrok_down)]
           room == Len(event_queue) < QueueSize
<1>1. /\ event_queue' = IF room THEN Append(event_queue, e) ELSE event_queue
      /\ retrok_down' = IF down THEN retrok_down \cup {k} ELSE retrok_down \ {k}
      /\ UNCHANGED <<host_keyboard, paused, KeyStates, shot, shot_history>>
  BY DEF HostEvent, core_input_keyboard_event
<1>2. /\ e \in Event /\ e.key = k /\ e.down = down
      /\ down => (e.repeat <=> k \in retrok_down)
  BY DEF Event
<1> HIDE DEF e
<1>3. StuckKeysAreKnown'
  <2> DEFINE old == Fed(KeyStates, event_queue, 0)
             new == Fed(KeyStates', event_queue', 0)
  <2>1. event_queue \in Seq(Event) /\ KeyStates' = KeyStates
    BY <1>1 DEF IInv, TypeOK
  <2>2. old \ Codes(retrok_down) \subseteq lost \cup stray
    BY DEF IInv, StuckKeysAreKnown
  <2>3. new \subseteq Code
    BY FedType
  <2>4. room =>
          /\ down => new \subseteq old \cup {Scan[k]}
          /\ ~down => new \subseteq old \ {Scan[k]}
    <3>1. /\ down /\ e.repeat => Fed(KeyStates, Append(event_queue, e), 0) \subseteq old
          /\ down => Fed(KeyStates, Append(event_queue, e), 0) \subseteq old \cup {Scan[k]}
          /\ ~down => Fed(KeyStates, Append(event_queue, e), 0) \subseteq old \ {Scan[k]}
      BY <1>2, <2>1, FedOneMore
    <3> QED  BY <1>1, <2>1, <3>1
  <2>5. ~room => new = old
    BY <1>1, <2>1
  <2>6. new \ Codes(retrok_down') \subseteq lost' \cup stray'
    <3> HIDE DEF old, new, room
    <3>1. CASE down
      <4>1. retrok_down' = retrok_down \cup {k} /\ lost' = lost /\ stray' = stray
        BY <1>1, <3>1, HistoryAfterEvent
      <4>2. new \subseteq old \cup {Scan[k]}
        BY <2>4, <2>5, <3>1
      <4> QED  BY <2>2, <2>3, <4>1, <4>2, KeyAssumption DEF KeyAssumption, Codes
    <3>2. CASE ~down /\ room
      <4>1. /\ retrok_down' = retrok_down \ {k}
            /\ lost' = lost \ Codes({k}) /\ stray' = stray \ Codes({k})
        BY <1>1, <3>2, HistoryAfterEvent DEF room
      <4>2. new \subseteq old \ {Scan[k]}
        BY <2>4, <3>2
      <4> QED  BY <2>2, <2>3, <4>1, <4>2 DEF Codes
    <3>3. CASE ~down /\ ~room
      <4>1. /\ retrok_down' = retrok_down \ {k}
            /\ lost' = lost \cup Codes({k}) /\ stray' = stray
        BY <1>1, <3>3, HistoryAfterEvent DEF room
      <4>2. new = old
        BY <2>5, <3>3
      <4> QED  BY <2>2, <2>3, <4>1, <4>2 DEF Codes
    <3> QED  BY <3>1, <3>2, <3>3
  <2> QED  BY <2>6 DEF StuckKeysAreKnown
<1>4. ShotInv'
  BY <1>1 DEF IInv, ShotInv
<1> QED  BY <1>3, <1>4 DEF Known

LEMMA retro_resetKeeps ==
  ASSUME IInv, NEW i \in 0 .. Len(event_queue), retro_reset(i)
  PROVE  Known'
<1>1. /\ event_queue' = SubSeq(event_queue, i + 1, Len(event_queue))
      /\ KeyStates' = {}
      /\ UNCHANGED <<retrok_down, shot, lost, stray, shot_history>>
  BY DEF retro_reset, history
<1>2. event_queue \in Seq(Event)
  BY DEF IInv, TypeOK
<1>3. Fed({}, event_queue', 0) \subseteq Fed(KeyStates, event_queue, 0)
  BY <1>1, <1>2, FedSuffix, FedLater
<1> QED  BY <1>1, <1>3 DEF IInv, Known, StuckKeysAreKnown, ShotInv

LEMMA retro_runKeeps ==
  ASSUME IInv, NEW held \in SUBSET Key, NEW joy \in SUBSET Key, NEW reset \in BOOLEAN,
         retro_run(held, joy, reset)
  PROVE  Known'
<1>1. Frame(held, joy, reset) /\ shot' = shot /\ shot_history' = shot_history
  BY DEF retro_run
<1>2. event_queue' = << >>
  BY <1>1 DEF Frame
<1>3. KeyStates' \in SUBSET Code
  BY retro_runTypes DEF IInv, TypeOK
<1>4. Fed(KeyStates', event_queue', 0) = KeyStates'
  BY <1>2, <1>3, FedNothing
<1>5. KeyStates' \ Codes(retrok_down') \subseteq lost' \cup stray'
  BY <1>1, FrameKnown DEF IInv
<1> QED  BY <1>1, <1>2, <1>4, <1>5 DEF IInv, Known, StuckKeysAreKnown, ShotInv

(* A savestate takes over the codes that are pressed: those that nothing   *)
(* accounts for are the ones that the queue is about to release.           *)
LEMMA retro_serializeKeeps ==
  ASSUME IInv, retro_serialize
  PROVE  Known'
<1>1. /\ shot' = <<retrok_down, KeyStates>>
      /\ shot_history' = <<lost, stray \cup (KeyStates \ Fed(KeyStates, event_queue, 0))>>
      /\ UNCHANGED <<retrok_down, KeyStates, event_queue, lost, stray>>
  BY DEF retro_serialize
<1>2. Fed(KeyStates, event_queue, 0) \ Codes(retrok_down) \subseteq lost \cup stray
  BY DEF IInv, StuckKeysAreKnown
<1>3. /\ shot'[1] = retrok_down /\ shot'[2] = KeyStates
      /\ shot_history'[1] = lost
      /\ shot_history'[2] = stray \cup (KeyStates \ Fed(KeyStates, event_queue, 0))
  BY <1>1
<1>4. ShotInv'
  BY <1>2, <1>3 DEF ShotInv
<1>5. StuckKeysAreKnown'
  BY <1>1, <1>2 DEF StuckKeysAreKnown
<1> QED  BY <1>4, <1>5 DEF Known

(* What a queue presses that meets the codes of a savestate is one of      *)
(* them, or what it would press by itself.                                 *)
LEMMA FedByEvents ==
  ASSUME NEW K, NEW q, NEW i
  PROVE  Fed(K, q, i) \subseteq K \cup Fed({}, q, i)
BY DEF Fed

LEMMA retro_unserializeKeeps ==
  ASSUME IInv, retro_unserialize
  PROVE  Known'
<1>1. /\ shot # << >> /\ retrok_down' = shot[1] /\ KeyStates' = shot[2]
      /\ lost' = shot_history[1]
      /\ stray' = shot_history[2] \cup StrayPresses(shot[1])
      /\ UNCHANGED <<event_queue, shot, shot_history>>
  BY DEF retro_unserialize
<1>2. shot[2] \ Codes(shot[1]) \subseteq shot_history[1] \cup shot_history[2]
  BY <1>1 DEF IInv, ShotInv
<1>3. Fed(shot[2], event_queue, 0) \subseteq shot[2] \cup Fed({}, event_queue, 0)
  BY FedByEvents
<1>4. StuckKeysAreKnown'
  BY <1>1, <1>2, <1>3 DEF StuckKeysAreKnown, StrayPresses
<1>5. ShotInv'
  BY <1>1, <1>2 DEF ShotInv
<1> QED  BY <1>4, <1>5 DEF Known

(* The other actions do not touch the tables, or clear KeyStates.          *)
LEMMA OthersKeep ==
  ASSUME IInv, ChangeHostKeyboard \/ IKBD_Boot_ROM \/ UNCHANGED vars
  PROVE  Known'
<1>1. CASE ChangeHostKeyboard
  BY <1>1 DEF ChangeHostKeyboard, history, IInv, Known, StuckKeysAreKnown, ShotInv
<1>2. CASE IKBD_Boot_ROM
  <2>1. KeyStates' = {} /\ UNCHANGED <<retrok_down, event_queue, shot, lost, stray, shot_history>>
    BY <1>2 DEF IKBD_Boot_ROM, history
  <2>2. Fed({}, event_queue, 0) \subseteq Fed(KeyStates, event_queue, 0)
    BY FedLater DEF IInv, TypeOK
  <2> QED  BY <2>1, <2>2 DEF IInv, Known, StuckKeysAreKnown, ShotInv
<1>3. CASE UNCHANGED vars
  BY <1>3 DEF vars, history, IInv, Known, StuckKeysAreKnown, ShotInv
<1> QED  BY <1>1, <1>2, <1>3

LEMMA InitKnown == Init => IInv
<1>1. Fed({}, << >>, 0) = {}
  BY FedNothing
<1> QED  BY <1>1, InitTypes DEF Init, IInv, StuckKeysAreKnown, ShotInv

LEMMA NextKnown == IInv /\ [Next]_vars => IInv'
<1>1. IInv /\ [Next]_vars => TypeOK'
  BY NextTypes DEF IInv
<1>2. IInv /\ [Next]_vars => Known'
  BY HostEventKeeps, retro_resetKeeps, retro_runKeeps, retro_serializeKeeps,
     retro_unserializeKeeps, OthersKeep DEF Next
<1> QED  BY <1>1, <1>2 DEF IInv, Known

-----------------------------------------------------------------------------
(* Theorems                                                                *)

(* Every variable keeps to its type, and the event queue to its bound.     *)
THEOREM TypesAlwaysHold == Spec => []TypeOK
BY InitTypes, NextTypes, PTL DEF Spec

(* Whatever is pressed on the ST without need can be found and released,   *)
(* unless its own release was dropped by a full queue, or its event was    *)
(* queued while a savestate was made or loaded.                            *)
THEOREM StuckKeysAlwaysKnown == Spec => []StuckKeysAreKnown
<1>1. IInv => StuckKeysAreKnown
  BY DEF IInv
<1> QED  BY InitKnown, NextKnown, <1>1, PTL DEF Spec

(* An unpaused frame leaves no other key hanging, whenever savestates are  *)
(* made and loaded.                                                        *)
THEOREM NeverStuck == Spec => NoStuckKeys
<1> DEFINE A == \A s \in Code : Hangs(s) => s \in lost' \cup stray'
<1>1. IInv => A
  <2> SUFFICES ASSUME IInv, ~paused, NEW s \in Code, s \in KeyStates',
                      NEW held \in SUBSET Key, NEW joy \in SUBSET Key, NEW reset \in BOOLEAN,
                      s \notin Codes(joy \cup Used(held)), retro_run(held, joy, reset)
               PROVE  s \in lost' \cup stray'
    BY DEF Hangs
  <2>1. Frame(held, joy, reset)
    BY DEF retro_run
  <2>2. s \in Codes(retrok_down') \/ s \in lost' \cup stray'
    BY <2>1, FrameKnown DEF IInv
  <2>3. retrok_down' \subseteq joy \cup Used(held)
    BY <2>1 DEF Frame, Unstuck
  <2> QED  BY <2>2, <2>3 DEF Codes
<1> HIDE DEF A
<1>2. IInv /\ [Next]_vars => [A]_vars
  BY <1>1
<1>3. Spec => [][A]_vars
  BY InitKnown, NextKnown, <1>2, PTL DEF Spec
<1> QED  BY <1>3 DEF NoStuckKeys, A

(* No frame releases a key on the ST that is held, by the user or by a     *)
(* pad.                                                                    *)
THEOREM HeldAlwaysStay == Spec => HeldKeysStay
<1> DEFINE A == \A k \in retrok_down :
                  /\ Scan[k] \notin KeyStates' /\ Scan[k] \in Fed(KeyStates, event_queue, 0)
                  /\ \A m \in retrok_down \ {k} : Scan[m] # Scan[k]
                  => ~\E held, joy \in SUBSET Key :
                        k \in Used(held) \cup joy /\ retro_run(held, joy, FALSE)
<1>1. TypeOK => A
  <2> SUFFICES ASSUME TypeOK, NEW k \in retrok_down,
                      Scan[k] \notin KeyStates', Scan[k] \in Fed(KeyStates, event_queue, 0),
                      \A m \in retrok_down \ {k} : Scan[m] # Scan[k],
                      NEW held \in SUBSET Key, NEW joy \in SUBSET Key,
                      k \in Used(held) \cup joy,
                      retro_run(held, joy, FALSE)
               PROVE  FALSE
    OBVIOUS
  <2>1. Frame(held, joy, FALSE)
    BY DEF retro_run
  <2>2. PICK pressed \in SUBSET joy, released \in SUBSET Unstuck(held, joy) :
          KeyStates' = (Fed(KeyStates, event_queue, 0) \cup Codes(pressed)) \ Codes(released)
    <3>1. ASSUME NEW reset \in BOOLEAN, Frame(held, joy, reset)
          PROVE  FrameEffect(held, joy, reset)
      BY <3>1, FrameStates
    <3>2. FrameEffect(held, joy, FALSE)
      BY <2>1, <3>1
    <3> QED  BY <3>2 DEF FrameEffect
  <2>3. PICK m \in released : Scan[m] = Scan[k]
    BY <2>2 DEF Codes
  <2>4. m \in retrok_down /\ m \notin joy \cup Used(held)
    BY <2>3 DEF Unstuck
  <2> QED  BY <2>3, <2>4
<1> HIDE DEF A
<1>2. TypeOK /\ [Next]_vars => [A]_vars
  BY <1>1
<1>3. Spec => [][A]_vars
  BY TypesAlwaysHold, <1>2, PTL DEF Spec
<1> QED  BY <1>3 DEF HeldKeysStay, A
=============================================================================
