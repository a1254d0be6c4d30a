------------------------- MODULE ScreenKeyboardProofs -------------------------
(***************************************************************************)
(* For every length of a press, every delay and rate of the repetition:    *)
(* the presses of the on-screen keyboard begin and end with CONFIRM,       *)
(* wherever the cursor is; and the cursor never leaves the keys of the     *)
(* grid, whatever moves it and whatever layout is drawn.                   *)
(***************************************************************************)
EXTENDS ScreenKeyboard, TLAPS, WellFoundedInduction, SequenceTheorems

PressCounts ==
  /\ osk_press_time \in 0 .. PressLen
  /\ released \in 0 .. PressLen

(* What is left of a press is no more than what CONFIRM has not been up    *)
(* for.                                                                    *)
PressRunsOut == osk_press_key => osk_press_time + released <= PressLen

(* The button that was down when the keyboard opened is still down, and    *)
(* the keyboard does not count it as held.                                 *)
OpenedDown ==
  core_osk_mode /= "OFF" /\ ~let_go =>
    /\ osk_press_time = 0 /\ osk_press_mod = {}
    /\ ~core_osk_hold_ready
    /\ "CONFIRM" \in aux_buttons

IInv == PressCounts /\ PressRunsOut /\ OpenedDown

-----------------------------------------------------------------------------
(* The parts of a poll                                                     *)

LEMMA AppliedFacts ==
  ASSUME PressCounts
  PROVE  /\ Applied \in 0 .. PressLen
         /\ osk_press_time = 0 => Applied = 0
         /\ osk_press_time > 0 => Applied = osk_press_time - 1
  BY ScreenKeyboardAssumption DEF ScreenKeyboardAssumption, PressCounts, Applied

LEMMA PolledFacts ==
  ASSUME PressCounts, NEW held, Polled(held)
  PROVE  /\ aux_buttons' = held
         /\ released' \in 0 .. PressLen
         /\ "CONFIRM" \in held => released' = 0
         /\ released' <= released + 1
  BY ScreenKeyboardAssumption DEF ScreenKeyboardAssumption, PressCounts, Polled

(* CONFIRM is pressed only by being down where it was up.                  *)
LEMMA ConfirmIsNew ==
  ASSUME NEW held, "CONFIRM" \in Pressed(held)
  PROVE  "CONFIRM" \notin aux_buttons /\ "CONFIRM" \in held
  BY DEF Pressed, Direction

-----------------------------------------------------------------------------
(* The steps                                                               *)

(* The countdown keeps pace with the polls.                                *)
LEMMA CountdownKeepsPace ==
  ASSUME PressCounts, NEW held, Polled(held), osk_press_time' = Applied
  PROVE  /\ PressCounts'
         /\ osk_press_time + released <= PressLen =>
              osk_press_time' + released' <= PressLen
  BY AppliedFacts, PolledFacts, ScreenKeyboardAssumption
     DEF ScreenKeyboardAssumption, PressCounts

LEMMA IdleStep ==
  ASSUME IInv, NEW held, Idle(held)
  PROVE  IInv'
<1>1. /\ core_osk_mode' = "OFF"
      /\ osk_press_time' = Applied /\ Polled(held)
      /\ osk_press_key' = osk_press_key
  BY DEF Idle
<1>2. PressCounts' /\ PressRunsOut'
  BY <1>1, CountdownKeepsPace DEF IInv, PressRunsOut
<1> QED  BY <1>1, <1>2 DEF IInv, OpenedDown

LEMMA OpenStep ==
  ASSUME IInv, NEW held, NEW mode, Open(held, mode)
  PROVE  IInv'
<1>1. /\ osk_press_time' = 0 /\ osk_press_mod' = {} /\ Polled(held)
      /\ ~osk_press_key' /\ ~core_osk_hold_ready'
      /\ ~let_go' => "CONFIRM" \in held
  BY Zenon DEF Open
<1>2. PressCounts' /\ aux_buttons' = held
  BY <1>1, PolledFacts, ScreenKeyboardAssumption
     DEF ScreenKeyboardAssumption, IInv, PressCounts
<1> QED  BY <1>1, <1>2 DEF IInv, PressRunsOut, OpenedDown

LEMMA RestStep ==
  ASSUME IInv, NEW held, Rest(held)
  PROVE  IInv'
<1>1. /\ osk_press_time' = Applied /\ Polled(held)
      /\ osk_press_key' = osk_press_key
      /\ let_go'
  BY Zenon DEF Rest, InputKeyboard
<1>2. PressCounts' /\ PressRunsOut'
  BY <1>1, CountdownKeepsPace DEF IInv, PressRunsOut
<1> QED  BY <1>1, <1>2 DEF IInv, OpenedDown

LEMMA CancelStep ==
  ASSUME IInv, NEW held, Cancel(held)
  PROVE  IInv'
<1>1. /\ osk_press_time' = IF core_osk_mode = "KEY_SHOT" THEN PressLen ELSE Applied
      /\ Polled(held)
      /\ ~osk_press_key'
      /\ core_osk_mode' = "OFF"
  BY Zenon DEF Cancel, InputKeyboard, Drawn
<1>2. PressCounts'
  BY <1>1, AppliedFacts, PolledFacts, ScreenKeyboardAssumption
     DEF ScreenKeyboardAssumption, IInv, PressCounts
<1> QED  BY <1>1, <1>2 DEF IInv, PressRunsOut, OpenedDown

LEMMA ShootStep ==
  ASSUME IInv, NEW held, Shoot(held)
  PROVE  IInv'
<1>1. /\ osk_press_time' = PressLen /\ Polled(held)
      /\ "CONFIRM" \in held
      /\ core_osk_mode' = "OFF"
  BY ConfirmIsNew DEF Shoot, InputKeyboard, Drawn
<1>2. PressCounts' /\ released' = 0
  BY <1>1, PolledFacts, ScreenKeyboardAssumption
     DEF ScreenKeyboardAssumption, IInv, PressCounts
<1>3. PressRunsOut'
  BY <1>1, <1>2, ScreenKeyboardAssumption DEF ScreenKeyboardAssumption, PressRunsOut
<1> QED  BY <1>1, <1>2, <1>3 DEF IInv, OpenedDown

LEMMA TypeStep ==
  ASSUME IInv, NEW held, Type(held)
  PROVE  IInv'
<1> DEFINE confirm == "CONFIRM" \in Pressed(held) /\ Key >= 0
           plain == ModifierAt = {}
<1>1. /\ osk_press_mod' = IF confirm THEN SymDiff(osk_press_mod, ModifierAt \cap Modifiers)
                                     ELSE osk_press_mod
      /\ osk_press_key' = (osk_press_key \/ (confirm /\ plain) \/ HoldsKey(held))
      /\ osk_press_time' = CASE confirm /\ plain -> PressLen
                             [] HoldsKey(held) -> 1
                             [] OTHER -> Applied
      /\ UNCHANGED core_osk_hold_ready
      /\ core_osk_mode /= "OFF"
      /\ Polled(held)
      /\ let_go' = (let_go \/ "CONFIRM" \notin held)
  BY DEF Type, InputKeyboard
<1>2. /\ confirm => "CONFIRM" \in held /\ "CONFIRM" \notin aux_buttons
      /\ HoldsKey(held) => /\ "CONFIRM" \in held /\ core_osk_hold_ready
                           /\ ~(confirm /\ plain)
  BY ConfirmIsNew DEF HoldsKey
<1> HIDE DEF confirm, plain
<1>3. PressCounts'
  BY <1>1, AppliedFacts, PolledFacts, ScreenKeyboardAssumption
     DEF ScreenKeyboardAssumption, IInv, PressCounts
<1>4. PressRunsOut'
  <2>1. CASE "CONFIRM" \in held
    <3>1. released' = 0
      BY <1>1, <2>1, PolledFacts DEF IInv
    <3>2. osk_press_time' \in 0 .. PressLen
      BY <1>3 DEF PressCounts
    <3>3. \A t \in 0 .. PressLen : t + 0 <= PressLen
      BY ScreenKeyboardAssumption DEF ScreenKeyboardAssumption
    <3> QED  BY <3>1, <3>2, <3>3 DEF PressRunsOut
  <2>2. CASE "CONFIRM" \notin held
    <3>1. ~(confirm /\ plain) /\ ~HoldsKey(held)
      BY <1>2, <2>2
    <3>2. osk_press_key' => osk_press_key
      BY <1>1, <3>1, Zenon
    <3>3. osk_press_time' = Applied
      BY <1>1, <3>1
    <3>4. osk_press_key => osk_press_time' + released' <= PressLen
      BY <1>1, <3>3, CountdownKeepsPace DEF IInv, PressRunsOut
    <3> QED  BY <3>2, <3>4 DEF PressRunsOut
  <2> QED  BY <2>1, <2>2
<1>5. OpenedDown'
  BY <1>1, <1>2, AppliedFacts, PolledFacts, ScreenKeyboardAssumption
     DEF ScreenKeyboardAssumption, IInv, PressCounts, OpenedDown
<1> QED  BY <1>3, <1>4, <1>5 DEF IInv

LEMMA InvNext ==
  ASSUME IInv, [Next]_vars
  PROVE  IInv'
<1>1. ASSUME NEW held \in Held, Poll(held)
      PROVE  IInv'
  BY <1>1, IdleStep, OpenStep, RestStep, CancelStep, ShootStep, TypeStep DEF Poll
<1>2. ASSUME NEW l, SetLayout(l)
      PROVE  IInv'
  BY <1>2 DEF IInv, PressCounts, PressRunsOut, OpenedDown, SetLayout, presses, history
<1>3. CASE Reset
  BY <1>3 DEF IInv, PressCounts, PressRunsOut, OpenedDown, Reset, presses, history
<1>4. CASE UNCHANGED vars
  BY <1>4 DEF IInv, PressCounts, PressRunsOut, OpenedDown, vars, presses, history
<1> QED  BY <1>1, <1>2, <1>3, <1>4 DEF Next

LEMMA InvInit ==
  ASSUME Init
  PROVE  IInv
  BY ScreenKeyboardAssumption
     DEF ScreenKeyboardAssumption, Init, IInv, PressCounts, PressRunsOut, OpenedDown

LEMMA InvHolds == Spec => []IInv
  BY InvInit, InvNext, PTL DEF Spec

-----------------------------------------------------------------------------
(* The button that opened the keyboard presses nothing until it has been   *)
(* let go, whatever it is held together with.                              *)
THEOREM NothingPressedOnOpening == Spec => []NoPressOnOpening
<1>1. IInv => NoPressOnOpening
  BY DEF IInv, OpenedDown, NoPressOnOpening
<1> QED  BY <1>1, InvHolds, PTL

(* No press of the on-screen keyboard outlives CONFIRM by more polls than  *)
(* the option allows.                                                      *)
THEOREM PressesEnd == Spec => []KeysComeUp
<1>1. IInv => KeysComeUp
  BY ScreenKeyboardAssumption
     DEF ScreenKeyboardAssumption, IInv, PressCounts, PressRunsOut, KeysComeUp
<1> QED  BY <1>1, InvHolds, PTL

(* A key that is held on the on-screen keyboard is down at every poll.     *)
THEOREM HeldKeysStay == Spec => HeldKeyStays
<1> DEFINE A ==
      /\ osk_press_key /\ osk_press_time > 0
      /\ core_osk_mode = "KEY" /\ core_osk_mode' = "KEY"
      /\ core_osk_hold_ready
      /\ "CONFIRM" \in aux_buttons \cap aux_buttons'
      /\ Key >= 0 /\ ModifierAt = {}
<1>1. ASSUME IInv, [Next]_vars, A
      PROVE  osk_press_time' > 0
  <2> USE <1>1 DEF A
  <2>1. PressCounts
    BY DEF IInv
  <2>2. ASSUME NEW held, Type(held)
        PROVE  osk_press_time' > 0
    <3>1. "CONFIRM" \in held /\ "CONFIRM" \notin Pressed(held)
      BY <2>2, ConfirmIsNew DEF Type, InputKeyboard, Polled
    <3>2. osk_press_time' = IF HoldsKey(held) THEN 1 ELSE Applied
      BY <2>2, <3>1 DEF Type
    <3>3. Applied = 0 => HoldsKey(held)
      BY <3>1 DEF HoldsKey
    <3>4. Applied \in Nat
      BY <2>1, AppliedFacts, ScreenKeyboardAssumption DEF ScreenKeyboardAssumption
    <3> HIDE DEF A
    <3> QED  BY <3>2, <3>3, <3>4
  <2>3. ASSUME NEW held \in Held, Poll(held)
        PROVE  \E h : Type(h)
    BY <2>3 DEF Poll, Idle, Open, Rest, Cancel, Shoot, InputKeyboard, Polled, Drawn
  <2>4. CASE UNCHANGED vars \/ Reset \/ \E l : SetLayout(l)
    BY <2>4 DEF vars, presses, Reset, SetLayout
  <2> QED  BY <2>2, <2>3, <2>4 DEF Next
<1>2. IInv /\ [Next]_vars => [A => osk_press_time' > 0]_vars
  BY <1>1
<1> QED  BY <1>2, InvHolds, PTL DEF Spec, HeldKeyStays

-----------------------------------------------------------------------------
(* Least and greatest elements                                             *)

LEMMA MinIn ==
  ASSUME NEW S \in SUBSET Nat, S # {}
  PROVE  Min(S) \in S /\ \A j \in S : Min(S) <= j
<1> DEFINE before == {ss \in Nat \X Nat : ss[1] < ss[2]}
<1>1. IsWellFoundedOn(before, Nat)
  BY NatLessThanWellFounded DEF OpToRel
<1>2. PICK x \in S : \A y \in S : ~(<<y, x>> \in before)
  <2> HIDE DEF before
  <2> QED  BY <1>1, WFMin
<1>3. ASSUME NEW y \in S
      PROVE  x <= y
  <2>1. x \in Nat /\ y \in Nat /\ <<y, x>> \notin before
    BY <1>2
  <2>2. ~(y < x)
    BY <2>1
  <2> QED  BY <2>1, <2>2
<1> QED  BY <1>3 DEF Min

LEMMA MaxIn ==
  ASSUME NEW n \in Nat, NEW S \in SUBSET (0 .. n), S # {}
  PROVE  Max(S) \in S /\ \A j \in S : Max(S) >= j
<1> DEFINE T == {n - x : x \in S}
<1>1. T \in SUBSET Nat /\ T # {}
  <2>1. \A x \in S : x \in 0 .. n /\ n - x \in Nat
    OBVIOUS
  <2> QED  BY <2>1
<1>2. Min(T) \in T /\ \A j \in T : Min(T) <= j
  BY <1>1, MinIn
<1>3. PICK x \in S : Min(T) = n - x
  BY <1>2
<1>4. \A y \in S : x >= y
  <2> SUFFICES ASSUME NEW y \in S PROVE x >= y
    OBVIOUS
  <2>1. n - y \in T
    OBVIOUS
  <2>2. n - x <= n - y
    BY <1>2, <1>3, <2>1
  <2> QED  BY <2>2
<1> QED  BY <1>4 DEF Max

-----------------------------------------------------------------------------
(* The moves, on any grid whose cells hold the number of a key or -1.      *)
Grids == [Rows -> [Cols -> Nat \cup {-1}]]

OnKey(g, p) == p \in Position /\ g[p.r][p.c] >= 0

LEMMA ColsAre == Cols = 0 .. 44 /\ Rows = 0 .. 5 /\ -1 \notin Cols
  BY DEF Cols, Rows, OSK_COLS

LEMMA EdgesOfKey ==
  ASSUME NEW row, NEW c \in Cols
  PROVE  /\ LeftEdge(row, c) \in Cols /\ row[LeftEdge(row, c)] = row[c]
         /\ RightEdge(row, c) \in Cols /\ row[RightEdge(row, c)] = row[c]
<1> DEFINE same == {i \in Cols : row[i] = row[c]}
<1>1. same \in SUBSET (0 .. 44) /\ same # {} /\ same \in SUBSET Nat
  BY ColsAre
<1>2. Min(same) \in same
  BY <1>1, MinIn
<1>3. Max(same) \in same
  BY <1>1, MaxIn, 44 \in Nat
<1> QED  BY <1>2, <1>3 DEF LeftEdge, RightEdge

LEMMA SidewaysKeepsKey ==
  ASSUME NEW g \in Grids, NEW p, OnKey(g, p), NEW k
  PROVE  OnKey(g, MoveLeft(g, p, k)) /\ OnKey(g, MoveRight(g, p, k))
<1> DEFINE others == OtherKeys(g[p.r], k)
           before == {c \in others : c < p.c}
           after == {c \in others : c > p.c}
<1>1. /\ p.r \in Rows /\ p.c \in Cols /\ g[p.r] \in [Cols -> Nat \cup {-1}]
      /\ p = [r |-> p.r, c |-> p.c, space |-> p.space]
  BY DEF OnKey, Position, Grids
<1>2. others \in SUBSET Cols /\ \A c \in others : g[p.r][c] >= 0
  BY <1>1 DEF OtherKeys
<1>3. before # {} => Max(before) \in before
  BY <1>2, MaxIn, ColsAre, 44 \in Nat
<1>4. after # {} => Min(after) \in after
  BY <1>2, MinIn, ColsAre
<1>5. ASSUME NEW c \in Cols, g[p.r][c] >= 0
      PROVE  OnKey(g, [p EXCEPT !.c = c, !.space = -1])
  BY <1>1, <1>5 DEF OnKey, Position
<1>6. g[p.r][p.c] >= 0
  BY DEF OnKey
<1> HIDE DEF others
<1>7. OnKey(g, [p EXCEPT !.c = IF before = {} THEN @ ELSE Max(before), !.space = -1])
  BY <1>1, <1>2, <1>3, <1>5, <1>6
<1>8. OnKey(g, [p EXCEPT !.c = IF after = {} THEN @ ELSE Min(after), !.space = -1])
  BY <1>1, <1>2, <1>4, <1>5, <1>6
<1> QED  BY <1>7, <1>8 DEF MoveLeft, MoveRight, others

LEMMA UpKeepsKey ==
  ASSUME NEW g \in Grids, NEW p, OnKey(g, p)
  PROVE  OnKey(g, MoveUp(g, p))
<1> DEFINE left == LeftEdge(g[p.r], p.c)
           right == RightEdge(g[p.r], left)
           above(c) == KeysIn(g, RowsAbove(p.r), c)
<1>1. p.r \in Rows /\ p.c \in Cols /\ p.space \in Cols \cup {-1} /\ g[p.r][p.c] >= 0
  BY DEF OnKey, Position
<1>2. left \in Cols /\ right \in Cols /\ g[p.r][right] >= 0
  BY <1>1, EdgesOfKey
<1>3. \A c : above(c) # {} => Max(above(c)) \in Rows /\ g[Max(above(c))][c] >= 0
  <2> SUFFICES ASSUME NEW c, above(c) # {}
               PROVE  Max(above(c)) \in Rows /\ g[Max(above(c))][c] >= 0
    OBVIOUS
  <2>1. above(c) \in SUBSET (0 .. 5) /\ \A r \in above(c) : g[r][c] >= 0
    BY <1>1, ColsAre DEF KeysIn, RowsAbove
  <2>2. Max(above(c)) \in above(c)
    BY <2>1, MaxIn, 5 \in Nat
  <2> QED  BY <2>1, <2>2, ColsAre
<1>4. ASSUME NEW r \in Rows, NEW c \in Cols, g[r][c] >= 0
      PROVE  /\ OnKey(g, [p EXCEPT !.r = r, !.c = c])
             /\ OnKey(g, [r |-> r, c |-> c, space |-> -1])
  BY <1>4 DEF OnKey, Position
<1>5. OnKey(g, [p EXCEPT !.c = right])
  BY <1>1, <1>2 DEF OnKey, Position
<1>6. MoveUp(g, p) =
        IF p.r = 5 /\ p.space >= 0 /\ g[4][p.space] >= 0
        THEN [r |-> 4, c |-> p.space, space |-> -1]
        ELSE IF above(left) # {} THEN [p EXCEPT !.r = Max(above(left)), !.c = left]
        ELSE IF above(right) # {} THEN [p EXCEPT !.r = Max(above(right)), !.c = right]
        ELSE [p EXCEPT !.c = right]
  BY DEF MoveUp
<1> HIDE DEF left, right, above
<1>7. p.r = 5 /\ p.space >= 0 => p.space \in Cols /\ 4 \in Rows
  BY <1>1, ColsAre
<1>8. CASE p.r = 5 /\ p.space >= 0 /\ g[4][p.space] >= 0
  <2>1. OnKey(g, [r |-> 4, c |-> p.space, space |-> -1])
    BY <1>4, <1>7, <1>8
  <2> QED  BY <1>6, <1>8, <2>1
<1>9. CASE ~(p.r = 5 /\ p.space >= 0 /\ g[4][p.space] >= 0)
  <2>1. CASE above(left) # {}
    <3>1. Max(above(left)) \in Rows /\ g[Max(above(left))][left] >= 0
      BY <1>3, <2>1
    <3>2. OnKey(g, [p EXCEPT !.r = Max(above(left)), !.c = left])
      BY <1>2, <1>4, <3>1
    <3> QED  BY <1>6, <1>9, <2>1, <3>2
  <2>2. CASE above(left) = {} /\ above(right) # {}
    <3>1. Max(above(right)) \in Rows /\ g[Max(above(right))][right] >= 0
      BY <1>3, <2>2
    <3>2. OnKey(g, [p EXCEPT !.r = Max(above(right)), !.c = right])
      BY <1>2, <1>4, <3>1
    <3> QED  BY <1>6, <1>9, <2>2, <3>2
  <2>3. CASE above(left) = {} /\ above(right) = {}
    BY <1>5, <1>6, <1>9, <2>3
  <2> QED  BY <2>1, <2>2, <2>3
<1> QED  BY <1>8, <1>9

LEMMA DownKeepsKey ==
  ASSUME NEW l, NEW g \in Grids, NEW p, OnKey(g, p)
  PROVE  OnKey(g, MoveDown(l, g, p))
<1> DEFINE right == RightEdge(g[p.r], p.c)
           left == LeftEdge(g[p.r], right)
           below(c) == KeysIn(g, (p.r + 1) .. 5, c)
           to == IF below(right) # {} THEN [p EXCEPT !.r = Min(below(right)), !.c = right]
                 ELSE IF below(left) # {} THEN [p EXCEPT !.r = Min(below(left)), !.c = left]
                 ELSE [p EXCEPT !.c = left]
           space == IF ~OnSpaceBar(l, to) THEN -1 ELSE IF p.r = 4 THEN p.c ELSE p.space
<1>1. p.r \in Rows /\ p.c \in Cols /\ p.space \in Cols \cup {-1} /\ g[p.r][p.c] >= 0
  BY DEF OnKey, Position
<1>2. left \in Cols /\ right \in Cols /\ g[p.r][left] >= 0
  BY <1>1, EdgesOfKey
<1>3. \A c : below(c) # {} => Min(below(c)) \in Rows /\ g[Min(below(c))][c] >= 0
  <2> SUFFICES ASSUME NEW c, below(c) # {}
               PROVE  Min(below(c)) \in Rows /\ g[Min(below(c))][c] >= 0
    OBVIOUS
  <2>1. /\ below(c) \in SUBSET (0 .. 5) /\ below(c) \in SUBSET Nat
        /\ \A r \in below(c) : g[r][c] >= 0
    BY <1>1, ColsAre DEF KeysIn
  <2>2. Min(below(c)) \in below(c)
    BY <2>1, MinIn
  <2> QED  BY <2>1, <2>2, ColsAre
<1>4. ASSUME NEW r \in Rows, NEW c \in Cols, g[r][c] >= 0
      PROVE  OnKey(g, [p EXCEPT !.r = r, !.c = c])
  BY <1>4 DEF OnKey, Position
<1>5. OnKey(g, [p EXCEPT !.c = left])
  BY <1>1, <1>2 DEF OnKey, Position
<1>6. OnKey(g, to)
  <2> HIDE DEF left, right, below
  <2> QED  BY <1>2, <1>3, <1>4, <1>5
<1>7. space \in Cols \cup {-1}
  <2> HIDE DEF to
  <2> QED  BY <1>1
<1>8. MoveDown(l, g, p) = [to EXCEPT !.space = space]
  BY DEF MoveDown
<1> HIDE DEF to, space
<1>9. OnKey(g, [to EXCEPT !.space = space])
  BY <1>6, <1>7 DEF OnKey, Position
<1> QED  BY <1>8, <1>9

LEMMA OntoKeyStays ==
  ASSUME NEW g, NEW p, g[p.r][p.c] >= 0
  PROVE  OntoKey(g, p) = p
  BY DEF OntoKey

(* A move of the cursor leads from a key to a key.                         *)
LEMMA MoveKeepsKey ==
  ASSUME NEW l, osk_grid[l] \in Grids, NEW p, OnKey(osk_grid[l], p), NEW dirs
  PROVE  OnKey(osk_grid[l], Move(l, p, dirs))
<1> DEFINE g == osk_grid[l]
           k == g[p.r][p.c]
           left == IF "L" \in dirs THEN MoveLeft(g, p, k) ELSE p
           right == IF "R" \in dirs THEN MoveRight(g, left, k) ELSE left
           up == IF "U" \in dirs THEN MoveUp(g, right) ELSE right
<1>1. OntoKey(g, p) = p
  BY OntoKeyStays DEF OnKey
<1>2. Move(l, p, dirs) = IF "D" \in dirs THEN MoveDown(l, g, up) ELSE up
  BY <1>1, Zenon DEF Move
<1>3. OnKey(g, left)
  BY SidewaysKeepsKey
<1> HIDE DEF left
<1>4. OnKey(g, right)
  BY <1>3, SidewaysKeepsKey
<1> HIDE DEF right
<1>5. OnKey(g, up)
  BY <1>4, UpKeepsKey
<1> HIDE DEF up
<1> QED  BY <1>2, <1>5, DownKeepsKey

-----------------------------------------------------------------------------
(* The grids of the two kinds of layouts                                   *)

LEMMA RepeatedWidths ==
  ASSUME NEW n \in Nat
  PROVE  /\ Twos(n) \in Seq(Int) /\ Len(Twos(n)) = n /\ \A i \in 1 .. n : Twos(n)[i] = 2
         /\ Threes(n) \in Seq(Int) /\ Len(Threes(n)) = n
         /\ \A i \in 1 .. n : Threes(n)[i] = 3
  BY DEF Twos, Threes

LEMMA WidthsTypes ==
  ASSUME NEW l \in OSK_LAYOUTS, NEW r \in Rows
  PROVE  Widths(l)[r] \in Seq(Int)
<1>1. \A n \in Nat : Twos(n) \in Seq(Int) /\ Threes(n) \in Seq(Int)
  BY RepeatedWidths
<1>2. /\ <<-1>> \in Seq(Int) /\ <<3>> \in Seq(Int) /\ <<-2>> \in Seq(Int)
      /\ <<4>> \in Seq(Int) /\ <<5>> \in Seq(Int) /\ <<5, -7>> \in Seq(Int)
      /\ <<-2, 4, 18, 4, -9, 4, 2, 2>> \in Seq(Int)
  OBVIOUS
<1>3. \A s, t \in Seq(Int) : s \o t \in Seq(Int)
  BY ConcatProperties
<1> HIDE DEF Twos, Threes
<1>4. CASE r = 0
  BY <1>1, <1>2, <1>3, <1>4 DEF Widths
<1>5. CASE r = 1
  BY <1>1, <1>2, <1>3, <1>5 DEF Widths
<1>6. CASE r = 2
  BY <1>1, <1>2, <1>3, <1>6 DEF Widths
<1>7. CASE r = 3
  BY <1>1, <1>2, <1>3, <1>7 DEF Widths
<1>8. CASE r = 4
  BY <1>1, <1>2, <1>3, <1>8 DEF Widths
<1>9. CASE r = 5
  BY <1>1, <1>2, <1>3, <1>9 DEF Widths
<1> QED  BY <1>4, <1>5, <1>6, <1>7, <1>8, <1>9, ColsAre

LEMMA GridTypes ==
  ASSUME NEW l \in OSK_LAYOUTS
  PROVE  osk_grid[l] \in Grids
<1>1. ASSUME NEW w \in Seq(Int)
      PROVE  GridRow(w) \in [Cols -> Nat \cup {-1}]
  <2>1. \A c \in Cols : Owner(w, c) \in SUBSET (1 .. Len(w))
    BY DEF Owner
  <2>2. ASSUME NEW c \in Cols, \E k \in Owner(w, c) : w[k] > 0
        PROVE  (CHOOSE k \in Owner(w, c) : TRUE) - 1 \in Nat
    <3>1. (CHOOSE k \in Owner(w, c) : TRUE) \in Owner(w, c)
      BY <2>2
    <3>2. \A k \in 1 .. Len(w) : k - 1 \in Nat
      OBVIOUS
    <3> QED  BY <2>1, <3>1, <3>2
  <2> QED  BY <2>2 DEF GridRow
<1> QED  BY <1>1, WidthsTypes DEF osk_grid, Grids

(* The ends of the keys are the only numbers that start at 0 and grow by   *)
(* the widths.                                                             *)
LEMMA EndsAre ==
  ASSUME NEW w \in Seq(Int), NEW f \in [0 .. Len(w) -> Int],
         f[0] = 0, \A k \in 1 .. Len(w) : f[k] = f[k - 1] + Size(w[k])
  PROVE  Ends(w) = f
<1> DEFINE Grow(e) == e = [k \in 0 .. Len(w) |->
                             IF k = 0 THEN 0 ELSE e[k - 1] + Size(w[k])]
           e == Ends(w)
<1>1. Grow(f)
  <2>1. \A k \in 0 .. Len(w) : f[k] = IF k = 0 THEN 0 ELSE f[k - 1] + Size(w[k])
    OBVIOUS
  <2> QED  BY <2>1
<1>2. e = CHOOSE g : Grow(g)
  BY DEF Ends
<1>3. Grow(e)
  BY <1>1, <1>2
<1> HIDE DEF e
<1> DEFINE S == {k \in 0 .. Len(w) : e[k] # f[k]}
<1>4. S = {}
  <2> SUFFICES ASSUME S # {} PROVE FALSE
    OBVIOUS
  <2>1. S \in SUBSET Nat
    OBVIOUS
  <2>2. PICK m \in S : \A j \in S : m <= j
    BY <2>1, MinIn
  <2>3. e[0] = 0 /\ m # 0 /\ m \in 1 .. Len(w)
    BY <1>3
  <2>4. m - 1 \in 0 .. Len(w) /\ m - 1 \notin S
    BY <2>2, <2>3
  <2>5. e[m] = e[m - 1] + Size(w[m])
    BY <1>3, <2>3
  <2> QED  BY <2>2, <2>3, <2>4, <2>5
<1>5. e = [k \in 0 .. Len(w) |-> e[k]]
  <2>1. e \in [0 .. Len(w) -> {e[k] : k \in 0 .. Len(w)}]
    <3>1. DOMAIN e = 0 .. Len(w)
      BY <1>3
    <3>2. e = [k \in DOMAIN e |-> e[k]]
      BY <1>3
    <3> QED  BY <3>1, <3>2
  <2> QED  BY <2>1
<1> QED  BY <1>4, <1>5 DEF e

LEMMA KeyOfCell ==
  ASSUME NEW w \in Seq(Int), NEW c \in Cols
  PROVE  GridRow(w)[c] >= 0 <=> \E k \in Owner(w, c) : w[k] > 0
<1>1. CASE \E k \in Owner(w, c) : w[k] > 0
  <2>1. (CHOOSE k \in Owner(w, c) : TRUE) \in 1 .. Len(w)
    BY <1>1 DEF Owner
  <2>2. GridRow(w)[c] = (CHOOSE k \in Owner(w, c) : TRUE) - 1
    BY <1>1 DEF GridRow
  <2>3. \A k \in 1 .. Len(w) : k - 1 >= 0
    OBVIOUS
  <2> QED  BY <1>1, <2>1, <2>2, <2>3
<1>2. CASE ~\E k \in Owner(w, c) : w[k] > 0
  BY <1>2 DEF GridRow
<1> QED  BY <1>1, <1>2

(* The row of the shift keys has its empty spaces in the same cells in     *)
(* both kinds of layouts.                                                  *)
ShiftRowKeys == 0 .. 29 \cup 37 .. 42

ShiftRow(x, n) == <<x>> \o Twos(n) \o <<5, -7>> \o Twos(3)

LEMMA ShiftRowWidths ==
  ASSUME NEW x \in Int, NEW n \in Nat
  PROVE  /\ ShiftRow(x, n) \in Seq(Int) /\ Len(ShiftRow(x, n)) = n + 6
         /\ ShiftRow(x, n)[1] = x /\ \A k \in 2 .. n + 1 : ShiftRow(x, n)[k] = 2
         /\ ShiftRow(x, n)[n + 2] = 5 /\ ShiftRow(x, n)[n + 3] = -7
         /\ \A k \in n + 4 .. n + 6 : ShiftRow(x, n)[k] = 2
<1> DEFINE a == <<x>> \o Twos(n)
           b == a \o <<5, -7>>
           c == Twos(3)
           w == b \o c
<1>1. /\ Twos(n) \in Seq(Int) /\ Len(Twos(n)) = n /\ \A k \in 1 .. n : Twos(n)[k] = 2
      /\ c \in Seq(Int) /\ Len(c) = 3 /\ \A k \in 1 .. 3 : c[k] = 2
  BY RepeatedWidths
<1> HIDE DEF c
<1>2. /\ <<x>> \in Seq(Int) /\ Len(<<x>>) = 1 /\ <<x>>[1] = x
      /\ <<5, -7>> \in Seq(Int) /\ Len(<<5, -7>>) = 2
      /\ <<5, -7>>[1] = 5 /\ <<5, -7>>[2] = -7
  OBVIOUS
<1>3. /\ a \in Seq(Int) /\ Len(a) = n + 1 /\ a[1] = x
      /\ \A k \in 2 .. n + 1 : a[k] = 2
  BY <1>1, <1>2, ConcatProperties
<1> HIDE DEF a
<1>4. /\ b \in Seq(Int) /\ Len(b) = n + 3 /\ b[1] = x
      /\ \A k \in 2 .. n + 1 : b[k] = 2
      /\ b[n + 2] = 5 /\ b[n + 3] = -7
  BY <1>2, <1>3, ConcatProperties
<1> HIDE DEF b
<1>5. /\ w \in Seq(Int) /\ Len(w) = n + 6 /\ w[1] = x
      /\ \A k \in 2 .. n + 1 : w[k] = 2
      /\ w[n + 2] = 5 /\ w[n + 3] = -7
      /\ \A k \in n + 4 .. n + 6 : w[k] = 2
  <2>1. /\ w \in Seq(Int) /\ Len(w) = n + 6
        /\ \A k \in 1 .. n + 6 : w[k] = IF k <= n + 3 THEN b[k] ELSE c[k - (n + 3)]
    <3>1. /\ w \in Seq(Int) /\ Len(w) = Len(b) + Len(c)
          /\ \A k \in 1 .. Len(b) + Len(c) :
               w[k] = IF k <= Len(b) THEN b[k] ELSE c[k - Len(b)]
      BY <1>1, <1>4, ConcatProperties, Zenon
    <3>2. Len(b) = n + 3 /\ Len(c) = 3 /\ Len(b) + Len(c) = n + 6
      BY <1>1, <1>4
    <3> HIDE DEF w
    <3> QED  BY <3>1, <3>2
  <2> HIDE DEF w
  <2>2. \A k \in 1 .. n + 3 : w[k] = b[k]
    <3>1. \A k \in 1 .. n + 3 : k \in 1 .. n + 6 /\ k <= n + 3
      OBVIOUS
    <3> QED  BY <2>1, <3>1
  <2>3. ASSUME NEW k \in n + 4 .. n + 6
        PROVE  w[k] = 2
    <3>1. k \in 1 .. n + 6 /\ ~(k <= n + 3) /\ k - (n + 3) \in 1 .. 3
      OBVIOUS
    <3> QED  BY <1>1, <2>1, <3>1
  <2> QED  BY <1>4, <2>1, <2>2, <2>3
<1> QED  BY <1>5 DEF a, b, c, ShiftRow

LEMMA WideShiftRow ==
  ASSUME NEW c \in Cols
  PROVE  osk_grid["wide_shift"][4][c] >= 0 <=> c \in ShiftRowKeys
<1> DEFINE w == ShiftRow(5, 10)
           f == [k \in 0 .. 16 |-> IF k = 0 THEN 0 ELSE IF k <= 11 THEN 2 * k + 3
                                   ELSE IF k = 12 THEN 30 ELSE 2 * k + 11]
<1>1. Widths("wide_shift")[4] = w /\ w \in Seq(Int)
  <2>1. Widths("wide_shift")[4] = w
    BY ColsAre DEF Widths, ShiftRow
  <2>2. w \in Seq(Int)
    BY ShiftRowWidths, 5 \in Int, 10 \in Nat, 3 \in Int, 11 \in Nat
  <2> QED  BY <2>1, <2>2
<1>2. /\ Len(w) = 16 /\ w[1] = 5 /\ \A k \in 2 .. 11 : w[k] = 2
      /\ w[12] = 5 /\ w[13] = -7 /\ \A k \in 14 .. 16 : w[k] = 2
  <2>1. /\ Len(w) = 10 + 6 /\ w[1] = 5 /\ \A k \in 2 .. 10 + 1 : w[k] = 2
        /\ w[10 + 2] = 5 /\ w[10 + 3] = -7
        /\ \A k \in 10 + 4 .. 10 + 6 : w[k] = 2
    BY ShiftRowWidths, 5 \in Int, 10 \in Nat, Zenon
  <2> HIDE DEF w
  <2> QED  BY <2>1
<1> HIDE DEF w
<1>3. Ends(w) = f
  <2>1. f \in [0 .. Len(w) -> Int] /\ f[0] = 0
    BY <1>2
  <2>2. \A k \in 1 .. Len(w) : f[k] = f[k - 1] + Size(w[k])
    BY <1>2 DEF Size
  <2> HIDE DEF f
  <2> QED  BY <1>1, <2>1, <2>2, EndsAre
<1>4. \A k \in 1 .. 16 : k \in Owner(w, c) <=> f[k - 1] <= c /\ c < f[k]
  BY <1>1, <1>2, <1>3 DEF Owner
<1>5. ASSUME NEW k \in 1 .. 16, f[k - 1] <= c, c < f[k], w[k] > 0
      PROVE  c \in ShiftRowKeys
  BY <1>2, <1>5, ColsAre DEF ShiftRowKeys
<1>6. ASSUME c \in ShiftRowKeys
      PROVE  \E k \in 1 .. 16 : f[k - 1] <= c /\ c < f[k] /\ w[k] > 0
  <2>1. CASE c \in 0 .. 4
    <3>1. f[0] <= c /\ c < f[1] /\ w[1] > 0
      BY <1>2, <2>1
    <3> QED  BY <3>1
  <2>2. CASE c \in 5 .. 24
    <3>1. PICK k \in 2 .. 11 : f[k - 1] <= c /\ c < f[k]
      <4>1. PICK h \in 0 .. 9 : c = 2 * h + 5 \/ c = 2 * h + 6
        BY <2>2
      <4> QED  BY <4>1
    <3> QED  BY <1>2, <3>1
  <2>3. CASE c \in 25 .. 29
    <3>1. f[11] <= c /\ c < f[12] /\ w[12] > 0
      BY <1>2, <2>3
    <3> QED  BY <3>1
  <2>4. CASE c \in 37 .. 42
    <3>1. PICK k \in 14 .. 16 : f[k - 1] <= c /\ c < f[k]
      BY <2>4
    <3> QED  BY <1>2, <3>1
  <2> QED  BY <1>6, <2>1, <2>2, <2>3, <2>4 DEF ShiftRowKeys
<1>7. osk_grid["wide_shift"][4][c] = GridRow(w)[c]
  BY <1>1, ColsAre DEF osk_grid, OSK_LAYOUTS
<1>8. Owner(w, c) \subseteq 1 .. 16
  BY <1>1, <1>2 DEF Owner
<1> HIDE DEF f
<1> QED  BY <1>1, <1>4, <1>5, <1>6, <1>7, <1>8, KeyOfCell

LEMMA NarrowShiftRow ==
  ASSUME NEW c \in Cols
  PROVE  osk_grid["narrow_shift"][4][c] >= 0 <=> c \in ShiftRowKeys
<1> DEFINE w == ShiftRow(3, 11)
           f == [k \in 0 .. 17 |-> IF k = 0 THEN 0 ELSE IF k <= 12 THEN 2 * k + 1
                                   ELSE IF k = 13 THEN 30 ELSE 2 * k + 9]
<1>1. Widths("narrow_shift")[4] = w /\ w \in Seq(Int)
  <2>1. Widths("narrow_shift")[4] = w
    BY ColsAre DEF Widths, ShiftRow
  <2>2. w \in Seq(Int)
    BY ShiftRowWidths, 5 \in Int, 10 \in Nat, 3 \in Int, 11 \in Nat
  <2> QED  BY <2>1, <2>2
<1>2. /\ Len(w) = 17 /\ w[1] = 3 /\ \A k \in 2 .. 12 : w[k] = 2
      /\ w[13] = 5 /\ w[14] = -7 /\ \A k \in 15 .. 17 : w[k] = 2
  <2>1. /\ Len(w) = 11 + 6 /\ w[1] = 3 /\ \A k \in 2 .. 11 + 1 : w[k] = 2
        /\ w[11 + 2] = 5 /\ w[11 + 3] = -7
        /\ \A k \in 11 + 4 .. 11 + 6 : w[k] = 2
    BY ShiftRowWidths, 3 \in Int, 11 \in Nat, Zenon
  <2> HIDE DEF w
  <2> QED  BY <2>1
<1> HIDE DEF w
<1>3. Ends(w) = f
  <2>1. f \in [0 .. Len(w) -> Int] /\ f[0] = 0
    BY <1>2
  <2>2. \A k \in 1 .. Len(w) : f[k] = f[k - 1] + Size(w[k])
    BY <1>2 DEF Size
  <2> HIDE DEF f
  <2> QED  BY <1>1, <2>1, <2>2, EndsAre
<1>4. \A k \in 1 .. 17 : k \in Owner(w, c) <=> f[k - 1] <= c /\ c < f[k]
  BY <1>1, <1>2, <1>3 DEF Owner
<1>5. ASSUME NEW k \in 1 .. 17, f[k - 1] <= c, c < f[k], w[k] > 0
      PROVE  c \in ShiftRowKeys
  BY <1>2, <1>5, ColsAre DEF ShiftRowKeys
<1>6. ASSUME c \in ShiftRowKeys
      PROVE  \E k \in 1 .. 17 : f[k - 1] <= c /\ c < f[k] /\ w[k] > 0
  <2>1. CASE c \in 0 .. 2
    <3>1. f[0] <= c /\ c < f[1] /\ w[1] > 0
      BY <1>2, <2>1
    <3> QED  BY <3>1
  <2>2. CASE c \in 3 .. 24
    <3>1. PICK k \in 2 .. 12 : f[k - 1] <= c /\ c < f[k]
      <4>1. PICK h \in 0 .. 10 : c = 2 * h + 3 \/ c = 2 * h + 4
        BY <2>2
      <4> QED  BY <4>1
    <3> QED  BY <1>2, <3>1
  <2>3. CASE c \in 25 .. 29
    <3>1. f[12] <= c /\ c < f[13] /\ w[13] > 0
      BY <1>2, <2>3
    <3> QED  BY <3>1
  <2>4. CASE c \in 37 .. 42
    <3>1. PICK k \in 15 .. 17 : f[k - 1] <= c /\ c < f[k]
      BY <2>4
    <3> QED  BY <1>2, <3>1
  <2> QED  BY <1>6, <2>1, <2>2, <2>3, <2>4 DEF ShiftRowKeys
<1>7. osk_grid["narrow_shift"][4][c] = GridRow(w)[c]
  BY <1>1, ColsAre DEF osk_grid, OSK_LAYOUTS
<1>8. Owner(w, c) \subseteq 1 .. 17
  BY <1>1, <1>2 DEF Owner
<1> HIDE DEF f
<1> QED  BY <1>1, <1>4, <1>5, <1>6, <1>7, <1>8, KeyOfCell

(* A cell that has a key in one layout has one in the other.               *)
LEMMA SameCells ==
  ASSUME NEW l \in OSK_LAYOUTS, NEW m \in OSK_LAYOUTS, NEW p, OnKey(osk_grid[l], p)
  PROVE  OnKey(osk_grid[m], p)
<1>1. p.r \in Rows /\ p.c \in Cols /\ p \in Position /\ osk_grid[l][p.r][p.c] >= 0
  BY DEF OnKey, Position
<1>2. CASE p.r = 4
  BY <1>1, <1>2, WideShiftRow, NarrowShiftRow DEF OnKey, OSK_LAYOUTS
<1>3. CASE p.r # 4
  <2>1. Widths(l)[p.r] = Widths(m)[p.r]
    BY <1>1, <1>3 DEF Widths
  <2>2. osk_grid[l][p.r] = osk_grid[m][p.r]
    BY <1>1, <2>1 DEF osk_grid
  <2> QED  BY <1>1, <2>2 DEF OnKey
<1> QED  BY <1>2, <1>3

(* The cursor begins on the space bar.                                     *)
LEMMA StartOnKey ==
  ASSUME NEW l \in OSK_LAYOUTS
  PROVE  OnKey(osk_grid[l], Start)
<1> DEFINE w == <<-2, 4, 18, 4, -9, 4, 2, 2>>
           f == [k \in 0 .. 8 |-> CASE k = 0 -> 0 [] k = 1 -> 2 [] k = 2 -> 6 [] k = 3 -> 24
                                    [] k = 4 -> 28 [] k = 5 -> 37 [] k = 6 -> 41
                                    [] k = 7 -> 43 [] k = 8 -> 45]
<1>1. Widths(l)[5] = w /\ w \in Seq(Int) /\ Len(w) = 8 /\ w[3] = 18
  BY ColsAre DEF Widths
<1>2. Ends(w) = f
  <2>1. f \in [0 .. Len(w) -> Int] /\ f[0] = 0
    <3>1. \A k \in 0 .. 8 : f[k] \in Int
      OBVIOUS
    <3> HIDE DEF f
    <3> QED  BY <1>1, <3>1 DEF f
  <2>2. \A k \in 1 .. 8 : f[k] = f[k - 1] + Size(w[k])
    BY DEF Size
  <2> HIDE DEF f, w
  <2> QED  BY <1>1, <2>1, <2>2, EndsAre
<1>3. f[2] = 6 /\ f[3] = 24
  OBVIOUS
<1> HIDE DEF f, w
<1>4. 3 \in Owner(w, 10)
  BY <1>1, <1>2, <1>3 DEF Owner
<1>5. GridRow(w)[10] >= 0 /\ 10 \in Cols
  BY <1>1, <1>4, KeyOfCell, ColsAre
<1>6. osk_grid[l][5] = GridRow(w) /\ 5 \in Rows
  BY <1>1, ColsAre DEF osk_grid
<1> QED  BY <1>5, <1>6 DEF OnKey, Start, Position

(* A move in one direction.                                                *)
LEMMA MoveOneWay ==
  ASSUME NEW l, NEW p, OnKey(osk_grid[l], p)
  PROVE  /\ Move(l, p, {"D"}) = MoveDown(l, osk_grid[l], p)
         /\ Move(l, p, {"U"}) = MoveUp(osk_grid[l], p)
<1>1. OntoKey(osk_grid[l], p) = p
  BY OntoKeyStays DEF OnKey
<1>2. "L" \notin {"D"} /\ "R" \notin {"D"} /\ "U" \notin {"D"} /\ "D" \in {"D"}
  OBVIOUS
<1>3. "L" \notin {"U"} /\ "R" \notin {"U"} /\ "D" \notin {"U"} /\ "U" \in {"U"}
  OBVIOUS
<1>4. Move(l, p, {"D"}) = MoveDown(l, osk_grid[l], p)
  BY <1>1, <1>2, Zenon DEF Move
<1>5. Move(l, p, {"U"}) = MoveUp(osk_grid[l], p)
  <2> DEFINE g == osk_grid[l]
             k == g[p.r][p.c]
             left == IF "L" \in {"U"} THEN MoveLeft(g, p, k) ELSE p
             right == IF "R" \in {"U"} THEN MoveRight(g, left, k) ELSE left
             up == IF "U" \in {"U"} THEN MoveUp(g, right) ELSE right
  <2>1. Move(l, p, {"U"}) = IF "D" \in {"U"} THEN MoveDown(l, g, up) ELSE up
    BY <1>1, Zenon DEF Move
  <2>2. right = p
    BY <1>3
  <2> HIDE DEF right
  <2>3. up = MoveUp(g, p)
    BY <2>2
  <2> QED  BY <1>3, <2>1, <2>3
<1> QED  BY <1>4, <1>5

(* Down from row 4 to the space bar remembers the column.                  *)
LEMMA SpaceRemembers ==
  ASSUME NEW l, NEW g \in Grids, NEW p, OnKey(g, p), p.r = 4,
         OnSpaceBar(l, MoveDown(l, g, p)), g = osk_grid[l]
  PROVE  MoveDown(l, g, p).space = p.c
<1> DEFINE right == RightEdge(g[p.r], p.c)
           left == LeftEdge(g[p.r], right)
           below(c) == KeysIn(g, (p.r + 1) .. 5, c)
           to == IF below(right) # {} THEN [p EXCEPT !.r = Min(below(right)), !.c = right]
                 ELSE IF below(left) # {} THEN [p EXCEPT !.r = Min(below(left)), !.c = left]
                 ELSE [p EXCEPT !.c = left]
           down == MoveDown(l, g, p)
<1>1. down = [to EXCEPT !.space = IF ~OnSpaceBar(l, to) THEN -1
                                  ELSE IF p.r = 4 THEN p.c ELSE p.space]
  BY DEF MoveDown
<1>2. p = [r |-> p.r, c |-> p.c, space |-> p.space]
  BY DEF OnKey, Position
<1>3. /\ to.r = to.r /\ to = [r |-> to.r, c |-> to.c, space |-> p.space]
  BY <1>2
<1> HIDE DEF to
<1>4. down.r = to.r /\ down.c = to.c
  BY <1>1, <1>3
<1>5. OnSpaceBar(l, to)
  BY <1>4 DEF OnSpaceBar
<1>6. down.space = p.c
  BY <1>1, <1>3, <1>5
<1> QED  BY <1>6

(* Down on the space bar stays there, and forgets nothing.                 *)
LEMMA SpaceStays ==
  ASSUME NEW l, NEW g \in Grids, NEW p, OnKey(g, p), OnSpaceBar(l, p), g = osk_grid[l]
  PROVE  MoveDown(l, g, p).r = 5 /\ MoveDown(l, g, p).space = p.space
<1> DEFINE right == RightEdge(g[p.r], p.c)
           left == LeftEdge(g[p.r], right)
           to == [p EXCEPT !.c = left]
<1>1. p = [r |-> 5, c |-> p.c, space |-> p.space] /\ p.c \in Cols
  BY DEF OnKey, Position, OnSpaceBar
<1>2. left \in Cols /\ right \in Cols /\ g[5][left] = g[5][p.c]
  BY <1>1, EdgesOfKey
<1>3. \A c : KeysIn(g, (p.r + 1) .. 5, c) = {}
  BY <1>1 DEF KeysIn
<1> HIDE DEF left
<1>4. to = [r |-> 5, c |-> left, space |-> p.space]
  BY <1>1
<1>5. OnSpaceBar(l, to)
  BY <1>1, <1>2, <1>4 DEF OnSpaceBar
<1>6. MoveDown(l, g, p) = [to EXCEPT !.space = IF ~OnSpaceBar(l, to) THEN -1
                                               ELSE IF p.r = 4 THEN p.c ELSE p.space]
  BY <1>3 DEF MoveDown, left
<1> QED  BY <1>1, <1>4, <1>5, <1>6

-----------------------------------------------------------------------------
(* Types, and the cursor on a key                                          *)
CursorInv == OnKey(osk_grid[core_osk_layout_set], pos)

LEMMA InitTyped == Init => TypeOK /\ CursorInv
<1> SUFFICES ASSUME Init PROVE TypeOK /\ CursorInv
  OBVIOUS
<1>1. CursorInv
  BY StartOnKey DEF Init, CursorInv
<1>2. pos \in Position
  BY <1>1 DEF CursorInv, OnKey
<1>3. /\ core_osk_repeat_time \in Nat /\ osk_press_time \in 0 .. PressLen
      /\ released \in 0 .. PressLen
  BY ScreenKeyboardAssumption DEF ScreenKeyboardAssumption, Init
<1>4. /\ {core_osk_layout, core_osk_layout_set} \subseteq OSK_LAYOUTS
      /\ aux_buttons \subseteq Button /\ core_osk_button_last \subseteq Button
      /\ osk_press_mod \subseteq Modifiers
      /\ core_osk_mode \in {"OFF", "KEY", "KEY_SHOT"}
      /\ core_osk_hold_ready \in BOOLEAN /\ osk_press_key \in BOOLEAN /\ let_go \in BOOLEAN
  BY DEF Init
<1> QED  BY <1>1, <1>2, <1>3, <1>4 DEF TypeOK

(* No poll draws a grid in which the cursor is on no key.                  *)
LEMMA DrawnKeepsKey ==
  ASSUME TypeOK, NEW mode, Drawn(mode), OnKey(osk_grid[core_osk_layout_set], pos')
  PROVE  /\ CursorInv'
         /\ {core_osk_layout', core_osk_layout_set'} \subseteq OSK_LAYOUTS
         /\ core_osk_mode' = mode
<1>1. /\ core_osk_layout \in OSK_LAYOUTS /\ core_osk_layout_set \in OSK_LAYOUTS
      /\ core_osk_layout' = core_osk_layout /\ core_osk_mode' = mode
      /\ core_osk_layout_set' \in {core_osk_layout_set, core_osk_layout}
  BY DEF TypeOK, Drawn
<1> QED  BY <1>1, SameCells DEF CursorInv

LEMMA PollTyped ==
  ASSUME TypeOK, PressCounts, CursorInv, NEW held \in Held, Poll(held)
  PROVE  TypeOK' /\ CursorInv'
<1> USE ScreenKeyboardAssumption DEF ScreenKeyboardAssumption
<1> DEFINE grid == osk_grid[core_osk_layout_set]
<1>1. /\ held \subseteq Button
      /\ Applied \in 0 .. PressLen
      /\ RepeatLeft(held) \in Nat
      /\ grid \in Grids /\ OnKey(grid, pos) /\ pos \in Position
  <2>1. held \subseteq Button /\ RepeatLeft(held) \in Nat
    BY DEF TypeOK, RepeatLeft
  <2>2. grid \in Grids
    BY GridTypes DEF TypeOK
  <2> QED  BY <2>1, <2>2, AppliedFacts DEF CursorInv, OnKey
<1>2. Polled(held) => aux_buttons' \subseteq Button /\ released' \in 0 .. PressLen
  BY <1>1, PolledFacts
<1>3. CASE Idle(held)
  <2>1. UNCHANGED <<core_osk_layout, core_osk_layout_set, core_osk_mode, pos,
                    core_osk_button_last, core_osk_repeat_time, core_osk_hold_ready,
                    osk_press_mod, osk_press_key, let_go>>
        /\ osk_press_time' = Applied
    BY <1>3 DEF Idle, layouts, repeats
  <2>2. Polled(held)
    BY <1>3 DEF Idle
  <2> QED  BY <1>1, <1>2, <2>1, <2>2 DEF TypeOK, CursorInv
<1>4. ASSUME NEW mode \in {"KEY", "KEY_SHOT"}, Open(held, mode)
      PROVE  TypeOK' /\ CursorInv'
  <2>1. /\ Drawn(mode) /\ Polled(held) /\ pos' = pos
        /\ core_osk_button_last' = {} /\ core_osk_repeat_time' = 0
        /\ ~core_osk_hold_ready' /\ core_osk_hold_ready' \in BOOLEAN
        /\ osk_press_mod' = {} /\ osk_press_key' \in BOOLEAN /\ osk_press_time' = 0
        /\ let_go' \in BOOLEAN
    BY <1>4 DEF Open
  <2>2. /\ CursorInv' /\ {core_osk_layout', core_osk_layout_set'} \subseteq OSK_LAYOUTS
        /\ core_osk_mode' = mode
    BY <1>1, <2>1, DrawnKeepsKey
  <2> QED  BY <1>1, <1>2, <2>1, <2>2 DEF TypeOK
<1>5. CASE Rest(held)
  <2>1. /\ Drawn(core_osk_mode) /\ Polled(held) /\ pos' = pos
        /\ core_osk_button_last' = held /\ core_osk_repeat_time' = RepeatLeft(held)
        /\ core_osk_hold_ready' = TRUE
        /\ UNCHANGED <<osk_press_mod, osk_press_key>> /\ osk_press_time' = Applied
        /\ let_go' = (let_go \/ "CONFIRM" \notin held)
    BY <1>5 DEF Rest, InputKeyboard
  <2>2. /\ CursorInv' /\ {core_osk_layout', core_osk_layout_set'} \subseteq OSK_LAYOUTS
        /\ core_osk_mode' = core_osk_mode
    BY <1>1, <2>1, DrawnKeepsKey
  <2> QED  BY <1>1, <1>2, <2>1, <2>2 DEF TypeOK
<1>6. CASE Cancel(held)
  <2>1. /\ Drawn("OFF") /\ Polled(held) /\ pos' = pos
        /\ core_osk_button_last' = {} /\ core_osk_repeat_time' = RepeatLeft(held)
        /\ UNCHANGED <<core_osk_hold_ready, osk_press_mod>> /\ osk_press_key' = FALSE
        /\ osk_press_time' = IF core_osk_mode = "KEY_SHOT" THEN PressLen ELSE Applied
        /\ let_go' = (let_go \/ "CONFIRM" \notin held)
    BY <1>6 DEF Cancel, InputKeyboard
  <2>2. /\ CursorInv' /\ {core_osk_layout', core_osk_layout_set'} \subseteq OSK_LAYOUTS
        /\ core_osk_mode' = "OFF"
    BY <1>1, <2>1, DrawnKeepsKey
  <2>3. osk_press_time' \in 0 .. PressLen
    BY <1>1, <2>1
  <2>4. /\ let_go' \in BOOLEAN /\ core_osk_hold_ready' \in BOOLEAN
        /\ osk_press_key' \in BOOLEAN
    BY <2>1 DEF TypeOK
  <2> QED  BY <1>1, <1>2, <2>1, <2>2, <2>3, <2>4 DEF TypeOK
<1>7. CASE Shoot(held)
  <2>1. /\ Drawn("OFF") /\ Polled(held) /\ pos' = pos
        /\ core_osk_button_last' = {} /\ core_osk_repeat_time' = RepeatLeft(held)
        /\ UNCHANGED <<core_osk_hold_ready, osk_press_mod>> /\ osk_press_key' = TRUE
        /\ osk_press_time' = PressLen
        /\ let_go' = (let_go \/ "CONFIRM" \notin held)
    BY <1>7 DEF Shoot, InputKeyboard
  <2>2. /\ CursorInv' /\ {core_osk_layout', core_osk_layout_set'} \subseteq OSK_LAYOUTS
        /\ core_osk_mode' = "OFF"
    BY <1>1, <2>1, DrawnKeepsKey
  <2> QED  BY <1>1, <1>2, <2>1, <2>2 DEF TypeOK
<1>8. CASE Type(held)
  <2> DEFINE confirm == "CONFIRM" \in Pressed(held) /\ Key >= 0
             plain == ModifierAt = {}
             dirs == Pressed(held) \cap Direction
  <2>1. /\ Drawn(core_osk_mode) /\ Polled(held)
        /\ pos' = IF dirs = {} THEN pos ELSE Move(core_osk_layout_set, pos, dirs)
        /\ core_osk_button_last' = held
        /\ core_osk_hold_ready' = core_osk_hold_ready
        /\ let_go' = (let_go \/ "CONFIRM" \notin held)
    BY <1>8 DEF Type, InputKeyboard
  <2>2. /\ osk_press_mod' = IF confirm THEN SymDiff(osk_press_mod, ModifierAt \cap Modifiers)
                                       ELSE osk_press_mod
        /\ osk_press_key' = (osk_press_key \/ (confirm /\ plain) \/ HoldsKey(held))
    BY <1>8 DEF Type
  <2>3. /\ osk_press_time' = CASE confirm /\ plain -> PressLen
                               [] HoldsKey(held) -> 1
                               [] OTHER -> Applied
        /\ core_osk_repeat_time' = IF dirs = {} \/ RepeatDelay = 0 THEN RepeatLeft(held)
                                   ELSE IF Repeats(held) THEN RepeatRate ELSE RepeatDelay
    BY <1>8 DEF Type
  <2>4. HoldsKey(held) => ~(confirm /\ plain)
    BY DEF HoldsKey
  <2> HIDE DEF confirm, plain, dirs
  <2>5. OnKey(grid, pos')
    BY <1>1, <2>1, MoveKeepsKey
  <2>6. /\ CursorInv' /\ {core_osk_layout', core_osk_layout_set'} \subseteq OSK_LAYOUTS
        /\ core_osk_mode' = core_osk_mode
    BY <2>1, <2>5, DrawnKeepsKey
  <2>7. osk_press_mod' \subseteq Modifiers
    BY <2>2 DEF TypeOK, SymDiff
  <2>8. osk_press_key' \in BOOLEAN
    BY <2>2
  <2>9. osk_press_time' \in 0 .. PressLen /\ core_osk_repeat_time' \in Nat
    BY <1>1, <2>3, <2>4
  <2>10. pos' \in Position
    BY <2>5 DEF OnKey
  <2>11. /\ let_go' \in BOOLEAN /\ core_osk_hold_ready' \in BOOLEAN
         /\ core_osk_mode' \in {"OFF", "KEY", "KEY_SHOT"}
    BY <2>1, <2>6 DEF TypeOK
  <2>12. /\ aux_buttons' \subseteq Button /\ released' \in 0 .. PressLen
         /\ core_osk_button_last' \subseteq Button
    BY <1>1, <1>2, <2>1
  <2>13. TypeOK'
    BY <2>6, <2>7, <2>8, <2>9, <2>10, <2>11, <2>12 DEF TypeOK
  <2> QED  BY <2>6, <2>13
<1> QED  BY <1>3, <1>4, <1>5, <1>6, <1>7, <1>8 DEF Poll

LEMMA NextTyped ==
  ASSUME TypeOK, PressCounts, CursorInv, [Next]_vars
  PROVE  TypeOK' /\ CursorInv'
<1>1. ASSUME NEW held \in Held, Poll(held)
      PROVE  TypeOK' /\ CursorInv'
  BY <1>1, PollTyped
<1>2. ASSUME NEW l \in OSK_LAYOUTS, SetLayout(l)
      PROVE  TypeOK' /\ CursorInv'
  BY <1>2 DEF TypeOK, CursorInv, SetLayout, repeats, presses, history
<1>3. CASE Reset
  BY <1>3 DEF TypeOK, CursorInv, Reset, layouts, presses, history
<1>4. CASE UNCHANGED vars
  BY <1>4 DEF TypeOK, CursorInv, vars, layouts, repeats, presses, history
<1> QED  BY <1>1, <1>2, <1>3, <1>4 DEF Next

LEMMA TypedHolds == Spec => [](TypeOK /\ CursorInv)
<1>1. TypeOK /\ CursorInv /\ IInv /\ [Next]_vars => (TypeOK /\ CursorInv)'
  BY NextTyped DEF IInv
<1> QED  BY <1>1, InitTyped, InvHolds, PTL DEF Spec

(* For any press length, repeat times and hands every variable keeps to    *)
(* its type: no move leaves the grid.                                      *)
THEOREM TypesHold == Spec => []TypeOK
BY TypedHolds, PTL

(* For any hands the cursor is on a key at every poll, through moves and   *)
(* changes of the layout.                                                  *)
THEOREM CursorAlwaysOnKey == Spec => []CursorOnKey
<1>1. CursorInv => CursorOnKey
  BY DEF CursorInv, CursorOnKey, OnKey, Key
<1> QED  BY <1>1, TypedHolds, PTL

(* Up from the space bar leads back to the key that down was pressed on,   *)
(* wherever the cursor has been before.                                    *)
THEOREM UpAlwaysReturns == Spec => []UpReturns
<1>1. ASSUME TypeOK, CursorInv
      PROVE  UpReturns
  <2> DEFINE l == core_osk_layout_set
             g == osk_grid[l]
             down == Move(l, pos, {"D"})
             again == Move(l, down, {"D"})
             back(p) == LET u == Move(l, p, {"U"}) IN <<u.r, g[u.r][u.c]>>
  <2>1. g \in Grids /\ OnKey(g, pos) /\ pos.c \in Cols
    BY <1>1, GridTypes DEF TypeOK, CursorInv, Position
  <2>2. ASSUME NEW p, OnKey(g, p)
        PROVE  Move(l, p, {"D"}) = MoveDown(l, g, p) /\ Move(l, p, {"U"}) = MoveUp(g, p)
    BY <2>2, MoveOneWay
  <2> SUFFICES ASSUME pos.r = 4, OnSpaceBar(l, down)
               PROVE  back(down) = <<4, Key>> /\ back(again) = <<4, Key>>
    BY Zenon DEF UpReturns
  <2>3. OnKey(g, down) /\ down.space = pos.c
    <3>1. OnKey(g, down)
      BY <2>1, MoveKeepsKey
    <3>2. down = MoveDown(l, g, pos)
      BY <2>1, <2>2
    <3>3. OnSpaceBar(l, MoveDown(l, g, pos))
      BY <3>2
    <3> HIDE DEF down
    <3> QED  BY <2>1, <3>1, <3>2, <3>3, SpaceRemembers
  <2>4. OnKey(g, again) /\ again.space = pos.c /\ again.r = 5
    <3>1. OnKey(g, again)
      BY <2>1, <2>3, MoveKeepsKey
    <3>2. again = MoveDown(l, g, down)
      BY <2>2, <2>3
    <3> QED  BY <2>1, <2>3, <3>1, <3>2, SpaceStays
  <2>5. ASSUME NEW p, OnKey(g, p), p.r = 5, p.space = pos.c
        PROVE  back(p) = <<4, Key>>
    <3>1. g[4][pos.c] = Key /\ Key >= 0 /\ p.space >= 0
      BY <2>1, <2>5, ColsAre DEF Key, OnKey
    <3>2. MoveUp(g, p) = [r |-> 4, c |-> pos.c, space |-> -1]
      BY <2>5, <3>1 DEF MoveUp
    <3>3. Move(l, p, {"U"}) = [r |-> 4, c |-> pos.c, space |-> -1]
      BY <2>2, <2>5, <3>2
    <3> HIDE DEF g
    <3> QED  BY <3>1, <3>3
  <2>6. down.r = 5
    BY DEF OnSpaceBar
  <2> QED  BY <2>3, <2>4, <2>5, <2>6
<1> QED  BY <1>1, TypedHolds, PTL
=============================================================================
