---------------------------- MODULE ScreenKeyboard ----------------------------
(***************************************************************************)
(* The on-screen keyboard (core_osk.c): the grid of keys, the cursor that  *)
(* the pad moves over it, and the presses it gives to core_input.c.        *)
(*                                                                         *)
(* A poll is one call of core_input_update with the drawing that follows.  *)
(* Which of the plain keys is pressed, the place of the keyboard on the    *)
(* screen and the pause screen, which takes no keys, are left out.         *)
(***************************************************************************)
EXTENDS Integers, Sequences, FiniteSets, FiniteSetsExt

CONSTANTS
  PressLen,     \* core_osk_press_len, in polls
  RepeatDelay,  \* core_osk_repeat_delay in frames of the machine, 0 for off
  RepeatRate,   \* core_osk_repeat_rate in frames of the machine
  Held,         \* what the player can hold down at a poll: sets of buttons
  Modifiers     \* the modifier keys whose toggle is followed

Direction == {"U", "D", "L", "R"}
Button == Direction \cup {"CONFIRM", "CANCEL", "POS"}

ASSUME ScreenKeyboardAssumption ==
  /\ PressLen \in Nat \ {0}
  /\ RepeatDelay \in Nat
  /\ RepeatRate \in Nat \ {0}
  /\ Held \subseteq SUBSET Button
  /\ Modifiers \subseteq {"CTRL", "SHL", "SHR", "ALT"}

VARIABLES
  core_osk_layout,      \* the layout of the option
  core_osk_layout_set,  \* the layout the grid was built for
  core_osk_mode,
  aux_buttons,          \* the keyboard's buttons that were down at the last poll
  pos,                  \* core_osk_pos_r, core_osk_pos_c and core_osk_pos_space
  core_osk_button_last,
  core_osk_repeat_time,
  core_osk_hold_ready,
  osk_press_mod,        \* modifiers toggled on
  osk_press_key,        \* a plain key is to be pressed
  osk_press_time,       \* for how many polls
  let_go,               \* history: CONFIRM has been up since the keyboard opened
  released              \* history: for how many polls it has been up, to PressLen

layouts == <<core_osk_layout, core_osk_layout_set>>
repeats == <<core_osk_button_last, core_osk_repeat_time>>
presses == <<osk_press_mod, osk_press_key, osk_press_time>>
history == <<let_go, released>>
vars == <<layouts, core_osk_mode, aux_buttons, pos, repeats, core_osk_hold_ready,
          presses, history>>

-----------------------------------------------------------------------------
(* The grid                                                                *)

OSK_COLS == 45
Rows == 0..5
Cols == 0..(OSK_COLS - 1)

Twos(n) == [i \in 1..n |-> 2]
Threes(n) == [i \in 1..n |-> 3]

(* The widths of the keys in cells, negative for an empty space.  The      *)
(* sixteen layouts differ in them only in the row of the shift keys.       *)
OSK_LAYOUTS == {"wide_shift", "narrow_shift"}

Widths(layout) ==
  [r \in Rows |->
     CASE r = 0 -> <<-1>> \o Threes(10)
       [] r = 1 -> Twos(14) \o Threes(3) \o Twos(4)
       [] r = 2 -> <<3>> \o Twos(12) \o <<-2>> \o Twos(8)
       [] r = 3 -> <<4>> \o Twos(11) \o <<3>> \o Twos(8)
       [] r = 4 -> (IF layout = "wide_shift" THEN <<5>> \o Twos(10)
                                             ELSE <<3>> \o Twos(11)) \o
                   <<5, -7>> \o Twos(3)
       [] r = 5 -> <<-2, 4, 18, 4, -9, 4, 2, 2>>]

(* The modifier keys by row and number.                                    *)
ModifierKey(layout) ==
  [CTRL |-> <<3, 0>>, SHL |-> <<4, 0>>,
   SHR |-> <<4, IF layout = "wide_shift" THEN 11 ELSE 12>>, ALT |-> <<5, 1>>]

(* Where the keys of a row end, in cells from the left.                    *)
Size(width) == IF width < 0 THEN -width ELSE width

Ends(widths) ==
  LET end[k \in 0..Len(widths)] == IF k = 0 THEN 0 ELSE end[k - 1] + Size(widths[k])
  IN end

(* The key or the empty space a cell belongs to, if any.                   *)
Owner(widths, c) ==
  LET end == Ends(widths)
  IN {k \in DOMAIN widths : end[k - 1] <= c /\ c < end[k]}

(* A row of cells, each with the number of its key from 0, or -1.          *)
GridRow(widths) ==
  [c \in Cols |-> LET owner == Owner(widths, c)
                  IN IF \E k \in owner : widths[k] > 0
                     THEN (CHOOSE k \in owner : TRUE) - 1
                     ELSE -1]

osk_grid == [l \in OSK_LAYOUTS |-> [r \in Rows |-> GridRow(Widths(l)[r])]]

(* The cursor before its first move, on the space bar.                     *)
Start == [r |-> 5, c |-> 10, space |-> -1]

Position == [r: Rows, c: Cols, space: Cols \cup {-1}]

(* "Space bar is defined as: row 5, cells >= 10."                          *)
OnSpaceBar(l, p) ==
  LET k == osk_grid[l][p.r][p.c]
  IN p.r = 5 /\ k >= 0 /\ Widths(l)[5][k + 1] >= 10

-----------------------------------------------------------------------------
(* The moves of the cursor over the grid g of a layout                     *)

(* The edges of the key under a column of a row.                           *)
LeftEdge(row, c) == Min({i \in Cols : row[i] = row[c]})
RightEdge(row, c) == Max({i \in Cols : row[i] = row[c]})

(* From an empty cell to the leftmost key, but the search takes the first  *)
(* key of a row, number 0, for an empty cell.                              *)
OntoKey(g, p) ==
  LET keys == {c \in Cols : g[p.r][c] > 0}
  IN IF g[p.r][p.c] >= 0 THEN p
     ELSE [p EXCEPT !.c = IF keys = {} THEN 0 ELSE Min(keys)]

(* A bug the sideways search could have: it stops at empty cells.          *)
OtherAnywhere(row, k) == {c \in Cols : row[c] /= k}

(* The cells of the other keys of a row.                                   *)
OtherKeys(row, k) == {c \in Cols : row[c] \notin {k, -1}}

MoveLeft(g, p, k) ==
  LET cells == {c \in OtherKeys(g[p.r], k) : c < p.c}
  IN [p EXCEPT !.c = IF cells = {} THEN @ ELSE Max(cells), !.space = -1]

MoveRight(g, p, k) ==
  LET cells == {c \in OtherKeys(g[p.r], k) : c > p.c}
  IN [p EXCEPT !.c = IF cells = {} THEN @ ELSE Min(cells), !.space = -1]

(* The rows among those given that have a key in column c.                 *)
KeysIn(g, rows, c) == {r \in rows : g[r][c] >= 0}

(* A bug the search upward could have: it leaves out the topmost row.      *)
RowsAboveButTop(r) == 1..(r - 1)

RowsAbove(r) == 0..(r - 1)

(* A bug MoveUp could have: it does not know where it came from.           *)
UpFromLeft(g, p) ==
  LET left == LeftEdge(g[p.r], p.c)
      above == KeysIn(g, RowsAbove(p.r), left)
  IN IF above /= {} THEN [p EXCEPT !.r = Max(above), !.c = left] ELSE p

(* Up from the space bar returns to the key the cursor came from.          *)
MoveUp(g, p) ==
  LET left == LeftEdge(g[p.r], p.c)
      right == RightEdge(g[p.r], left)
      above(c) == KeysIn(g, RowsAbove(p.r), c)
      returns == p.r = 5 /\ p.space >= 0 /\ g[4][p.space] >= 0
  IN IF returns THEN [r |-> 4, c |-> p.space, space |-> -1]
     ELSE IF above(left) /= {} THEN [p EXCEPT !.r = Max(above(left)), !.c = left]
     ELSE IF above(right) /= {} THEN [p EXCEPT !.r = Max(above(right)), !.c = right]
     ELSE [p EXCEPT !.c = right]

(* Down remembers the column it left row 4 from, if it reaches the space   *)
(* bar.                                                                    *)
MoveDown(l, g, p) ==
  LET right == RightEdge(g[p.r], p.c)
      left == LeftEdge(g[p.r], right)
      below(c) == KeysIn(g, (p.r + 1)..5, c)
      to == IF below(right) /= {} THEN [p EXCEPT !.r = Min(below(right)), !.c = right]
            ELSE IF below(left) /= {} THEN [p EXCEPT !.r = Min(below(left)), !.c = left]
            ELSE [p EXCEPT !.c = left]
  IN [to EXCEPT !.space = IF ~OnSpaceBar(l, to) THEN -1
                          ELSE IF p.r = 4 THEN p.c ELSE p.space]

(* The motion of input_keyboard: every direction in its turn.              *)
Move(l, p, dirs) ==
  LET g == osk_grid[l]
      on == OntoKey(g, p)
      k == g[on.r][on.c]
      left(q) == IF "L" \in dirs THEN MoveLeft(g, q, k) ELSE q
      right(q) == IF "R" \in dirs THEN MoveRight(g, q, k) ELSE q
      up(q) == IF "U" \in dirs THEN MoveUp(g, q) ELSE q
      down(q) == IF "D" \in dirs THEN MoveDown(l, g, q) ELSE q
  IN down(up(right(left(on))))

-----------------------------------------------------------------------------
(* The polls                                                               *)

Key == osk_grid[core_osk_layout_set][pos.r][pos.c]

(* The modifiers under the cursor: one or none.                            *)
ModifierAt == {m \in DOMAIN ModifierKey(core_osk_layout_set) :
                 ModifierKey(core_osk_layout_set)[m] = <<pos.r, Key>>}

(* A bug the countdown could have: it runs only when the keyboard is shut. *)
AppliedWhenShut == IF core_osk_mode = "OFF" /\ osk_press_time > 0
                   THEN osk_press_time - 1 ELSE osk_press_time

(* Another: it does not stop at zero.                                      *)
AppliedForEver == osk_press_time - 1

(* What is left of the press after the poll has applied it.                *)
Applied == IF osk_press_time > 0 THEN osk_press_time - 1 ELSE 0

(* A direction held long enough is pressed again.                          *)
Repeats(held) == core_osk_repeat_time = 1 /\ held = core_osk_button_last

RepeatLeft(held) ==
  IF core_osk_repeat_time > 0 /\ held = core_osk_button_last
  THEN core_osk_repeat_time - 1 ELSE 0

Pressed(held) ==
  (held \ aux_buttons) \cup (IF Repeats(held) THEN held \cap Direction ELSE {})

(* The buttons of the poll are kept.                                       *)
Polled(held) ==
  /\ aux_buttons' = held
  /\ released' = IF "CONFIRM" \in held THEN 0
                 ELSE IF released < PressLen THEN released + 1 ELSE released

(* A poll that leaves the keyboard on the screen draws it, and rebuilds    *)
(* the grid if the option has changed; core_input_osk_close takes it away. *)
Drawn(mode) ==
  /\ core_osk_mode' = mode
  /\ core_osk_layout_set' = IF mode = "OFF" THEN core_osk_layout_set ELSE core_osk_layout
  /\ UNCHANGED core_osk_layout

(* The option is changed, between two polls.                               *)
SetLayout(l) ==
  /\ core_osk_layout' = l
  /\ UNCHANGED <<core_osk_layout_set, core_osk_mode, aux_buttons, pos, repeats,
                 core_osk_hold_ready, presses, history>>

(* retro_reset takes the keyboard away.                                    *)
Reset ==
  /\ core_osk_mode' = "OFF"
  /\ core_osk_button_last' = {}
  /\ UNCHANGED <<layouts, aux_buttons, pos, core_osk_repeat_time, core_osk_hold_ready,
                 presses, history>>

(* A poll without the keyboard.                                            *)
Idle(held) ==
  /\ core_osk_mode = "OFF"
  /\ Polled(held)
  /\ osk_press_time' = Applied
  /\ UNCHANGED <<layouts, core_osk_mode, pos, repeats, core_osk_hold_ready,
                 osk_press_mod, osk_press_key, let_go>>

(* A poll that opens it takes no keys (core_osk_begin), and forgets the    *)
(* presses of the last time.                                               *)
Open(held, mode) ==
  /\ core_osk_mode = "OFF"
  /\ Drawn(mode)
  /\ Polled(held)
  /\ core_osk_button_last' = {}
  /\ core_osk_repeat_time' = 0
  /\ core_osk_hold_ready' = FALSE
  /\ osk_press_mod' = {}
  /\ osk_press_key' = FALSE
  /\ osk_press_time' = 0
  /\ let_go' = ("CONFIRM" \notin held)
  /\ UNCHANGED pos

(* What the branches of input_keyboard share.                              *)
InputKeyboard(held) ==
  /\ core_osk_mode /= "OFF"
  /\ Polled(held)
  /\ let_go' = (let_go \/ "CONFIRM" \notin held)

(* Nothing is pressed.                                                     *)
Rest(held) ==
  /\ InputKeyboard(held)
  /\ Pressed(held) = {}
  /\ "CONFIRM" \notin held
  /\ core_osk_hold_ready' = TRUE
  /\ core_osk_button_last' = held
  /\ core_osk_repeat_time' = RepeatLeft(held)
  /\ osk_press_time' = Applied
  /\ Drawn(core_osk_mode)
  /\ UNCHANGED <<pos, osk_press_mod, osk_press_key>>

(* The keyboard is closed; the one-shot keyboard presses the modifiers.    *)
Cancel(held) ==
  /\ InputKeyboard(held)
  /\ "CANCEL" \in Pressed(held)
  /\ osk_press_key' = FALSE
  /\ osk_press_time' = IF core_osk_mode = "KEY_SHOT" THEN PressLen ELSE Applied
  /\ core_osk_button_last' = {}
  /\ core_osk_repeat_time' = RepeatLeft(held)
  /\ Drawn("OFF")
  /\ UNCHANGED <<pos, core_osk_hold_ready, osk_press_mod>>

(* A key of the one-shot keyboard closes it.                               *)
Shoot(held) ==
  /\ InputKeyboard(held)
  /\ core_osk_mode = "KEY_SHOT"
  /\ "CONFIRM" \in Pressed(held) /\ "CANCEL" \notin Pressed(held)
  /\ Key >= 0 /\ ModifierAt = {}
  /\ osk_press_key' = TRUE
  /\ osk_press_time' = PressLen
  /\ core_osk_button_last' = {}
  /\ core_osk_repeat_time' = RepeatLeft(held)
  /\ Drawn("OFF")
  /\ UNCHANGED <<pos, core_osk_hold_ready, osk_press_mod>>

(* A bug the held key could have: it does not wait for CONFIRM to be let   *)
(* go after the keyboard has opened.                                       *)
HoldsAtOnce(held) ==
  /\ "CONFIRM" \in held \ Pressed(held)
  /\ core_osk_mode = "KEY"
  /\ Applied = 0
  /\ Key >= 0 /\ ModifierAt = {}

(* Another: it looks at the time before the poll.                          *)
HoldsLate(held) ==
  /\ "CONFIRM" \in held \ Pressed(held)
  /\ core_osk_mode = "KEY"
  /\ core_osk_hold_ready
  /\ osk_press_time = 0
  /\ Key >= 0 /\ ModifierAt = {}

(* CONFIRM is held down on a plain key and the press has run out.          *)
HoldsKey(held) ==
  /\ "CONFIRM" \in held \ Pressed(held)
  /\ core_osk_mode = "KEY"
  /\ core_osk_hold_ready
  /\ Applied = 0
  /\ Key >= 0 /\ ModifierAt = {}

(* A key is pressed or held, a modifier is toggled, and then the cursor    *)
(* moves.                                                                  *)
Type(held) ==
  LET confirm == "CONFIRM" \in Pressed(held) /\ Key >= 0
      dirs == Pressed(held) \cap Direction
  IN /\ InputKeyboard(held)
     /\ Pressed(held) /= {} \/ "CONFIRM" \in held
     /\ "CANCEL" \notin Pressed(held)
     /\ ~(confirm /\ ModifierAt = {} /\ core_osk_mode = "KEY_SHOT")
     /\ osk_press_mod' = IF confirm THEN SymDiff(osk_press_mod, ModifierAt \cap Modifiers)
                                    ELSE osk_press_mod
     /\ osk_press_key' = (osk_press_key \/ (confirm /\ ModifierAt = {}) \/ HoldsKey(held))
     /\ osk_press_time' = CASE confirm /\ ModifierAt = {} -> PressLen
                            [] HoldsKey(held) -> 1
                            [] OTHER -> Applied
     /\ pos' = IF dirs = {} THEN pos ELSE Move(core_osk_layout_set, pos, dirs)
     /\ core_osk_button_last' = held
     /\ core_osk_repeat_time' = IF dirs = {} \/ RepeatDelay = 0 THEN RepeatLeft(held)
                                ELSE IF Repeats(held) THEN RepeatRate ELSE RepeatDelay
     /\ Drawn(core_osk_mode)
     /\ UNCHANGED core_osk_hold_ready

Poll(held) ==
  \/ Idle(held)
  \/ \E mode \in {"KEY", "KEY_SHOT"} : Open(held, mode)
  \/ Rest(held)
  \/ Cancel(held)
  \/ Shoot(held)
  \/ Type(held)

(* core_osk_init; the layout of the grid does not matter before the first  *)
(* drawing.                                                                *)
Init ==
  /\ core_osk_layout \in OSK_LAYOUTS
  /\ core_osk_layout_set = core_osk_layout
  /\ core_osk_mode = "OFF"
  /\ aux_buttons = {}
  /\ pos = Start
  /\ core_osk_button_last = {}
  /\ core_osk_repeat_time = 0
  /\ core_osk_hold_ready = FALSE
  /\ osk_press_mod = {}
  /\ osk_press_key = FALSE
  /\ osk_press_time = 0
  /\ let_go = FALSE
  /\ released = 0

Next ==
  \/ \E held \in Held : Poll(held)
  \/ \E l \in OSK_LAYOUTS : SetLayout(l)
  \/ Reset

Spec == Init /\ [][Next]_vars

-----------------------------------------------------------------------------
TypeOK ==
  /\ {core_osk_layout, core_osk_layout_set} \subseteq OSK_LAYOUTS
  /\ core_osk_mode \in {"OFF", "KEY", "KEY_SHOT"}
  /\ aux_buttons \subseteq Button
  /\ pos \in Position
  /\ core_osk_button_last \subseteq Button
  /\ core_osk_repeat_time \in Nat
  /\ core_osk_hold_ready \in BOOLEAN
  /\ osk_press_mod \subseteq Modifiers
  /\ osk_press_key \in BOOLEAN
  /\ osk_press_time \in 0..PressLen
  /\ let_go \in BOOLEAN
  /\ released \in 0..PressLen

(* The cursor is on a key at every poll, whatever moves led there and      *)
(* whatever layout the grid was built for meanwhile: the search for a key  *)
(* from an empty cell, which misses the first key of a row (core_osk.c:    *)
(* 334), is never made.                                                    *)
CursorOnKey == Key >= 0

(* Up from the space bar returns to the key the cursor left by going down  *)
(* ("last column before moving to spacebar so up can return to it and not  *)
(* always Z", core_osk.c:29), also if down is pressed again meanwhile.     *)
UpReturns ==
  LET l == core_osk_layout_set
      down == Move(l, pos, {"D"})
      back(p) == LET u == Move(l, p, {"U"}) IN <<u.r, osk_grid[l][u.r][u.c]>>
  IN pos.r = 4 /\ OnSpaceBar(l, down) =>
       /\ back(down) = <<4, Key>>
       /\ back(Move(l, down, {"D"})) = <<4, Key>>

(* A move in one direction, or none.                                       *)
Step == {{}} \cup {{d} : d \in Direction}

(* The Alt key as the cursor reaches it from the space bar.                *)
Alt(l) == Move(l, Start, {"L"})

(* Where the cursor can get to from there, and from where it can get back: *)
(* more moves than MaxMoves lead nowhere else.                             *)
MaxMoves == 40

Reachable(l) ==
  LET after[n \in 0..MaxMoves] ==
        IF n = 0 THEN {Alt(l)} ELSE {Move(l, p, d) : p \in after[n - 1], d \in Step}
  IN after[MaxMoves]

Returning(l) ==
  LET all == Reachable(l) \cup {Start}
      to == [p \in all |-> {Move(l, p, d) : d \in Step}]
      before[n \in 0..MaxMoves] ==
        IF n = 0 THEN {Alt(l)}
        ELSE LET last == before[n - 1] IN {p \in all : to[p] \cap last /= {}}
  IN before[MaxMoves]

KeysReachable ==
  [l \in OSK_LAYOUTS |->
     /\ {<<r, osk_grid[l][r][c]>> : r \in Rows, c \in Cols} \ {<<r, -1>> : r \in Rows} =
          {<<p.r, osk_grid[l][p.r][p.c]>> : p \in Reachable(l)}
     /\ Returning(l) = Reachable(l) \cup {Start}]

(* Every key of the layout can be typed from everywhere: the moves lead    *)
(* from the Alt key to every key, and back to it from every place they     *)
(* lead to, across the empty spaces of rows 0, 2, 4 and 5.                 *)
EveryKeyReachable == KeysReachable[core_osk_layout]

(* The button that opens the keyboard may be the button that confirms      *)
(* (core_osk.c:598), and it presses nothing as long as it has not been     *)
(* let go.                                                                 *)
NoPressOnOpening ==
  core_osk_mode /= "OFF" /\ ~let_go => osk_press_time = 0 /\ osk_press_mod = {}

(* A key that is held stays down: between the press and its prolongation,  *)
(* one poll at a time, there is no poll without it.                        *)
HeldKeyStays ==
  [][/\ osk_press_key /\ osk_press_time > 0
     /\ core_osk_mode = "KEY" /\ core_osk_mode' = "KEY"
     /\ core_osk_hold_ready
     /\ "CONFIRM" \in aux_buttons \cap aux_buttons'
     /\ Key >= 0 /\ ModifierAt = {}
     => osk_press_time' > 0]_vars

(* A key comes up when CONFIRM has been let go, whatever becomes of the    *)
(* keyboard: no key hangs for longer than the press was to take.           *)
KeysComeUp == released = PressLen => ~(osk_press_key /\ osk_press_time > 0)
=============================================================================
