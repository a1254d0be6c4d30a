------------------------------ MODULE DiskShelf ------------------------------
(***************************************************************************)
(* What a user may rely on about the contents of floppy disks: a disk is a *)
(* register.  Its contents change when the emulated machine writes to it   *)
(* and when a savestate that holds it is restored.  Inserting, ejecting,   *)
(* swapping, resetting, and (with saving enabled) closing the content and  *)
(* opening it again never change what is on a disk.                        *)
(***************************************************************************)
EXTENDS Naturals

CONSTANTS
  Disk,       \* the disks that can be saved
  Persistent  \* whether contents outlive the content; if not, any version may be
              \* found when it is opened again

VARIABLES
  contents,   \* version on each disk
  writes,     \* number of writes made so far
  loads,      \* number of savestates restored so far
  state,      \* the contents captured by the savestate, for the disks it holds
  open        \* whether the content is open

shelf == <<contents, writes, loads, state, open>>

Init ==
  /\ contents = [n \in Disk |-> 0]
  /\ writes = 0
  /\ loads = 0
  /\ state = << >>
  /\ open = FALSE

Open ==
  /\ ~open
  /\ open' = TRUE
  /\ IF Persistent THEN UNCHANGED contents ELSE contents' \in [Disk -> 0 .. writes]
  /\ UNCHANGED <<writes, loads, state>>

Close ==
  /\ open
  /\ open' = FALSE
  /\ IF Persistent THEN UNCHANGED contents ELSE contents' = [n \in Disk |-> 0]
  /\ UNCHANGED <<writes, loads, state>>

Write(n) ==
  /\ open
  /\ writes' = writes + 1
  /\ contents' = [contents EXCEPT ![n] = writes + 1]
  /\ UNCHANGED <<loads, state, open>>

(* A write to a disk that cannot be saved.                                 *)
OtherWrite ==
  /\ open
  /\ writes' = writes + 1
  /\ UNCHANGED <<contents, loads, state, open>>

SaveState(S) ==
  /\ open
  /\ state' = [n \in S |-> contents[n]]
  /\ UNCHANGED <<contents, writes, loads, open>>

LoadState ==
  /\ open
  /\ loads' = loads + 1
  /\ contents' = [n \in Disk |-> IF n \in DOMAIN state THEN state[n] ELSE contents[n]]
  /\ UNCHANGED <<writes, state, open>>

Next ==
  \/ Open
  \/ Close
  \/ \E n \in Disk : Write(n)
  \/ OtherWrite
  \/ \E S \in SUBSET Disk : SaveState(S)
  \/ LoadState

Spec == Init /\ [][Next]_shelf
=============================================================================
