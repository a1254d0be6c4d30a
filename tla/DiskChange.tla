------------------------------ MODULE DiskChange ------------------------------
(***************************************************************************)
(* How the emulated machine learns that its floppy was changed             *)
(* (hatari/src/floppy.c, fdc.c).  The ST has no disk change line.  The TOS *)
(* reads the write protect signal of a drive every few VBLs and forgets    *)
(* what it knows of a disk when the signal is set; an empty drive has it   *)
(* set.  A user who swaps disks between two frames leaves no gap for the   *)
(* TOS to see, so Hatari sets the signal for a while after each eject.     *)
(*                                                                         *)
(* The module is one drive, the VBL counter, and the TOS as far as fdc.c   *)
(* relies on it.  A savestate holds all three, drive transitions and VBL   *)
(* counter included, and brings back an earlier state of this module.      *)
(***************************************************************************)
EXTENDS Naturals

CONSTANTS
  Disk,      \* disks without write protection
  NoDisk,    \* an empty drive
  Unsure,    \* what the TOS knows of the disk after it saw the signal set
  Delay,     \* FLOPPY_DRIVE_TRANSITION_DELAY_VBL
  Period,    \* VBLs between two looks of the TOS at the drive
  MaxVBL     \* bound on the VBL counter

ASSUME ChangeAssumption ==
  /\ NoDisk \notin Disk /\ Unsure \notin Disk \cup {NoDisk}
  /\ Delay \in Nat /\ Period \in Nat \ {0} /\ MaxVBL \in Nat
  /\ Period < Delay

VARIABLES
  vbl,      \* nVBLs
  drive,    \* the disk in the drive and the two transitions it may be in
  seen,     \* the disk that the TOS takes to be in the drive, or Unsure
  since,    \* VBLs since the TOS last looked
  moved,    \* history: VBL of the last insert or eject
  rushed    \* history: a disk was ejected while still entering, and the TOS
            \* has not seen the signal set since

vars == <<vbl, drive, seen, since, moved, rushed>>

Transition == {"none", "insert", "eject"}

DriveState == [disk: Disk \cup {NoDisk}, s1: Transition, at1: Nat, s2: Transition, at2: Nat]

-----------------------------------------------------------------------------
(* The drive                                                               *)

Started(at) == vbl >= at
Over(at)    == vbl >= at + Delay

(* What Floppy_DriveTransitionUpdateState leaves of the transitions.       *)
Updated(d) ==
  [d EXCEPT !.s1 = IF Over(d.at1) THEN "none" ELSE @,
            !.s2 = IF Over(d.at2) THEN "none" ELSE @]

(* What it returns: whether the signal must be set.  The second transition *)
(* has the last word once it has begun.                                    *)
ForceWPRT(d) ==
  LET first  == d.s1 # "none" /\ ~Over(d.at1)
      second == d.s2 # "none" /\ Started(d.at2) /\ ~Over(d.at2)
  IN IF second THEN d.s2 = "eject" ELSE first /\ d.s1 = "eject"

(* A bug Floppy_DriveTransitionSetState could have: the second transition  *)
(* does not wait for the first one to end.                                 *)
SetStateAtOnce(d, state) ==
  LET u == Updated(d)
  IN CASE u.s1 = "none" -> [u EXCEPT !.s1 = state, !.at1 = vbl, !.s2 = "none"]
       [] u.s1 = state  -> [u EXCEPT !.s2 = "none"]
       [] OTHER         -> [u EXCEPT !.s2 = state, !.at2 = vbl]

Floppy_DriveTransitionSetState(d, state) ==
  LET u == Updated(d)
  IN CASE u.s1 = "none" -> [u EXCEPT !.s1 = state, !.at1 = vbl, !.s2 = "none"]
       [] u.s1 = state  -> [u EXCEPT !.s2 = "none"]
       [] OTHER         -> [u EXCEPT !.s2 = state, !.at2 = u.at1 + Delay]

Ejected(d) ==
  IF d.disk = NoDisk THEN d
  ELSE [Floppy_DriveTransitionSetState(d, "eject") EXCEPT !.disk = NoDisk]

Inserted(d, x) == [Floppy_DriveTransitionSetState(Ejected(d), "insert") EXCEPT !.disk = x]

(* A bug Floppy_Reset could have: transitions outlive the VBL counter.     *)
TransitionsKept(d) == d

(* Floppy_Reset cancels the transitions.                                   *)
Floppy_Reset(d) == [d EXCEPT !.s1 = "none", !.s2 = "none"]

(* The write protect bit of the status register.                           *)
WPRT == drive.disk = NoDisk \/ ForceWPRT(drive)

-----------------------------------------------------------------------------
(* Actions                                                                 *)

(* The end of a frame.  The TOS is never late for its next look.           *)
Frame ==
  /\ since < Period /\ vbl < MaxVBL
  /\ vbl' = vbl + 1
  /\ since' = since + 1
  /\ UNCHANGED <<drive, seen, moved, rushed>>

(* The TOS reads the status register.  With the signal off it keeps on     *)
(* trusting what it knows, and otherwise reads the disk when it next needs *)
(* it.                                                                     *)
Look ==
  /\ drive' = Updated(drive)
  /\ seen' = CASE WPRT -> Unsure
               [] ~WPRT /\ seen = Unsure -> drive.disk
               [] OTHER -> seen
  /\ since' = 0
  /\ rushed' = (rushed /\ ~WPRT)
  /\ UNCHANGED <<vbl, moved>>

(* The insertion of the disk into a drive that was empty is not over.      *)
Entering == drive.disk # NoDisk /\ drive.s1 = "insert" /\ ~Over(drive.at1)

Eject ==
  /\ drive.disk # NoDisk
  /\ drive' = Ejected(drive)
  /\ moved' = vbl
  /\ rushed' = (rushed \/ Entering)
  /\ UNCHANGED <<vbl, seen, since>>

(* A disk that is in the drive is ejected first.                           *)
Insert(x) ==
  /\ drive' = Inserted(drive, x)
  /\ moved' = vbl
  /\ rushed' = (rushed \/ Entering)
  /\ UNCHANGED <<vbl, seen, since>>

(* Warm and cold reset: the TOS starts anew, the VBL counter too.  A cold  *)
(* one reinserts the disk afterwards, by Eject and Insert.                 *)
Reset ==
  /\ vbl' = 0
  /\ drive' = Floppy_Reset(drive)
  /\ seen' = Unsure
  /\ since' = 0
  /\ moved' = 0
  /\ rushed' = FALSE

Init ==
  /\ vbl = 0
  /\ drive = [disk |-> NoDisk, s1 |-> "none", at1 |-> 0, s2 |-> "none", at2 |-> 0]
  /\ seen = Unsure
  /\ since = 0
  /\ moved = 0
  /\ rushed = FALSE

Next == Frame \/ Look \/ Eject \/ (\E x \in Disk : Insert(x)) \/ Reset

Spec == Init /\ [][Next]_vars

-----------------------------------------------------------------------------
(* Properties                                                              *)

(* Every variable keeps to its type.                                       *)
TypeOK ==
  /\ vbl \in 0 .. MaxVBL
  /\ drive \in DriveState
  /\ seen \in Disk \cup {Unsure}
  /\ since \in 0 .. Period
  /\ moved \in 0 .. MaxVBL
  /\ rushed \in BOOLEAN

(* When the TOS finds the signal off and trusts what it knows, it is the   *)
(* disk in the drive: however fast disks are swapped, none is taken for    *)
(* the one before it (which is how a TOS writes one disk's directory to    *)
(* another).  A disk ejected within Delay VBLs of entering an empty drive  *)
(* takes the eject with it, but for no longer than until the TOS next sees *)
(* the signal set.                                                         *)
EveryChangeIsNoticed == ~rushed /\ seen # Unsure /\ ~WPRT => drive.disk = seen

(* A disk does not stay write protected: Delay VBLs after the tray last    *)
(* moved the signal says what the disk is, also after a reset started the  *)
(* VBL counter again.                                                      *)
ProtectionEnds == drive.disk # NoDisk /\ vbl >= moved + Delay => ~WPRT
=============================================================================
