--------------------------- MODULE DiskChangeProofs ---------------------------
(***************************************************************************)
(* For every Delay of the signal that is longer than the Period between    *)
(* two looks of the TOS, a change of disks is noticed, and a disk is not   *)
(* left write protected.                                                   *)
(***************************************************************************)
EXTENDS DiskChange, TLAPS

(* The second transition begins where the first one ends, the first one    *)
(* began no later than the tray last moved, and an eject that comes second *)
(* leaves the drive empty.                                                 *)
TransitionInv ==
  /\ moved <= vbl
  /\ drive.s2 # "none" => drive.at2 = drive.at1 + Delay
  /\ drive.s1 # "none" => drive.at1 <= moved
  /\ drive.s2 = "eject" => drive.disk = NoDisk

(* Unless a disk was rushed, what the TOS trusts is either the disk in the *)
(* drive, with no eject in progress, or was ejected since the TOS last     *)
(* looked.                                                                 *)
TrustInv ==
  ~rushed /\ seen # Unsure =>
    \/ drive.disk = seen /\ (drive.s1 = "eject" => Over(drive.at1))
    \/ /\ drive.s1 = "eject"
       /\ drive.at1 <= vbl /\ vbl <= drive.at1 + since
       /\ drive.s2 \in {"none", "insert"}

IInv == TypeOK /\ TransitionInv

USE DEF DriveState, Transition, Over, Started

(* Updated changes nothing but transitions that are over.                  *)
LEMMA UpdatedFields ==
  ASSUME NEW d \in DriveState, vbl \in Nat
  PROVE  LET u == Updated(d)
         IN /\ u \in DriveState
            /\ u.disk = d.disk /\ u.at1 = d.at1 /\ u.at2 = d.at2
            /\ u.s1 = IF Over(d.at1) THEN "none" ELSE d.s1
            /\ u.s2 = IF Over(d.at2) THEN "none" ELSE d.s2
  BY ChangeAssumption DEF Updated

(* The transitions after Floppy_DriveTransitionSetState: a new first one,  *)
(* or the first one that was in progress and perhaps a second one.         *)
LEMMA SetStateFields ==
  ASSUME NEW d \in DriveState, NEW state \in {"insert", "eject"}, vbl \in Nat
  PROVE  LET r == Floppy_DriveTransitionSetState(d, state)
             new == d.s1 = "none" \/ Over(d.at1)
         IN /\ r \in DriveState
            /\ r.disk = d.disk
            /\ new => r.s1 = state /\ r.at1 = vbl /\ r.s2 = "none"
            /\ ~new => r.s1 = d.s1 /\ r.at1 = d.at1
            /\ ~new /\ d.s1 = state => r.s2 = "none"
            /\ ~new /\ d.s1 # state => r.s2 = state /\ r.at2 = r.at1 + Delay
            /\ r.s2 # "none" => r.at2 = r.at1 + Delay /\ r.s2 = state
<1> DEFINE u == Updated(d)
           r == Floppy_DriveTransitionSetState(d, state)
<1>1. /\ u \in DriveState
      /\ u.disk = d.disk /\ u.at1 = d.at1
      /\ u.s1 = IF Over(d.at1) THEN "none" ELSE d.s1
  BY UpdatedFields
<1>2. u.s1 = "none" => r = [u EXCEPT !.s1 = state, !.at1 = vbl, !.s2 = "none"]
  BY DEF Floppy_DriveTransitionSetState
<1>3. u.s1 = state => r = [u EXCEPT !.s2 = "none"]
  BY DEF Floppy_DriveTransitionSetState
<1>4. u.s1 # "none" /\ u.s1 # state
        => r = [u EXCEPT !.s2 = state, !.at2 = u.at1 + Delay]
  BY DEF Floppy_DriveTransitionSetState
<1> HIDE DEF u, r
<1>5. /\ r \in DriveState
      /\ r.disk = d.disk
      /\ u.s1 = "none" => r.s1 = state /\ r.at1 = vbl /\ r.s2 = "none"
      /\ u.s1 # "none" => r.s1 = u.s1 /\ r.at1 = d.at1
      /\ u.s1 = state => r.s2 = "none"
      /\ u.s1 # "none" /\ u.s1 # state => r.s2 = state /\ r.at2 = d.at1 + Delay
  <2>1. CASE u.s1 = "none"
    <3>1. r = [u EXCEPT !.s1 = state, !.at1 = vbl, !.s2 = "none"]
      BY <1>2, <2>1
    <3> QED
      BY <1>1, <2>1, <3>1
  <2>2. CASE u.s1 = state
    <3>1. r = [u EXCEPT !.s2 = "none"]
      BY <1>3, <2>2
    <3> QED
      BY <1>1, <2>2, <3>1
  <2>3. CASE u.s1 # "none" /\ u.s1 # state
    <3>1. r = [u EXCEPT !.s2 = state, !.at2 = u.at1 + Delay]
      BY <1>4, <2>3
    <3>2. u.at1 + Delay \in Nat /\ state \in Transition /\ state # "none"
      BY <1>1, ChangeAssumption
    <3>3. /\ r.disk = u.disk /\ r.s1 = u.s1 /\ r.at1 = u.at1
          /\ r.s2 = state /\ r.at2 = u.at1 + Delay
      BY <1>1, <3>1
    <3>4. r \in DriveState
      BY <1>1, <3>1, <3>2
    <3> QED
      BY <1>1, <2>3, <3>2, <3>3, <3>4
  <2> QED
    BY <2>1, <2>2, <2>3
<1> DEFINE new == d.s1 = "none" \/ Over(d.at1)
<1>6. new <=> u.s1 = "none"
  BY <1>1
<1>7. ~new => u.s1 = d.s1
  BY <1>1
<1> HIDE DEF new
<1>8. /\ r \in DriveState
      /\ r.disk = d.disk
      /\ new => r.s1 = state /\ r.at1 = vbl /\ r.s2 = "none"
      /\ ~new => r.s1 = d.s1 /\ r.at1 = d.at1
      /\ ~new /\ d.s1 = state => r.s2 = "none"
      /\ ~new /\ d.s1 # state => r.s2 = state /\ r.at2 = r.at1 + Delay
      /\ r.s2 # "none" => r.at2 = r.at1 + Delay /\ r.s2 = state
  BY <1>5, <1>6, <1>7
<1> QED
  BY <1>8 DEF r, new

(* Inserting and ejecting preserve types and TransitionInv.                *)
LEMMA MovesKeep ==
  ASSUME IInv
  PROVE  /\ Ejected(drive) \in DriveState
         /\ drive.disk # NoDisk =>
              LET r == Ejected(drive)
              IN /\ r.s2 # "none" => r.at2 = r.at1 + Delay
                 /\ r.at1 <= vbl
                 /\ r.disk = NoDisk
         /\ \A x \in Disk :
              LET r == Inserted(drive, x)
              IN /\ r \in DriveState
                 /\ r.s2 # "none" => r.at2 = r.at1 + Delay
                 /\ r.at1 <= vbl
                 /\ r.s2 # "eject"
<1> DEFINE e == Ejected(drive)
<1>1. drive \in DriveState /\ vbl \in Nat
  BY ChangeAssumption DEF IInv, TypeOK
<1>2. /\ e \in DriveState
      /\ e.s2 # "none" => e.at2 = e.at1 + Delay
      /\ drive.disk # NoDisk => e.at1 <= vbl /\ e.disk = NoDisk
      /\ e.s1 # "none" => e.at1 <= vbl
  <2>1. CASE drive.disk = NoDisk
    <3>1. e = drive
      BY <2>1 DEF Ejected
    <3> HIDE DEF e
    <3> QED
      BY <1>1, <2>1, <3>1, ChangeAssumption DEF IInv, TransitionInv, TypeOK
  <2>2. CASE drive.disk # NoDisk
    <3> DEFINE r == Floppy_DriveTransitionSetState(drive, "eject")
    <3>1. /\ r \in DriveState
          /\ r.s2 # "none" => r.at2 = r.at1 + Delay
          /\ r.at1 = vbl \/ (r.at1 = drive.at1 /\ drive.s1 # "none")
      BY <1>1, SetStateFields
    <3>2. r.at1 <= vbl
      BY <1>1, <3>1, ChangeAssumption DEF IInv, TransitionInv, TypeOK
    <3>3. e = [r EXCEPT !.disk = NoDisk]
      BY <2>2 DEF Ejected
    <3> HIDE DEF r
    <3>4. [r EXCEPT !.disk = NoDisk] \in DriveState
      BY <3>1
    <3>5. /\ e.s2 = r.s2 /\ e.at1 = r.at1 /\ e.at2 = r.at2 /\ e.s1 = r.s1
          /\ e.disk = NoDisk
      BY <3>1, <3>3
    <3> HIDE DEF e
    <3> QED
      BY <3>1, <3>2, <3>3, <3>4, <3>5
  <2> QED
    BY <2>1, <2>2
<1>3. ASSUME NEW x \in Disk
      PROVE  LET r == Inserted(drive, x)
             IN /\ r \in DriveState
                /\ r.s2 # "none" => r.at2 = r.at1 + Delay
                /\ r.at1 <= vbl
                /\ r.s2 # "eject"
  <2> DEFINE r == Floppy_DriveTransitionSetState(e, "insert")
  <2> HIDE DEF e
  <2>1. /\ r \in DriveState
        /\ r.s2 # "none" => r.at2 = r.at1 + Delay /\ r.s2 = "insert"
        /\ r.at1 = vbl \/ (r.at1 = e.at1 /\ e.s1 # "none")
    BY <1>1, <1>2, SetStateFields
  <2>2. Inserted(drive, x) = [r EXCEPT !.disk = x]
    BY DEF Inserted, e
  <2> HIDE DEF r
  <2> DEFINE i == Inserted(drive, x)
  <2>3. /\ i \in DriveState
        /\ i.s2 = r.s2 /\ i.at1 = r.at1 /\ i.at2 = r.at2
    BY <2>1, <2>2
  <2> HIDE DEF i
  <2>4. /\ i.s2 # "none" => i.at2 = i.at1 + Delay
        /\ i.at1 <= vbl
        /\ i.s2 # "eject"
    BY <1>1, <1>2, <2>1, <2>3
  <2> QED
    BY <2>3, <2>4 DEF i
<1> QED
  BY <1>2, <1>3

(* IInv is inductive.                                                      *)
LEMMA InitIInv == Init => IInv
<1> SUFFICES ASSUME Init PROVE IInv
  OBVIOUS
<1>1. /\ drive \in DriveState /\ drive.s1 = "none" /\ drive.s2 = "none"
      /\ vbl \in 0 .. MaxVBL /\ moved \in 0 .. MaxVBL /\ moved <= vbl
      /\ seen = Unsure /\ since \in 0 .. Period
  BY ChangeAssumption DEF Init
<1>2. rushed \in BOOLEAN
  BY DEF Init
<1> QED
  BY <1>1, <1>2 DEF IInv, TypeOK, TransitionInv

LEMMA StepIInv == IInv /\ [Next]_vars => IInv'
<1> SUFFICES ASSUME IInv, [Next]_vars PROVE IInv'
  OBVIOUS
<1> USE ChangeAssumption
<1>1. CASE Frame
  BY <1>1 DEF Frame, IInv, TypeOK, TransitionInv
<1>2. CASE Look
  <2>1. /\ drive' \in DriveState
        /\ drive'.disk = drive.disk /\ drive'.at1 = drive.at1 /\ drive'.at2 = drive.at2
        /\ drive'.s1 \in {"none", drive.s1} /\ drive'.s2 \in {"none", drive.s2}
    BY <1>2, UpdatedFields DEF Look, IInv, TypeOK
  <2>2. seen' \in Disk \cup {Unsure} /\ rushed' \in BOOLEAN
    BY <1>2 DEF Look, WPRT, IInv, TypeOK
  <2> QED
    BY <1>2, <2>1, <2>2 DEF Look, IInv, TypeOK, TransitionInv
<1>3. CASE Eject
  <2>1. drive.disk # NoDisk /\ drive' = Ejected(drive) /\ moved' = vbl
    BY <1>3 DEF Eject
  <2>2. rushed' \in BOOLEAN
    BY <1>3 DEF Eject
  <2> QED
    BY <1>3, <2>1, <2>2, MovesKeep DEF Eject, IInv, TypeOK, TransitionInv
<1>4. ASSUME NEW x \in Disk, Insert(x) PROVE IInv'
  <2>1. drive' = Inserted(drive, x) /\ moved' = vbl
    BY <1>4 DEF Insert
  <2>2. rushed' \in BOOLEAN
    BY <1>4 DEF Insert
  <2> QED
    BY <1>4, <2>1, <2>2, MovesKeep DEF Insert, IInv, TypeOK, TransitionInv
<1>5. CASE Reset
  <2>1. drive' \in DriveState /\ drive'.s1 = "none" /\ drive'.s2 = "none"
    BY <1>5 DEF Reset, Floppy_Reset, IInv, TypeOK
  <2>2. rushed' \in BOOLEAN
    BY <1>5 DEF Reset
  <2>3. vbl' = 0 /\ moved' = 0 /\ seen' = Unsure /\ since' = 0
    BY <1>5 DEF Reset
  <2> QED
    BY <2>1, <2>2, <2>3 DEF IInv, TypeOK, TransitionInv
<1>6. CASE UNCHANGED vars
  BY <1>6 DEF vars, IInv, TypeOK, TransitionInv
<1> QED
  BY <1>1, <1>2, <1>3, <1>4, <1>5, <1>6 DEF Next

(* Every variable keeps to its type.                                       *)
THEOREM TypeCorrect == Spec => []TypeOK
<1>1. IInv => TypeOK
  BY DEF IInv
<1> QED
  BY <1>1, InitIInv, StepIInv, PTL DEF Spec

(* Delay VBLs after the tray last moved, a disk is not write protected,    *)
(* however quickly disks were swapped and whenever resets happened.        *)
THEOREM ProtectionAlwaysEnds == Spec => []ProtectionEnds
<1>1. IInv => ProtectionEnds
  BY ChangeAssumption
  DEF IInv, TypeOK, TransitionInv, ProtectionEnds, WPRT, ForceWPRT
<1> QED
  BY <1>1, InitIInv, StepIInv, PTL DEF Spec

-----------------------------------------------------------------------------
(* TrustInv is inductive                                                   *)

(* The signal is set for as long as the TOS trusts a disk that was ejected *)
(* since it last looked.                                                   *)
LEMMA TrustedDiskIsIn == IInv /\ TrustInv => EveryChangeIsNoticed
BY ChangeAssumption
DEF IInv, TypeOK, TransitionInv, TrustInv, EveryChangeIsNoticed, WPRT, ForceWPRT

(* An eject starts the transition that TrustInv asks for.                  *)
LEMMA EjectIsSeen ==
  ASSUME IInv, TrustInv, ~rushed, seen # Unsure, drive.disk # NoDisk, ~Entering
  PROVE  LET e == Ejected(drive)
         IN /\ e.s1 = "eject" /\ e.s2 = "none"
            /\ e.at1 <= vbl /\ vbl <= e.at1 + since
<1> DEFINE r == Floppy_DriveTransitionSetState(drive, "eject")
           e == Ejected(drive)
           new == drive.s1 = "none" \/ Over(drive.at1)
<1>1. drive \in DriveState /\ vbl \in Nat /\ since \in Nat
  BY ChangeAssumption DEF IInv, TypeOK
<1>2. /\ r \in DriveState
      /\ new => r.s1 = "eject" /\ r.at1 = vbl /\ r.s2 = "none"
      /\ ~new => r.s1 = drive.s1 /\ r.at1 = drive.at1
      /\ ~new /\ drive.s1 = "eject" => r.s2 = "none"
  BY <1>1, SetStateFields
<1>3. ~new => drive.s1 = "eject" /\ drive.at1 <= vbl /\ vbl <= drive.at1 + since
  BY <1>1 DEF Entering, TrustInv
<1>4. e = [r EXCEPT !.disk = NoDisk]
  BY DEF Ejected
<1> HIDE DEF r
<1>5. e.s1 = r.s1 /\ e.s2 = r.s2 /\ e.at1 = r.at1
  BY <1>2, <1>4
<1> HIDE DEF e
<1>6. e.s1 = "eject" /\ e.s2 = "none" /\ e.at1 <= vbl /\ vbl <= e.at1 + since
  BY <1>1, <1>2, <1>3, <1>5
<1> QED
  BY <1>6 DEF e

(* An insert after it leaves that transition to its end.                   *)
LEMMA InsertIsSeen ==
  ASSUME IInv, TrustInv, ~rushed, seen # Unsure, ~Entering, NEW x \in Disk
  PROVE  LET i == Inserted(drive, x)
         IN /\ i.s1 = "eject" /\ i.s2 \in {"none", "insert"}
            /\ i.at1 <= vbl /\ vbl <= i.at1 + since
<1> DEFINE e == Ejected(drive)
           r == Floppy_DriveTransitionSetState(e, "insert")
           i == Inserted(drive, x)
<1>1. e \in DriveState /\ vbl \in Nat /\ since \in Nat /\ since < Delay
  BY MovesKeep, ChangeAssumption DEF IInv, TypeOK
<1>2. e.s1 = "eject" /\ e.at1 <= vbl /\ vbl <= e.at1 + since
  <2>1. CASE drive.disk = NoDisk
    <3>1. e = drive
      BY <2>1 DEF Ejected
    <3>2. seen # NoDisk
      BY ChangeAssumption DEF IInv, TypeOK
    <3> HIDE DEF e
    <3> QED
      BY <2>1, <3>1, <3>2 DEF TrustInv
  <2>2. CASE drive.disk # NoDisk
    BY <2>2, EjectIsSeen
  <2> QED
    BY <2>1, <2>2
<1> HIDE DEF e
<1>3. i = [r EXCEPT !.disk = x]
  BY DEF Inserted, e
<1>4. r \in DriveState /\ r.s1 = "eject" /\ r.s2 = "insert" /\ r.at1 = e.at1
  <2>1. e.s1 # "none" /\ ~Over(e.at1)
    BY <1>1, <1>2, ChangeAssumption
  <2> QED
    BY <1>1, <1>2, <2>1, SetStateFields
<1> HIDE DEF r
<1>5. i.s1 = r.s1 /\ i.s2 = r.s2 /\ i.at1 = r.at1
  BY <1>3, <1>4
<1> HIDE DEF i
<1>6. i.s1 = "eject" /\ i.s2 = "insert" /\ i.at1 <= vbl /\ vbl <= i.at1 + since
  BY <1>1, <1>2, <1>4, <1>5
<1> QED
  BY <1>6 DEF i

LEMMA StepTrustInv == IInv /\ TrustInv /\ [Next]_vars => TrustInv'
<1> SUFFICES ASSUME IInv, TrustInv, [Next]_vars PROVE TrustInv'
  OBVIOUS
<1> USE ChangeAssumption
<1>1. CASE Frame
  BY <1>1 DEF Frame, IInv, TypeOK, TrustInv
<1>2. CASE Look
  <2>1. /\ drive'.disk = drive.disk /\ drive'.at1 = drive.at1 /\ vbl' = vbl
        /\ drive'.s1 = IF Over(drive.at1) THEN "none" ELSE drive.s1
    BY <1>2, UpdatedFields DEF Look, IInv, TypeOK
  <2>2. ~rushed' /\ seen' # Unsure => ~WPRT /\ seen' = drive.disk
    BY <1>2, TrustedDiskIsIn DEF Look, EveryChangeIsNoticed
  <2>3. ~WPRT /\ drive.s1 = "eject" => Over(drive.at1)
    BY DEF WPRT, ForceWPRT, IInv, TypeOK, TransitionInv
  <2> QED
    BY <2>1, <2>2, <2>3 DEF TrustInv
<1>3. CASE Eject
  <2>1. /\ drive.disk # NoDisk /\ (~rushed' => ~rushed /\ ~Entering)
        /\ drive' = Ejected(drive) /\ vbl' = vbl /\ seen' = seen /\ since' = since
    BY <1>3 DEF Eject, IInv, TypeOK
  <2> QED
    BY <2>1, EjectIsSeen DEF TrustInv
<1>4. ASSUME NEW x \in Disk, Insert(x) PROVE TrustInv'
  <2>1. /\ ~rushed' => ~rushed /\ ~Entering
        /\ drive' = Inserted(drive, x) /\ vbl' = vbl /\ seen' = seen /\ since' = since
    BY <1>4 DEF Insert, IInv, TypeOK
  <2> QED
    BY <2>1, InsertIsSeen DEF TrustInv
<1>5. CASE Reset
  BY <1>5 DEF Reset, TrustInv
<1>6. CASE UNCHANGED vars
  BY <1>6 DEF vars, TrustInv
<1> QED
  BY <1>1, <1>2, <1>3, <1>4, <1>5, <1>6 DEF Next

(* However fast disks are swapped and whatever the machine is doing, the   *)
(* TOS trusts no disk but the one in the drive, save for a disk that was   *)
(* ejected within Delay VBLs of entering an empty drive, and after such an *)
(* eject from the next look on that finds the signal set.                  *)
THEOREM ChangesAlwaysNoticed == Spec => []EveryChangeIsNoticed
<1>1. Init => TrustInv
  BY DEF Init, TrustInv
<1>2. IInv /\ TrustInv /\ [Next]_vars => TrustInv'
  BY StepTrustInv
<1> QED
  BY <1>1, <1>2, InitIInv, StepIInv, TrustedDiskIsIn, PTL DEF Spec
=============================================================================
