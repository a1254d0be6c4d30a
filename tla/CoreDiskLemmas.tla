---------------------------- MODULE CoreDiskLemmas ----------------------------
(***************************************************************************)
(* What the operators of CoreDisk preserve.  A world is Sane when it has   *)
(* its type, names and data of the cache come together, and the core and   *)
(* Hatari agree on which drives hold a disk.  It is Placed when the menu   *)
(* names the disks in the drives, and Kept when every image that nobody    *)
(* has written to is as it was saved.                                      *)
(***************************************************************************)
EXTENDS CoreDisk, SequenceTheorems, WellFoundedInduction, TLAPS

LoadedDrive(hd) == hd \in DriveState /\ (Inserted(hd) => hd.buffer \in Nat)

(* The well-formed worlds.                                                 *)
Good(w) ==
  /\ w \in World
  /\ \A i \in Slot : w.cache[i].name = NoName <=> w.cache[i].data = NoData
  /\ \A d \in Drive : LoadedDrive(w.drv[d])

Agreed(w) == \A d \in Drive : w.insert[d] <=> Inserted(w.drv[d])

Sane(w) == Good(w) /\ Agreed(w)

(* x differs from w at most in the drives' disks, the contents of cached   *)
(* images and the saves folder: nothing the disk control menu shows.       *)
SameMenu(w, x) ==
  /\ x.insert = w.insert /\ x.index = w.index /\ x.drive = w.drive /\ x.count = w.count
  /\ \A i \in Slot : x.cache[i].name = w.cache[i].name

(* A nonempty set of natural numbers has a least element.                  *)
LEMMA LeastIn ==
  ASSUME NEW S \in SUBSET Nat, S # {}
  PROVE  Least(S) \in S /\ \A j \in S : Least(S) <= j
<1> DEFINE before == {ss \in Nat \X Nat : ss[1] < ss[2]}
<1>1. IsWellFoundedOn(before, Nat)
  BY NatLessThanWellFounded DEF OpToRel
<1>2. PICK x \in S : \A y \in S : ~(<<y, x>> \in before)
  <2> HIDE DEF before
  <2> QED  BY <1>1, WFMin
<1>3. ASSUME NEW y \in S
      PROVE  x <= y
  <2>1. <<y, x>> \notin before
    BY <1>2
  <2>2. x \in Nat /\ y \in Nat
    BY <1>2
  <2>3. ~(y < x)
    BY <2>1, <2>2
  <2> QED  BY <2>2, <2>3
<1> QED  BY <1>3 DEF Least

(* SlotOf finds an entry with the name, if there is one.                   *)
LEMMA SlotOfFinds ==
  ASSUME NEW w \in World, NEW n
  PROVE  /\ SlotOf(w, n) \in 0 .. MaxDisks
         /\ SlotOf(w, n) # NoSlot => SlotOf(w, n) \in Slot /\ w.cache[SlotOf(w, n)].name = n
         /\ \A i \in Slot : w.cache[i].name = n => SlotOf(w, n) # NoSlot
<1> DEFINE found == {i \in Slot : w.cache[i].name = n}
<1>1. CASE found = {}
  BY <1>1, DiskAssumption DEF SlotOf, NoSlot
<1>2. CASE found # {}
  <2>1. found \in SUBSET Nat
    BY DiskAssumption DEF Slot
  <2>2. Least(found) \in found
    BY <1>2, <2>1, LeastIn
  <2>3. SlotOf(w, n) = Least(found)
    BY <1>2 DEF SlotOf
  <2>4. /\ SlotOf(w, n) \in Slot /\ SlotOf(w, n) # NoSlot
        /\ w.cache[SlotOf(w, n)].name = n
    BY <2>2, <2>3, DiskAssumption DEF Slot, NoSlot
  <2> QED  BY <2>4, DiskAssumption DEF Slot
<1> QED  BY <1>1, <1>2

LEMMA ExtraSlotOfFinds ==
  ASSUME NEW w \in World, NEW n
  PROVE  ExtraSlotOf(w, n) = NoSlot \/ ExtraSlotOf(w, n) \in Slot
<1> DEFINE found == {i \in Slot : w.cache[i].extra_name = n}
<1>1. CASE found = {}
  BY <1>1 DEF ExtraSlotOf
<1>2. CASE found # {}
  <2>1. found \in SUBSET Nat
    BY DiskAssumption DEF Slot
  <2>2. Least(found) \in found
    BY <1>2, <2>1, LeastIn
  <2> QED  BY <1>2, <2>2 DEF ExtraSlotOf
<1> QED  BY <1>1, <1>2

-----------------------------------------------------------------------------
(* Saving                                                                  *)

LEMMA FileWrittenType ==
  ASSUME NEW saves \in [Name -> Content], NEW n \in Name, NEW v \in Content
  PROVE  FileWritten(saves, n, v) \in [Name -> Content]
BY DEF FileWritten, Content

(* Saving an image keeps a world well-formed and the menu as it was.       *)
LEMMA SaveKeeps ==
  ASSUME NEW w, Good(w), NEW n \in Name, NEW v \in Nat
  PROVE  LET x == core_disk_save(w, n, v)
         IN Good(x) /\ SameMenu(w, x) /\ x.drv = w.drv
<1> DEFINE i == SlotOf(w, n)
           x == core_disk_save(w, n, v)
           cache == IF i = NoSlot THEN w.cache
                    ELSE [w.cache EXCEPT ![i].data = v, ![i].saved = TRUE]
           saves == IF opt.enable_save THEN FileWritten(w.saves, n, v) ELSE w.saves
<1>1. /\ w \in World
      /\ \A j \in Slot : w.cache[j].name = NoName <=> w.cache[j].data = NoData
      /\ \A d \in Drive : LoadedDrive(w.drv[d])
  BY DEF Good
<1>2. (i \in Slot /\ w.cache[i].name = n) \/ i = NoSlot
  BY <1>1, SlotOfFinds
<1>3. v # NoData /\ n # NoName /\ v \in Content
  BY DriveAssumption DEF Content
<1>4. x = [w EXCEPT !.saves = saves, !.cache = cache]
  BY DEF core_disk_save
<1> HIDE DEF x, i
<1>5. saves \in [Name -> Content]
  BY <1>1, <1>3, FileWrittenType DEF World
<1>6. w.cache \in [Slot -> Entry]
  BY <1>1 DEF World
<1>7. cache \in [Slot -> Entry]
  BY <1>2, <1>3, <1>6 DEF Entry
<1>8. \A j \in Slot : /\ cache[j].name = w.cache[j].name
                      /\ cache[j].name = NoName <=> cache[j].data = NoData
  BY <1>1, <1>2, <1>3, <1>6 DEF Entry
<1> HIDE DEF saves, cache
<1>9. x \in World
  BY <1>1, <1>4, <1>5, <1>7 DEF World
<1>10. /\ x.cache = cache /\ x.drv = w.drv
       /\ x.insert = w.insert /\ x.index = w.index /\ x.drive = w.drive /\ x.count = w.count
  BY <1>1, <1>4 DEF World
<1>11. Good(x) /\ SameMenu(w, x) /\ x.drv = w.drv
  BY <1>1, <1>8, <1>9, <1>10 DEF Good, SameMenu
<1> QED  BY <1>11 DEF x

(* The same of an STX overlay.                                             *)
LEMMA OverlayKeeps ==
  ASSUME NEW w, Good(w), NEW n \in Name, NEW v \in Nat
  PROVE  LET x == STX_WriteDisk(w, n, v)
         IN Good(x) /\ SameMenu(w, x) /\ x.drv = w.drv
<1> DEFINE i == ExtraSlotOf(w, n)
           x == STX_WriteDisk(w, n, v)
           collected == IF w.advanced THEN Junk ELSE v
           cache == IF i = NoSlot THEN w.cache
                    ELSE [w.cache EXCEPT ![i].extra = collected, ![i].saved = TRUE]
<1>1. /\ w \in World
      /\ \A j \in Slot : w.cache[j].name = NoName <=> w.cache[j].data = NoData
      /\ \A d \in Drive : LoadedDrive(w.drv[d])
  BY DEF Good
<1>2. i \in Slot \/ i = NoSlot
  BY <1>1, ExtraSlotOfFinds
<1>3. collected \in Content /\ v \in Content /\ NoData \in Content
  BY DEF Content
<1>4. \/ x = w
      \/ x = [w EXCEPT !.saves[n] = NoData, !.advanced = TRUE]
      \/ x = [w EXCEPT !.saves[n] = v, !.advanced = TRUE, !.cache = cache]
  BY DEF STX_WriteDisk
<1> HIDE DEF x, i, collected
<1>5. w.cache \in [Slot -> Entry] /\ w.saves \in [Name -> Content]
  BY <1>1 DEF World
<1>6. cache \in [Slot -> Entry]
  BY <1>2, <1>3, <1>5 DEF Entry
<1>7. \A j \in Slot : cache[j].name = w.cache[j].name /\ cache[j].data = w.cache[j].data
  BY <1>2, <1>3, <1>5 DEF Entry
<1> HIDE DEF cache
<1>8. CASE x = w
  BY <1>1, <1>8 DEF Good, SameMenu, x
<1>9. CASE x = [w EXCEPT !.saves[n] = NoData, !.advanced = TRUE]
  <2>1. x \in World /\ x.cache = w.cache /\ x.drv = w.drv
    BY <1>1, <1>3, <1>5, <1>9 DEF World
  <2>2. x.insert = w.insert /\ x.index = w.index /\ x.drive = w.drive /\ x.count = w.count
    BY <1>1, <1>9 DEF World
  <2>3. Good(x) /\ SameMenu(w, x)
    BY <1>1, <2>1, <2>2 DEF Good, SameMenu
  <2> QED  BY <2>1, <2>3 DEF x
<1>10. CASE x = [w EXCEPT !.saves[n] = v, !.advanced = TRUE, !.cache = cache]
  <2>1. x \in World /\ x.cache = cache /\ x.drv = w.drv
    BY <1>1, <1>3, <1>5, <1>6, <1>10 DEF World
  <2>2. x.insert = w.insert /\ x.index = w.index /\ x.drive = w.drive /\ x.count = w.count
    BY <1>1, <1>10 DEF World
  <2>3. Good(x) /\ SameMenu(w, x)
    BY <1>1, <1>7, <2>1, <2>2 DEF Good, SameMenu
  <2> QED  BY <2>1, <2>3 DEF x
<1> QED  BY <1>4, <1>8, <1>9, <1>10

(* An eject empties its drive, leaves the other one alone, and changes     *)
(* nothing on the menu.                                                    *)
LEMMA FloppyEjectKeeps ==
  ASSUME NEW w, Good(w), NEW d \in Drive
  PROVE  LET x == FloppyEject(w, d)
         IN Good(x) /\ SameMenu(w, x) /\ x.drv = [w.drv EXCEPT ![d] = EmptyDrive]
<1> DEFINE hd == w.drv[d]
           stored == CASE SavesImage(hd)   -> core_disk_save(w, hd.name, hd.buffer)
                       [] SavesOverlay(hd) -> STX_WriteDisk(w, hd.name, hd.overlay)
                       [] OTHER            -> w
           x == FloppyEject(w, d)
<1>1. w \in World /\ \A e \in Drive : LoadedDrive(w.drv[e])
  BY DEF Good
<1>2. hd \in DriveState /\ (Inserted(hd) => hd.buffer \in Nat)
  BY <1>1 DEF LoadedDrive
<1>3. SavesImage(hd) => hd.name \in Name /\ hd.buffer \in Nat
  BY <1>2 DEF SavesImage, Inserted, DriveState
<1>4. SavesOverlay(hd) => hd.name \in Name /\ hd.overlay \in Nat
  BY <1>2 DEF SavesOverlay, Inserted, DriveState
<1>5. ~(SavesImage(hd) /\ SavesOverlay(hd))
  BY DEF SavesImage, SavesOverlay
<1>6. Good(stored) /\ SameMenu(w, stored) /\ stored.drv = w.drv
  <2>1. CASE SavesImage(hd)
    BY <1>3, <1>5, <2>1, SaveKeeps
  <2>2. CASE SavesOverlay(hd)
    BY <1>4, <1>5, <2>2, OverlayKeeps
  <2>3. CASE ~SavesImage(hd) /\ ~SavesOverlay(hd)
    BY <2>3 DEF SameMenu
  <2> QED  BY <2>1, <2>2, <2>3
<1>7. x = [stored EXCEPT !.drv[d] = EmptyDrive]
  BY DEF FloppyEject
<1> HIDE DEF hd, stored, x
<1>8. stored \in World /\ EmptyDrive \in DriveState /\ ~Inserted(EmptyDrive)
  BY <1>6, DriveAssumption DEF Good, EmptyDrive, DriveState, Inserted, Content
<1>9. x.drv = [w.drv EXCEPT ![d] = EmptyDrive] /\ x.cache = stored.cache
  BY <1>6, <1>7, <1>8 DEF World
<1>10. /\ x.insert = stored.insert /\ x.index = stored.index
       /\ x.drive = stored.drive /\ x.count = stored.count
  BY <1>7, <1>8 DEF World
<1>11. w.drv \in [Drive -> DriveState] /\ x.drv \in [Drive -> DriveState]
  BY <1>1, <1>8, <1>9 DEF World
<1>12. x \in World
  BY <1>7, <1>8 DEF World
<1>13. \A e \in Drive : LoadedDrive(x.drv[e])
  BY <1>1, <1>8, <1>9, <1>11 DEF LoadedDrive
<1>14. Good(x)
  BY <1>6, <1>9, <1>12, <1>13 DEF Good
<1>15. SameMenu(w, x)
  BY <1>6, <1>9, <1>10 DEF SameMenu
<1> QED  BY <1>9, <1>14, <1>15 DEF x

-----------------------------------------------------------------------------
(* The disk control interface                                              *)

(* The worlds in which the menu names the disks in the drives: names are   *)
(* unique, new entries have none, and a drive that holds a disk has the    *)
(* one at its index, which the other drive does not have.                  *)
Placed(w) ==
  /\ \A i, j \in Slot : w.cache[i].name = w.cache[j].name /\ i # j => w.cache[i].name = NoName
  /\ \A j \in Slot : j >= w.count => w.cache[j].name = NoName
  /\ \A d \in Drive : w.insert[d] => /\ w.index[d] \in Slot
                                     /\ w.drv[d].name = w.cache[w.index[d]].name
  /\ w.insert[0] /\ w.insert[1] => w.index[0] # w.index[1]

(* Ejecting through the menu empties the drive on both sides.              *)
LEMMA EjectedKeeps ==
  ASSUME NEW w, Sane(w), NEW d \in Drive
  PROVE  LET x == Ejected(w, d)
         IN /\ Sane(x)
            /\ x.index = w.index /\ x.drive = w.drive /\ x.count = w.count
            /\ x.insert = [w.insert EXCEPT ![d] = FALSE]
            /\ \A i \in Slot : x.cache[i].name = w.cache[i].name
            /\ \A e \in Drive \ {d} : x.drv[e] = w.drv[e]
            /\ Placed(w) => Placed(x)
<1> DEFINE x == Ejected(w, d)
           y == FloppyEject(w, d)
<1>1. Good(w) /\ Agreed(w) /\ w \in World
  BY DEF Sane, Good
<1>2. w.insert \in [Drive -> BOOLEAN] /\ w.drv \in [Drive -> DriveState]
  BY <1>1 DEF World
<1>3. CASE ~w.insert[d]
  <2>1. x = w
    BY <1>3 DEF Ejected
  <2>2. w.insert = [w.insert EXCEPT ![d] = FALSE]
    BY <1>2, <1>3
  <2> QED  BY <2>1, <2>2
<1>4. CASE w.insert[d]
  <2>1. Good(y) /\ SameMenu(w, y) /\ y.drv = [w.drv EXCEPT ![d] = EmptyDrive]
    BY <1>1, FloppyEjectKeeps
  <2>2. x = [y EXCEPT !.insert[d] = FALSE]
    BY <1>4 DEF Ejected
  <2> HIDE DEF x, y
  <2>3. y \in World /\ ~Inserted(EmptyDrive)
    BY <2>1 DEF Good, EmptyDrive, Inserted
  <2>4. /\ x.index = w.index /\ x.drive = w.drive /\ x.count = w.count
        /\ x.insert = [w.insert EXCEPT ![d] = FALSE]
        /\ x.cache = y.cache /\ x.drv = y.drv /\ x \in World
    BY <2>1, <2>2, <2>3 DEF SameMenu, World
  <2>5. \A i \in Slot : x.cache[i].name = w.cache[i].name
    BY <2>1, <2>4 DEF SameMenu
  <2>6. \A e \in Drive \ {d} : x.drv[e] = w.drv[e]
    BY <2>1, <2>4, <1>2
  <2>7. Good(x)
    BY <2>1, <2>4 DEF Good
  <2>8. \A e \in Drive : x.insert[e] <=> Inserted(x.drv[e])
    BY <1>1, <1>2, <2>1, <2>3, <2>4 DEF Agreed
  <2>9. Placed(w) => Placed(x)
    <3>1. \A e \in Drive : x.insert[e] => w.insert[e] /\ x.drv[e] = w.drv[e]
      BY <1>2, <2>4, <2>6
    <3> QED  BY <2>4, <2>5, <3>1 DEF Placed, Drive
  <2> QED  BY <2>4, <2>5, <2>6, <2>7, <2>8, <2>9 DEF Sane, Agreed, x
<1> QED  BY <1>3, <1>4

(* A readable image goes in, and nothing else does.  Unless the disk is in *)
(* the other drive, the menu still names what the drives hold.             *)
LEMMA InsertingKeeps ==
  ASSUME NEW w, Sane(w), NEW d \in Drive, opt \in Options
  PROVE  LET x == Inserting(w, d)
         IN /\ Sane(x)
            /\ x.index = w.index /\ x.drive = w.drive /\ x.count = w.count /\ x.cache = w.cache
            /\ Placed(w) /\ ~(w.insert[1 - d] /\ w.index[1 - d] = w.index[d]) => Placed(x)
<1> DEFINE x == Inserting(w, d)
           i == w.index[d]
           new == ReadImage(w.cache[i].name, w.cache[i].data, w.cache[i].extra, opt.enable_save)
<1>1. Good(w) /\ Agreed(w) /\ w \in World
  BY DEF Sane, Good
<1>2. /\ w.insert \in [Drive -> BOOLEAN] /\ w.drv \in [Drive -> DriveState]
      /\ w.index \in [Drive -> 0 .. MaxDisks] /\ w.cache \in [Slot -> Entry]
  BY <1>1 DEF World
<1>3. CASE ~(i < MaxDisks /\ Readable(w.cache[i].name, w.cache[i].data))
  BY <1>3 DEF Inserting
<1>4. CASE i < MaxDisks /\ Readable(w.cache[i].name, w.cache[i].data)
  <2>1. i \in Slot
    BY <1>2, <1>4, DiskAssumption DEF Slot
  <2>2. w.cache[i].data \in Nat /\ w.cache[i].data # NoData
    BY <1>4, DriveAssumption DEF Readable
  <2>3. w.cache[i].name \in Name
    BY <1>1, <1>2, <2>1, <2>2 DEF Good, Entry
  <2>4. /\ new \in DriveState /\ new.name = w.cache[i].name /\ new.buffer \in Nat
        /\ Inserted(new)
    BY <2>2, <2>3, DriveAssumption DEF ReadImage, DriveState, Content, Inserted
  <2>5. x = [w EXCEPT !.drv[d] = new, !.insert[d] = TRUE]
    BY <1>4 DEF Inserting
  <2> HIDE DEF x, new
  <2>6. /\ x.index = w.index /\ x.drive = w.drive /\ x.count = w.count /\ x.cache = w.cache
        /\ x.insert = [w.insert EXCEPT ![d] = TRUE] /\ x.drv = [w.drv EXCEPT ![d] = new]
        /\ x \in World
    BY <1>1, <2>4, <2>5 DEF World
  <2>7. \A e \in Drive : LoadedDrive(x.drv[e]) /\ (x.insert[e] <=> Inserted(x.drv[e]))
    BY <1>1, <1>2, <2>4, <2>6 DEF Good, Agreed, LoadedDrive
  <2>8. Sane(x)
    BY <1>1, <2>6, <2>7 DEF Sane, Good, Agreed
  <2>9. ASSUME Placed(w), ~(w.insert[1 - d] /\ w.index[1 - d] = w.index[d])
        PROVE  Placed(x)
    <3>1. \A e \in Drive : x.insert[e] => /\ x.index[e] \in Slot
                                          /\ x.drv[e].name = x.cache[x.index[e]].name
      BY <1>2, <2>1, <2>4, <2>6, <2>9 DEF Placed
    <3>2. x.insert[0] /\ x.insert[1] => x.index[0] # x.index[1]
      BY <1>2, <2>6, <2>9 DEF Placed, Drive
    <3> QED  BY <2>6, <2>9, <3>1, <3>2 DEF Placed
  <2> QED  BY <2>6, <2>8, <2>9 DEF x
<1> QED  BY <1>3, <1>4

(* Closing the tray keeps the menu right: a disk that is in the other      *)
(* drive has been taken out first.                                         *)
LEMMA InsertDriveKeeps ==
  ASSUME NEW w, Sane(w), NEW d \in Drive, opt \in Options
  PROVE  LET x == InsertDrive(w, d)
         IN /\ Sane(x) /\ (Placed(w) => Placed(x))
            /\ x.index = w.index /\ x.drive = w.drive /\ x.count = w.count
            /\ \A i \in Slot : x.cache[i].name = w.cache[i].name
<1> DEFINE o == 1 - d
           freed == IF w.insert[o] /\ w.index[o] = w.index[d] THEN Ejected(w, o) ELSE w
           x == InsertDrive(w, d)
<1>1. o \in Drive /\ o # d
  BY DEF Drive
<1>2. w \in World
  BY DEF Sane, Good
<1>3. /\ Sane(freed) /\ (Placed(w) => Placed(freed))
      /\ freed.index = w.index /\ freed.drive = w.drive /\ freed.count = w.count
      /\ \A i \in Slot : freed.cache[i].name = w.cache[i].name
      /\ ~(freed.insert[o] /\ freed.index[o] = freed.index[d])
  <2>1. CASE w.insert[o] /\ w.index[o] = w.index[d]
    <3> DEFINE y == Ejected(w, o)
    <3>1. /\ Sane(y) /\ y.index = w.index /\ y.drive = w.drive /\ y.count = w.count
          /\ y.insert = [w.insert EXCEPT ![o] = FALSE]
          /\ \A i \in Slot : y.cache[i].name = w.cache[i].name
          /\ Placed(w) => Placed(y)
      BY <1>1, EjectedKeeps
    <3>2. freed = y
      BY <2>1
    <3> HIDE DEF y, freed, o
    <3>3. ~y.insert[o]
      BY <1>1, <1>2, <3>1 DEF World
    <3> QED  BY <3>1, <3>2, <3>3
  <2>2. CASE ~(w.insert[o] /\ w.index[o] = w.index[d])
    BY <2>2
  <2> QED  BY <2>1, <2>2
<1>4. CASE w.insert[d]
  BY <1>4 DEF InsertDrive
<1>5. CASE ~w.insert[d]
  <2>1. x = Inserting(freed, d)
    BY <1>5 DEF InsertDrive
  <2> HIDE DEF freed, x, o
  <2>2. /\ Sane(x) /\ x.index = freed.index /\ x.drive = freed.drive
        /\ x.count = freed.count /\ x.cache = freed.cache
        /\ Placed(freed) /\ ~(freed.insert[o] /\ freed.index[o] = freed.index[d]) => Placed(x)
    BY <1>3, <2>1, InsertingKeeps DEF o
  <2> QED  BY <1>3, <2>2 DEF x
<1> QED  BY <1>4, <1>5

LEMMA set_eject_stateKeeps ==
  ASSUME NEW w, Sane(w), NEW ejected \in BOOLEAN, opt \in Options
  PROVE  LET x == set_eject_state(w, ejected)
         IN /\ Sane(x) /\ (Placed(w) => Placed(x))
            /\ x.index = w.index /\ x.drive = w.drive /\ x.count = w.count
            /\ \A i \in Slot : x.cache[i].name = w.cache[i].name
<1> DEFINE d == w.drive
           x == set_eject_state(w, ejected)
           keeps(y) == /\ Sane(y) /\ (Placed(w) => Placed(y))
                       /\ y.index = w.index /\ y.drive = w.drive /\ y.count = w.count
                       /\ \A i \in Slot : y.cache[i].name = w.cache[i].name
<1>1. d \in Drive
  BY DEF Sane, Good, World
<1> HIDE DEF d
<1>2. CASE ejected
  <2>1. x = Ejected(w, d)
    BY <1>2 DEF set_eject_state, d
  <2>2. keeps(Ejected(w, d))
    BY <1>1, EjectedKeeps
  <2> HIDE DEF x, keeps
  <2>3. keeps(x)
    BY <2>1, <2>2
  <2> QED  BY <2>3 DEF keeps, x
<1>3. CASE ~ejected
  <2>1. x = InsertDrive(w, d)
    BY <1>3 DEF set_eject_state, d
  <2>2. keeps(InsertDrive(w, d))
    BY <1>1, InsertDriveKeeps
  <2> HIDE DEF x, keeps
  <2>3. keeps(x)
    BY <2>1, <2>2
  <2> QED  BY <2>3 DEF keeps, x
<1> QED  BY <1>2, <1>3

(* The drive is empty when its index changes.                              *)
LEMMA set_image_indexKeeps ==
  ASSUME NEW w, Sane(w), NEW i \in 0 .. MaxDisks
  PROVE  LET x == set_image_index(w, i)
         IN /\ Sane(x) /\ (Placed(w) => Placed(x))
            /\ x.drive = w.drive /\ x.count = w.count
            /\ \A j \in Slot : x.cache[j].name = w.cache[j].name
<1> DEFINE d == w.drive
           y == Ejected(w, d)
           x == set_image_index(w, i)
<1>1. w \in World /\ d \in Drive
  BY DEF Sane, Good, World
<1>2. CASE i = w.index[d]
  BY <1>2 DEF set_image_index
<1>3. CASE i # w.index[d]
  <2>1. /\ Sane(y) /\ (Placed(w) => Placed(y))
        /\ y.index = w.index /\ y.drive = w.drive /\ y.count = w.count
        /\ y.insert = [w.insert EXCEPT ![d] = FALSE]
        /\ \A j \in Slot : y.cache[j].name = w.cache[j].name
    BY <1>1, EjectedKeeps
  <2>2. x = [y EXCEPT !.index[d] = i]
    BY <1>3 DEF set_image_index
  <2> HIDE DEF x, y, d
  <2>3. y \in World /\ y.index \in [Drive -> 0 .. MaxDisks] /\ y.insert[d] = FALSE
    BY <1>1, <2>1 DEF Sane, Good, World
  <2>4. /\ x.index = [y.index EXCEPT ![d] = i] /\ x.drive = y.drive /\ x.count = y.count
        /\ x.cache = y.cache /\ x.drv = y.drv /\ x.insert = y.insert /\ x \in World
    BY <1>1, <2>2, <2>3 DEF World
  <2>5. Sane(x)
    BY <2>1, <2>4 DEF Sane, Good, Agreed
  <2>6. Placed(y) => Placed(x)
    <3>1. \A e \in Drive : x.insert[e] => x.index[e] = y.index[e]
      BY <1>1, <2>3, <2>4
    <3> QED  BY <2>4, <3>1 DEF Placed, Drive
  <2> QED  BY <2>1, <2>4, <2>5, <2>6 DEF x
<1> QED  BY <1>2, <1>3

-----------------------------------------------------------------------------
(* Loading files into the cache                                            *)

(* An entry has a name exactly when it has data, and no name but its       *)
(* file's.                                                                 *)
LEMMA LoadedEntryType ==
  ASSUME NEW w \in World, NEW old \in Entry, NEW n \in Name
  PROVE  LET e == LoadedEntry(w, old, n)
         IN e \in Entry /\ (e.name = NoName <=> e.data = NoData) /\ e.name \in {n, NoName}
<1> DEFINE kept == IF opt.enable_save THEN w.saves[n] ELSE NoData
           stx  == Format[n] = "stx"
           data == IF kept # NoData /\ ~stx THEN kept ELSE FileData(n)
<1>1. kept \in Content /\ NoData \in Content
  BY DEF World, Content
<1>2. FileData(n) \in Content
  BY DEF FileData, Content
<1> HIDE DEF kept, stx
<1>3. data \in Content
  BY <1>1, <1>2
<1>4. LoadedEntry(w, old, n) =
        [name       |-> IF data = NoData THEN NoName ELSE n,
         data       |-> data,
         saved      |-> kept # NoData,
         extra      |-> IF stx THEN kept ELSE NoData,
         extra_name |-> IF stx /\ opt.enable_save THEN n ELSE old.extra_name]
  BY DEF LoadedEntry, kept, stx
<1> HIDE DEF data
<1>5. n # NoName
  BY DriveAssumption
<1> QED  BY <1>1, <1>3, <1>4, <1>5 DEF Entry

(* A list of files is read without touching the drives.  The menu still    *)
(* names the disks in them if entry i is not in use, the names of the list *)
(* differ from each other, and none of them is in another entry.           *)
LEMMA LoadedListKeeps ==
  ASSUME NEW w, Sane(w), NEW i \in Slot, NEW names \in Seq(Name) \ {<< >>}
  PROVE  LET x == LoadedList(w, i, names)
         IN /\ Sane(x)
            /\ x.index = w.index /\ x.insert = w.insert /\ x.drive = w.drive
            /\ x.drv = w.drv
            /\ w.count > 0 => x.count > 0
            /\ /\ Placed(w) /\ i < w.count
               /\ \A k, l \in 1 .. Len(names) : names[k] = names[l] => k = l
               /\ \A k \in 1 .. Len(names) : \A j \in Slot \ {i} : w.cache[j].name # names[k]
               /\ \A d \in Drive : ~(w.insert[d] /\ w.index[d] = i)
               => Placed(x)
<1> DEFINE x == LoadedList(w, i, names)
           place(j) == IF j = i THEN 1 ELSE j - w.count + 2
           taken(j) == j = i \/ (j >= w.count /\ place(j) <= Len(names))
           total == w.count + Len(names) - 1
           cache == [j \in Slot |-> IF taken(j) THEN LoadedEntry(w, w.cache[j], names[place(j)])
                                    ELSE w.cache[j]]
           count == IF total > MaxDisks THEN MaxDisks ELSE total
<1>1. /\ w \in World /\ w.cache \in [Slot -> Entry] /\ w.count \in 0 .. MaxDisks
      /\ \A j \in Slot : w.cache[j].name = NoName <=> w.cache[j].data = NoData
      /\ \A d \in Drive : w.insert[d] <=> Inserted(w.drv[d])
  BY DEF Sane, Good, Agreed, World
<1>2. Len(names) \in Nat \ {0} /\ \A k \in 1 .. Len(names) : names[k] \in Name
  BY EmptySeq, LenProperties, ElementOfSeq
<1>3. MaxDisks \in Nat \ {0} /\ Slot = 0 .. MaxDisks - 1 /\ i \in Nat
  BY DiskAssumption DEF Slot
<1>4. x = [w EXCEPT !.cache = cache, !.count = count]
  BY DEF LoadedList
<1> HIDE DEF x
<1>5. ASSUME NEW j \in Slot, taken(j)
      PROVE  place(j) \in 1 .. Len(names)
  BY <1>1, <1>2, <1>3, <1>5
<1>6. ASSUME NEW j \in Slot
      PROVE  /\ cache[j] \in Entry
             /\ cache[j].name = NoName <=> cache[j].data = NoData
             /\ taken(j) => cache[j].name \in {names[place(j)], NoName}
             /\ ~taken(j) => cache[j].name = w.cache[j].name
  <2>1. CASE taken(j)
    <3> DEFINE e == LoadedEntry(w, w.cache[j], names[place(j)])
    <3>1. names[place(j)] \in Name /\ w.cache[j] \in Entry
      BY <1>1, <1>2, <1>5, <2>1
    <3>2. cache[j] = e
      BY <2>1
    <3> HIDE DEF cache, taken, place
    <3>3. /\ e \in Entry /\ (e.name = NoName <=> e.data = NoData)
          /\ e.name \in {names[place(j)], NoName}
      BY <1>1, <3>1, LoadedEntryType
    <3> QED  BY <2>1, <3>2, <3>3
  <2>2. CASE ~taken(j)
    <3>1. cache[j] = w.cache[j]
      BY <2>2
    <3> QED  BY <1>1, <2>2, <3>1
  <2> QED  BY <2>1, <2>2
<1>7. count \in 0 .. MaxDisks /\ (w.count > 0 => count > 0)
  BY <1>1, <1>2, <1>3
<1>8. cache \in [Slot -> Entry]
  BY <1>6
<1>9. x \in World /\ x.cache = cache /\ x.count = count
  BY <1>1, <1>4, <1>7, <1>8 DEF World
<1>10. x.index = w.index /\ x.insert = w.insert /\ x.drive = w.drive /\ x.drv = w.drv
  BY <1>1, <1>4 DEF World
<1>11. Sane(x)
  <2> HIDE DEF cache, taken, place, count
  <2> QED  BY <1>6, <1>9, <1>10 DEF Sane, Good, Agreed
<1>12. ASSUME Placed(w), i < w.count,
              \A k, l \in 1 .. Len(names) : names[k] = names[l] => k = l,
              \A k \in 1 .. Len(names) : \A j \in Slot \ {i} : w.cache[j].name # names[k],
              \A d \in Drive : ~(w.insert[d] /\ w.index[d] = i)
       PROVE  Placed(x)
  <2>1. ASSUME NEW j \in Slot, taken(j), cache[j].name # NoName, NEW k \in Slot, k # j
        PROVE  cache[k].name # cache[j].name
    <3>1. cache[j].name = names[place(j)] /\ place(j) \in 1 .. Len(names)
      BY <1>5, <1>6, <2>1
    <3>2. CASE taken(k)
      <4>1. place(k) \in 1 .. Len(names) /\ place(k) # place(j)
        BY <1>1, <1>3, <1>5, <2>1, <3>2
      <4>2. cache[k].name \in {names[place(k)], NoName}
        BY <1>6, <3>2
      <4> HIDE DEF place, taken, cache
      <4> QED  BY <1>12, <2>1, <3>1, <4>1, <4>2
    <3>3. CASE ~taken(k)
      <4>1. k # i /\ cache[k].name = w.cache[k].name
        BY <1>6, <3>3
      <4> HIDE DEF place, taken, cache
      <4> QED  BY <1>12, <3>1, <4>1
    <3> QED  BY <3>2, <3>3
  <2>2. ASSUME NEW j \in Slot, NEW k \in Slot, k # j, cache[j].name = cache[k].name
        PROVE  cache[j].name = NoName
    <3>1. CASE taken(j) \/ taken(k)
      <4> HIDE DEF place, taken, cache
      <4> QED  BY <2>1, <2>2, <3>1
    <3>2. CASE ~taken(j) /\ ~taken(k)
      <4>1. cache[j].name = w.cache[j].name /\ cache[k].name = w.cache[k].name
        BY <1>6, <3>2
      <4> HIDE DEF place, taken, cache
      <4> QED  BY <1>12, <2>2, <4>1 DEF Placed
    <3> QED  BY <3>1, <3>2
  <2>3. ASSUME NEW j \in Slot, j >= count
        PROVE  cache[j].name = NoName
    <3>1. j >= w.count /\ ~taken(j)
      BY <1>1, <1>2, <1>3, <1>12, <2>3
    <3>2. cache[j].name = w.cache[j].name
      BY <1>6, <3>1
    <3> HIDE DEF place, taken, cache
    <3> QED  BY <1>12, <3>1, <3>2 DEF Placed
  <2>4. ASSUME NEW d \in Drive, w.insert[d]
        PROVE  /\ w.index[d] \in Slot
               /\ w.drv[d].name = cache[w.index[d]].name
    <3>1. w.index[d] \in Slot /\ w.drv[d].name = w.cache[w.index[d]].name
      BY <1>12, <2>4 DEF Placed
    <3>2. w.drv[d].name # NoName
      BY <1>1, <2>4 DEF Inserted
    <3>3. w.index[d] < w.count /\ w.index[d] # i
      BY <1>1, <1>3, <1>12, <2>4, <3>1, <3>2 DEF Placed
    <3>4. ~taken(w.index[d])
      BY <1>1, <1>3, <3>1, <3>3
    <3>5. cache[w.index[d]].name = w.cache[w.index[d]].name
      BY <1>6, <3>1, <3>4
    <3> QED  BY <3>1, <3>5
  <2>5. w.insert[0] /\ w.insert[1] => w.index[0] # w.index[1]
    BY <1>12 DEF Placed
  <2> HIDE DEF place, taken, cache, count
  <2> QED  BY <1>9, <1>10, <2>2, <2>3, <2>4, <2>5 DEF Placed
<1> HIDE DEF place, taken, cache, count
<1> QED  BY <1>7, <1>9, <1>10, <1>11, <1>12 DEF x

LEMMA replace_image_indexKeeps ==
  ASSUME NEW w, Sane(w), NEW i \in Slot, NEW names \in Seq(Name) \ {<< >>}, opt \in Options
  PROVE  LET x == replace_image_index(w, i, names)
         IN /\ Sane(x)
            /\ /\ Placed(w) /\ i < w.count
               /\ \A k, l \in 1 .. Len(names) : names[k] = names[l] => k = l
               /\ \A k \in 1 .. Len(names) : \A j \in Slot \ {i} : w.cache[j].name # names[k]
               /\ \A d \in Drive : ~(w.insert[d] /\ w.index[d] = i)
               => Placed(x)
<1> DEFINE uses(y, d) == y.insert[d] /\ y.index[d] = i
           first == EjectReplaced(w, i, 0)
           second == EjectReplaced(first, i, 1)
           x == replace_image_index(w, i, names)
<1>1. 0 \in Drive /\ 1 \in Drive
  BY DEF Drive
<1>2. Sane(first)
  BY <1>1, InsertDriveKeeps DEF EjectReplaced
<1>3. Sane(second)
  <2> HIDE DEF first
  <2> QED  BY <1>1, <1>2, InsertDriveKeeps DEF EjectReplaced
<1>4. x = LoadedList(second, i, names)
  BY DEF replace_image_index
<1>5. (\A d \in Drive : ~(w.insert[d] /\ w.index[d] = i)) => second = w
  BY <1>1 DEF EjectReplaced
<1> HIDE DEF x, first, second, uses
<1>6. Sane(x)
  BY <1>3, <1>4, LoadedListKeeps
<1>7. ASSUME Placed(w), i < w.count,
             \A k, l \in 1 .. Len(names) : names[k] = names[l] => k = l,
             \A k \in 1 .. Len(names) : \A j \in Slot \ {i} : w.cache[j].name # names[k],
             \A d \in Drive : ~(w.insert[d] /\ w.index[d] = i)
      PROVE  Placed(x)
  <2>1. x = LoadedList(w, i, names)
    BY <1>4, <1>5, <1>7
  <2> QED  BY <1>7, <2>1, LoadedListKeeps
<1> QED  BY <1>6, <1>7 DEF x

LEMMA add_image_indexKeeps ==
  ASSUME NEW w, Sane(w)
  PROVE  Sane(add_image_index(w)) /\ (Placed(w) => Placed(add_image_index(w)))
<1> DEFINE x == add_image_index(w)
<1>1. w \in World /\ w.count \in 0 .. MaxDisks
  BY DEF Sane, Good, World
<1>2. w.count < MaxDisks => w.count + 1 \in 0 .. MaxDisks
  BY <1>1, DiskAssumption
<1>3. CASE w.count < MaxDisks
  <2>1. x = [w EXCEPT !.count = w.count + 1]
    BY <1>3 DEF add_image_index
  <2> HIDE DEF x
  <2>2. /\ x.index = w.index /\ x.insert = w.insert /\ x.drive = w.drive /\ x.drv = w.drv
        /\ x.cache = w.cache /\ x.count = w.count + 1 /\ x \in World
    BY <1>1, <1>2, <1>3, <2>1 DEF World
  <2>3. \A j \in Slot : j >= x.count => j >= w.count
    BY <1>1, <2>2, DiskAssumption DEF Slot
  <2>4. Sane(x) /\ (Placed(w) => Placed(x))
    BY <2>2, <2>3 DEF Sane, Good, Agreed, Placed
  <2> QED  BY <2>4 DEF x
<1>4. CASE ~(w.count < MaxDisks)
  <2>1. x = w
    BY <1>1, <1>4 DEF add_image_index, World
  <2> QED  BY <2>1
<1> QED  BY <1>3, <1>4

(* Clearing leaves an empty cache and two empty drives.                    *)
LEMMA disks_clearKeeps ==
  ASSUME NEW w, Good(w)
  PROVE  LET x == disks_clear(w)
         IN /\ Sane(x) /\ Placed(x)
            /\ \A d \in Drive : ~x.insert[d] /\ x.drv[d] = EmptyDrive
            /\ \A i \in Slot : x.cache[i].name = NoName
<1> DEFINE e == [w EXCEPT !.drive = 0, !.count = 0,
                          !.cache = [i \in Slot |-> EmptyEntry],
                          !.index = [d \in Drive |-> 0],
                          !.insert = [d \in Drive |-> FALSE]]
           y == FloppyEject(e, 0)
           x == disks_clear(w)
<1>1. w \in World /\ 0 \in Drive /\ 1 \in Drive /\ Drive = {0, 1}
  BY DEF Good, Drive
<1>2. EmptyEntry \in Entry /\ EmptyEntry.name = NoName /\ EmptyEntry.data = NoData
  BY DEF EmptyEntry, Entry, Content
<1> DEFINE noEntries == [i \in Slot |-> EmptyEntry]
           noIndex == [d \in Drive |-> 0]
           noDisk == [d \in Drive |-> FALSE]
<1>a. /\ noEntries \in [Slot -> Entry] /\ noIndex \in [Drive -> 0 .. MaxDisks]
      /\ noDisk \in [Drive -> BOOLEAN] /\ 0 \in 0 .. MaxDisks
  BY <1>2, DiskAssumption
<1>b. e = [w EXCEPT !.drive = 0, !.count = 0, !.cache = noEntries, !.index = noIndex,
                    !.insert = noDisk]
  OBVIOUS
<1>3. /\ e.cache = [i \in Slot |-> EmptyEntry] /\ e.insert = [d \in Drive |-> FALSE]
      /\ e.drv = w.drv /\ e \in World
  <2> HIDE DEF noEntries, noIndex, noDisk, e
  <2>1. e.cache = noEntries /\ e.insert = noDisk /\ e.drv = w.drv /\ e \in World
    BY <1>1, <1>a, <1>b DEF World
  <2> QED  BY <2>1 DEF noEntries, noDisk
<1> HIDE DEF e
<1>4. Good(e)
  BY <1>2, <1>3 DEF Good
<1>5. Good(y) /\ SameMenu(e, y) /\ y.drv = [e.drv EXCEPT ![0] = EmptyDrive]
  BY <1>1, <1>4, FloppyEjectKeeps
<1>6. x = FloppyEject(y, 1)
  BY DEF disks_clear, e
<1> HIDE DEF x, y
<1>7. Good(x) /\ SameMenu(y, x) /\ x.drv = [y.drv EXCEPT ![1] = EmptyDrive]
  BY <1>1, <1>5, <1>6, FloppyEjectKeeps
<1>8. w.drv \in [Drive -> DriveState]
  BY <1>1 DEF World
<1>9. \A d \in Drive : x.drv[d] = EmptyDrive
  BY <1>1, <1>3, <1>5, <1>7, <1>8
<1>10. /\ \A d \in Drive : ~x.insert[d]
       /\ \A i \in Slot : x.cache[i].name = NoName
  BY <1>2, <1>3, <1>5, <1>7 DEF SameMenu
<1>11. Sane(x)
  BY <1>7, <1>9, <1>10 DEF Sane, Agreed, Inserted, EmptyDrive
<1>12. Placed(x)
  BY <1>1, <1>10 DEF Placed
<1> QED  BY <1>9, <1>10, <1>11, <1>12 DEF x

-----------------------------------------------------------------------------
(* Loading content, conveniences, resets                                   *)

(* Setting the current drive touches no disk.                              *)
LEMMA DriveSelectionKeeps ==
  ASSUME NEW w, Sane(w), NEW d \in Drive
  PROVE  LET x == [w EXCEPT !.drive = d]
         IN Sane(x) /\ (Placed(w) => Placed(x)) /\ x.count = w.count
<1> DEFINE x == [w EXCEPT !.drive = d]
<1>1. w \in World
  BY DEF Sane, Good
<1>2. /\ x.index = w.index /\ x.insert = w.insert /\ x.drv = w.drv
      /\ x.cache = w.cache /\ x.count = w.count /\ x \in World
  BY <1>1 DEF World
<1> HIDE DEF x
<1>3. Sane(x) /\ (Placed(w) => Placed(x)) /\ x.count = w.count
  BY <1>2 DEF Sane, Good, Agreed, Placed
<1> QED  BY <1>3 DEF x

LEMMA BootKeeps ==
  ASSUME NEW w, Sane(w), NEW d \in Drive, NEW i \in 0 .. MaxDisks, opt \in Options
  PROVE  LET x == Boot(w, d, i)
         IN Sane(x) /\ (Placed(w) => Placed(x)) /\ x.count = w.count
<1> DEFINE w1 == [w EXCEPT !.drive = d]
           w2 == set_image_index(w1, i)
           keeps(u, v) == Sane(v) /\ (Placed(u) => Placed(v)) /\ v.count = u.count
<1>1. keeps(w, w1)
  BY DriveSelectionKeeps
<1> HIDE DEF w1
<1>2. keeps(w1, w2)
  BY <1>1, set_image_indexKeeps
<1> HIDE DEF w2
<1>3. keeps(w2, set_eject_state(w2, FALSE))
  BY <1>2, set_eject_stateKeeps
<1>4. Boot(w, d, i) = set_eject_state(w2, FALSE)
  BY DEF Boot, w1, w2
<1> QED  BY <1>1, <1>2, <1>3, <1>4

(* The disk chosen for a drive is an entry of the cache.                   *)
LEMMA FirstBootableType ==
  ASSUME NEW w \in World, NEW d \in Drive
  PROVE  FirstBootable(w, d) \in Slot
<1>1. Bootable(w, d) \in SUBSET Nat /\ Bootable(w, d) \subseteq Slot
  BY DiskAssumption DEF Bootable, World, Slot
<1>2. 0 \in Slot
  BY DiskAssumption DEF Slot
<1> QED  BY <1>1, <1>2, LeastIn DEF FirstBootable

(* Neither a boot directive nor the automatic selection upsets the disks.  *)
LEMMA BootAsDirectedKeeps ==
  ASSUME NEW w, Sane(w), NEW p \in Playlists, NEW d \in Drive, opt \in Options
  PROVE  LET x == BootAsDirected(w, p, d) IN Sane(x) /\ (Placed(w) => Placed(x))
<1> DEFINE b == BootDirective(w, p, d)
<1>1. b > 0 => b - 1 \in 0 .. MaxDisks
  <2>1. w.count \in 0 .. MaxDisks /\ p.boot[d] \in Int
    BY DiskAssumption DEF Sane, Good, World
  <2> QED  BY <2>1, DiskAssumption DEF BootDirective
<1> HIDE DEF b
<1>2. BootAsDirected(w, p, d) = w \/ (b > 0 /\ BootAsDirected(w, p, d) = Boot(w, d, b - 1))
  BY DEF BootAsDirected, b
<1> QED  BY <1>1, <1>2, BootKeeps

LEMMA BootUndirectedKeeps ==
  ASSUME NEW w, Sane(w), NEW p \in Playlists, NEW d \in Drive, opt \in Options
  PROVE  LET x == BootUndirected(w, p, d) IN Sane(x) /\ (Placed(w) => Placed(x))
<1> DEFINE i == FirstBootable(w, d)
<1>1. i \in 0 .. MaxDisks
  BY FirstBootableType, DiskAssumption DEF Slot, Sane, Good
<1>2. BootUndirected(w, p, d) \in {w, Boot(w, d, i)}
  BY DEF BootUndirected
<1> HIDE DEF i
<1> QED  BY <1>1, <1>2, BootKeeps

LEMMA BootedKeeps ==
  ASSUME NEW w, Sane(w), NEW p \in Playlists, opt \in Options
  PROVE  Sane(Booted(w, p)) /\ (Placed(w) => Placed(Booted(w, p)))
<1> DEFINE w1 == BootAsDirected(w, p, 1)
           w2 == BootAsDirected(w1, p, 0)
           w3 == BootUndirected(w2, p, 0)
           w4 == BootUndirected(w3, p, 1)
           keeps(u, v) == Sane(v) /\ (Placed(u) => Placed(v))
<1>1. 0 \in Drive /\ 1 \in Drive
  BY DEF Drive
<1>2. Booted(w, p) = w4
  BY DEF Booted
<1>3. keeps(w, w1)
  BY <1>1, BootAsDirectedKeeps
<1> HIDE DEF w1
<1>4. keeps(w1, w2)
  BY <1>1, <1>3, BootAsDirectedKeeps
<1> HIDE DEF w2
<1>5. keeps(w2, w3)
  BY <1>1, <1>4, BootUndirectedKeeps
<1> HIDE DEF w3
<1>6. keeps(w3, w4)
  BY <1>1, <1>5, BootUndirectedKeeps
<1> HIDE DEF w4
<1> QED  BY <1>2, <1>3, <1>4, <1>5, <1>6

(* Opening a content yields a sane world whatever was there before, and    *)
(* the menu names what is in the drives if the names of the list differ.   *)
LEMMA core_disk_load_gameKeeps ==
  ASSUME NEW w, Good(w), NEW p \in Playlists, opt \in Options
  PROVE  LET x == core_disk_load_game(w, p)
         IN /\ Sane(x)
            /\ (\A k, l \in 1 .. Len(p.names) : p.names[k] = p.names[l] => k = l) => Placed(x)
<1> DEFINE clear == disks_clear(w)
           one == [clear EXCEPT !.count = 1]
           listed == LoadedList(one, 0, p.names)
           booted == Booted(listed, p)
           x == core_disk_load_game(w, p)
<1>1. x = [booted EXCEPT !.drive = 0]
  BY DEF core_disk_load_game, Listed
<1>2. 0 \in Drive /\ 1 \in Drive /\ 0 \in Slot
  BY DiskAssumption DEF Drive, Slot
<1>3. /\ Sane(clear) /\ \A d \in Drive : ~clear.insert[d]
      /\ \A i \in Slot : clear.cache[i].name = NoName
  BY disks_clearKeeps
<1> HIDE DEF clear
<1>4. /\ Sane(one) /\ Placed(one) /\ one.count = 1 /\ \A d \in Drive : ~one.insert[d]
      /\ \A i \in Slot : one.cache[i].name = NoName
  <2>1. clear \in World /\ 1 \in 0 .. MaxDisks
    BY <1>3, DiskAssumption DEF Sane, Good
  <2>2. /\ one.index = clear.index /\ one.insert = clear.insert /\ one.drv = clear.drv
        /\ one.cache = clear.cache /\ one.count = 1 /\ one \in World
    BY <2>1 DEF World
  <2> HIDE DEF one
  <2> QED  BY <1>2, <1>3, <2>2 DEF Sane, Good, Agreed, Placed, Drive
<1>5. /\ DOMAIN p = {"names", "boot"} /\ p.names \in Seq(Name) \ {<< >>}
      /\ p.boot \in [Drive -> Int]
  BY DiskAssumption
<1>6. \A k \in 1 .. Len(p.names) : p.names[k] # NoName
  BY <1>5, ElementOfSeq, DriveAssumption
<1> HIDE DEF one
<1>7. /\ Sane(listed)
      /\ (\A k, l \in 1 .. Len(p.names) : p.names[k] = p.names[l] => k = l) => Placed(listed)
  BY <1>2, <1>4, <1>5, <1>6, LoadedListKeeps
<1> HIDE DEF listed
<1>8. Sane(booted) /\ (Placed(listed) => Placed(booted))
  BY <1>7, BootedKeeps
<1> HIDE DEF booted, x
<1>9. Sane(x) /\ (Placed(booted) => Placed(x))
  BY <1>1, <1>2, <1>8, DriveSelectionKeeps
<1> QED  BY <1>7, <1>8, <1>9 DEF x

LEMMA core_disk_unload_gameKeeps ==
  ASSUME NEW w, Sane(w)
  PROVE  Sane(core_disk_unload_game(w)) /\ Placed(core_disk_unload_game(w))
<1> DEFINE y == Ejected(w, 0)
           z == Ejected(y, 1)
<1>1. 0 \in Drive /\ 1 \in Drive
  BY DEF Drive
<1>2. Sane(y)
  BY <1>1, EjectedKeeps
<1> HIDE DEF y
<1>3. Sane(z)
  BY <1>1, <1>2, EjectedKeeps
<1> HIDE DEF z
<1>4. Sane(disks_clear(z)) /\ Placed(disks_clear(z))
  BY <1>3, disks_clearKeeps DEF Sane
<1> QED  BY <1>4 DEF core_disk_unload_game, y, z

LEMMA ReinsertedKeeps ==
  ASSUME NEW w, Sane(w), NEW d \in Drive, opt \in Options
  PROVE  Sane(Reinserted(w, d)) /\ (Placed(w) => Placed(Reinserted(w, d)))
<1> DEFINE y == Ejected(w, d)
           z == InsertDrive(y, d)
<1>1. Sane(y) /\ (Placed(w) => Placed(y))
  BY EjectedKeeps
<1> HIDE DEF y
<1>2. Sane(z) /\ (Placed(y) => Placed(z))
  BY <1>1, InsertDriveKeeps
<1>3. Reinserted(w, d) \in {w, z}
  BY DEF Reinserted, y
<1> HIDE DEF z
<1> QED  BY <1>1, <1>2, <1>3

LEMMA core_disk_drive_reinsertKeeps ==
  ASSUME NEW w, Sane(w), opt \in Options
  PROVE  LET x == core_disk_drive_reinsert(w) IN Sane(x) /\ (Placed(w) => Placed(x))
<1> DEFINE y == Reinserted(w, 0)
<1>1. 0 \in Drive /\ 1 \in Drive
  BY DEF Drive
<1>2. Sane(y) /\ (Placed(w) => Placed(y))
  BY <1>1, ReinsertedKeeps
<1> HIDE DEF y
<1>3. Sane(Reinserted(y, 1)) /\ (Placed(y) => Placed(Reinserted(y, 1)))
  BY <1>1, <1>2, ReinsertedKeeps
<1>4. core_disk_drive_reinsert(w) \in {y, Reinserted(y, 1)}
  BY DEF core_disk_drive_reinsert, y
<1> QED  BY <1>2, <1>3, <1>4

LEMMA core_disk_swapKeeps ==
  ASSUME NEW w, Sane(w), opt \in Options
  PROVE  LET x == core_disk_swap(w) IN Sane(x) /\ (Placed(w) => Placed(x))
<1> DEFINE out == Ejected(w, w.drive)
           next == NextIndex(out)
           moved == SelectNext(out)
           x == set_eject_state(moved, FALSE)
<1>1. w.drive \in Drive
  BY DEF Sane, Good, World
<1>2. Sane(out) /\ (Placed(w) => Placed(out))
  BY <1>1, EjectedKeeps
<1>3. next \in 0 .. MaxDisks
  BY <1>2, DiskAssumption DEF Sane, Good, World, NextIndex
<1>4. core_disk_swap(w) = x
  BY DEF core_disk_swap
<1>7. moved = set_image_index(out, next)
  BY DEF SelectNext
<1> HIDE DEF out, next, moved
<1>5. Sane(moved) /\ (Placed(out) => Placed(moved))
  BY <1>2, <1>3, <1>7, set_image_indexKeeps
<1>6. Sane(x) /\ (Placed(moved) => Placed(x))
  BY <1>5, set_eject_stateKeeps
<1> HIDE DEF x
<1> QED  BY <1>2, <1>4, <1>5, <1>6

-----------------------------------------------------------------------------
(* Machine writes and savestates                                           *)

LEMMA SectorWrittenKeeps ==
  ASSUME NEW w, Sane(w), NEW d \in Drive, Inserted(w.drv[d]), NEW v \in Nat
  PROVE  LET x == [w EXCEPT !.drv[d] = SectorWritten(w.drv[d], v)]
         IN Sane(x) /\ (Placed(w) => Placed(x))
<1> DEFINE hd == w.drv[d]
           new == SectorWritten(hd, v)
           x == [w EXCEPT !.drv[d] = new]
<1>1. w \in World /\ w.drv \in [Drive -> DriveState] /\ \A e \in Drive : LoadedDrive(w.drv[e])
  BY DEF Sane, Good, World
<1>2. hd \in DriveState /\ hd.name # NoName /\ hd.buffer \in Nat
  BY <1>1 DEF LoadedDrive, Inserted
<1> HIDE DEF hd
<1>3. new \in DriveState /\ new.name = hd.name /\ new.buffer \in Nat
  BY <1>2 DEF SectorWritten, DriveState, Content
<1> HIDE DEF new
<1>4. /\ x.drv = [w.drv EXCEPT ![d] = new] /\ x \in World
      /\ x.index = w.index /\ x.insert = w.insert /\ x.cache = w.cache /\ x.count = w.count
  BY <1>1, <1>3 DEF World
<1> HIDE DEF x
<1>5. \A e \in Drive : LoadedDrive(x.drv[e]) /\ x.drv[e].name = w.drv[e].name
  BY <1>1, <1>3, <1>4 DEF LoadedDrive, hd
<1>6. Sane(x)
  BY <1>4, <1>5 DEF Sane, Good, Agreed, Inserted
<1>7. Placed(w) => Placed(x)
  BY <1>4, <1>5 DEF Placed
<1> QED  BY <1>6, <1>7 DEF x, new, hd

(* Restoring a savestate brings the menu and the drives back together,     *)
(* with the drives of the state.  The menu names their disks if they are   *)
(* two different disks of the cache.                                       *)
LEMMA RestoreKeeps ==
  ASSUME NEW w, Good(w), NEW drives \in [Drive -> DriveState],
         \A d \in Drive : LoadedDrive(drives[d])
  PROVE  LET x == core_disk_reindex(DrivesRestored(w, drives))
         IN /\ Sane(x)
            /\ /\ Placed(w)
               /\ Inserted(drives[0]) /\ Inserted(drives[1]) => drives[0].name # drives[1].name
               /\ \A d \in Drive : Inserted(drives[d]) => SlotOf(w, drives[d].name) # NoSlot
               => Placed(x)
<1> DEFINE e == IF opt.floppy_modify THEN FloppyEject(FloppyEject(w, 0), 1) ELSE w
           r == DrivesRestored(w, drives)
           in(d) == Inserted(drives[d])
           insert == [d \in Drive |-> in(d)]
           index == [d \in Drive |-> IF in(d) THEN SlotOf(r, drives[d].name) ELSE r.index[d]]
           marked == [d \in Drive |->
                        IF in(d) /\ opt.floppy_modify /\ MayRevert(r, drives[d].name)
                        THEN [drives[d] EXCEPT !.changed = TRUE] ELSE drives[d]]
           x == core_disk_reindex(r)
<1>1. Good(e) /\ SameMenu(w, e)
  <2>1. 0 \in Drive /\ 1 \in Drive
    BY DEF Drive
  <2>2. Good(FloppyEject(w, 0)) /\ SameMenu(w, FloppyEject(w, 0))
    BY <2>1, FloppyEjectKeeps
  <2>3. /\ Good(FloppyEject(FloppyEject(w, 0), 1))
        /\ SameMenu(FloppyEject(w, 0), FloppyEject(FloppyEject(w, 0), 1))
    BY <2>1, <2>2, FloppyEjectKeeps
  <2> QED  BY <2>2, <2>3 DEF SameMenu
<1>2. r = [e EXCEPT !.drv = drives]
  BY DEF DrivesRestored
<1> HIDE DEF e, r
<1>3. e \in World /\ r \in World
  BY <1>1, <1>2 DEF Good, World
<1>4. /\ r.drv = drives /\ r.cache = e.cache /\ r.count = w.count /\ r.index = w.index
      /\ \A i \in Slot : r.cache[i].name = w.cache[i].name
  BY <1>1, <1>2, <1>3 DEF SameMenu, World
<1>5. x = [r EXCEPT !.insert = insert, !.index = index, !.drv = marked]
  BY <1>4 DEF core_disk_reindex
<1> HIDE DEF x
<1>6. insert \in [Drive -> BOOLEAN]
  BY DEF Inserted
<1>7. index \in [Drive -> 0 .. MaxDisks]
  <2>1. \A d \in Drive : SlotOf(r, drives[d].name) \in 0 .. MaxDisks
    BY <1>3, SlotOfFinds
  <2>2. \A d \in Drive : r.index[d] \in 0 .. MaxDisks
    BY <1>3 DEF World
  <2> QED  BY <2>1, <2>2
<1>8. ASSUME NEW d \in Drive
      PROVE  /\ marked[d] \in DriveState /\ LoadedDrive(marked[d])
             /\ marked[d].name = drives[d].name
  <2>1. marked[d] = drives[d] \/ marked[d] = [drives[d] EXCEPT !.changed = TRUE]
    OBVIOUS
  <2> HIDE DEF marked
  <2>2. drives[d] \in DriveState /\ LoadedDrive(drives[d])
    OBVIOUS
  <2> QED  BY <2>1, <2>2 DEF LoadedDrive, DriveState, Inserted
<1>9. marked \in [Drive -> DriveState]
  BY <1>8
<1>10. \A d \in Drive : insert[d] <=> Inserted(drives[d])
  BY DEF Inserted
<1>11. \A d \in Drive : Inserted(drives[d]) => index[d] = SlotOf(r, drives[d].name)
  OBVIOUS
<1> HIDE DEF insert, index, marked
<1>12. /\ x.insert = insert /\ x.index = index /\ x.drv = marked /\ x \in World
       /\ x.cache = e.cache /\ x.count = w.count
  BY <1>3, <1>4, <1>5, <1>6, <1>7, <1>9 DEF World
<1>13. Sane(x)
  BY <1>1, <1>8, <1>10, <1>12 DEF Sane, Good, Agreed, Inserted
<1>14. ASSUME Placed(w),
              Inserted(drives[0]) /\ Inserted(drives[1]) => drives[0].name # drives[1].name,
              \A d \in Drive : Inserted(drives[d]) => SlotOf(w, drives[d].name) # NoSlot
       PROVE  Placed(x)
  <2>1. ASSUME NEW d \in Drive, Inserted(drives[d])
        PROVE  index[d] \in Slot /\ w.cache[index[d]].name = drives[d].name
    <3>1. SlotOf(w, drives[d].name) # NoSlot
      BY <1>14, <2>1
    <3>2. PICK i \in Slot : w.cache[i].name = drives[d].name
      BY <3>1, SlotOfFinds DEF Good
    <3>3. SlotOf(r, drives[d].name) # NoSlot
      BY <1>3, <1>4, <3>2, SlotOfFinds
    <3>4. /\ SlotOf(r, drives[d].name) \in Slot
          /\ r.cache[SlotOf(r, drives[d].name)].name = drives[d].name
      BY <1>3, <3>3, SlotOfFinds
    <3> QED  BY <1>4, <1>11, <2>1, <3>4
  <2>2. \A d \in Drive : x.insert[d] => /\ x.index[d] \in Slot
                                        /\ x.drv[d].name = x.cache[x.index[d]].name
    BY <1>4, <1>8, <1>10, <1>12, <2>1
  <2>3. x.insert[0] /\ x.insert[1] => x.index[0] # x.index[1]
    BY <1>10, <1>12, <1>14, <2>1 DEF Drive
  <2>4. \A i \in Slot : x.cache[i].name = w.cache[i].name
    BY <1>4, <1>12
  <2> QED  BY <1>12, <1>14, <2>2, <2>3, <2>4 DEF Placed
<1> QED  BY <1>13, <1>14 DEF x, r

(* In a placed world the drives hold different disks.                      *)
LEMMA PlacedDiffer ==
  ASSUME NEW w, Sane(w), Placed(w), Inserted(w.drv[0]), Inserted(w.drv[1])
  PROVE  w.drv[0].name # w.drv[1].name
<1>1. \A d \in Drive : /\ w.index[d] \in Slot /\ w.drv[d].name # NoName
                       /\ w.drv[d].name = w.cache[w.index[d]].name
  BY DEF Sane, Agreed, Placed, Inserted, Drive
<1>2. w.index[0] # w.index[1] /\ 0 \in Drive /\ 1 \in Drive
  BY DEF Sane, Agreed, Placed, Drive
<1> QED  BY <1>1, <1>2 DEF Placed

-----------------------------------------------------------------------------
(* What is on the disks.  Overlays have no part in it: they are saved to   *)
(* names, and cached in entries, of STX files alone.                       *)

ImageFile(n) == n \in Name /\ Format[n] = "image"

(* Every entry of an image has what was saved of it, or what the user      *)
(* supplied, and knows which.                                              *)
EntriesKnown(w) ==
  \A i \in Slot :
    LET e == w.cache[i]
    IN /\ e.extra_name # NoName => e.extra_name = e.name /\ ~ImageFile(e.name)
       /\ ImageFile(e.name) => /\ e.saved <=> w.saves[e.name] # NoData
                               /\ e.data = Version(w.saves[e.name])

(* A disk that is not marked changed is as it was saved or supplied.       *)
Pristine(w) ==
  \A d \in Drive : ImageFile(w.drv[d].name) /\ ~w.drv[d].changed
                     => w.drv[d].buffer = Version(w.saves[w.drv[d].name])

SavesWhole(w) == \A n \in Name : ImageFile(n) => w.saves[n] \in Nat \cup {NoData}

UniqueNames(w) ==
  \A i, j \in Slot : w.cache[i].name = w.cache[j].name /\ i # j => w.cache[i].name = NoName

Apart(drives) == Inserted(drives[0]) /\ Inserted(drives[1]) => drives[0].name # drives[1].name

Kept(w) == /\ Good(w) /\ UniqueNames(w) /\ Apart(w.drv)
           /\ EntriesKnown(w) /\ Pristine(w) /\ SavesWhole(w)

(* What the machine finds on an image: what is in the drive, or else what  *)
(* would go in.                                                            *)
OnDisk(w, n) ==
  IF w.drv[0].name = n THEN w.drv[0].buffer
  ELSE IF w.drv[1].name = n THEN w.drv[1].buffer
  ELSE Version(w.saves[n])

SameDisks(w, x) == \A n \in Name : ImageFile(n) => OnDisk(x, n) = OnDisk(w, n)

(* No image that had a save has lost it.                                   *)
SavesGrow(w, x) ==
  \A n \in Name : ImageFile(n) /\ w.saves[n] # NoData => x.saves[n] # NoData

(* Everything is saved and nothing fails.                                  *)
Saved == fs = "ok" /\ opt \in Options /\ opt.enable_save /\ opt.floppy_modify

(* Saving an image under Saved makes its entry and the folder agree.       *)
LEMMA SaveStores ==
  ASSUME NEW w, Kept(w), Saved, NEW n \in Name, ImageFile(n), NEW v \in Nat
  PROVE  LET x == core_disk_save(w, n, v)
         IN /\ EntriesKnown(x)
            /\ x.saves = [w.saves EXCEPT ![n] = v]
<1> DEFINE i == SlotOf(w, n)
           x == core_disk_save(w, n, v)
           cache == IF i = NoSlot THEN w.cache
                    ELSE [w.cache EXCEPT ![i].data = v, ![i].saved = TRUE]
           saves == [w.saves EXCEPT ![n] = v]
<1>1. /\ w \in World /\ w.cache \in [Slot -> Entry] /\ w.saves \in [Name -> Content]
      /\ v # NoData /\ n # NoName /\ Version(v) = v /\ EntriesKnown(w) /\ UniqueNames(w)
  BY DriveAssumption DEF Kept, Good, World, Version
<1>2. /\ i = NoSlot \/ (i \in Slot /\ w.cache[i].name = n)
      /\ \A j \in Slot : w.cache[j].name = n => i # NoSlot
  BY <1>1, SlotOfFinds
<1>3. x = [w EXCEPT !.saves = saves, !.cache = cache]
  BY DEF core_disk_save, FileWritten, Saved
<1> HIDE DEF x, i
<1>4. x.cache = cache /\ x.saves = saves
  BY <1>1, <1>3 DEF World
<1>5. saves[n] = v /\ \A m \in Name : m # n => saves[m] = w.saves[m]
  BY <1>1
<1>6. ASSUME NEW j \in Slot, w.cache[j].name = n
      PROVE  cache[j] = [w.cache[j] EXCEPT !.data = v, !.saved = TRUE]
  <2>1. i # NoSlot /\ i \in Slot /\ i = j
    BY <1>1, <1>2, <1>6 DEF UniqueNames
  <2> QED  BY <1>1, <2>1 DEF Entry
<1>7. ASSUME NEW j \in Slot, w.cache[j].name # n
      PROVE  cache[j] = w.cache[j]
  BY <1>1, <1>2, <1>7
<1> HIDE DEF cache
<1>8. ASSUME NEW j \in Slot
      PROVE  LET e == cache[j]
             IN /\ e.extra_name # NoName => e.extra_name = e.name /\ ~ImageFile(e.name)
                /\ ImageFile(e.name) => /\ e.saved <=> saves[e.name] # NoData
                                        /\ e.data = Version(saves[e.name])
  <2> HIDE DEF saves
  <2>1. CASE w.cache[j].name = n
    <3>1. /\ cache[j].name = n /\ cache[j].saved = TRUE /\ cache[j].data = v
          /\ cache[j].extra_name = w.cache[j].extra_name
      BY <1>1, <1>6, <2>1 DEF Entry
    <3> QED  BY <1>1, <1>5, <2>1, <3>1 DEF EntriesKnown
  <2>2. CASE w.cache[j].name # n
    BY <1>1, <1>5, <1>7, <2>2 DEF EntriesKnown, ImageFile
  <2> QED  BY <2>1, <2>2
<1>9. EntriesKnown(x)
  BY <1>4, <1>8 DEF EntriesKnown
<1> QED  BY <1>4, <1>9 DEF x

(* Saving an overlay touches no image.                                     *)
LEMMA OverlayStores ==
  ASSUME NEW w, Kept(w), Saved, NEW n \in Name, ~ImageFile(n), NEW v \in Nat
  PROVE  LET x == STX_WriteDisk(w, n, v)
         IN /\ EntriesKnown(x)
            /\ x.saves = [w.saves EXCEPT ![n] = v]
<1> DEFINE i == ExtraSlotOf(w, n)
           x == STX_WriteDisk(w, n, v)
           collected == IF w.advanced THEN Junk ELSE v
           cache == IF i = NoSlot THEN w.cache
                    ELSE [w.cache EXCEPT ![i].extra = collected, ![i].saved = TRUE]
           saves == [w.saves EXCEPT ![n] = v]
<1>1. /\ w \in World /\ w.cache \in [Slot -> Entry] /\ w.saves \in [Name -> Content]
      /\ n # NoName /\ EntriesKnown(w)
  BY DriveAssumption DEF Kept, Good, World
<1>2. i = NoSlot \/ (i \in Slot /\ w.cache[i].extra_name = n)
  <2> DEFINE found == {j \in Slot : w.cache[j].extra_name = n}
  <2>1. CASE found = {}
    BY <2>1 DEF ExtraSlotOf
  <2>2. CASE found # {}
    <3>1. found \in SUBSET Nat
      BY DiskAssumption DEF Slot
    <3>2. Least(found) \in found
      BY <2>2, <3>1, LeastIn
    <3> QED  BY <2>2, <3>2 DEF ExtraSlotOf
  <2> QED  BY <2>1, <2>2
<1>3. x = [w EXCEPT !.saves[n] = v, !.advanced = TRUE, !.cache = cache]
  BY DEF STX_WriteDisk, Saved
<1> HIDE DEF x, i, collected
<1>4. x.cache = cache /\ x.saves = saves
  BY <1>1, <1>3 DEF World
<1>5. \A m \in Name : ImageFile(m) => saves[m] = w.saves[m]
  BY <1>1
<1>6. \A j \in Slot : /\ cache[j].name = w.cache[j].name /\ cache[j].data = w.cache[j].data
                      /\ cache[j].extra_name = w.cache[j].extra_name
                      /\ cache[j].saved = w.cache[j].saved \/ w.cache[j].extra_name = n
  BY <1>1, <1>2 DEF Entry
<1> HIDE DEF cache
<1>7. EntriesKnown(x)
  <2> SUFFICES ASSUME NEW j \in Slot
               PROVE  LET e == cache[j]
                      IN /\ e.extra_name # NoName => e.extra_name = e.name /\ ~ImageFile(e.name)
                         /\ ImageFile(e.name) => /\ e.saved <=> saves[e.name] # NoData
                                                 /\ e.data = Version(saves[e.name])
    BY <1>4 DEF EntriesKnown
  <2> HIDE DEF saves
  <2>1. CASE w.cache[j].extra_name = n
    BY <1>1, <1>6, <2>1 DEF EntriesKnown
  <2>2. CASE w.cache[j].extra_name # n
    <3>1. cache[j].saved = w.cache[j].saved
      BY <1>6, <2>2
    <3> QED  BY <1>1, <1>5, <1>6, <3>1 DEF EntriesKnown, ImageFile
  <2> QED  BY <2>1, <2>2
<1> QED  BY <1>4, <1>7 DEF x

(* An eject leaves every image with what was on it: the disk's own is      *)
(* saved if it is marked changed and was saved before if it is not, and no *)
(* other image's save is touched.                                          *)
LEMMA FloppyEjectStores ==
  ASSUME NEW w, Kept(w), Saved, NEW d \in Drive
  PROVE  LET x == FloppyEject(w, d) IN Kept(x) /\ SavesGrow(w, x) /\ SameDisks(w, x)
<1> DEFINE hd == w.drv[d]
           stored == CASE SavesImage(hd)   -> core_disk_save(w, hd.name, hd.buffer)
                       [] SavesOverlay(hd) -> STX_WriteDisk(w, hd.name, hd.overlay)
                       [] OTHER            -> w
           x == FloppyEject(w, d)
<1>1. /\ Good(w) /\ UniqueNames(w) /\ Apart(w.drv) /\ Pristine(w) /\ SavesWhole(w)
      /\ EntriesKnown(w) /\ w \in World /\ \A e \in Drive : LoadedDrive(w.drv[e])
      /\ w.drv \in [Drive -> DriveState] /\ w.saves \in [Name -> Content]
  BY DEF Kept, Good, World
<1>2. hd \in DriveState /\ (Inserted(hd) => hd.buffer \in Nat)
  BY <1>1 DEF LoadedDrive
<1>3. SavesImage(hd) => hd.name \in Name /\ hd.buffer \in Nat /\ ImageFile(hd.name)
  BY <1>2 DEF SavesImage, Inserted, DriveState, ImageFile
<1>4. SavesOverlay(hd) => hd.name \in Name /\ hd.overlay \in Nat /\ ~ImageFile(hd.name)
  BY <1>2 DEF SavesOverlay, Inserted, DriveState, ImageFile
<1>5. ~(SavesImage(hd) /\ SavesOverlay(hd))
  BY DEF SavesImage, SavesOverlay
<1>6. /\ EntriesKnown(stored) /\ stored \in World
      /\ \A n \in Name : ImageFile(n) =>
           stored.saves[n] = IF n = hd.name /\ SavesImage(hd) THEN hd.buffer ELSE w.saves[n]
  <2>1. CASE SavesImage(hd)
    <3> DEFINE y == core_disk_save(w, hd.name, hd.buffer)
    <3>1. EntriesKnown(y) /\ y.saves = [w.saves EXCEPT ![hd.name] = hd.buffer] /\ y \in World
      BY <1>1, <1>3, <2>1, SaveStores, SaveKeeps DEF Good
    <3>2. stored = y
      BY <1>5, <2>1
    <3> HIDE DEF stored, y
    <3> QED  BY <1>1, <2>1, <3>1, <3>2
  <2>2. CASE SavesOverlay(hd)
    <3> DEFINE y == STX_WriteDisk(w, hd.name, hd.overlay)
    <3>1. EntriesKnown(y) /\ y.saves = [w.saves EXCEPT ![hd.name] = hd.overlay] /\ y \in World
      BY <1>1, <1>4, <2>2, OverlayStores, OverlayKeeps DEF Good
    <3>2. stored = y
      BY <1>5, <2>2
    <3> HIDE DEF stored, y
    <3> QED  BY <1>1, <1>4, <1>5, <2>2, <3>1, <3>2
  <2>3. CASE ~SavesImage(hd) /\ ~SavesOverlay(hd)
    BY <1>1, <2>3
  <2> QED  BY <2>1, <2>2, <2>3
<1>7. x = [stored EXCEPT !.drv[d] = EmptyDrive]
  BY DEF FloppyEject
<1>8. Good(x) /\ SameMenu(w, x) /\ x.drv = [w.drv EXCEPT ![d] = EmptyDrive]
  BY <1>1, FloppyEjectKeeps
<1> HIDE DEF hd, stored, x
<1>9. x.cache = stored.cache /\ x.saves = stored.saves
  BY <1>6, <1>7 DEF World
<1>10. EntriesKnown(x)
  BY <1>6, <1>9 DEF EntriesKnown
<1>11. \A n \in Name : ImageFile(n) =>
         x.saves[n] = IF n = hd.name /\ SavesImage(hd) THEN hd.buffer ELSE w.saves[n]
  BY <1>6, <1>9
<1>12. UniqueNames(x)
  BY <1>1, <1>8 DEF UniqueNames, SameMenu
<1>13. x.drv[d] = EmptyDrive /\ \A e \in Drive : e # d => x.drv[e] = w.drv[e]
  BY <1>1, <1>8
<1>14. /\ ~Inserted(EmptyDrive) /\ ~ImageFile(EmptyDrive.name)
       /\ \A n : ImageFile(n) => n \in Name /\ n # NoName /\ n # EmptyDrive.name
  BY DriveAssumption DEF Inserted, EmptyDrive, ImageFile
<1>15. Apart(x.drv)
  BY <1>1, <1>13, <1>14 DEF Apart, Drive
<1>16. SavesWhole(x) /\ SavesGrow(w, x)
  BY <1>1, <1>3, <1>11, DriveAssumption DEF SavesWhole, SavesGrow
<1>17. ASSUME NEW e \in Drive, e # d, ImageFile(w.drv[e].name)
       PROVE  w.drv[e].name # hd.name
  BY <1>1, <1>14, <1>17 DEF Apart, Inserted, Drive, hd
<1>18. Pristine(x)
  BY <1>1, <1>11, <1>13, <1>14, <1>17 DEF Pristine
<1>19. ASSUME NEW n \in Name, ImageFile(n)
       PROVE  OnDisk(x, n) = OnDisk(w, n)
  <2>1. CASE hd.name = n
    <3>1. \A e \in Drive : e # d => w.drv[e].name # n
      BY <1>17, <1>19, <2>1
    <3>2. OnDisk(w, n) = hd.buffer /\ OnDisk(x, n) = Version(x.saves[n])
      BY <1>13, <1>14, <1>19, <2>1, <3>1 DEF OnDisk, Drive, hd
    <3>3. CASE hd.changed
      <4>1. SavesImage(hd)
        BY <1>14, <1>19, <2>1, <3>3 DEF SavesImage, Inserted, ImageFile
      <4> QED  BY <1>3, <1>11, <1>19, <2>1, <3>2, <4>1 DEF Version
    <3>4. CASE ~hd.changed
      <4>1. ~SavesImage(hd) /\ hd.buffer = Version(w.saves[n])
        BY <1>1, <1>19, <2>1, <3>4 DEF SavesImage, Pristine, hd
      <4> QED  BY <1>11, <1>19, <3>2, <4>1
    <3> QED  BY <3>3, <3>4
  <2>2. CASE hd.name # n
    <3>1. x.saves[n] = w.saves[n]
      BY <1>11, <1>19, <2>2
    <3> QED  BY <1>13, <1>14, <1>19, <2>2, <3>1 DEF OnDisk, Drive, hd
  <2> QED  BY <2>1, <2>2
<1>20. Kept(x) /\ SameDisks(w, x)
  BY <1>8, <1>10, <1>12, <1>15, <1>16, <1>18, <1>19 DEF Kept, SameDisks
<1> QED  BY <1>16, <1>20 DEF x

(* The worlds that a step under Saved starts from, and what it leads to if *)
(* it is neither a write nor a restore.                                    *)
Filed(w) == Sane(w) /\ Placed(w) /\ Kept(w)

Later(w, x) == Filed(x) /\ SavesGrow(w, x) /\ SameDisks(w, x)

LEMMA LaterReflexive ==
  ASSUME NEW w, Filed(w)
  PROVE  Later(w, w)
BY DEF Later, SavesGrow, SameDisks

LEMMA LaterTransitive ==
  ASSUME NEW w, NEW x, NEW y, Later(w, x), Later(x, y)
  PROVE  Later(w, y)
BY DEF Later, SavesGrow, SameDisks

(* Nothing is lost when the drives and the folder stay as they are.        *)
LEMMA SameFiles ==
  ASSUME NEW w, Filed(w), NEW x, Sane(x), Placed(x), EntriesKnown(x),
         x.drv = w.drv, x.saves = w.saves
  PROVE  Later(w, x)
<1>1. Kept(x)
  BY DEF Filed, Kept, Sane, Placed, UniqueNames, Pristine, SavesWhole
<1>2. SavesGrow(w, x)
  BY DEF SavesGrow
<1>3. SameDisks(w, x)
  BY DEF SameDisks, OnDisk
<1> QED  BY <1>1, <1>2, <1>3 DEF Later, Filed

LEMMA EjectedStores ==
  ASSUME NEW w, Filed(w), Saved, NEW d \in Drive
  PROVE  Later(w, Ejected(w, d))
<1> DEFINE x == Ejected(w, d)
           y == FloppyEject(w, d)
<1>1. Sane(w) /\ Placed(w) /\ Kept(w)
  BY DEF Filed
<1>2. CASE ~w.insert[d]
  BY <1>2, LaterReflexive DEF Ejected
<1>3. CASE w.insert[d]
  <2>1. Sane(x) /\ Placed(x)
    BY <1>1, EjectedKeeps
  <2>2. Kept(y) /\ SavesGrow(w, y) /\ SameDisks(w, y)
    BY <1>1, FloppyEjectStores
  <2>3. x = [y EXCEPT !.insert[d] = FALSE]
    BY <1>3 DEF Ejected
  <2> HIDE DEF x, y
  <2>4. x.cache = y.cache /\ x.saves = y.saves /\ x.drv = y.drv
    BY <2>2, <2>3 DEF Kept, Good, World
  <2>5. Kept(x)
    BY <2>1, <2>2, <2>4 DEF Kept, Sane, UniqueNames, EntriesKnown, Pristine, SavesWhole
  <2>6. SavesGrow(w, x)
    BY <2>2, <2>4 DEF SavesGrow
  <2>7. SameDisks(w, x)
    BY <2>2, <2>4 DEF SameDisks, OnDisk
  <2>8. Later(w, x)
    BY <2>1, <2>5, <2>6, <2>7 DEF Later, Filed
  <2> QED  BY <2>8 DEF x
<1> QED  BY <1>2, <1>3

(* A disk that goes in is as the folder has it, or as the user supplied    *)
(* it, because its entry is.                                               *)
LEMMA InsertingStores ==
  ASSUME NEW w, Filed(w), Saved, NEW d \in Drive, ~w.insert[d],
         ~(w.insert[1 - d] /\ w.index[1 - d] = w.index[d])
  PROVE  Later(w, Inserting(w, d))
<1> DEFINE x == Inserting(w, d)
           i == w.index[d]
           new == ReadImage(w.cache[i].name, w.cache[i].data, w.cache[i].extra, opt.enable_save)
<1>1. /\ Sane(w) /\ Placed(w) /\ Kept(w) /\ w \in World /\ opt \in Options /\ Agreed(w)
      /\ w.index[d] \in 0 .. MaxDisks /\ w.drv \in [Drive -> DriveState]
      /\ EntriesKnown(w) /\ Pristine(w) /\ SavesWhole(w) /\ UniqueNames(w)
  BY DEF Filed, Sane, Good, World, Saved, Kept
<1>2. /\ Sane(x) /\ Placed(x) /\ x.index = w.index /\ x.cache = w.cache
  BY <1>1, InsertingKeeps
<1>3. CASE ~(i < MaxDisks /\ Readable(w.cache[i].name, w.cache[i].data))
  BY <1>3, LaterReflexive DEF Inserting
<1>4. CASE i < MaxDisks /\ Readable(w.cache[i].name, w.cache[i].data)
  <2>1. i \in Slot /\ w.cache[i].data \in Nat
    BY <1>1, <1>4, DiskAssumption DEF Slot, Readable
  <2>2. x = [w EXCEPT !.drv[d] = new, !.insert[d] = TRUE]
    BY <1>4 DEF Inserting
  <2>3. new.name = w.cache[i].name /\ new.buffer = w.cache[i].data /\ ~new.changed
    BY DEF ReadImage
  <2>4. \A n : ImageFile(n) => n \in Name /\ n # NoName
    BY DriveAssumption DEF ImageFile
  <2> HIDE DEF x, new
  <2>5. x.drv = [w.drv EXCEPT ![d] = new] /\ x.saves = w.saves
    BY <1>1, <2>2 DEF World
  <2>6. x.drv[d] = new /\ \A e \in Drive : e # d => x.drv[e] = w.drv[e]
    BY <1>1, <2>5
  <2>7. ImageFile(new.name) => new.buffer = Version(w.saves[new.name])
    BY <1>1, <2>1, <2>3 DEF EntriesKnown
  <2>8. Pristine(x)
    BY <1>1, <2>5, <2>6, <2>7 DEF Pristine
  <2>9. EntriesKnown(x) /\ SavesWhole(x) /\ UniqueNames(x) /\ SavesGrow(w, x)
    BY <1>1, <1>2, <2>5 DEF EntriesKnown, SavesWhole, UniqueNames, SavesGrow
  <2>10. Apart(x.drv)
    BY <1>2, PlacedDiffer DEF Apart
  <2>11. ASSUME NEW n \in Name, ImageFile(n)
         PROVE  OnDisk(x, n) = OnDisk(w, n)
    <3>1. w.drv[d].name # n
      BY <1>1, <2>4, <2>11 DEF Agreed, Inserted
    <3>2. CASE new.name = n
      <4>1. x.drv[d].name = n
        BY <2>6, <3>2
      <4>2. \A e \in Drive : e # d => x.drv[e].name # n
        BY <2>4, <2>10, <2>11, <4>1 DEF Apart, Inserted, Drive
      <4>3. OnDisk(x, n) = new.buffer
        BY <2>6, <4>1, <4>2 DEF OnDisk, Drive
      <4>4. OnDisk(w, n) = Version(w.saves[n])
        BY <2>6, <3>1, <4>2 DEF OnDisk, Drive
      <4> QED  BY <2>7, <2>11, <3>2, <4>3, <4>4
    <3>3. CASE new.name # n
      BY <2>5, <2>6, <3>1, <3>3 DEF OnDisk, Drive
    <3> QED  BY <3>2, <3>3
  <2>12. Later(w, x)
    BY <1>2, <2>8, <2>9, <2>10, <2>11 DEF Later, Filed, Kept, Sane, SameDisks
  <2> QED  BY <2>12 DEF x
<1> QED  BY <1>3, <1>4

LEMMA InsertDriveStores ==
  ASSUME NEW w, Filed(w), Saved, NEW d \in Drive
  PROVE  Later(w, InsertDrive(w, d))
<1> DEFINE o == 1 - d
           freed == IF w.insert[o] /\ w.index[o] = w.index[d] THEN Ejected(w, o) ELSE w
<1>1. o \in Drive /\ o # d /\ w \in World /\ Sane(w)
  BY DEF Drive, Filed, Sane, Good
<1>2. CASE w.insert[d]
  BY <1>2, LaterReflexive DEF InsertDrive
<1>3. CASE ~w.insert[d]
  <2>1. /\ Later(w, freed) /\ ~freed.insert[d]
        /\ ~(freed.insert[o] /\ freed.index[o] = freed.index[d])
    <3>1. CASE w.insert[o] /\ w.index[o] = w.index[d]
      <4>1. Later(w, Ejected(w, o)) /\ Ejected(w, o).insert = [w.insert EXCEPT ![o] = FALSE]
        BY <1>1, EjectedStores, EjectedKeeps
      <4>2. freed = Ejected(w, o)
        BY <3>1
      <4> HIDE DEF o, freed
      <4> QED  BY <1>1, <1>3, <4>1, <4>2 DEF World
    <3>2. CASE ~(w.insert[o] /\ w.index[o] = w.index[d])
      BY <1>3, <3>2, LaterReflexive
    <3> QED  BY <3>1, <3>2
  <2>2. InsertDrive(w, d) = Inserting(freed, d)
    BY <1>3 DEF InsertDrive
  <2> HIDE DEF freed
  <2>3. Later(freed, Inserting(freed, d))
    BY <2>1, InsertingStores DEF Later
  <2> QED  BY <2>1, <2>2, <2>3, LaterTransitive
<1> QED  BY <1>2, <1>3

LEMMA set_eject_stateStores ==
  ASSUME NEW w, Filed(w), Saved, NEW ejected \in BOOLEAN
  PROVE  Later(w, set_eject_state(w, ejected))
<1>1. w.drive \in Drive
  BY DEF Filed, Sane, Good, World
<1> QED  BY <1>1, EjectedStores, InsertDriveStores DEF set_eject_state

LEMMA set_image_indexStores ==
  ASSUME NEW w, Filed(w), Saved, NEW i \in 0 .. MaxDisks
  PROVE  Later(w, set_image_index(w, i))
<1> DEFINE d == w.drive
           y == Ejected(w, d)
           x == set_image_index(w, i)
<1>1. w \in World /\ d \in Drive /\ Sane(w) /\ Placed(w)
  BY DEF Filed, Sane, Good, World
<1>2. CASE i = w.index[d]
  BY <1>2, LaterReflexive DEF set_image_index
<1>3. CASE i # w.index[d]
  <2>1. Later(w, y) /\ y.insert = [w.insert EXCEPT ![d] = FALSE]
    BY <1>1, EjectedStores, EjectedKeeps
  <2>2. Sane(x) /\ Placed(x)
    BY <1>1, set_image_indexKeeps
  <2>3. x = [y EXCEPT !.index[d] = i]
    BY <1>3 DEF set_image_index
  <2> HIDE DEF x, y, d
  <2>4. y \in World /\ y.index \in [Drive -> 0 .. MaxDisks] /\ ~y.insert[d]
    BY <1>1, <2>1 DEF Later, Filed, Sane, Good, World
  <2>5. /\ x.index = [y.index EXCEPT ![d] = i] /\ x.drv = y.drv /\ x.insert = y.insert
        /\ x.cache = y.cache /\ x.saves = y.saves
    BY <2>3, <2>4 DEF World
  <2>6. EntriesKnown(x)
    BY <2>1, <2>5 DEF Later, Filed, Kept, EntriesKnown
  <2>7. Later(y, x)
    BY <2>1, <2>2, <2>5, <2>6, SameFiles DEF Later
  <2>8. Later(w, x)
    BY <2>1, <2>7, LaterTransitive
  <2> QED  BY <2>8 DEF x
<1> QED  BY <1>2, <1>3

(* A file that is read comes from its save, or is as supplied.             *)
LEMMA LoadedEntryKnown ==
  ASSUME NEW w \in World, SavesWhole(w), Saved, NEW n \in Name, NEW old \in Entry, old.extra_name = NoName
  PROVE  LET e == LoadedEntry(w, old, n)
         IN /\ e.extra_name # NoName => e.extra_name = e.name /\ ~ImageFile(e.name)
            /\ ImageFile(e.name) => /\ e.saved <=> w.saves[e.name] # NoData
                                    /\ e.data = Version(w.saves[e.name])
<1> DEFINE kept == w.saves[n]
           stx  == Format[n] = "stx"
           data == IF kept # NoData /\ ~stx THEN kept ELSE FileData(n)
           e    == LoadedEntry(w, old, n)
<1>1. e = [name       |-> IF data = NoData THEN NoName ELSE n,
           data       |-> data,
           saved      |-> kept # NoData,
           extra      |-> IF stx THEN kept ELSE NoData,
           extra_name |-> IF stx THEN n ELSE NoName]
  BY DEF LoadedEntry, Saved
<1>2. stx => data = 0 /\ ~ImageFile(n)
  BY DEF FileData, ImageFile
<1>3. ImageFile(n) => data = Version(kept)
  BY DriveAssumption DEF FileData, ImageFile, Version, SavesWhole
<1>4. 0 # NoData /\ n # NoName /\ ~ImageFile(NoName)
  BY DriveAssumption DEF ImageFile
<1> HIDE DEF data, stx, e
<1>5. stx => e.extra_name = e.name /\ ~ImageFile(e.name)
  BY <1>1, <1>2, <1>4
<1>6. ~stx => e.extra_name = NoName
  BY <1>1
<1>7. ImageFile(e.name) => e.name = n /\ (e.saved <=> kept # NoData) /\ e.data = data
  BY <1>1, <1>4
<1> QED  BY <1>3, <1>5, <1>6, <1>7 DEF e

(* Reading files changes no disk in a drive, and no entry a drive is at.   *)
LEMMA LoadedListStores ==
  ASSUME NEW w, Filed(w), Saved, NEW i \in Slot, NEW names \in Seq(Name) \ {<< >>},
         i < w.count, w.cache[i].extra_name = NoName,
         \A k, l \in 1 .. Len(names) : names[k] = names[l] => k = l,
         \A k \in 1 .. Len(names) : \A j \in Slot \ {i} : w.cache[j].name # names[k],
         \A d \in Drive : ~(w.insert[d] /\ w.index[d] = i)
  PROVE  Later(w, LoadedList(w, i, names))
<1> DEFINE x == LoadedList(w, i, names)
           place(j) == IF j = i THEN 1 ELSE j - w.count + 2
           taken(j) == j = i \/ (j >= w.count /\ place(j) <= Len(names))
           cache == [j \in Slot |-> IF taken(j) THEN LoadedEntry(w, w.cache[j], names[place(j)])
                                    ELSE w.cache[j]]
           total == w.count + Len(names) - 1
           count == IF total > MaxDisks THEN MaxDisks ELSE total
<1>1. /\ w \in World /\ w.cache \in [Slot -> Entry] /\ w.count \in 0 .. MaxDisks
      /\ Sane(w) /\ Placed(w) /\ EntriesKnown(w) /\ SavesWhole(w)
  BY DEF Filed, Kept, Sane, Good, World
<1>2. Len(names) \in Nat \ {0} /\ \A k \in 1 .. Len(names) : names[k] \in Name
  BY EmptySeq, LenProperties, ElementOfSeq
<1>3. MaxDisks \in Nat \ {0} /\ Slot = 0 .. MaxDisks - 1 /\ i \in Nat
  BY DiskAssumption DEF Slot
<1>4. /\ Sane(x) /\ Placed(x)
      /\ x.index = w.index /\ x.insert = w.insert /\ x.drv = w.drv
  BY <1>1, LoadedListKeeps
<1>5. x = [w EXCEPT !.cache = cache, !.count = count]
  BY DEF LoadedList
<1> HIDE DEF x
<1>6. x.cache = cache /\ x.saves = w.saves
  BY <1>1, <1>5 DEF World
<1>7. ASSUME NEW j \in Slot
      PROVE  LET e == cache[j]
             IN /\ e.extra_name # NoName => e.extra_name = e.name /\ ~ImageFile(e.name)
                /\ ImageFile(e.name) => /\ e.saved <=> w.saves[e.name] # NoData
                                        /\ e.data = Version(w.saves[e.name])
  <2>1. CASE taken(j)
    <3>1. place(j) \in 1 .. Len(names)
      BY <1>1, <1>2, <1>3, <2>1
    <3>2. cache[j] = LoadedEntry(w, w.cache[j], names[place(j)])
      BY <2>1
    <3>3. w.cache[j].extra_name = NoName
      <4>1. CASE j = i
        BY <4>1
      <4>2. CASE j # i
        <5>1. w.cache[j].name = NoName
          BY <1>1, <2>1, <4>2 DEF Placed
        <5> HIDE DEF taken, place, cache
        <5>2. w.cache[j].extra_name # NoName => w.cache[j].extra_name = w.cache[j].name
          BY <1>1 DEF EntriesKnown
        <5> QED  BY <5>1, <5>2
      <4> QED  BY <4>1, <4>2
    <3>4. names[place(j)] \in Name /\ w.cache[j] \in Entry
      BY <1>1, <1>2, <3>1
    <3> HIDE DEF taken, place, cache
    <3> QED  BY <1>1, <3>2, <3>3, <3>4, LoadedEntryKnown
  <2>2. CASE ~taken(j)
    <3>1. cache[j] = w.cache[j]
      BY <2>2
    <3> HIDE DEF taken, place, cache
    <3> QED  BY <1>1, <3>1 DEF EntriesKnown
  <2> QED  BY <2>1, <2>2
<1>8. EntriesKnown(x)
  <2> HIDE DEF cache
  <2> QED  BY <1>6, <1>7 DEF EntriesKnown
<1> HIDE DEF cache
<1>9. Later(w, x)
  BY <1>4, <1>6, <1>8, SameFiles
<1> QED  BY <1>9 DEF x

(* An entry that is not in use is replaced without an insert.              *)
LEMMA replace_image_indexStores ==
  ASSUME NEW w, Filed(w), Saved, NEW i \in Slot, NEW names \in Seq(Name) \ {<< >>},
         i < w.count, w.cache[i].extra_name = NoName,
         \A k, l \in 1 .. Len(names) : names[k] = names[l] => k = l,
         \A k \in 1 .. Len(names) : \A j \in Slot \ {i} : w.cache[j].name # names[k],
         \A d \in Drive : ~(w.insert[d] /\ w.index[d] = i)
  PROVE  Later(w, replace_image_index(w, i, names))
<1>1. replace_image_index(w, i, names) = LoadedList(w, i, names)
  BY DEF replace_image_index, EjectReplaced, Drive
<1> QED  BY <1>1, LoadedListStores

LEMMA add_image_indexStores ==
  ASSUME NEW w, Filed(w)
  PROVE  Later(w, add_image_index(w))
<1> DEFINE x == add_image_index(w)
<1>1. w \in World /\ Sane(x) /\ Placed(x)
  BY add_image_indexKeeps DEF Filed, Sane, Good
<1>2. /\ x.cache = w.cache /\ x.saves = w.saves /\ x.drv = w.drv
      /\ x.index = w.index /\ x.insert = w.insert
  BY <1>1 DEF World, add_image_index
<1> HIDE DEF x
<1>3. EntriesKnown(x)
  BY <1>2 DEF Filed, Kept, EntriesKnown
<1>4. Later(w, x)
  BY <1>1, <1>2, <1>3, SameFiles
<1> QED  BY <1>4 DEF x

LEMMA DriveSelectionStores ==
  ASSUME NEW w, Filed(w), NEW d \in Drive
  PROVE  Later(w, [w EXCEPT !.drive = d])
<1> DEFINE x == [w EXCEPT !.drive = d]
<1>1. w \in World /\ Sane(x) /\ Placed(x)
  BY DriveSelectionKeeps DEF Filed, Sane, Good
<1>2. /\ x.cache = w.cache /\ x.saves = w.saves /\ x.drv = w.drv
      /\ x.index = w.index /\ x.insert = w.insert
  BY <1>1 DEF World
<1> HIDE DEF x
<1>3. EntriesKnown(x)
  BY <1>2 DEF Filed, Kept, EntriesKnown
<1>4. Later(w, x)
  BY <1>1, <1>2, <1>3, SameFiles
<1> QED  BY <1>4 DEF x

(* The disks in the drives are saved when the cache has gone, too.         *)
LEMMA disks_clearStores ==
  ASSUME NEW w, Filed(w), Saved
  PROVE  LET x == disks_clear(w)
         IN Later(w, x) /\ \A i \in Slot : x.cache[i].extra_name = NoName
<1> DEFINE e == [w EXCEPT !.drive = 0, !.count = 0,
                          !.cache = [i \in Slot |-> EmptyEntry],
                          !.index = [d \in Drive |-> 0],
                          !.insert = [d \in Drive |-> FALSE]]
           y == FloppyEject(e, 0)
           x == disks_clear(w)
           noEntries == [i \in Slot |-> EmptyEntry]
           noIndex == [d \in Drive |-> 0]
           noDisk == [d \in Drive |-> FALSE]
<1>1. w \in World /\ Good(w) /\ Kept(w) /\ 0 \in Drive /\ 1 \in Drive
  BY DEF Filed, Sane, Good, Drive
<1>2. /\ EmptyEntry \in Entry /\ EmptyEntry.name = NoName /\ EmptyEntry.data = NoData
      /\ EmptyEntry.extra_name = NoName
  BY DEF EmptyEntry, Entry, Content
<1>3. /\ noEntries \in [Slot -> Entry] /\ noIndex \in [Drive -> 0 .. MaxDisks]
      /\ noDisk \in [Drive -> BOOLEAN] /\ 0 \in 0 .. MaxDisks
  BY <1>2, DiskAssumption
<1>4. e = [w EXCEPT !.drive = 0, !.count = 0, !.cache = noEntries, !.index = noIndex,
                    !.insert = noDisk]
  OBVIOUS
<1>5. e.cache = noEntries /\ e.drv = w.drv /\ e.saves = w.saves /\ e \in World
  <2> HIDE DEF noEntries, noIndex, noDisk, e
  <2> QED  BY <1>1, <1>3, <1>4 DEF World
<1>6. \A i \in Slot : e.cache[i].name = NoName /\ e.cache[i].data = NoData
                      /\ e.cache[i].extra_name = NoName
  BY <1>2, <1>5
<1>7. ~ImageFile(NoName)
  BY DriveAssumption DEF ImageFile
<1> HIDE DEF e
<1>8. Kept(e) /\ SavesGrow(w, e) /\ SameDisks(w, e)
  <2>1. Good(e) /\ UniqueNames(e) /\ EntriesKnown(e)
    BY <1>1, <1>5, <1>6, <1>7 DEF Good, UniqueNames, EntriesKnown
  <2>2. Apart(e.drv) /\ Pristine(e) /\ SavesWhole(e)
    BY <1>1, <1>5 DEF Kept, Pristine, SavesWhole
  <2> QED  BY <1>5, <2>1, <2>2 DEF Kept, SavesGrow, SameDisks, OnDisk
<1>9. SameMenu(e, y) /\ Kept(y) /\ SavesGrow(e, y) /\ SameDisks(e, y)
  BY <1>1, <1>8, FloppyEjectKeeps, FloppyEjectStores DEF Kept
<1>10. x = FloppyEject(y, 1)
  BY DEF disks_clear, e
<1>11. Sane(x) /\ Placed(x)
  BY <1>1, disks_clearKeeps
<1> HIDE DEF x, y
<1>12. SameMenu(y, x) /\ Kept(x) /\ SavesGrow(y, x) /\ SameDisks(y, x)
  BY <1>1, <1>9, <1>10, FloppyEjectKeeps, FloppyEjectStores DEF Kept
<1>13. SavesGrow(w, x) /\ SameDisks(w, x)
  BY <1>8, <1>9, <1>12 DEF SavesGrow, SameDisks
<1>14. ASSUME NEW i \in Slot
       PROVE  x.cache[i].extra_name = NoName
  BY <1>6, <1>9, <1>12 DEF SameMenu, Kept, EntriesKnown
<1> QED  BY <1>11, <1>12, <1>13, <1>14 DEF Later, Filed, x

LEMMA BootStores ==
  ASSUME NEW w, Filed(w), Saved, NEW d \in Drive, NEW i \in 0 .. MaxDisks
  PROVE  Later(w, Boot(w, d, i))
<1> DEFINE w1 == [w EXCEPT !.drive = d]
           w2 == set_image_index(w1, i)
<1>1. Later(w, w1)
  BY DriveSelectionStores
<1>2. Boot(w, d, i) = set_eject_state(w2, FALSE)
  BY DEF Boot
<1> HIDE DEF w1
<1>3. Later(w1, w2)
  BY <1>1, set_image_indexStores DEF Later
<1> HIDE DEF w2
<1>4. Later(w2, set_eject_state(w2, FALSE))
  BY <1>3, set_eject_stateStores DEF Later
<1> QED  BY <1>1, <1>2, <1>3, <1>4, LaterTransitive

LEMMA BootAsDirectedStores ==
  ASSUME NEW w, Filed(w), Saved, NEW p \in Playlists, NEW d \in Drive
  PROVE  Later(w, BootAsDirected(w, p, d))
<1> DEFINE b == BootDirective(w, p, d)
<1>1. b > 0 => b - 1 \in 0 .. MaxDisks
  <2>1. w.count \in 0 .. MaxDisks /\ p.boot[d] \in Int
    BY DiskAssumption DEF Filed, Sane, Good, World
  <2> QED  BY <2>1, DiskAssumption DEF BootDirective
<1> HIDE DEF b
<1>2. BootAsDirected(w, p, d) = w \/ (b > 0 /\ BootAsDirected(w, p, d) = Boot(w, d, b - 1))
  BY DEF BootAsDirected, b
<1> QED  BY <1>1, <1>2, BootStores, LaterReflexive

LEMMA BootUndirectedStores ==
  ASSUME NEW w, Filed(w), Saved, NEW p \in Playlists, NEW d \in Drive
  PROVE  Later(w, BootUndirected(w, p, d))
<1> DEFINE i == FirstBootable(w, d)
<1>1. i \in 0 .. MaxDisks
  BY FirstBootableType, DiskAssumption DEF Slot, Filed, Sane, Good
<1>2. BootUndirected(w, p, d) \in {w, Boot(w, d, i)}
  BY DEF BootUndirected
<1> HIDE DEF i
<1> QED  BY <1>1, <1>2, BootStores, LaterReflexive

LEMMA BootedStores ==
  ASSUME NEW w, Filed(w), Saved, NEW p \in Playlists
  PROVE  Later(w, Booted(w, p))
<1> DEFINE w1 == BootAsDirected(w, p, 1)
           w2 == BootAsDirected(w1, p, 0)
           w3 == BootUndirected(w2, p, 0)
           w4 == BootUndirected(w3, p, 1)
<1>1. 0 \in Drive /\ 1 \in Drive
  BY DEF Drive
<1>2. Booted(w, p) = w4
  BY DEF Booted
<1>3. Later(w, w1)
  BY <1>1, BootAsDirectedStores
<1> HIDE DEF w1
<1>4. Later(w1, w2)
  BY <1>1, <1>3, BootAsDirectedStores DEF Later
<1> HIDE DEF w2
<1>5. Later(w2, w3)
  BY <1>1, <1>4, BootUndirectedStores DEF Later
<1> HIDE DEF w3
<1>6. Later(w3, w4)
  BY <1>1, <1>5, BootUndirectedStores DEF Later
<1> HIDE DEF w4
<1> QED  BY <1>2, <1>3, <1>4, <1>5, <1>6, LaterTransitive

LEMMA core_disk_load_gameStores ==
  ASSUME NEW w, Filed(w), Saved, NEW p \in Playlists,
         \A k, l \in 1 .. Len(p.names) : p.names[k] = p.names[l] => k = l
  PROVE  Later(w, core_disk_load_game(w, p))
<1> DEFINE clear == disks_clear(w)
           one == [clear EXCEPT !.count = 1]
           listed == LoadedList(one, 0, p.names)
           booted == Booted(listed, p)
           x == core_disk_load_game(w, p)
<1>1. x = [booted EXCEPT !.drive = 0]
  BY DEF core_disk_load_game, Listed
<1>2. 0 \in Drive /\ 1 \in Drive /\ 0 \in Slot
  BY DiskAssumption DEF Drive, Slot
<1>3. /\ Later(w, clear) /\ \A d \in Drive : ~clear.insert[d]
      /\ \A i \in Slot : clear.cache[i].name = NoName /\ clear.cache[i].extra_name = NoName
  BY disks_clearKeeps, disks_clearStores DEF Filed, Sane
<1> HIDE DEF clear, x
<1>4. /\ Later(clear, one) /\ one.count = 1 /\ one.insert = clear.insert
      /\ one.cache = clear.cache
  <2>1. clear \in World /\ Filed(clear) /\ 1 \in 0 .. MaxDisks
    BY <1>3, DiskAssumption DEF Later, Filed, Sane, Good
  <2>2. /\ one.index = clear.index /\ one.insert = clear.insert /\ one.drv = clear.drv
        /\ one.cache = clear.cache /\ one.count = 1 /\ one.saves = clear.saves /\ one \in World
    BY <2>1 DEF World
  <2> HIDE DEF one
  <2>3. Sane(one) /\ Placed(one)
    BY <1>2, <1>3, <2>1, <2>2 DEF Filed, Sane, Good, Agreed, Placed, Drive
  <2>4. EntriesKnown(one)
    BY <2>1, <2>2 DEF Filed, Kept, EntriesKnown
  <2> QED  BY <2>1, <2>2, <2>3, <2>4, SameFiles
<1>5. /\ p.names \in Seq(Name) \ {<< >>}
      /\ \A k \in 1 .. Len(p.names) : p.names[k] # NoName
  BY DiskAssumption, ElementOfSeq, DriveAssumption
<1> HIDE DEF one
<1>6. Later(one, listed)
  <2>1. Filed(one) /\ 0 < one.count /\ one.cache[0].extra_name = NoName
    BY <1>2, <1>3, <1>4 DEF Later
  <2>2. \A k \in 1 .. Len(p.names) : \A j \in Slot \ {0} : one.cache[j].name # p.names[k]
    BY <1>3, <1>4, <1>5
  <2>3. \A d \in Drive : ~(one.insert[d] /\ one.index[d] = 0)
    BY <1>3, <1>4
  <2> QED  BY <1>2, <1>5, <2>1, <2>2, <2>3, LoadedListStores
<1> HIDE DEF listed
<1>7. Later(listed, booted)
  BY <1>6, BootedStores DEF Later
<1> HIDE DEF booted
<1>8. Later(booted, x)
  BY <1>1, <1>2, <1>7, DriveSelectionStores DEF Later
<1> QED  BY <1>3, <1>4, <1>6, <1>7, <1>8, LaterTransitive DEF x

LEMMA core_disk_unload_gameStores ==
  ASSUME NEW w, Filed(w), Saved
  PROVE  Later(w, core_disk_unload_game(w))
<1> DEFINE y == Ejected(w, 0)
           z == Ejected(y, 1)
<1>1. 0 \in Drive /\ 1 \in Drive
  BY DEF Drive
<1>2. Later(w, y)
  BY <1>1, EjectedStores
<1>3. core_disk_unload_game(w) = disks_clear(z)
  BY DEF core_disk_unload_game
<1> HIDE DEF y
<1>4. Later(y, z)
  BY <1>1, <1>2, EjectedStores DEF Later
<1> HIDE DEF z
<1>5. Later(z, disks_clear(z))
  BY <1>4, disks_clearStores DEF Later
<1> QED  BY <1>2, <1>3, <1>4, <1>5, LaterTransitive

LEMMA ReinsertedStores ==
  ASSUME NEW w, Filed(w), Saved, NEW d \in Drive
  PROVE  Later(w, Reinserted(w, d))
<1> DEFINE y == Ejected(w, d)
<1>1. Later(w, y)
  BY EjectedStores
<1>2. Reinserted(w, d) \in {w, InsertDrive(y, d)}
  BY DEF Reinserted
<1> HIDE DEF y
<1>3. Later(y, InsertDrive(y, d))
  BY <1>1, InsertDriveStores DEF Later
<1> QED  BY <1>1, <1>2, <1>3, LaterReflexive, LaterTransitive

LEMMA core_disk_drive_reinsertStores ==
  ASSUME NEW w, Filed(w), Saved
  PROVE  Later(w, core_disk_drive_reinsert(w))
<1> DEFINE y == Reinserted(w, 0)
<1>1. 0 \in Drive /\ 1 \in Drive
  BY DEF Drive
<1>2. Later(w, y)
  BY <1>1, ReinsertedStores
<1>3. core_disk_drive_reinsert(w) \in {y, Reinserted(y, 1)}
  BY DEF core_disk_drive_reinsert
<1> HIDE DEF y
<1>4. Later(y, Reinserted(y, 1))
  BY <1>1, <1>2, ReinsertedStores DEF Later
<1> QED  BY <1>2, <1>3, <1>4, LaterTransitive

LEMMA core_disk_swapStores ==
  ASSUME NEW w, Filed(w), Saved
  PROVE  Later(w, core_disk_swap(w))
<1> DEFINE out == Ejected(w, w.drive)
           next == NextIndex(out)
           moved == SelectNext(out)
<1>1. w.drive \in Drive
  BY DEF Filed, Sane, Good, World
<1>2. Later(w, out)
  BY <1>1, EjectedStores
<1>3. next \in 0 .. MaxDisks
  BY <1>2, DiskAssumption DEF Later, Filed, Sane, Good, World, NextIndex
<1>4. core_disk_swap(w) = set_eject_state(moved, FALSE) /\ moved = set_image_index(out, next)
  BY DEF core_disk_swap, SelectNext
<1> HIDE DEF out, next, moved
<1>5. Later(out, moved)
  BY <1>2, <1>3, <1>4, set_image_indexStores DEF Later
<1>6. Later(moved, set_eject_state(moved, FALSE))
  BY <1>5, set_eject_stateStores DEF Later
<1> QED  BY <1>2, <1>4, <1>5, <1>6, LaterTransitive

(* A disk that is written to is marked changed, and no other disk is       *)
(* written to with it.                                                     *)
LEMMA SectorWrittenStores ==
  ASSUME NEW w, Filed(w), NEW d \in Drive, Inserted(w.drv[d]), NEW v \in Nat
  PROVE  LET x == [w EXCEPT !.drv[d] = SectorWritten(w.drv[d], v)]
         IN /\ Filed(x) /\ SavesGrow(w, x)
            /\ \A n \in Name : ImageFile(n) =>
                 OnDisk(x, n) = IF w.drv[d].name = n THEN v ELSE OnDisk(w, n)
<1> DEFINE new == SectorWritten(w.drv[d], v)
           x == [w EXCEPT !.drv[d] = new]
<1>1. /\ w \in World /\ w.drv \in [Drive -> DriveState] /\ Sane(w) /\ Placed(w) /\ Kept(w)
      /\ Apart(w.drv)
  BY DEF Filed, Sane, Good, World, Kept
<1>2. Sane(x) /\ Placed(x)
  BY <1>1, SectorWrittenKeeps
<1>3. /\ new.changed /\ new.name = w.drv[d].name
      /\ ImageFile(new.name) => new.buffer = v
  BY <1>1 DEF SectorWritten, DriveState, ImageFile
<1> HIDE DEF new
<1>4. x.drv = [w.drv EXCEPT ![d] = new] /\ x.cache = w.cache /\ x.saves = w.saves
  BY <1>1 DEF World
<1> HIDE DEF x
<1>5. x.drv[d] = new /\ \A e \in Drive : e # d => x.drv[e] = w.drv[e]
  BY <1>1, <1>4
<1>6. Apart(x.drv)
  BY <1>1, <1>3, <1>5 DEF Apart, Inserted, Drive
<1>7. Pristine(x)
  BY <1>1, <1>3, <1>4, <1>5 DEF Kept, Pristine
<1>8. EntriesKnown(x) /\ SavesWhole(x) /\ UniqueNames(x)
  BY <1>1, <1>4 DEF Kept, EntriesKnown, SavesWhole, UniqueNames
<1>9. Filed(x)
  BY <1>2, <1>6, <1>7, <1>8 DEF Filed, Kept, Sane
<1>10. SavesGrow(w, x)
  BY <1>4 DEF SavesGrow
<1>11. ASSUME NEW n \in Name, ImageFile(n)
       PROVE  OnDisk(x, n) = IF w.drv[d].name = n THEN v ELSE OnDisk(w, n)
  <2>1. CASE w.drv[d].name = n
    <3>1. \A e \in Drive : e # d => w.drv[e].name # n
      BY <1>1, <2>1, DriveAssumption DEF Apart, Inserted, Drive
    <3> QED  BY <1>3, <1>5, <1>11, <2>1, <3>1 DEF OnDisk, Drive
  <2>2. CASE w.drv[d].name # n
    BY <1>3, <1>4, <1>5, <2>2 DEF OnDisk, Drive
  <2> QED  BY <2>1, <2>2
<1> QED  BY <1>9, <1>10, <1>11 DEF x, new

(* A disk of a savestate that is not marked changed and has no save is as  *)
(* the user supplied it.                                                   *)
Unsaved(hd, saves) ==
  ImageFile(hd.name) /\ ~hd.changed /\ saves[hd.name] = NoData => hd.buffer = 0

(* Restoring brings back the disks of the savestate, marked changed where  *)
(* there is a save they may differ from, and leaves all other disks with   *)
(* what was on them.                                                       *)
LEMMA RestoreStores ==
  ASSUME NEW w, Filed(w), Saved, NEW drives \in [Drive -> DriveState],
         \A d \in Drive : LoadedDrive(drives[d]),
         \A d \in Drive : Unsaved(drives[d], w.saves),
         Apart(drives),
         \A d \in Drive : Inserted(drives[d]) => SlotOf(w, drives[d].name) # NoSlot
  PROVE  LET x == core_disk_reindex(DrivesRestored(w, drives))
         IN /\ Filed(x) /\ SavesGrow(w, x)
            /\ \A n \in Name : ImageFile(n) =>
                 OnDisk(x, n) = IF drives[0].name = n THEN drives[0].buffer
                                ELSE IF drives[1].name = n THEN drives[1].buffer
                                ELSE OnDisk(w, n)
<1> DEFINE a == FloppyEject(w, 0)
           e == FloppyEject(a, 1)
           r == DrivesRestored(w, drives)
           in(d) == Inserted(drives[d])
           insert == [d \in Drive |-> in(d)]
           index == [d \in Drive |-> IF in(d) THEN SlotOf(r, drives[d].name) ELSE r.index[d]]
           marked == [d \in Drive |->
                        IF in(d) /\ opt.floppy_modify /\ MayRevert(r, drives[d].name)
                        THEN [drives[d] EXCEPT !.changed = TRUE] ELSE drives[d]]
           x == core_disk_reindex(r)
<1>1. /\ Sane(w) /\ Placed(w) /\ Kept(w) /\ Good(w) /\ w \in World
      /\ w.drv \in [Drive -> DriveState] /\ 0 \in Drive /\ 1 \in Drive
  BY DEF Filed, Sane, Good, World, Drive
<1>2. /\ Kept(a) /\ SavesGrow(w, a) /\ SameDisks(w, a)
      /\ a.drv = [w.drv EXCEPT ![0] = EmptyDrive]
  BY <1>1, FloppyEjectKeeps, FloppyEjectStores
<1>3. Sane(x) /\ Placed(x)
  BY <1>1, RestoreKeeps DEF Apart
<1>4. r = [e EXCEPT !.drv = drives]
  BY DEF DrivesRestored, Saved
<1> HIDE DEF a, r
<1>5. /\ Kept(e) /\ SavesGrow(a, e) /\ SameDisks(a, e)
      /\ e.drv = [a.drv EXCEPT ![1] = EmptyDrive]
  BY <1>1, <1>2, FloppyEjectKeeps, FloppyEjectStores DEF Kept
<1> HIDE DEF e
<1>6. e \in World /\ r \in World
  BY <1>4, <1>5 DEF Kept, Good, World
<1>7. r.drv = drives /\ r.cache = e.cache /\ r.saves = e.saves
  BY <1>4, <1>6 DEF World
<1>8. x = [r EXCEPT !.insert = insert, !.index = index, !.drv = marked]
  BY <1>7 DEF core_disk_reindex
<1> HIDE DEF x, insert, index
<1>9. /\ x.insert = insert /\ x.index = index /\ x.drv = marked
      /\ x.cache = e.cache /\ x.saves = e.saves
  BY <1>6, <1>7, <1>8 DEF World
<1>10. SavesGrow(w, x)
  BY <1>2, <1>5, <1>9 DEF SavesGrow
<1>11. EntriesKnown(x) /\ SavesWhole(x) /\ UniqueNames(x) /\ EntriesKnown(e)
  BY <1>5, <1>9 DEF Kept, EntriesKnown, SavesWhole, UniqueNames
<1>12. \A d \in Drive : /\ x.drv[d].name = drives[d].name
                        /\ x.drv[d].buffer = drives[d].buffer
  BY <1>9 DEF DriveState
<1>13. Apart(x.drv)
  BY <1>1, <1>12 DEF Apart, Inserted
<1>14. ASSUME NEW d \in Drive, ImageFile(x.drv[d].name), ~x.drv[d].changed
       PROVE  x.drv[d].buffer = Version(x.saves[x.drv[d].name])
  <2>1. x.drv[d] = drives[d] /\ (in(d) => ~MayRevert(r, drives[d].name))
    BY <1>9, <1>14 DEF DriveState, Saved
  <2>2. in(d) /\ drives[d].name # NoName
    BY <1>14, <2>1, DriveAssumption DEF Inserted, ImageFile
  <2> DEFINE i == SlotOf(r, drives[d].name)
  <2>3. index[d] = i
    BY <2>2 DEF index
  <2>4. i \in Slot /\ x.cache[i].name = drives[d].name /\ i # NoSlot
    <3>1. x.insert[d] /\ x.index[d] \in Slot
      BY <1>3, <2>1, <2>2 DEF Sane, Agreed, Inserted, Placed
    <3>2. x.drv[d].name = x.cache[x.index[d]].name
      BY <1>3, <3>1 DEF Placed
    <3> QED  BY <1>9, <2>1, <2>3, <3>1, <3>2, DiskAssumption DEF Slot, NoSlot
  <2>5. ~r.cache[i].saved
    BY <2>1, <2>2, <2>4 DEF MayRevert
  <2> HIDE DEF in, marked, i
  <2>6. x.saves[drives[d].name] = NoData
    BY <1>7, <1>9, <1>11, <1>14, <2>1, <2>4, <2>5 DEF EntriesKnown
  <2>7. w.saves[drives[d].name] = NoData
    BY <1>10, <1>14, <2>1, <2>6 DEF SavesGrow, ImageFile
  <2>8. drives[d].buffer = 0
    BY <1>14, <2>1, <2>7 DEF Unsaved
  <2> QED  BY <2>1, <2>6, <2>8, DriveAssumption DEF Version
<1>15. Filed(x)
  BY <1>3, <1>11, <1>13, <1>14 DEF Filed, Kept, Sane, Pristine
<1>16. ASSUME NEW n \in Name, ImageFile(n)
       PROVE  OnDisk(x, n) = IF drives[0].name = n THEN drives[0].buffer
                             ELSE IF drives[1].name = n THEN drives[1].buffer
                             ELSE OnDisk(w, n)
  <2>1. e.drv[0].name # n /\ e.drv[1].name # n
    BY <1>1, <1>2, <1>5, <1>16, DriveAssumption DEF EmptyDrive, Drive
  <2>2. OnDisk(e, n) = Version(e.saves[n])
    BY <2>1 DEF OnDisk
  <2>3. OnDisk(e, n) = OnDisk(w, n)
    BY <1>2, <1>5, <1>16 DEF SameDisks
  <2> QED  BY <1>1, <1>9, <1>12, <2>2, <2>3 DEF OnDisk
<1> QED  BY <1>10, <1>15, <1>16 DEF x, r

-----------------------------------------------------------------------------
(* What is on the disks of an open content, whatever becomes of the saves: *)
(* an eject leaves a changed image in the cache even if no file can be     *)
(* written.                                                                *)

(* The entry of a disk that is not marked changed has what is on it.       *)
Current(w) ==
  \A d \in Drive, i \in Slot :
    LET hd == w.drv[d]
    IN ImageFile(hd.name) /\ ~hd.changed /\ w.cache[i].name = hd.name
         => hd.buffer = w.cache[i].data

(* Overlays are cached in the entries of the files they belong to.         *)
OverlaysApart(w) ==
  \A i \in Slot : LET e == w.cache[i]
                  IN e.extra_name # NoName => e.extra_name = e.name /\ ~ImageFile(e.name)

(* No image has a version that the machine has not written yet.            *)
Past(v) == v \in Nat => v <= writes

NoneNewer(w) ==
  /\ writes \in Nat
  /\ \A n \in Name : ImageFile(n) => Past(w.saves[n])
  /\ \A i \in Slot : ImageFile(w.cache[i].name) => Past(w.cache[i].data)
  /\ \A d \in Drive : ImageFile(w.drv[d].name) => Past(w.drv[d].buffer)

(* The worlds inside a handler, and those between two.                     *)
Tended(w) == /\ Good(w) /\ UniqueNames(w) /\ Apart(w.drv)
             /\ Current(w) /\ OverlaysApart(w) /\ NoneNewer(w)

Tracked(w) == Sane(w) /\ Placed(w) /\ Tended(w)

(* Every disk in a drive has an entry.                                     *)
Stocked(w) ==
  \A d \in Drive : Inserted(w.drv[d]) => \E i \in Slot : w.cache[i].name = w.drv[d].name

(* What the machine finds on an image: what is in the drive, or else what  *)
(* the cache has, or what would be loaded into it.                         *)
Unloaded(w, n) == IF opt.enable_save THEN Version(w.saves[n]) ELSE 0

Held(w, n) ==
  LET i == SlotOf(w, n)
  IN IF w.drv[0].name = n THEN w.drv[0].buffer
     ELSE IF w.drv[1].name = n THEN w.drv[1].buffer
     ELSE IF i # NoSlot THEN Version(w.cache[i].data) ELSE Unloaded(w, n)

SameHeld(w, x) == \A n \in Name : ImageFile(n) => Held(x, n) = Held(w, n)

(* Entries keep their files, and what has not been saved keeps its data.   *)
Grown(w, x) ==
  \A i \in Slot : w.cache[i].name # NoName =>
    /\ x.cache[i].name = w.cache[i].name
    /\ x.cache[i].saved \/ (~w.cache[i].saved /\ x.cache[i].data = w.cache[i].data)

(* What a step leads to that is neither a write nor a restore.             *)
Onward(w, x) == Tracked(x) /\ Grown(w, x) /\ SameHeld(w, x)

LEMMA OnwardReflexive ==
  ASSUME NEW w, Tracked(w)
  PROVE  Onward(w, w)
BY DEF Onward, Grown, SameHeld

LEMMA GrownTransitive ==
  ASSUME NEW w, NEW x, NEW y, Grown(w, x), Grown(x, y)
  PROVE  Grown(w, y)
BY DEF Grown

LEMMA OnwardTransitive ==
  ASSUME NEW w, NEW x, NEW y, Onward(w, x), Onward(x, y)
  PROVE  Onward(w, y)
<1>1. Grown(w, y)
  BY GrownTransitive DEF Onward
<1>2. SameHeld(w, y)
  BY DEF Onward, SameHeld
<1> QED  BY <1>1, <1>2 DEF Onward

LEMMA TrackedStocked ==
  ASSUME NEW w, Sane(w), Placed(w)
  PROVE  Stocked(w)
BY DEF Sane, Agreed, Placed, Stocked

(* Where the names are the same, so are the entries found by name.         *)
LEMMA SameSlots ==
  ASSUME NEW w, NEW x, \A i \in Slot : x.cache[i].name = w.cache[i].name, NEW n
  PROVE  SlotOf(x, n) = SlotOf(w, n)
<1>1. {i \in Slot : x.cache[i].name = n} = {i \in Slot : w.cache[i].name = n}
  OBVIOUS
<1> QED  BY <1>1 DEF SlotOf

(* Saving an image changes its own entry and its own file only.            *)
LEMMA SaveTracks ==
  ASSUME NEW w, Good(w), UniqueNames(w), NEW n \in Name, NEW v \in Nat
  PROVE  LET x == core_disk_save(w, n, v)
         IN /\ \A j \in Slot : /\ x.cache[j].extra_name = w.cache[j].extra_name
                               /\ w.cache[j].name = n => x.cache[j].saved /\ x.cache[j].data = v
                               /\ w.cache[j].name # n => x.cache[j] = w.cache[j]
            /\ \A m \in Name : m # n => x.saves[m] = w.saves[m]
            /\ x.saves[n] \in {v, w.saves[n], Junk}
<1> DEFINE i == SlotOf(w, n)
           x == core_disk_save(w, n, v)
           cache == IF i = NoSlot THEN w.cache
                    ELSE [w.cache EXCEPT ![i].data = v, ![i].saved = TRUE]
           saves == IF opt.enable_save THEN FileWritten(w.saves, n, v) ELSE w.saves
<1>1. /\ w \in World /\ w.cache \in [Slot -> Entry] /\ w.saves \in [Name -> Content]
      /\ n # NoName
  BY DriveAssumption DEF Good, World
<1>2. /\ i = NoSlot \/ (i \in Slot /\ w.cache[i].name = n)
      /\ \A j \in Slot : w.cache[j].name = n => i # NoSlot
  BY <1>1, SlotOfFinds
<1>3. x = [w EXCEPT !.saves = saves, !.cache = cache]
  BY DEF core_disk_save
<1> HIDE DEF x, i
<1>4. x.cache = cache /\ x.saves = saves
  <2> HIDE DEF cache, saves
  <2> QED  BY <1>1, <1>3 DEF World
<1>5. /\ saves[n] \in {v, w.saves[n], Junk}
      /\ \A m \in Name : m # n => saves[m] = w.saves[m]
  BY <1>1 DEF FileWritten
<1>6. ASSUME NEW j \in Slot, w.cache[j].name = n
      PROVE  cache[j] = [w.cache[j] EXCEPT !.data = v, !.saved = TRUE]
  <2>1. i # NoSlot /\ i \in Slot /\ i = j
    BY <1>1, <1>2, <1>6 DEF UniqueNames
  <2> QED  BY <1>1, <2>1 DEF Entry
<1>7. ASSUME NEW j \in Slot, w.cache[j].name # n
      PROVE  cache[j] = w.cache[j]
  BY <1>1, <1>2, <1>7
<1> HIDE DEF cache, saves
<1>8. ASSUME NEW j \in Slot
      PROVE  /\ x.cache[j].extra_name = w.cache[j].extra_name
             /\ w.cache[j].name = n => x.cache[j].saved /\ x.cache[j].data = v
             /\ w.cache[j].name # n => x.cache[j] = w.cache[j]
  <2>1. CASE w.cache[j].name = n
    <3>1. cache[j] = [w.cache[j] EXCEPT !.data = v, !.saved = TRUE] /\ w.cache[j] \in Entry
      BY <1>1, <1>6, <2>1
    <3>2. cache[j].extra_name = w.cache[j].extra_name /\ cache[j].saved = TRUE /\ cache[j].data = v
      BY <3>1 DEF Entry
    <3> QED  BY <1>4, <2>1, <3>2
  <2>2. CASE w.cache[j].name # n
    BY <1>4, <1>7, <2>2
  <2> QED  BY <2>1, <2>2
<1> QED  BY <1>4, <1>5, <1>8 DEF x

(* Saving an overlay changes no image and no other file.                   *)
LEMMA OverlayTracks ==
  ASSUME NEW w, Good(w), NEW n \in Name, NEW v \in Nat
  PROVE  LET x == STX_WriteDisk(w, n, v)
         IN /\ \A j \in Slot : /\ x.cache[j].extra_name = w.cache[j].extra_name
                               /\ x.cache[j].data = w.cache[j].data
                               /\ x.cache[j].saved = w.cache[j].saved \/ x.cache[j].saved
            /\ \A m \in Name : m # n => x.saves[m] = w.saves[m]
<1> DEFINE i == ExtraSlotOf(w, n)
           x == STX_WriteDisk(w, n, v)
           collected == IF w.advanced THEN Junk ELSE v
           cache == IF i = NoSlot THEN w.cache
                    ELSE [w.cache EXCEPT ![i].extra = collected, ![i].saved = TRUE]
<1>1. w \in World /\ w.cache \in [Slot -> Entry] /\ w.saves \in [Name -> Content]
  BY DEF Good, World
<1>2. i = NoSlot \/ i \in Slot
  BY <1>1, ExtraSlotOfFinds
<1>3. CASE fs = "denied"
  BY <1>3 DEF STX_WriteDisk
<1>4. CASE fs = "full"
  <2>1. x = [w EXCEPT !.saves[n] = NoData, !.advanced = TRUE]
    BY <1>4 DEF STX_WriteDisk
  <2> HIDE DEF x
  <2>2. x.cache = w.cache /\ x.saves = [w.saves EXCEPT ![n] = NoData]
    BY <1>1, <2>1 DEF World
  <2>3. \A m \in Name : m # n => x.saves[m] = w.saves[m]
    BY <1>1, <2>2
  <2> QED  BY <2>2, <2>3 DEF x
<1>5. CASE fs # "denied" /\ fs # "full"
  <2>1. x = [w EXCEPT !.saves[n] = v, !.advanced = TRUE, !.cache = cache]
    BY <1>5 DEF STX_WriteDisk
  <2> HIDE DEF x, i, collected
  <2>2. x.cache = cache /\ x.saves = [w.saves EXCEPT ![n] = v]
    <3> HIDE DEF cache
    <3> QED  BY <1>1, <2>1 DEF World
  <2>3. \A m \in Name : m # n => x.saves[m] = w.saves[m]
    BY <1>1, <2>2
  <2>4. \A j \in Slot : /\ cache[j].data = w.cache[j].data
                        /\ cache[j].extra_name = w.cache[j].extra_name
                        /\ cache[j].saved = w.cache[j].saved \/ cache[j].saved
    BY <1>1, <1>2 DEF Entry
  <2> HIDE DEF cache
  <2> QED  BY <2>2, <2>3, <2>4 DEF x
<1> QED  BY <1>3, <1>4, <1>5

(* An eject leaves every image with what was on it: the disk's own is      *)
(* handed to its entry if it is marked changed, and was there before if it *)
(* is not.                                                                 *)
LEMMA FloppyEjectTracks ==
  ASSUME NEW w, Tended(w), NEW d \in Drive
  PROVE  LET x == FloppyEject(w, d)
         IN Tended(x) /\ Grown(w, x) /\ (Stocked(w) => Stocked(x) /\ SameHeld(w, x))
<1> DEFINE hd == w.drv[d]
           saved == core_disk_save(w, hd.name, hd.buffer)
           overlaid == STX_WriteDisk(w, hd.name, hd.overlay)
           stored == CASE SavesImage(hd)   -> saved
                       [] SavesOverlay(hd) -> overlaid
                       [] OTHER            -> w
           x == FloppyEject(w, d)
           own(n) == SavesImage(hd) /\ n = hd.name
<1>1. /\ Good(w) /\ UniqueNames(w) /\ Apart(w.drv) /\ Current(w) /\ OverlaysApart(w)
      /\ NoneNewer(w) /\ w \in World /\ \A e \in Drive : LoadedDrive(w.drv[e])
      /\ w.drv \in [Drive -> DriveState] /\ w.saves \in [Name -> Content]
      /\ w.cache \in [Slot -> Entry]
  BY DEF Tended, Good, World
<1>2. hd \in DriveState /\ (Inserted(hd) => hd.buffer \in Nat)
  BY <1>1 DEF LoadedDrive
<1>3. SavesImage(hd) => hd.name \in Name /\ hd.buffer \in Nat /\ ImageFile(hd.name)
  BY <1>2 DEF SavesImage, Inserted, DriveState, ImageFile
<1>4. SavesOverlay(hd) => hd.name \in Name /\ hd.overlay \in Nat /\ ~ImageFile(hd.name)
  BY <1>2 DEF SavesOverlay, Inserted, DriveState, ImageFile
<1>5. ~(SavesImage(hd) /\ SavesOverlay(hd))
  BY DEF SavesImage, SavesOverlay
<1>6. /\ stored \in World
      /\ \A j \in Slot : /\ stored.cache[j].extra_name = w.cache[j].extra_name
                         /\ own(w.cache[j].name) => /\ stored.cache[j].saved
                                                    /\ stored.cache[j].data = hd.buffer
                         /\ ~own(w.cache[j].name) =>
                              /\ stored.cache[j].data = w.cache[j].data
                              /\ stored.cache[j].saved = w.cache[j].saved \/ stored.cache[j].saved
      /\ \A n \in Name : ImageFile(n) =>
           \/ stored.saves[n] = w.saves[n]
           \/ own(n) /\ stored.saves[n] \in {hd.buffer, Junk}
  <2>1. CASE SavesImage(hd)
    <3>1. stored = saved
      BY <1>5, <2>1
    <3>2. saved \in World
      BY <1>1, <1>3, <2>1, SaveKeeps DEF Good
    <3>3. /\ \A j \in Slot :
               /\ saved.cache[j].extra_name = w.cache[j].extra_name
               /\ w.cache[j].name = hd.name => saved.cache[j].saved /\ saved.cache[j].data = hd.buffer
               /\ w.cache[j].name # hd.name => saved.cache[j] = w.cache[j]
          /\ \A m \in Name : m # hd.name => saved.saves[m] = w.saves[m]
          /\ saved.saves[hd.name] \in {hd.buffer, w.saves[hd.name], Junk}
      BY <1>1, <1>3, <2>1, SaveTracks
    <3> HIDE DEF stored, saved, hd
    <3> QED  BY <2>1, <3>1, <3>2, <3>3
  <2>2. CASE SavesOverlay(hd)
    <3>1. stored = overlaid /\ ~SavesImage(hd)
      BY <1>5, <2>2
    <3>2. overlaid \in World
      BY <1>1, <1>4, <2>2, OverlayKeeps DEF Good
    <3>3. /\ \A j \in Slot :
               /\ overlaid.cache[j].extra_name = w.cache[j].extra_name
               /\ overlaid.cache[j].data = w.cache[j].data
               /\ overlaid.cache[j].saved = w.cache[j].saved \/ overlaid.cache[j].saved
          /\ \A m \in Name : m # hd.name => overlaid.saves[m] = w.saves[m]
      BY <1>1, <1>4, <2>2, OverlayTracks
    <3> HIDE DEF stored, overlaid, hd
    <3> QED  BY <1>4, <2>2, <3>1, <3>2, <3>3
  <2>3. CASE ~SavesImage(hd) /\ ~SavesOverlay(hd)
    <3>1. stored = w
      BY <2>3
    <3> HIDE DEF stored, hd
    <3> QED  BY <1>1, <2>3, <3>1
  <2> QED  BY <2>1, <2>2, <2>3
<1>7. x = [stored EXCEPT !.drv[d] = EmptyDrive]
  BY DEF FloppyEject
<1>8. Good(x) /\ SameMenu(w, x) /\ x.drv = [w.drv EXCEPT ![d] = EmptyDrive]
  BY <1>1, FloppyEjectKeeps
<1> HIDE DEF stored, x
<1>9. x.cache = stored.cache /\ x.saves = stored.saves
  BY <1>6, <1>7 DEF World
<1>10. \A j \in Slot : /\ x.cache[j].name = w.cache[j].name
                       /\ x.cache[j].extra_name = w.cache[j].extra_name
                       /\ own(w.cache[j].name) => x.cache[j].saved /\ x.cache[j].data = hd.buffer
                       /\ ~own(w.cache[j].name) =>
                            /\ x.cache[j].data = w.cache[j].data
                            /\ x.cache[j].saved = w.cache[j].saved \/ x.cache[j].saved
  BY <1>6, <1>8, <1>9 DEF SameMenu
<1>11. \A n \in Name : ImageFile(n) => \/ x.saves[n] = w.saves[n]
                                       \/ own(n) /\ x.saves[n] \in {hd.buffer, Junk}
  BY <1>6, <1>9
<1>12. x.drv[d] = EmptyDrive /\ \A e \in Drive : e # d => x.drv[e] = w.drv[e]
  BY <1>1, <1>8
<1>13. /\ ~Inserted(EmptyDrive) /\ ~ImageFile(EmptyDrive.name)
       /\ \A n : ImageFile(n) => n \in Name /\ n # NoName /\ n # EmptyDrive.name
  BY DriveAssumption DEF Inserted, EmptyDrive, ImageFile
<1>14. ASSUME NEW e \in Drive, e # d, ImageFile(w.drv[e].name)
       PROVE  w.drv[e].name # hd.name
  BY <1>1, <1>13, <1>14 DEF Apart, Inserted, Drive
<1>15. UniqueNames(x) /\ OverlaysApart(x)
  BY <1>1, <1>10 DEF UniqueNames, OverlaysApart
<1>16. Apart(x.drv)
  BY <1>1, <1>12, <1>13 DEF Apart, Drive
<1>17. Current(x)
  <2> SUFFICES ASSUME NEW e \in Drive, NEW i \in Slot, ImageFile(x.drv[e].name),
                      ~x.drv[e].changed, x.cache[i].name = x.drv[e].name
               PROVE  x.drv[e].buffer = x.cache[i].data
    BY DEF Current
  <2>1. e # d /\ x.drv[e] = w.drv[e] /\ w.drv[e].name # hd.name
    BY <1>12, <1>13, <1>14
  <2>2. ~own(w.cache[i].name) /\ w.cache[i].name = w.drv[e].name
    BY <1>10, <2>1
  <2> HIDE DEF own
  <2> QED  BY <1>1, <1>10, <2>1, <2>2 DEF Current
<1>18. NoneNewer(x)
  <2>1. SavesImage(hd) => Past(hd.buffer)
    BY <1>1, <1>3 DEF NoneNewer
  <2>2. Past(Junk)
    BY DriveAssumption DEF Past
  <2>3. ASSUME NEW n \in Name, ImageFile(n)
        PROVE  Past(x.saves[n])
    BY <1>1, <1>11, <2>1, <2>2, <2>3 DEF NoneNewer
  <2>4. ASSUME NEW i \in Slot, ImageFile(x.cache[i].name)
        PROVE  Past(x.cache[i].data)
    BY <1>1, <1>10, <2>1, <2>4 DEF NoneNewer
  <2>5. ASSUME NEW e \in Drive, ImageFile(x.drv[e].name)
        PROVE  Past(x.drv[e].buffer)
    BY <1>1, <1>12, <1>13, <2>5 DEF NoneNewer
  <2> QED  BY <1>1, <2>3, <2>4, <2>5 DEF NoneNewer
<1>19. Grown(w, x)
  BY <1>1, <1>10 DEF Grown
<1>20. ASSUME Stocked(w)
       PROVE  Stocked(x) /\ SameHeld(w, x)
  <2>1. Stocked(x)
    BY <1>10, <1>12, <1>13, <1>20 DEF Stocked
  <2>2. ASSUME NEW n \in Name, ImageFile(n)
        PROVE  Held(x, n) = Held(w, n)
    <3> DEFINE i == SlotOf(w, n)
    <3>1. /\ SlotOf(x, n) = i
          /\ i # NoSlot => i \in Slot /\ w.cache[i].name = n
          /\ \A j \in Slot : w.cache[j].name = n => i # NoSlot
      <4>1. SlotOf(x, n) = i
        BY <1>10, SameSlots
      <4>2. /\ i # NoSlot => i \in Slot /\ w.cache[i].name = n
            /\ \A j \in Slot : w.cache[j].name = n => i # NoSlot
        BY <1>1, SlotOfFinds
      <4> QED  BY <4>1, <4>2
    <3>0. SlotOf(w, n) = i
      OBVIOUS
    <3> HIDE DEF i
    <3>2. CASE hd.name = n
      <4>1. \A e \in Drive : e # d => w.drv[e].name # n
        BY <1>14, <2>2, <3>2
      <4>2. i # NoSlot /\ i \in Slot /\ w.cache[i].name = n
        BY <1>13, <1>20, <2>2, <3>1, <3>2 DEF Stocked, Inserted
      <4>3. Held(w, n) = hd.buffer
        BY <3>2, <4>1 DEF Held, Drive
      <4>4. Held(x, n) = Version(x.cache[i].data)
        BY <1>12, <1>13, <2>2, <3>1, <4>1, <4>2 DEF Held, Drive
      <4>5. hd.buffer \in Nat
        BY <1>2, <1>13, <2>2, <3>2 DEF Inserted
      <4>6. x.cache[i].data = hd.buffer
        <5>1. CASE hd.changed
          <6>1. own(w.cache[i].name)
            BY <1>13, <2>2, <3>2, <4>2, <5>1 DEF SavesImage, Inserted, ImageFile
          <6> QED  BY <1>10, <4>2, <6>1
        <5>2. CASE ~hd.changed
          <6>1. ~own(w.cache[i].name)
            BY <5>2 DEF SavesImage
          <6>2. w.cache[i].data = hd.buffer
            BY <1>1, <2>2, <3>2, <4>2, <5>2 DEF Current
          <6> QED  BY <1>10, <4>2, <6>1, <6>2
        <5> QED  BY <5>1, <5>2
      <4> QED  BY <4>3, <4>4, <4>5, <4>6 DEF Version
    <3>3. CASE hd.name # n
      <4>1. x.saves[n] = w.saves[n]
        BY <1>11, <2>2, <3>3
      <4>2. i # NoSlot => x.cache[i].data = w.cache[i].data
        BY <1>10, <3>1, <3>3
      <4>3. \A e \in Drive : /\ x.drv[e].name = n <=> w.drv[e].name = n
                             /\ x.drv[e].name = n => x.drv[e] = w.drv[e]
        BY <1>12, <1>13, <2>2, <3>3
      <4> HIDE DEF hd
      <4>4. Unloaded(x, n) = Unloaded(w, n)
        BY <4>1 DEF Unloaded
      <4>5. x.drv[0].name # n /\ x.drv[1].name # n =>
              (IF i # NoSlot THEN Version(x.cache[i].data) ELSE Unloaded(x, n))
                = IF i # NoSlot THEN Version(w.cache[i].data) ELSE Unloaded(w, n)
        BY <4>2, <4>4
      <4>6. 0 \in Drive /\ 1 \in Drive
        BY DEF Drive
      <4> QED  BY <3>0, <3>1, <4>3, <4>5, <4>6 DEF Held
    <3> QED  BY <3>2, <3>3
  <2> QED  BY <2>1, <2>2 DEF SameHeld
<1>21. Tended(x)
  BY <1>8, <1>15, <1>16, <1>17, <1>18 DEF Tended
<1> QED  BY <1>19, <1>20, <1>21 DEF x

(* Nothing is lost when the drives, the cache and the folder stay as they  *)
(* are.                                                                    *)
LEMMA SameImages ==
  ASSUME NEW w, Tracked(w), NEW x, Sane(x), Placed(x),
         x.cache = w.cache, x.drv = w.drv, x.saves = w.saves
  PROVE  Onward(w, x)
<1>1. Tended(x)
  BY DEF Tracked, Tended, Sane, UniqueNames, Current, OverlaysApart, NoneNewer
<1>2. Grown(w, x)
  BY DEF Grown
<1>3. \A n : SlotOf(x, n) = SlotOf(w, n)
  BY SameSlots
<1>4. SameHeld(w, x)
  BY <1>3 DEF SameHeld, Held, Unloaded
<1> QED  BY <1>1, <1>2, <1>4 DEF Onward, Tracked

LEMMA EjectedTracks ==
  ASSUME NEW w, Tracked(w), NEW d \in Drive
  PROVE  Onward(w, Ejected(w, d))
<1> DEFINE x == Ejected(w, d)
           y == FloppyEject(w, d)
<1>1. Sane(w) /\ Placed(w) /\ Tended(w) /\ Stocked(w)
  BY TrackedStocked DEF Tracked
<1>2. CASE ~w.insert[d]
  BY <1>2, OnwardReflexive DEF Ejected
<1>3. CASE w.insert[d]
  <2>1. Sane(x) /\ Placed(x)
    BY <1>1, EjectedKeeps
  <2>2. Tended(y) /\ Grown(w, y) /\ SameHeld(w, y)
    BY <1>1, FloppyEjectTracks
  <2>3. x = [y EXCEPT !.insert[d] = FALSE]
    BY <1>3 DEF Ejected
  <2> HIDE DEF x, y
  <2>4. x.cache = y.cache /\ x.saves = y.saves /\ x.drv = y.drv
    BY <2>2, <2>3 DEF Tended, Good, World
  <2>5. Tended(x)
    BY <2>1, <2>2, <2>4
    DEF Tended, Sane, UniqueNames, Current, OverlaysApart, NoneNewer
  <2>6. Grown(w, x)
    BY <2>2, <2>4 DEF Grown
  <2>7. \A n : SlotOf(x, n) = SlotOf(y, n)
    BY <2>4, SameSlots
  <2>8. SameHeld(w, x)
    BY <2>2, <2>4, <2>7 DEF SameHeld, Held, Unloaded
  <2>9. Onward(w, x)
    BY <2>1, <2>5, <2>6, <2>8 DEF Onward, Tracked
  <2> QED  BY <2>9 DEF x
<1> QED  BY <1>2, <1>3

(* A disk that goes in is as its entry has it.                             *)
LEMMA InsertingTracks ==
  ASSUME NEW w, Tracked(w), opt \in Options, NEW d \in Drive, ~w.insert[d],
         ~(w.insert[1 - d] /\ w.index[1 - d] = w.index[d])
  PROVE  Onward(w, Inserting(w, d))
<1> DEFINE x == Inserting(w, d)
           i == w.index[d]
           new == ReadImage(w.cache[i].name, w.cache[i].data, w.cache[i].extra, opt.enable_save)
<1>1. /\ Sane(w) /\ Placed(w) /\ Tended(w) /\ w \in World /\ Agreed(w)
      /\ w.index[d] \in 0 .. MaxDisks /\ w.drv \in [Drive -> DriveState]
      /\ Current(w) /\ OverlaysApart(w) /\ NoneNewer(w) /\ UniqueNames(w)
  BY DEF Tracked, Tended, Sane, Good, World
<1>2. /\ Sane(x) /\ Placed(x) /\ x.index = w.index /\ x.cache = w.cache
  BY <1>1, InsertingKeeps
<1>3. CASE ~(i < MaxDisks /\ Readable(w.cache[i].name, w.cache[i].data))
  BY <1>3, OnwardReflexive DEF Inserting
<1>4. CASE i < MaxDisks /\ Readable(w.cache[i].name, w.cache[i].data)
  <2>1. i \in Slot /\ i # NoSlot /\ w.cache[i].data \in Nat
    BY <1>1, <1>4, DiskAssumption DEF Slot, NoSlot, Readable
  <2>2. x = [w EXCEPT !.drv[d] = new, !.insert[d] = TRUE]
    BY <1>4 DEF Inserting
  <2>3. new.name = w.cache[i].name /\ new.buffer = w.cache[i].data /\ ~new.changed
    BY DEF ReadImage
  <2>4. \A n : ImageFile(n) => n \in Name /\ n # NoName
    BY DriveAssumption DEF ImageFile
  <2> HIDE DEF x, new
  <2>5. x.drv = [w.drv EXCEPT ![d] = new] /\ x.saves = w.saves
    BY <1>1, <2>2 DEF World
  <2>6. x.drv[d] = new /\ \A e \in Drive : e # d => x.drv[e] = w.drv[e]
    BY <1>1, <2>5
  <2>7. ASSUME NEW j \in Slot, w.cache[j].name = new.name, new.name # NoName
        PROVE  j = i
    BY <1>1, <2>1, <2>3, <2>7 DEF UniqueNames
  <2>8. Current(x)
    BY <1>1, <1>2, <2>3, <2>4, <2>6, <2>7 DEF Current
  <2>9. NoneNewer(x)
    BY <1>1, <1>2, <2>1, <2>3, <2>5, <2>6 DEF NoneNewer
  <2>10. OverlaysApart(x) /\ UniqueNames(x) /\ Grown(w, x)
    BY <1>1, <1>2 DEF OverlaysApart, UniqueNames, Grown
  <2>11. Apart(x.drv)
    BY <1>2, PlacedDiffer DEF Apart
  <2>12. ASSUME NEW n \in Name, ImageFile(n)
         PROVE  Held(x, n) = Held(w, n)
    <3> DEFINE k == SlotOf(w, n)
    <3>1. w.drv[d].name # n
      BY <1>1, <2>4, <2>12 DEF Agreed, Inserted
    <3>2. SlotOf(x, n) = k
      BY <1>2, SameSlots
    <3>3. /\ k # NoSlot => k \in Slot /\ w.cache[k].name = n
          /\ \A j \in Slot : w.cache[j].name = n => k # NoSlot
      BY <1>1, SlotOfFinds
    <3>0. SlotOf(w, n) = k
      OBVIOUS
    <3> HIDE DEF k
    <3>4. CASE new.name = n
      <4>1. x.drv[d].name = n
        BY <2>6, <3>4
      <4>2. \A e \in Drive : e # d => x.drv[e].name # n
        BY <2>4, <2>11, <2>12, <4>1 DEF Apart, Inserted, Drive
      <4>3. Held(x, n) = new.buffer
        BY <2>6, <4>1, <4>2 DEF Held, Drive
      <4>4. k # NoSlot /\ k = i
        BY <2>1, <2>3, <2>4, <2>7, <2>12, <3>3, <3>4
      <4>5. Held(w, n) = Version(w.cache[k].data)
        BY <2>6, <3>0, <3>1, <4>2, <4>4 DEF Held, Drive
      <4> QED  BY <2>1, <2>3, <4>3, <4>4, <4>5 DEF Version
    <3>5. CASE new.name # n
      <4>1. Unloaded(x, n) = Unloaded(w, n)
        BY <2>5 DEF Unloaded
      <4>2. \A e \in Drive : /\ x.drv[e].name = n <=> w.drv[e].name = n
                             /\ x.drv[e].name = n => x.drv[e] = w.drv[e]
        BY <2>6, <3>1, <3>5
      <4>3. 0 \in Drive /\ 1 \in Drive
        BY DEF Drive
      <4> QED  BY <1>2, <3>0, <3>2, <4>1, <4>2, <4>3 DEF Held
    <3> QED  BY <3>4, <3>5
  <2>13. Tended(x)
    BY <1>2, <2>8, <2>9, <2>10, <2>11 DEF Tended, Sane
  <2>14. Onward(w, x)
    BY <1>2, <2>10, <2>12, <2>13 DEF Onward, Tracked, SameHeld
  <2> QED  BY <2>14 DEF x
<1> QED  BY <1>3, <1>4

LEMMA InsertDriveTracks ==
  ASSUME NEW w, Tracked(w), opt \in Options, NEW d \in Drive
  PROVE  Onward(w, InsertDrive(w, d))
<1> DEFINE o == 1 - d
           freed == IF w.insert[o] /\ w.index[o] = w.index[d] THEN Ejected(w, o) ELSE w
<1>1. o \in Drive /\ o # d /\ w \in World /\ Sane(w)
  BY DEF Drive, Tracked, Sane, Good
<1>2. CASE w.insert[d]
  BY <1>2, OnwardReflexive DEF InsertDrive
<1>3. CASE ~w.insert[d]
  <2>1. /\ Onward(w, freed) /\ ~freed.insert[d]
        /\ ~(freed.insert[o] /\ freed.index[o] = freed.index[d])
    <3>1. CASE w.insert[o] /\ w.index[o] = w.index[d]
      <4>1. Onward(w, Ejected(w, o)) /\ Ejected(w, o).insert = [w.insert EXCEPT ![o] = FALSE]
        BY <1>1, EjectedTracks, EjectedKeeps
      <4>2. freed = Ejected(w, o)
        BY <3>1
      <4> HIDE DEF o, freed
      <4> QED  BY <1>1, <1>3, <4>1, <4>2 DEF World
    <3>2. CASE ~(w.insert[o] /\ w.index[o] = w.index[d])
      BY <1>3, <3>2, OnwardReflexive
    <3> QED  BY <3>1, <3>2
  <2>2. InsertDrive(w, d) = Inserting(freed, d)
    BY <1>3 DEF InsertDrive
  <2> HIDE DEF freed
  <2>3. Onward(freed, Inserting(freed, d))
    BY <2>1, InsertingTracks DEF Onward
  <2> QED  BY <2>1, <2>2, <2>3, OnwardTransitive
<1> QED  BY <1>2, <1>3

LEMMA set_eject_stateTracks ==
  ASSUME NEW w, Tracked(w), opt \in Options, NEW ejected \in BOOLEAN
  PROVE  Onward(w, set_eject_state(w, ejected))
<1>1. w.drive \in Drive
  BY DEF Tracked, Sane, Good, World
<1> QED  BY <1>1, EjectedTracks, InsertDriveTracks DEF set_eject_state

LEMMA set_image_indexTracks ==
  ASSUME NEW w, Tracked(w), NEW i \in 0 .. MaxDisks
  PROVE  Onward(w, set_image_index(w, i))
<1> DEFINE d == w.drive
           y == Ejected(w, d)
           x == set_image_index(w, i)
<1>1. w \in World /\ d \in Drive /\ Sane(w) /\ Placed(w)
  BY DEF Tracked, Sane, Good, World
<1>2. CASE i = w.index[d]
  BY <1>2, OnwardReflexive DEF set_image_index
<1>3. CASE i # w.index[d]
  <2>1. Onward(w, y)
    BY <1>1, EjectedTracks
  <2>2. Sane(x) /\ Placed(x)
    BY <1>1, set_image_indexKeeps
  <2>3. x = [y EXCEPT !.index[d] = i]
    BY <1>3 DEF set_image_index
  <2> HIDE DEF x, y, d
  <2>4. y \in World
    BY <2>1 DEF Onward, Tracked, Sane, Good
  <2>5. x.drv = y.drv /\ x.cache = y.cache /\ x.saves = y.saves
    BY <2>3, <2>4 DEF World
  <2>6. Onward(y, x)
    BY <2>1, <2>2, <2>5, SameImages DEF Onward
  <2>7. Onward(w, x)
    BY <2>1, <2>6, OnwardTransitive
  <2> QED  BY <2>7 DEF x
<1> QED  BY <1>2, <1>3

(* An image that is loaded is as it was found before.                      *)
LEMMA LoadedEntryTracks ==
  ASSUME NEW w \in World, opt \in Options, writes \in Nat, NEW n \in Name, NEW old \in Entry,
         old.extra_name = NoName
  PROVE  LET e == LoadedEntry(w, old, n)
         IN /\ e.extra_name # NoName => e.extra_name = e.name /\ ~ImageFile(e.name)
            /\ ImageFile(e.name) =>
                 /\ e.name = n
                 /\ Version(e.data) = Unloaded(w, n)
                 /\ Past(w.saves[n]) => Past(e.data)
<1> DEFINE kept == IF opt.enable_save THEN w.saves[n] ELSE NoData
           stx  == Format[n] = "stx"
           data == IF kept # NoData /\ ~stx THEN kept ELSE FileData(n)
           e    == LoadedEntry(w, old, n)
<1>1. e = [name       |-> IF data = NoData THEN NoName ELSE n,
           data       |-> data,
           saved      |-> kept # NoData,
           extra      |-> IF stx THEN kept ELSE NoData,
           extra_name |-> IF stx /\ opt.enable_save THEN n ELSE NoName]
  BY DEF LoadedEntry
<1>2. 0 # NoData /\ n # NoName /\ ~ImageFile(NoName) /\ Version(NoData) = 0
  BY DriveAssumption DEF ImageFile, Version
<1>3. stx => data = 0 /\ ~ImageFile(n)
  BY DEF FileData, ImageFile
<1>4. ImageFile(n) => ~stx /\ FileData(n) = 0
  BY DEF FileData, ImageFile
<1>5. ASSUME NEW m, m = e.name, ImageFile(m)
      PROVE  m = n /\ Version(e.data) = Unloaded(w, n) /\ (Past(w.saves[n]) => Past(e.data))
  <2>1. m = n /\ ImageFile(n) /\ e.data = IF kept # NoData THEN kept ELSE 0
    BY <1>1, <1>2, <1>4, <1>5
  <2> HIDE DEF e, data, stx
  <2>2. Version(e.data) = Unloaded(w, n)
    BY <1>2, <2>1 DEF Unloaded, Version
  <2>3. Past(0)
    BY DEF Past
  <2>4. Past(w.saves[n]) => Past(e.data)
    BY <2>1, <2>3
  <2> QED  BY <2>1, <2>2, <2>4
<1>6. e.extra_name # NoName => e.extra_name = e.name /\ ~ImageFile(e.name)
  BY <1>1, <1>2, <1>3
<1> QED  BY <1>5, <1>6

(* Entries that are filled in replace none that has a file.                *)
LEMMA LoadedListTracks ==
  ASSUME NEW w, Tracked(w), opt \in Options, NEW i \in Slot, NEW names \in Seq(Name) \ {<< >>},
         i < w.count, w.cache[i].name = NoName,
         \A k, l \in 1 .. Len(names) : names[k] = names[l] => k = l,
         \A k \in 1 .. Len(names) : \A j \in Slot \ {i} : w.cache[j].name # names[k]
  PROVE  Onward(w, LoadedList(w, i, names))
<1> DEFINE x == LoadedList(w, i, names)
           place(j) == IF j = i THEN 1 ELSE j - w.count + 2
           taken(j) == j = i \/ (j >= w.count /\ place(j) <= Len(names))
           cache == [j \in Slot |-> IF taken(j) THEN LoadedEntry(w, w.cache[j], names[place(j)])
                                    ELSE w.cache[j]]
           total == w.count + Len(names) - 1
           count == IF total > MaxDisks THEN MaxDisks ELSE total
<1>1. /\ w \in World /\ w.cache \in [Slot -> Entry] /\ w.count \in 0 .. MaxDisks
      /\ Sane(w) /\ Placed(w) /\ Agreed(w) /\ Current(w) /\ OverlaysApart(w) /\ NoneNewer(w)
  BY DEF Tracked, Tended, Sane, Good, World
<1>2. Len(names) \in Nat \ {0} /\ \A k \in 1 .. Len(names) : names[k] \in Name
  BY EmptySeq, LenProperties, ElementOfSeq
<1>3. MaxDisks \in Nat \ {0} /\ Slot = 0 .. MaxDisks - 1 /\ i \in Nat
  BY DiskAssumption DEF Slot
<1>4. \A d \in Drive : ~(w.insert[d] /\ w.index[d] = i)
  BY <1>1 DEF Placed, Agreed, Inserted
<1>5. /\ Sane(x) /\ Placed(x)
      /\ x.index = w.index /\ x.insert = w.insert /\ x.drv = w.drv
  BY <1>1, <1>4, LoadedListKeeps
<1>6. x = [w EXCEPT !.cache = cache, !.count = count]
  BY DEF LoadedList
<1> HIDE DEF x
<1>7. x.cache = cache /\ x.saves = w.saves
  BY <1>1, <1>6 DEF World
<1>8. ASSUME NEW j \in Slot
      PROVE  LET e == cache[j]
             IN \/ e = w.cache[j]
                \/ /\ w.cache[j].name = NoName
                   /\ e.extra_name # NoName => e.extra_name = e.name /\ ~ImageFile(e.name)
                   /\ ImageFile(e.name) => /\ Version(e.data) = Unloaded(w, e.name)
                                           /\ Past(e.data)
  <2>1. CASE taken(j)
    <3>1. place(j) \in 1 .. Len(names)
      BY <1>1, <1>2, <1>3, <2>1
    <3>2. cache[j] = LoadedEntry(w, w.cache[j], names[place(j)])
      BY <2>1
    <3>3. w.cache[j].name = NoName
      BY <1>1, <2>1 DEF Placed
    <3>4. names[place(j)] \in Name /\ w.cache[j] \in Entry
      BY <1>1, <1>2, <3>1
    <3> HIDE DEF taken, place, cache
    <3>5. w.cache[j].extra_name = NoName
      BY <1>1, <3>3 DEF OverlaysApart
    <3>6. ImageFile(names[place(j)]) => Past(w.saves[names[place(j)]])
      BY <1>1, <3>4 DEF NoneNewer
    <3>7. writes \in Nat
      BY <1>1 DEF NoneNewer
    <3> QED  BY <1>1, <3>2, <3>3, <3>4, <3>5, <3>6, <3>7, LoadedEntryTracks
  <2>2. CASE ~taken(j)
    BY <2>2
  <2> QED  BY <2>1, <2>2
<1> HIDE DEF cache
<1>9. Grown(w, x)
  BY <1>7, <1>8 DEF Grown
<1>10. OverlaysApart(x)
  BY <1>1, <1>7, <1>8 DEF OverlaysApart
<1>11. NoneNewer(x)
  BY <1>1, <1>5, <1>7, <1>8 DEF NoneNewer
<1>12. ASSUME NEW d \in Drive, ImageFile(w.drv[d].name)
       PROVE  \E j \in Slot : /\ w.cache[j].name = w.drv[d].name
                              /\ \A k \in Slot : x.cache[k].name = w.drv[d].name => k = j
                              /\ x.cache[j] = w.cache[j]
  <2>1. Inserted(w.drv[d]) /\ w.drv[d].name # NoName
    BY <1>12, DriveAssumption DEF ImageFile, Inserted
  <2>2. PICK j \in Slot : w.cache[j].name = w.drv[d].name
    BY <1>1, <2>1, TrackedStocked DEF Stocked
  <2>3. x.cache[j] = w.cache[j]
    BY <1>7, <1>8, <2>1, <2>2
  <2>4. \A k \in Slot : x.cache[k].name = x.cache[j].name /\ k # j => x.cache[k].name = NoName
    BY <1>5 DEF Placed
  <2> QED  BY <2>1, <2>2, <2>3, <2>4
<1>13. Current(x)
  BY <1>1, <1>5, <1>12 DEF Current
<1>14. UniqueNames(x) /\ Apart(x.drv)
  BY <1>5, PlacedDiffer DEF Placed, UniqueNames, Apart
<1>15. Tended(x)
  BY <1>5, <1>10, <1>11, <1>13, <1>14 DEF Tended, Sane
<1>16. ASSUME NEW n \in Name, ImageFile(n)
       PROVE  Held(x, n) = Held(w, n)
  <2> DEFINE k == SlotOf(w, n)
             l == SlotOf(x, n)
  <2>1. n # NoName /\ x \in World
    BY <1>5, <1>16, DriveAssumption DEF Sane, Good
  <2>2. /\ k # NoSlot => k \in Slot /\ w.cache[k].name = n
        /\ \A j \in Slot : w.cache[j].name = n => k # NoSlot
    BY <1>1, SlotOfFinds
  <2>3. /\ l # NoSlot => l \in Slot /\ x.cache[l].name = n
        /\ \A j \in Slot : x.cache[j].name = n => l # NoSlot
    BY <2>1, SlotOfFinds
  <2>4. Unloaded(x, n) = Unloaded(w, n)
    BY <1>7 DEF Unloaded
  <2>5. (IF l # NoSlot THEN Version(x.cache[l].data) ELSE Unloaded(x, n))
          = IF k # NoSlot THEN Version(w.cache[k].data) ELSE Unloaded(w, n)
    <3> HIDE DEF k, l
    <3>1. CASE k # NoSlot
      <4>1. x.cache[k] = w.cache[k]
        BY <1>7, <1>8, <2>1, <2>2, <3>1
      <4>2. l # NoSlot /\ l = k
        BY <1>14, <2>1, <2>2, <2>3, <3>1, <4>1 DEF UniqueNames
      <4> QED  BY <3>1, <4>1, <4>2
    <3>2. CASE k = NoSlot
      <4>1. CASE l = NoSlot
        BY <2>4, <3>2, <4>1
      <4>2. CASE l # NoSlot
        <5>1. l \in Slot /\ x.cache[l].name = n /\ w.cache[l].name # n
          BY <2>2, <2>3, <3>2, <4>2
        <5>2. Version(x.cache[l].data) = Unloaded(w, n)
          BY <1>7, <1>8, <1>16, <5>1
        <5> QED  BY <3>2, <4>2, <5>2
      <4> QED  BY <4>1, <4>2
    <3> QED  BY <3>1, <3>2
  <2> QED  BY <1>5, <2>5 DEF Held
<1>17. Onward(w, x)
  BY <1>5, <1>9, <1>15, <1>16 DEF Onward, Tracked, SameHeld
<1> QED  BY <1>17 DEF x

(* An entry without a file is in no drive, so nothing is inserted for it.  *)
LEMMA replace_image_indexTracks ==
  ASSUME NEW w, Tracked(w), opt \in Options, NEW i \in Slot, NEW names \in Seq(Name) \ {<< >>},
         i < w.count, w.cache[i].name = NoName,
         \A k, l \in 1 .. Len(names) : names[k] = names[l] => k = l,
         \A k \in 1 .. Len(names) : \A j \in Slot \ {i} : w.cache[j].name # names[k]
  PROVE  Onward(w, replace_image_index(w, i, names))
<1>1. \A d \in Drive : ~(w.insert[d] /\ w.index[d] = i)
  BY DEF Tracked, Sane, Agreed, Placed, Inserted
<1>2. replace_image_index(w, i, names) = LoadedList(w, i, names)
  BY <1>1 DEF replace_image_index, EjectReplaced, Drive
<1> QED  BY <1>2, LoadedListTracks

LEMMA add_image_indexTracks ==
  ASSUME NEW w, Tracked(w)
  PROVE  Onward(w, add_image_index(w))
<1> DEFINE x == add_image_index(w)
<1>1. w \in World /\ Sane(x) /\ Placed(x)
  BY add_image_indexKeeps DEF Tracked, Sane, Good
<1>2. x.cache = w.cache /\ x.saves = w.saves /\ x.drv = w.drv
  BY <1>1 DEF World, add_image_index
<1> HIDE DEF x
<1>3. Onward(w, x)
  BY <1>1, <1>2, SameImages
<1> QED  BY <1>3 DEF x

LEMMA DriveSelectionTracks ==
  ASSUME NEW w, Tracked(w), NEW d \in Drive
  PROVE  Onward(w, [w EXCEPT !.drive = d])
<1> DEFINE x == [w EXCEPT !.drive = d]
<1>1. w \in World /\ Sane(x) /\ Placed(x)
  BY DriveSelectionKeeps DEF Tracked, Sane, Good
<1>2. x.cache = w.cache /\ x.saves = w.saves /\ x.drv = w.drv
  BY <1>1 DEF World
<1> HIDE DEF x
<1>3. Onward(w, x)
  BY <1>1, <1>2, SameImages
<1> QED  BY <1>3 DEF x

(* Clearing the disks takes them off the list and out of the drives.       *)
LEMMA disks_clearTracks ==
  ASSUME NEW w, Tracked(w)
  PROVE  Tracked(disks_clear(w))
<1> DEFINE e == [w EXCEPT !.drive = 0, !.count = 0,
                          !.cache = [i \in Slot |-> EmptyEntry],
                          !.index = [d \in Drive |-> 0],
                          !.insert = [d \in Drive |-> FALSE]]
           y == FloppyEject(e, 0)
           x == disks_clear(w)
           noEntries == [i \in Slot |-> EmptyEntry]
           noIndex == [d \in Drive |-> 0]
           noDisk == [d \in Drive |-> FALSE]
<1>1. /\ w \in World /\ Good(w) /\ Apart(w.drv) /\ NoneNewer(w)
      /\ 0 \in Drive /\ 1 \in Drive
  BY DEF Tracked, Tended, Sane, Good, Drive
<1>2. /\ EmptyEntry \in Entry /\ EmptyEntry.name = NoName /\ EmptyEntry.data = NoData
      /\ EmptyEntry.extra_name = NoName
  BY DEF EmptyEntry, Entry, Content
<1>3. /\ noEntries \in [Slot -> Entry] /\ noIndex \in [Drive -> 0 .. MaxDisks]
      /\ noDisk \in [Drive -> BOOLEAN] /\ 0 \in 0 .. MaxDisks
  BY <1>2, DiskAssumption
<1>4. e = [w EXCEPT !.drive = 0, !.count = 0, !.cache = noEntries, !.index = noIndex,
                    !.insert = noDisk]
  OBVIOUS
<1>5. e.cache = noEntries /\ e.drv = w.drv /\ e.saves = w.saves /\ e \in World
  <2> HIDE DEF noEntries, noIndex, noDisk, e
  <2> QED  BY <1>1, <1>3, <1>4 DEF World
<1>6. \A i \in Slot : e.cache[i].name = NoName /\ e.cache[i].data = NoData
                      /\ e.cache[i].extra_name = NoName
  BY <1>2, <1>5
<1>7. ~ImageFile(NoName)
  BY DriveAssumption DEF ImageFile
<1> HIDE DEF e
<1>8. Tended(e)
  BY <1>1, <1>5, <1>6, <1>7
  DEF Tended, Good, UniqueNames, Current, OverlaysApart, NoneNewer
<1>9. Tended(y)
  BY <1>1, <1>8, FloppyEjectTracks
<1>10. x = FloppyEject(y, 1)
  BY DEF disks_clear, e
<1>11. Sane(x) /\ Placed(x)
  BY <1>1, disks_clearKeeps
<1> HIDE DEF x, y
<1>12. Tended(x)
  BY <1>1, <1>9, <1>10, FloppyEjectTracks
<1>13. Tracked(x)
  BY <1>11, <1>12 DEF Tracked
<1> QED  BY <1>13 DEF x

LEMMA BootTracks ==
  ASSUME NEW w, Tracked(w), opt \in Options, NEW d \in Drive, NEW i \in 0 .. MaxDisks
  PROVE  Onward(w, Boot(w, d, i))
<1> DEFINE w1 == [w EXCEPT !.drive = d]
           w2 == set_image_index(w1, i)
<1>1. Onward(w, w1)
  BY DriveSelectionTracks
<1>2. Boot(w, d, i) = set_eject_state(w2, FALSE)
  BY DEF Boot
<1> HIDE DEF w1
<1>3. Onward(w1, w2)
  BY <1>1, set_image_indexTracks DEF Onward
<1> HIDE DEF w2
<1>4. Onward(w2, set_eject_state(w2, FALSE))
  BY <1>3, set_eject_stateTracks DEF Onward
<1> QED  BY <1>1, <1>2, <1>3, <1>4, OnwardTransitive

LEMMA BootAsDirectedTracks ==
  ASSUME NEW w, Tracked(w), opt \in Options, NEW p \in Playlists, NEW d \in Drive
  PROVE  Onward(w, BootAsDirected(w, p, d))
<1> DEFINE b == BootDirective(w, p, d)
<1>1. b > 0 => b - 1 \in 0 .. MaxDisks
  <2>1. w.count \in 0 .. MaxDisks /\ p.boot[d] \in Int
    BY DiskAssumption DEF Tracked, Sane, Good, World
  <2> QED  BY <2>1, DiskAssumption DEF BootDirective
<1> HIDE DEF b
<1>2. BootAsDirected(w, p, d) = w \/ (b > 0 /\ BootAsDirected(w, p, d) = Boot(w, d, b - 1))
  BY DEF BootAsDirected, b
<1> QED  BY <1>1, <1>2, BootTracks, OnwardReflexive

LEMMA BootUndirectedTracks ==
  ASSUME NEW w, Tracked(w), opt \in Options, NEW p \in Playlists, NEW d \in Drive
  PROVE  Onward(w, BootUndirected(w, p, d))
<1> DEFINE i == FirstBootable(w, d)
<1>1. i \in 0 .. MaxDisks
  BY FirstBootableType, DiskAssumption DEF Slot, Tracked, Sane, Good
<1>2. BootUndirected(w, p, d) \in {w, Boot(w, d, i)}
  BY DEF BootUndirected
<1> HIDE DEF i
<1> QED  BY <1>1, <1>2, BootTracks, OnwardReflexive

(* A list that fits into the cache is listed whole.                        *)
LEMMA AllAreListed ==
  ASSUME NEW w \in World, w.count = 1, NEW names \in Seq(Name), Len(names) <= MaxDisks,
         opt \in Options, NEW k \in 1 .. Len(names), ImageFile(names[k])
  PROVE  \E j \in Slot : LoadedList(w, 0, names).cache[j].name = names[k]
<1> DEFINE place(j) == IF j = 0 THEN 1 ELSE j - w.count + 2
           taken(j) == j = 0 \/ (j >= w.count /\ place(j) <= Len(names))
           cache == [j \in Slot |-> IF taken(j) THEN LoadedEntry(w, w.cache[j], names[place(j)])
                                    ELSE w.cache[j]]
           total == w.count + Len(names) - 1
           count == IF total > MaxDisks THEN MaxDisks ELSE total
           j == k - 1
<1>1. LoadedList(w, 0, names) = [w EXCEPT !.cache = cache, !.count = count]
  BY DEF LoadedList
<1>2. Len(names) \in Nat /\ MaxDisks \in Nat /\ Slot = 0 .. MaxDisks - 1
  BY LenProperties, DiskAssumption DEF Slot
<1>3. j \in Slot /\ taken(j) /\ place(j) = k
  BY <1>2
<1>4. cache[j] = LoadedEntry(w, w.cache[j], names[k])
  BY <1>3
<1> HIDE DEF cache, count, taken, place, j
<1>5. LoadedList(w, 0, names).cache = cache
  BY <1>1 DEF World
<1>6. w.saves[names[k]] # NoData \/ FileData(names[k]) # NoData
  BY DriveAssumption DEF FileData, ImageFile
<1>7. LoadedEntry(w, w.cache[j], names[k]).name = names[k]
  BY DriveAssumption DEF LoadedEntry, FileData, ImageFile
<1> QED  BY <1>3, <1>4, <1>5, <1>7

(* A content that is opened has what its files and their saves have.       *)
LEMMA core_disk_load_gameTracks ==
  ASSUME NEW w, Tracked(w), opt \in Options, NEW p \in Playlists,
         \A k, l \in 1 .. Len(p.names) : p.names[k] = p.names[l] => k = l
  PROVE  LET x == core_disk_load_game(w, p)
         IN /\ Tracked(x)
            /\ Len(p.names) <= MaxDisks =>
                 \A k \in 1 .. Len(p.names) : ImageFile(p.names[k]) =>
                   \E j \in Slot : x.cache[j].name = p.names[k]
<1> DEFINE clear == disks_clear(w)
           one == [clear EXCEPT !.count = 1]
           listed == LoadedList(one, 0, p.names)
           w1 == BootAsDirected(listed, p, 1)
           w2 == BootAsDirected(w1, p, 0)
           w3 == BootUndirected(w2, p, 0)
           w4 == BootUndirected(w3, p, 1)
           x == core_disk_load_game(w, p)
<1>1. x = [w4 EXCEPT !.drive = 0]
  BY DEF core_disk_load_game, Listed, Booted
<1>2. 0 \in Drive /\ 1 \in Drive /\ 0 \in Slot
  BY DiskAssumption DEF Drive, Slot
<1>3. /\ Tracked(clear) /\ \A d \in Drive : ~clear.insert[d]
      /\ \A i \in Slot : clear.cache[i].name = NoName
  BY disks_clearKeeps, disks_clearTracks DEF Tracked, Sane
<1> HIDE DEF clear, x
<1>4. Tracked(one) /\ one.count = 1 /\ one.cache = clear.cache /\ one \in World
  <2>1. clear \in World /\ Sane(clear) /\ 1 \in 0 .. MaxDisks
    BY <1>3, DiskAssumption DEF Tracked, Sane, Good
  <2>2. /\ one.index = clear.index /\ one.insert = clear.insert /\ one.drv = clear.drv
        /\ one.cache = clear.cache /\ one.count = 1 /\ one.saves = clear.saves /\ one \in World
    BY <2>1 DEF World
  <2> HIDE DEF one
  <2>3. Sane(one) /\ Placed(one)
    BY <1>2, <1>3, <2>1, <2>2 DEF Sane, Good, Agreed, Placed, Drive
  <2> QED  BY <1>3, <2>2, <2>3, SameImages DEF Onward
<1>5. /\ p.names \in Seq(Name) \ {<< >>}
      /\ \A k \in 1 .. Len(p.names) : p.names[k] # NoName
  BY DiskAssumption, ElementOfSeq, DriveAssumption
<1> HIDE DEF one
<1>6. Tracked(listed)
  <2>1. 0 < one.count /\ one.cache[0].name = NoName
    BY <1>2, <1>3, <1>4
  <2>2. \A k \in 1 .. Len(p.names) : \A j \in Slot \ {0} : one.cache[j].name # p.names[k]
    BY <1>3, <1>4, <1>5
  <2> QED  BY <1>2, <1>4, <1>5, <2>1, <2>2, LoadedListTracks DEF Onward
<1>7. Len(p.names) <= MaxDisks =>
        \A k \in 1 .. Len(p.names) : ImageFile(p.names[k]) =>
          \E j \in Slot : listed.cache[j].name = p.names[k]
  BY <1>4, <1>5, AllAreListed
<1> HIDE DEF listed
<1>8. Onward(listed, w1)
  BY <1>2, <1>6, BootAsDirectedTracks
<1> HIDE DEF w1
<1>9. Onward(w1, w2)
  BY <1>2, <1>8, BootAsDirectedTracks DEF Onward
<1> HIDE DEF w2
<1>10. Onward(w2, w3)
  BY <1>2, <1>9, BootUndirectedTracks DEF Onward
<1> HIDE DEF w3
<1>11. Onward(w3, w4)
  BY <1>2, <1>10, BootUndirectedTracks DEF Onward
<1> HIDE DEF w4
<1>12. Onward(w4, x)
  BY <1>1, <1>2, <1>11, DriveSelectionTracks DEF Onward
<1>13. Onward(listed, x)
  BY <1>8, <1>9, <1>10, <1>11, <1>12, OnwardTransitive
<1>14. Len(p.names) <= MaxDisks =>
         \A k \in 1 .. Len(p.names) : ImageFile(p.names[k]) =>
           \E j \in Slot : x.cache[j].name = p.names[k]
  BY <1>5, <1>7, <1>13 DEF Onward, Grown
<1> QED  BY <1>13, <1>14 DEF Onward, x

LEMMA core_disk_unload_gameTracks ==
  ASSUME NEW w, Tracked(w)
  PROVE  Tracked(core_disk_unload_game(w))
<1> DEFINE y == Ejected(w, 0)
           z == Ejected(y, 1)
<1>1. 0 \in Drive /\ 1 \in Drive
  BY DEF Drive
<1>2. Tracked(y)
  BY <1>1, EjectedTracks DEF Onward
<1>3. core_disk_unload_game(w) = disks_clear(z)
  BY DEF core_disk_unload_game
<1> HIDE DEF y
<1>4. Tracked(z)
  BY <1>1, <1>2, EjectedTracks DEF Onward
<1> HIDE DEF z
<1> QED  BY <1>3, <1>4, disks_clearTracks

LEMMA ReinsertedTracks ==
  ASSUME NEW w, Tracked(w), opt \in Options, NEW d \in Drive
  PROVE  Onward(w, Reinserted(w, d))
<1> DEFINE y == Ejected(w, d)
<1>1. Onward(w, y)
  BY EjectedTracks
<1>2. Reinserted(w, d) \in {w, InsertDrive(y, d)}
  BY DEF Reinserted
<1> HIDE DEF y
<1>3. Onward(y, InsertDrive(y, d))
  BY <1>1, InsertDriveTracks DEF Onward
<1> QED  BY <1>1, <1>2, <1>3, OnwardReflexive, OnwardTransitive

LEMMA core_disk_drive_reinsertTracks ==
  ASSUME NEW w, Tracked(w), opt \in Options
  PROVE  Onward(w, core_disk_drive_reinsert(w))
<1> DEFINE y == Reinserted(w, 0)
<1>1. 0 \in Drive /\ 1 \in Drive
  BY DEF Drive
<1>2. Onward(w, y)
  BY <1>1, ReinsertedTracks
<1>3. core_disk_drive_reinsert(w) \in {y, Reinserted(y, 1)}
  BY DEF core_disk_drive_reinsert
<1> HIDE DEF y
<1>4. Onward(y, Reinserted(y, 1))
  BY <1>1, <1>2, ReinsertedTracks DEF Onward
<1> QED  BY <1>2, <1>3, <1>4, OnwardTransitive

LEMMA core_disk_swapTracks ==
  ASSUME NEW w, Tracked(w), opt \in Options
  PROVE  Onward(w, core_disk_swap(w))
<1> DEFINE out == Ejected(w, w.drive)
           next == NextIndex(out)
           moved == SelectNext(out)
<1>1. w.drive \in Drive
  BY DEF Tracked, Sane, Good, World
<1>2. Onward(w, out)
  BY <1>1, EjectedTracks
<1>3. next \in 0 .. MaxDisks
  BY <1>2, DiskAssumption DEF Onward, Tracked, Sane, Good, World, NextIndex
<1>4. core_disk_swap(w) = set_eject_state(moved, FALSE) /\ moved = set_image_index(out, next)
  BY DEF core_disk_swap, SelectNext
<1> HIDE DEF out, next, moved
<1>5. Onward(out, moved)
  BY <1>2, <1>3, <1>4, set_image_indexTracks DEF Onward
<1>6. Onward(moved, set_eject_state(moved, FALSE))
  BY <1>5, set_eject_stateTracks DEF Onward
<1> QED  BY <1>2, <1>4, <1>5, <1>6, OnwardTransitive

(* A write changes the disk it is made to, and no other.                   *)
LEMMA SectorWrittenTracks ==
  ASSUME NEW w, Tracked(w), NEW d \in Drive, Inserted(w.drv[d]), NEW v \in Nat
  PROVE  LET x == [w EXCEPT !.drv[d] = SectorWritten(w.drv[d], v)]
         IN /\ Sane(x) /\ Placed(x) /\ UniqueNames(x) /\ Apart(x.drv)
            /\ Current(x) /\ OverlaysApart(x)
            /\ x.cache = w.cache /\ x.saves = w.saves
            /\ \A e \in Drive : ImageFile(x.drv[e].name) =>
                 /\ w.drv[e].name = x.drv[e].name
                 /\ x.drv[e].buffer \in {v, w.drv[e].buffer}
            /\ \A n \in Name : ImageFile(n) =>
                 Held(x, n) = IF w.drv[d].name = n THEN v ELSE Held(w, n)
<1> DEFINE new == SectorWritten(w.drv[d], v)
           x == [w EXCEPT !.drv[d] = new]
<1>1. /\ w \in World /\ w.drv \in [Drive -> DriveState] /\ Sane(w) /\ Placed(w)
      /\ Tended(w) /\ Apart(w.drv)
  BY DEF Tracked, Tended, Sane, Good, World
<1>2. Sane(x) /\ Placed(x)
  BY <1>1, SectorWrittenKeeps
<1>3. /\ new.changed /\ new.name = w.drv[d].name
      /\ ImageFile(new.name) => new.buffer = v
  BY <1>1 DEF SectorWritten, DriveState, ImageFile
<1> HIDE DEF new
<1>4. x.drv = [w.drv EXCEPT ![d] = new] /\ x.cache = w.cache /\ x.saves = w.saves
  BY <1>1 DEF World
<1> HIDE DEF x
<1>5. x.drv[d] = new /\ \A e \in Drive : e # d => x.drv[e] = w.drv[e]
  BY <1>1, <1>4
<1>6. Apart(x.drv) /\ UniqueNames(x)
  BY <1>2, PlacedDiffer DEF Apart, Placed, UniqueNames
<1>7. Current(x) /\ OverlaysApart(x)
  BY <1>1, <1>3, <1>4, <1>5 DEF Tended, Current, OverlaysApart
<1>8. \A e \in Drive : ImageFile(x.drv[e].name) =>
        w.drv[e].name = x.drv[e].name /\ x.drv[e].buffer \in {v, w.drv[e].buffer}
  BY <1>3, <1>5
<1>9. ASSUME NEW n \in Name, ImageFile(n)
      PROVE  Held(x, n) = IF w.drv[d].name = n THEN v ELSE Held(w, n)
  <2>1. CASE w.drv[d].name = n
    <3>1. \A e \in Drive : e # d => x.drv[e].name # n
      BY <1>1, <1>5, <2>1, DriveAssumption DEF Apart, Inserted, Drive
    <3> QED  BY <1>3, <1>5, <1>9, <2>1, <3>1 DEF Held, Drive
  <2>2. CASE w.drv[d].name # n
    <3>1. SlotOf(x, n) = SlotOf(w, n) /\ Unloaded(x, n) = Unloaded(w, n)
      BY <1>4, SameSlots DEF Unloaded
    <3>2. \A e \in Drive : /\ x.drv[e].name = n <=> w.drv[e].name = n
                           /\ x.drv[e].name = n => x.drv[e] = w.drv[e]
      BY <1>3, <1>5, <2>2
    <3>3. 0 \in Drive /\ 1 \in Drive
      BY DEF Drive
    <3> QED  BY <1>4, <2>2, <3>1, <3>2, <3>3 DEF Held
  <2> QED  BY <2>1, <2>2
<1> QED  BY <1>2, <1>4, <1>6, <1>7, <1>8, <1>9 DEF x, new

(* A disk of a savestate that is not marked changed and has not been saved *)
(* in this content is as the cache has it.                                 *)
Recalled(hd, w) ==
  ImageFile(hd.name) =>
    \E i \in Slot : /\ w.cache[i].name = hd.name
                    /\ hd.changed \/ w.cache[i].saved \/ hd.buffer = w.cache[i].data

LEMMA RecalledLater ==
  ASSUME NEW w, NEW x, Grown(w, x), NEW hd, Recalled(hd, w)
  PROVE  Recalled(hd, x)
<1> SUFFICES ASSUME ImageFile(hd.name)
             PROVE  \E i \in Slot :
                      /\ x.cache[i].name = hd.name
                      /\ hd.changed \/ x.cache[i].saved \/ hd.buffer = x.cache[i].data
  BY DEF Recalled
<1>1. PICK i \in Slot : /\ w.cache[i].name = hd.name
                        /\ hd.changed \/ w.cache[i].saved \/ hd.buffer = w.cache[i].data
  BY DEF Recalled
<1>2. w.cache[i].name # NoName
  BY <1>1, DriveAssumption DEF ImageFile
<1> QED  BY <1>1, <1>2 DEF Grown

(* Restoring brings back the disks of the savestate, marked changed where  *)
(* the cache may have something newer, and leaves all others as they were. *)
LEMMA RestoreTracks ==
  ASSUME NEW w, Tracked(w), opt.floppy_modify, NEW drives \in [Drive -> DriveState],
         \A d \in Drive : LoadedDrive(drives[d]),
         \A d \in Drive : Recalled(drives[d], w),
         \A d \in Drive : ImageFile(drives[d].name) => Past(drives[d].buffer),
         Apart(drives),
         \A d \in Drive : Inserted(drives[d]) => SlotOf(w, drives[d].name) # NoSlot
  PROVE  LET x == core_disk_reindex(DrivesRestored(w, drives))
         IN /\ Tracked(x) /\ Grown(w, x)
            /\ \A n \in Name : ImageFile(n) =>
                 Held(x, n) = IF drives[0].name = n THEN drives[0].buffer
                              ELSE IF drives[1].name = n THEN drives[1].buffer
                              ELSE Held(w, n)
<1> DEFINE a == FloppyEject(w, 0)
           e == FloppyEject(a, 1)
           r == DrivesRestored(w, drives)
           in(d) == Inserted(drives[d])
           insert == [d \in Drive |-> in(d)]
           index == [d \in Drive |-> IF in(d) THEN SlotOf(r, drives[d].name) ELSE r.index[d]]
           marked == [d \in Drive |->
                        IF in(d) /\ opt.floppy_modify /\ MayRevert(r, drives[d].name)
                        THEN [drives[d] EXCEPT !.changed = TRUE] ELSE drives[d]]
           x == core_disk_reindex(r)
<1>1. /\ Sane(w) /\ Placed(w) /\ Tended(w) /\ Good(w) /\ Stocked(w) /\ w \in World
      /\ w.drv \in [Drive -> DriveState] /\ 0 \in Drive /\ 1 \in Drive
  BY TrackedStocked DEF Tracked, Sane, Good, World, Drive
<1>2. /\ Tended(a) /\ Grown(w, a) /\ SameHeld(w, a) /\ Stocked(a)
      /\ a.drv = [w.drv EXCEPT ![0] = EmptyDrive]
  BY <1>1, FloppyEjectKeeps, FloppyEjectTracks
<1>3. Sane(x) /\ Placed(x)
  BY <1>1, RestoreKeeps DEF Apart
<1>4. r = [e EXCEPT !.drv = drives]
  BY DEF DrivesRestored
<1> HIDE DEF a, r
<1>5. /\ Tended(e) /\ Grown(a, e) /\ SameHeld(a, e)
      /\ e.drv = [a.drv EXCEPT ![1] = EmptyDrive]
  BY <1>1, <1>2, FloppyEjectKeeps, FloppyEjectTracks DEF Tended
<1> HIDE DEF e
<1>6. e \in World /\ r \in World
  BY <1>4, <1>5 DEF Tended, Good, World
<1>7. r.drv = drives /\ r.cache = e.cache /\ r.saves = e.saves
  BY <1>4, <1>6 DEF World
<1>8. x = [r EXCEPT !.insert = insert, !.index = index, !.drv = marked]
  BY <1>7 DEF core_disk_reindex
<1> HIDE DEF x, insert, index
<1>9. /\ x.drv = marked /\ x.cache = e.cache /\ x.saves = e.saves
  BY <1>6, <1>7, <1>8 DEF World
<1>10. Grown(w, e)
  BY <1>2, <1>5, GrownTransitive
<1>11. Grown(w, x)
  BY <1>9, <1>10 DEF Grown
<1>12. OverlaysApart(x) /\ UniqueNames(x)
  BY <1>5, <1>9 DEF Tended, OverlaysApart, UniqueNames
<1>13. \A d \in Drive : /\ x.drv[d].name = drives[d].name
                        /\ x.drv[d].buffer = drives[d].buffer
  BY <1>9 DEF DriveState
<1>14. Apart(x.drv)
  BY <1>1, <1>13 DEF Apart, Inserted
<1>15. NoneNewer(x)
  BY <1>5, <1>9, <1>13 DEF Tended, NoneNewer
<1>16. ASSUME NEW d \in Drive, NEW i \in Slot, ImageFile(x.drv[d].name), ~x.drv[d].changed,
              x.cache[i].name = x.drv[d].name
       PROVE  x.drv[d].buffer = x.cache[i].data
  <2>1. x.drv[d] = drives[d] /\ (in(d) => ~MayRevert(r, drives[d].name))
    BY <1>9, <1>16 DEF DriveState
  <2>2. in(d) /\ drives[d].name # NoName
    BY <1>16, <2>1, DriveAssumption DEF Inserted, ImageFile
  <2> DEFINE k == SlotOf(r, drives[d].name)
  <2>3. k \in Slot /\ k # NoSlot /\ r.cache[k].name = drives[d].name
    <3>1. r.cache[i].name = drives[d].name
      BY <1>7, <1>9, <1>16, <2>1
    <3> QED  BY <1>6, <3>1, SlotOfFinds
  <2>4. ~r.cache[k].saved
    BY <2>1, <2>2, <2>3 DEF MayRevert
  <2> HIDE DEF in, marked, k
  <2>5. k = i
    BY <1>7, <1>9, <1>12, <1>16, <2>1, <2>2, <2>3 DEF UniqueNames
  <2>6. Recalled(drives[d], e)
    BY <1>10, RecalledLater
  <2>7. PICK j \in Slot : /\ e.cache[j].name = drives[d].name
                          /\ drives[d].changed \/ e.cache[j].saved
                             \/ drives[d].buffer = e.cache[j].data
    BY <1>16, <2>1, <2>6 DEF Recalled
  <2>8. j = i
    BY <1>9, <1>12, <1>16, <2>1, <2>2, <2>7 DEF UniqueNames
  <2> QED  BY <1>7, <1>9, <1>16, <2>1, <2>4, <2>5, <2>7, <2>8
<1>17. Tracked(x)
  BY <1>3, <1>12, <1>14, <1>15, <1>16 DEF Tracked, Tended, Sane, Current
<1>18. ASSUME NEW n \in Name, ImageFile(n)
       PROVE  Held(x, n) = IF drives[0].name = n THEN drives[0].buffer
                           ELSE IF drives[1].name = n THEN drives[1].buffer
                           ELSE Held(w, n)
  <2>1. e.drv[0].name # n /\ e.drv[1].name # n
    BY <1>1, <1>2, <1>5, <1>18, DriveAssumption DEF EmptyDrive, Drive
  <2>2. SlotOf(x, n) = SlotOf(e, n) /\ Unloaded(x, n) = Unloaded(e, n)
    BY <1>9, SameSlots DEF Unloaded
  <2>3. Held(e, n) = Held(w, n)
    BY <1>2, <1>5, <1>18 DEF SameHeld
  <2>4. Held(e, n) = IF SlotOf(x, n) # NoSlot THEN Version(x.cache[SlotOf(x, n)].data)
                     ELSE Unloaded(x, n)
    BY <1>9, <2>1, <2>2 DEF Held
  <2>5. Held(x, n) = IF x.drv[0].name = n THEN x.drv[0].buffer
                     ELSE IF x.drv[1].name = n THEN x.drv[1].buffer
                     ELSE Held(e, n)
    BY <2>4 DEF Held
  <2> QED  BY <1>1, <1>13, <2>3, <2>5
<1> QED  BY <1>11, <1>17, <1>18 DEF x, r

(* What is on an image was written, or supplied by the user.               *)
LEMMA HeldWritten ==
  ASSUME NEW w, Tracked(w), NEW n \in Name, ImageFile(n)
  PROVE  Held(w, n) \in 0 .. writes
<1>1. /\ NoneNewer(w) /\ w \in World /\ n # NoName
      /\ \A d \in Drive : LoadedDrive(w.drv[d])
  BY DriveAssumption DEF Tracked, Tended, Good
<1>2. \A v : Past(v) => Version(v) \in 0 .. writes
  BY <1>1 DEF NoneNewer, Past, Version
<1>3. \A d \in Drive : w.drv[d].name = n => w.drv[d].buffer \in 0 .. writes
  BY <1>1 DEF NoneNewer, Past, LoadedDrive, Inserted
<1>4. Unloaded(w, n) \in 0 .. writes
  BY <1>1, <1>2 DEF NoneNewer, Unloaded
<1>5. SlotOf(w, n) # NoSlot => Version(w.cache[SlotOf(w, n)].data) \in 0 .. writes
  BY <1>1, <1>2, SlotOfFinds DEF NoneNewer
<1>6. 0 \in Drive /\ 1 \in Drive
  BY DEF Drive
<1> QED  BY <1>3, <1>4, <1>5, <1>6 DEF Held

-----------------------------------------------------------------------------
(* What booting does.  While content is opened no disk has been written    *)
(* to, so an eject saves nothing and the cache stays as it was listed.     *)
Idle(w) == \A d \in Drive : ~w.drv[d].changed

SameList(w, x) == Sane(x) /\ Idle(x) /\ x.cache = w.cache /\ x.count = w.count

ReadableAt(w, i) == i < MaxDisks /\ Readable(w.cache[i].name, w.cache[i].data)

LEMMA EjectedDoes ==
  ASSUME NEW w, Sane(w), Idle(w), NEW d \in Drive
  PROVE  LET x == Ejected(w, d)
         IN /\ SameList(w, x) /\ x.index = w.index /\ x.drive = w.drive
            /\ x.insert = [w.insert EXCEPT ![d] = FALSE]
<1> DEFINE x == Ejected(w, d)
<1>1. /\ w \in World /\ w.insert \in [Drive -> BOOLEAN] /\ w.drv \in [Drive -> DriveState]
  BY DEF Sane, Good, World
<1>2. /\ Sane(x) /\ x.index = w.index /\ x.drive = w.drive /\ x.count = w.count
      /\ x.insert = [w.insert EXCEPT ![d] = FALSE]
  BY EjectedKeeps
<1>3. FloppyEject(w, d) = [w EXCEPT !.drv[d] = EmptyDrive]
  BY DEF FloppyEject, SavesImage, SavesOverlay, Idle
<1>4. x.cache = w.cache /\ Idle(x)
  <2>1. CASE w.insert[d]
    <3>1. x = [[w EXCEPT !.drv[d] = EmptyDrive] EXCEPT !.insert[d] = FALSE]
      BY <1>3, <2>1 DEF Ejected
    <3> HIDE DEF x
    <3>2. x.cache = w.cache /\ x.drv = [w.drv EXCEPT ![d] = EmptyDrive]
      BY <1>1, <3>1 DEF World
    <3> QED  BY <1>1, <3>2 DEF Idle, EmptyDrive
  <2>2. CASE ~w.insert[d]
    BY <2>2 DEF Ejected
  <2> QED  BY <2>1, <2>2
<1> QED  BY <1>2, <1>4 DEF SameList

LEMMA InsertingDoes ==
  ASSUME NEW w, Sane(w), Idle(w), NEW d \in Drive, opt \in Options, ~w.insert[d]
  PROVE  LET x == Inserting(w, d)
         IN /\ SameList(w, x) /\ x.index = w.index
            /\ x.insert = [w.insert EXCEPT ![d] = ReadableAt(w, w.index[d])]
<1> DEFINE x == Inserting(w, d)
           i == w.index[d]
           new == ReadImage(w.cache[i].name, w.cache[i].data, w.cache[i].extra, opt.enable_save)
<1>1. /\ w \in World /\ w.insert \in [Drive -> BOOLEAN] /\ w.drv \in [Drive -> DriveState]
  BY DEF Sane, Good, World
<1>2. Sane(x) /\ x.index = w.index /\ x.count = w.count /\ x.cache = w.cache
  BY InsertingKeeps
<1>3. CASE ReadableAt(w, i)
  <2>1. x = [w EXCEPT !.drv[d] = new, !.insert[d] = TRUE]
    BY <1>3 DEF Inserting, ReadableAt
  <2>2. ~new.changed
    BY DEF ReadImage
  <2> HIDE DEF x, new
  <2>3. x.insert = [w.insert EXCEPT ![d] = TRUE] /\ x.drv = [w.drv EXCEPT ![d] = new]
    BY <1>1, <2>1 DEF World
  <2>4. Idle(x)
    BY <1>1, <2>2, <2>3 DEF Idle
  <2>5. x.insert = [w.insert EXCEPT ![d] = ReadableAt(w, i)]
    BY <1>3, <2>3
  <2> QED  BY <1>2, <2>4, <2>5 DEF SameList, x
<1>4. CASE ~ReadableAt(w, i)
  <2>1. x = w
    BY <1>4 DEF Inserting, ReadableAt
  <2>2. ReadableAt(w, i) = FALSE
    BY <1>4 DEF ReadableAt
  <2>3. w.insert = [w.insert EXCEPT ![d] = FALSE]
    BY <1>1
  <2> HIDE DEF x
  <2> QED  BY <1>2, <2>1, <2>2, <2>3 DEF SameList, x
<1> QED  BY <1>3, <1>4

(* A drive that is told to take an entry has it if it is readable.  The    *)
(* other drive keeps its disk unless it is the same one.                   *)
LEMMA BootDoes ==
  ASSUME NEW w, Sane(w), Idle(w), NEW d \in Drive, NEW i \in 0 .. MaxDisks, opt \in Options
  PROVE  LET x == Boot(w, d, i)
             o == 1 - d
         IN /\ SameList(w, x)
            /\ x.index[d] = i /\ x.index[o] = w.index[o]
            /\ ReadableAt(w, i) => x.insert[d]
            /\ ~w.insert[d] /\ ~ReadableAt(w, i) => ~x.insert[d]
            /\ x.insert[o] => w.insert[o]
            /\ w.insert[o] /\ w.index[o] # i => x.insert[o]
<1> DEFINE o == 1 - d
           w1 == [w EXCEPT !.drive = d]
           w2 == set_image_index(w1, i)
           w3 == IF w2.insert[o] /\ w2.index[o] = w2.index[d] THEN Ejected(w2, o) ELSE w2
           x == Boot(w, d, i)
<1>1. /\ o \in Drive /\ o # d /\ w \in World /\ w.insert \in [Drive -> BOOLEAN]
      /\ w.index \in [Drive -> 0 .. MaxDisks]
  BY DEF Drive, Sane, Good, World
<1>2. /\ SameList(w, w1) /\ w1.index = w.index /\ w1.insert = w.insert /\ w1.drive = d
      /\ w1 \in World
  <2>1. Sane(w1)
    BY DriveSelectionKeeps
  <2>2. /\ w1.index = w.index /\ w1.insert = w.insert /\ w1.drive = d /\ w1.drv = w.drv
        /\ w1.cache = w.cache /\ w1.count = w.count
    BY <1>1 DEF World
  <2> HIDE DEF w1
  <2> QED  BY <2>1, <2>2 DEF SameList, Idle, Sane, Good
<1> HIDE DEF w1, o
<1>3. /\ SameList(w, w2) /\ w2.drive = d /\ w2.index = [w.index EXCEPT ![d] = i]
      /\ w2.insert[o] = w.insert[o] /\ w2.insert[d] \in BOOLEAN /\ w2 \in World
      /\ w2.insert[d] => w.insert[d] /\ w.index[d] = i
      /\ w2.insert \in [Drive -> BOOLEAN]
  <2> DEFINE y == Ejected(w1, d)
  <2>1. Sane(w2)
    BY <1>2, set_image_indexKeeps DEF SameList
  <2>2. CASE i = w.index[d]
    <3>1. w2 = w1 /\ w.index = [w.index EXCEPT ![d] = i]
      BY <1>1, <1>2, <2>2 DEF set_image_index
    <3> HIDE DEF w2
    <3>2. SameList(w, w2) /\ w2.drive = d /\ w2.insert = w.insert /\ w2.index = w.index
          /\ w2 \in World
      BY <1>2, <3>1
    <3>3. w2.index = [w.index EXCEPT ![d] = i]
      BY <3>1, <3>2
    <3> HIDE DEF SameList
    <3> QED  BY <1>1, <2>2, <3>2, <3>3
  <2>3. CASE i # w.index[d]
    <3>1. /\ SameList(w1, y) /\ y.index = w1.index /\ y.drive = w1.drive
          /\ y.insert = [w1.insert EXCEPT ![d] = FALSE]
      BY <1>2, EjectedDoes DEF SameList
    <3>2. w2 = [y EXCEPT !.index[d] = i]
      BY <1>2, <2>3 DEF set_image_index
    <3> HIDE DEF w2, y
    <3>3. y \in World
      BY <3>1 DEF SameList, Sane, Good
    <3>4. /\ w2.index = [y.index EXCEPT ![d] = i] /\ w2.insert = y.insert
          /\ w2.drive = y.drive /\ w2.drv = y.drv /\ w2.cache = y.cache /\ w2.count = y.count
      BY <3>2, <3>3 DEF World
    <3>5. SameList(w, w2)
      BY <1>2, <2>1, <3>1, <3>4 DEF SameList, Idle
    <3>6. w2 \in World
      BY <2>1 DEF Sane, Good
    <3>7. w2.index = [w.index EXCEPT ![d] = i] /\ w2.drive = d
      BY <1>2, <3>1, <3>4
    <3>8. w2.insert = [w.insert EXCEPT ![d] = FALSE]
      BY <1>2, <3>1, <3>4
    <3>9. w2.insert[o] = w.insert[o] /\ ~w2.insert[d] /\ w2.insert \in [Drive -> BOOLEAN]
      BY <1>1, <3>8
    <3> QED  BY <3>5, <3>6, <3>7, <3>9
  <2> QED  BY <2>2, <2>3
<1> HIDE DEF w2
<1>4. w2.index[d] = i /\ w2.index[o] = w.index[o]
  BY <1>1, <1>3
<1>5. x = InsertDrive(w2, d)
  BY <1>3 DEF Boot, set_eject_state, w1, w2
<1> HIDE DEF x
<1>6. CASE w2.insert[d]
  <2>1. x = w2
    BY <1>5, <1>6 DEF InsertDrive
  <2> QED  BY <1>1, <1>3, <1>4, <1>6, <2>1 DEF o, x
<1>7. CASE ~w2.insert[d]
  <2>1. x = Inserting(w3, d)
    BY <1>5, <1>7 DEF InsertDrive, o
  <2>2. /\ SameList(w, w3) /\ w3.index = w2.index /\ ~w3.insert[d]
        /\ w3.insert \in [Drive -> BOOLEAN]
        /\ w3.insert[o] <=> w2.insert[o] /\ w2.index[o] # i
    <3>1. CASE w2.insert[o] /\ w2.index[o] = i
      <4>1. w3 = Ejected(w2, o)
        BY <1>4, <3>1
      <4>2. /\ SameList(w2, Ejected(w2, o)) /\ Ejected(w2, o).index = w2.index
            /\ Ejected(w2, o).insert = [w2.insert EXCEPT ![o] = FALSE]
        BY <1>1, <1>3, EjectedDoes DEF SameList
      <4> HIDE DEF w3
      <4> QED  BY <1>1, <1>3, <1>7, <3>1, <4>1, <4>2 DEF SameList
    <3>2. CASE ~(w2.insert[o] /\ w2.index[o] = i)
      <4>1. w3 = w2
        BY <1>4, <3>2
      <4> HIDE DEF w3
      <4> QED  BY <1>1, <1>3, <1>7, <3>2, <4>1
    <3> QED  BY <3>1, <3>2
  <2> HIDE DEF w3
  <2>3. /\ SameList(w3, x) /\ x.index = w3.index
        /\ x.insert = [w3.insert EXCEPT ![d] = ReadableAt(w3, i)]
    BY <1>4, <2>1, <2>2, InsertingDoes DEF SameList
  <2>4. ReadableAt(w3, i) = ReadableAt(w, i) /\ ReadableAt(w, i) \in BOOLEAN
    BY <2>2 DEF SameList, ReadableAt
  <2>5. x.insert[d] = ReadableAt(w, i) /\ x.insert[o] = w3.insert[o]
    BY <1>1, <2>2, <2>3, <2>4
  <2>6. SameList(w, x)
    BY <2>2, <2>3 DEF SameList
  <2> QED  BY <1>3, <1>4, <2>2, <2>3, <2>5, <2>6 DEF o, x
<1> QED  BY <1>6, <1>7


(* A directive inside the list is obeyed, and nothing else is done.        *)
LEMMA BootAsDirectedDoes ==
  ASSUME NEW w, Sane(w), Idle(w), NEW p \in Playlists, NEW d \in Drive, opt \in Options
  PROVE  LET x == BootAsDirected(w, p, d)
             i == p.boot[d] - 1
             told == p.boot[d] \in 1 .. w.count /\ (d = 1 => opt.enable_b)
         IN /\ SameList(w, x)
            /\ ~told => x = w
            /\ told => /\ x.index[d] = i /\ x.index[1 - d] = w.index[1 - d]
                       /\ ReadableAt(w, i) => x.insert[d]
                       /\ x.insert[1 - d] => w.insert[1 - d]
                       /\ w.insert[1 - d] /\ w.index[1 - d] # i => x.insert[1 - d]
<1> DEFINE x == BootAsDirected(w, p, d)
           i == p.boot[d] - 1
           told == p.boot[d] \in 1 .. w.count /\ (d = 1 => opt.enable_b)
<1>1. w.count \in 0 .. MaxDisks /\ p.boot[d] \in Int
  BY DiskAssumption DEF Sane, Good, World
<1>2. CASE ~told
  <2>1. x = w
    BY <1>1, <1>2, DiskAssumption DEF BootAsDirected, BootDirective
  <2> QED  BY <1>2, <2>1 DEF SameList
<1>3. CASE told
  <2>1. x = Boot(w, d, i) /\ i \in 0 .. MaxDisks
    BY <1>1, <1>3, DiskAssumption DEF BootAsDirected, BootDirective
  <2> HIDE DEF x, i, told
  <2> QED  BY <1>3, <2>1, BootDoes DEF x, i, told
<1> QED  BY <1>2, <1>3

(* Without a directive the first disk not in the other drive is taken.     *)
LEMMA BootUndirectedDoes ==
  ASSUME NEW w, Sane(w), Idle(w), NEW p \in Playlists, NEW d \in Drive, opt \in Options
  PROVE  LET x == BootUndirected(w, p, d)
             i == FirstBootable(w, d)
             free == /\ p.boot[d] < 0
                     /\ d = 1 => opt.enable_b /\ w.cache[i].data # NoData
                     /\ ~(w.insert[1 - d] /\ w.index[1 - d] = i)
         IN /\ SameList(w, x)
            /\ ~free => x = w
            /\ free => x.index[d] = i /\ (ReadableAt(w, i) => x.insert[d])
            /\ x.index[1 - d] = w.index[1 - d] /\ (x.insert[1 - d] <=> w.insert[1 - d])
<1> DEFINE x == BootUndirected(w, p, d)
           i == FirstBootable(w, d)
           free == /\ p.boot[d] < 0
                   /\ d = 1 => opt.enable_b /\ w.cache[i].data # NoData
                   /\ ~(w.insert[1 - d] /\ w.index[1 - d] = i)
<1>1. /\ w.count \in 0 .. MaxDisks /\ p.boot[d] \in Int
      /\ BootDirective(w, p, d) < 0 <=> p.boot[d] < 0
  BY DiskAssumption DEF Sane, Good, World, BootDirective
<1>2. i \in 0 .. MaxDisks
  BY FirstBootableType, DiskAssumption DEF Slot, Sane, Good
<1> HIDE DEF i
<1>3. CASE ~free
  <2>1. x = w
    BY <1>1, <1>3 DEF BootUndirected, i
  <2> QED  BY <1>3, <2>1 DEF SameList, i
<1>4. CASE free
  <2>1. x = Boot(w, d, i)
    BY <1>1, <1>4 DEF BootUndirected, i
  <2>2. w.insert[1 - d] => w.index[1 - d] # i
    BY <1>4
  <2> HIDE DEF x, free
  <2> QED  BY <1>2, <1>4, <2>1, <2>2, BootDoes DEF x, i, free
<1> QED  BY <1>3, <1>4

(* Four steps from empty drives obey all directives.                       *)
LEMMA BootedDoes ==
  ASSUME NEW w, Sane(w), Idle(w), NEW p \in Playlists, opt \in Options,
         \A d \in Drive : ~w.insert[d], w.count > 0
  PROVE  BootedAsTold(Booted(w, p), p)
<1> DEFINE w1 == BootAsDirected(w, p, 1)
           w2 == BootAsDirected(w1, p, 0)
           w3 == BootUndirected(w2, p, 0)
           w4 == BootUndirected(w3, p, 1)
           a == p.boot[0]
           b == p.boot[1]
<1>1. /\ 0 \in Drive /\ 1 \in Drive /\ 1 - 0 = 1 /\ 1 - 1 = 0
      /\ w.count \in 1 .. MaxDisks /\ a \in Int /\ b \in Int
  BY DiskAssumption DEF Drive, Sane, Good, World
<1>2. Booted(w, p) = w4
  BY DEF Booted
<1>3. /\ SameList(w, w1) /\ ~w1.insert[0]
      /\ b \in 1 .. w.count /\ opt.enable_b =>
           w1.index[1] = b - 1 /\ (ReadableAt(w, b - 1) => w1.insert[1])
      /\ ~(b \in 1 .. w.count /\ opt.enable_b) => w1 = w
  BY <1>1, BootAsDirectedDoes
<1> HIDE DEF w1
<1>4. /\ Sane(w1) /\ Idle(w1) /\ w1.count = w.count /\ w1.cache = w.cache
  BY <1>3 DEF SameList
<1>5. /\ SameList(w1, w2) /\ w2.index[1] = w1.index[1]
      /\ a \in 1 .. w.count => w2.index[0] = a - 1 /\ (ReadableAt(w1, a - 1) => w2.insert[0])
      /\ ~(a \in 1 .. w.count) => w2 = w1
      /\ w2.insert[1] => w1.insert[1]
      /\ w1.insert[1] /\ ~(a \in 1 .. w.count /\ w1.index[1] = a - 1) => w2.insert[1]
  BY <1>1, <1>4, BootAsDirectedDoes
<1> HIDE DEF w2
<1>6. /\ Sane(w2) /\ Idle(w2) /\ w2.count = w.count /\ w2.cache = w.cache
  BY <1>4, <1>5 DEF SameList
<1>7. /\ SameList(w2, w3) /\ w3.index[1] = w2.index[1] /\ (w3.insert[1] <=> w2.insert[1])
      /\ a >= 0 => w3 = w2
      /\ a < 0 /\ ~w2.insert[1] => /\ w3.index[0] = FirstBootable(w2, 0)
                                   /\ ReadableAt(w2, FirstBootable(w2, 0)) => w3.insert[0]
  BY <1>1, <1>6, BootUndirectedDoes
<1> HIDE DEF w3
<1>8. /\ Sane(w3) /\ Idle(w3) /\ w3.count = w.count /\ w3.cache = w.cache
  BY <1>6, <1>7 DEF SameList
<1>9. /\ SameList(w3, w4) /\ w4.index[0] = w3.index[0] /\ (w4.insert[0] <=> w3.insert[0])
      /\ b >= 0 => w4 = w3
      /\ /\ b < 0 /\ opt.enable_b /\ w3.cache[FirstBootable(w3, 1)].data # NoData
         /\ ~(w3.insert[0] /\ w3.index[0] = FirstBootable(w3, 1))
         => /\ w4.index[1] = FirstBootable(w3, 1)
            /\ ReadableAt(w3, FirstBootable(w3, 1)) => w4.insert[1]
  BY <1>1, <1>8, BootUndirectedDoes
<1> HIDE DEF w4
<1>10. w4.count = w.count /\ w4.cache = w.cache
  BY <1>8, <1>9 DEF SameList
<1> DEFINE listed == 0 .. w.count - 1
           disks == {i \in listed : w.cache[i].data # NoData}
           readable(i) == Readable(w.cache[i].name, w.cache[i].data)
           asks(d, i) == p.boot[d] = i + 1 /\ readable(i)
           holds(d, i) == w4.insert[d] /\ w4.index[d] = i
<1>11. \A i \in listed : /\ readable(i) <=> ReadableAt(w, i)
                         /\ ReadableAt(w1, i) <=> ReadableAt(w, i)
                         /\ ReadableAt(w2, i) <=> ReadableAt(w, i)
                         /\ ReadableAt(w3, i) <=> ReadableAt(w, i)
  BY <1>1, <1>4, <1>6, <1>8, DiskAssumption DEF ReadableAt
<1>12. ASSUME NEW d \in Drive, p.boot[d] = 0 \/ p.boot[d] > w.count
       PROVE  ~w4.insert[d]
  <2>1. CASE d = 0
    <3>1. w3 = w2 /\ w2 = w1
      BY <1>1, <1>5, <1>7, <1>12, <2>1
    <3> QED  BY <1>3, <1>9, <2>1, <3>1
  <2>2. CASE d = 1
    <3>1. w4 = w3 /\ w1 = w
      BY <1>1, <1>3, <1>9, <1>12, <2>2
    <3> QED  BY <1>1, <1>5, <1>7, <2>2, <3>1
  <2> QED  BY <2>1, <2>2 DEF Drive
<1>13. ASSUME NEW i \in listed, asks(0, i)
       PROVE  holds(0, i)
  <2>1. a \in 1 .. w.count /\ a - 1 = i /\ a >= 0
    BY <1>1, <1>13
  <2>2. w2.insert[0] /\ w2.index[0] = i
    BY <1>5, <1>11, <1>13, <2>1
  <2> QED  BY <1>7, <1>9, <2>1, <2>2
<1>14. ASSUME NEW i \in listed, asks(1, i), ~asks(0, i), opt.enable_b
       PROVE  holds(1, i)
  <2>1. b \in 1 .. w.count /\ b - 1 = i /\ b >= 0
    BY <1>1, <1>14
  <2>2. w1.insert[1] /\ w1.index[1] = i
    BY <1>3, <1>11, <1>14, <2>1
  <2>3. a - 1 # i
    BY <1>1, <1>14
  <2>4. w2.insert[1] /\ w2.index[1] = i
    BY <1>5, <2>2, <2>3
  <2> QED  BY <1>7, <1>9, <2>1, <2>4
<1>15. ASSUME \A d \in Drive : p.boot[d] = -1, \A i \in disks : readable(i), disks # {}
       PROVE  /\ holds(0, Least(disks))
              /\ disks \ {Least(disks)} # {} /\ opt.enable_b
                   => holds(1, Least(disks \ {Least(disks)}))
  <2>1. a = -1 /\ b = -1
    BY <1>1, <1>15
  <2>2. w1 = w /\ w2 = w /\ ~w2.insert[1] /\ ~w2.insert[0]
    BY <1>1, <1>3, <1>5, <2>1
  <2> DEFINE first == Least(disks)
             others == disks \ {first}
  <2>3. disks \in SUBSET Nat /\ others \in SUBSET Nat /\ first \in disks
    BY <1>1, <1>15, LeastIn
  <2>4. FirstBootable(w2, 0) = first
    <3>1. Bootable(w2, 0) = disks
      BY <1>1, <2>2 DEF Bootable
    <3> QED  BY <1>15, <3>1 DEF FirstBootable
  <2>5. w3.insert[0] /\ w3.index[0] = first
    <3>1. ReadableAt(w2, first)
      BY <1>11, <1>15, <2>3
    <3> HIDE DEF first
    <3> QED  BY <1>7, <2>1, <2>2, <2>4, <3>1
  <2>6. ASSUME others # {}, opt.enable_b
        PROVE  holds(1, Least(others))
    <3>1. Bootable(w3, 1) = others
      BY <1>1, <1>8, <2>5 DEF Bootable
    <3>2. FirstBootable(w3, 1) = Least(others)
      BY <2>6, <3>1 DEF FirstBootable
    <3>3. Least(others) \in others
      BY <2>3, <2>6, LeastIn
    <3>4. ReadableAt(w3, Least(others)) /\ w3.cache[Least(others)].data # NoData
      BY <1>8, <1>11, <1>15, <3>3
    <3> HIDE DEF first, others, disks
    <3>5. Least(others) # first
      BY <3>3 DEF others
    <3> QED  BY <1>9, <2>1, <2>5, <2>6, <3>2, <3>4, <3>5
  <2> QED  BY <1>9, <2>5, <2>6
<1> QED  BY <1>2, <1>10, <1>12, <1>13, <1>14, <1>15 DEF BootedAsTold

(* Opening a content obeys its boot directives.                            *)
LEMMA core_disk_load_gameDoes ==
  ASSUME NEW w, Good(w), NEW p \in Playlists, opt \in Options
  PROVE  BootedAsTold(core_disk_load_game(w, p), p)
<1> DEFINE clear == disks_clear(w)
           one == [clear EXCEPT !.count = 1]
           listed == LoadedList(one, 0, p.names)
           booted == Booted(listed, p)
           x == core_disk_load_game(w, p)
<1>1. x = [booted EXCEPT !.drive = 0]
  BY DEF core_disk_load_game, Listed
<1>2. 0 \in Slot /\ p.names \in Seq(Name) \ {<< >>}
  BY DiskAssumption DEF Slot
<1>3. Sane(clear) /\ \A d \in Drive : ~clear.insert[d] /\ clear.drv[d] = EmptyDrive
  BY disks_clearKeeps
<1> HIDE DEF clear
<1>4. /\ Sane(one) /\ one.count = 1
      /\ \A d \in Drive : ~one.insert[d] /\ one.drv[d] = EmptyDrive
  <2>1. clear \in World /\ 1 \in 0 .. MaxDisks
    BY <1>3, DiskAssumption DEF Sane, Good
  <2>2. /\ one.insert = clear.insert /\ one.drv = clear.drv
        /\ one.cache = clear.cache /\ one.count = 1 /\ one \in World
    BY <2>1 DEF World
  <2> HIDE DEF one
  <2> QED  BY <1>3, <2>2 DEF Sane, Good, Agreed
<1> HIDE DEF one
<1>5. /\ Sane(listed) /\ listed.insert = one.insert /\ listed.drv = one.drv
      /\ listed.count > 0
  BY <1>2, <1>4, LoadedListKeeps
<1> HIDE DEF listed
<1>6. Idle(listed) /\ \A d \in Drive : ~listed.insert[d]
  BY <1>4, <1>5 DEF Idle, EmptyDrive
<1>7. BootedAsTold(booted, p) /\ Sane(booted)
  BY <1>5, <1>6, BootedDoes, BootedKeeps
<1> HIDE DEF booted, x
<1>8. /\ x.count = booted.count /\ x.cache = booted.cache
      /\ x.insert = booted.insert /\ x.index = booted.index
  BY <1>1, <1>7 DEF Sane, Good, World
<1>9. BootedAsTold(x, p)
  BY <1>7, <1>8 DEF BootedAsTold
<1> QED  BY <1>9 DEF x

-----------------------------------------------------------------------------
(* Which disk each version was written to                                  *)

NoOverlays == \A n \in Name : Format[n] # "stx"

(* Contents v are found under the name n only if version v, if it is one   *)
(* that the machine wrote, was written to the disk n.                      *)
Of(written, n, v) == v \in Nat \ {0} => v \in DOMAIN written /\ written[v] = n

DriveOf(written, hd) == Of(written, hd.name, hd.buffer) /\ Of(written, hd.name, hd.overlay)

(* An overlay is stored by extra_name, so that has to be the name of the   *)
(* entry, and of an STX disk.                                              *)
EntryOf(written, e) ==
  /\ Of(written, e.name, e.data) /\ Of(written, e.name, e.extra)
  /\ e.extra_name = NoName \/ (e.extra_name = e.name /\ Format[e.name] = "stx")

Owned(written, w) ==
  /\ \A i \in Slot : EntryOf(written, w.cache[i])
  /\ \A i \in Slot : i >= w.count => w.cache[i].extra_name = NoName
  /\ \A d \in Drive : DriveOf(written, w.drv[d])
  /\ \A n \in Name : Of(written, n, w.saves[n])

Traced(written, w) == Sane(w) /\ Owned(written, w)

LEMMA FileWrittenOwned ==
  ASSUME NEW o, NEW saves \in [Name -> Content], \A n \in Name : Of(o, n, saves[n]),
         NEW m \in Name, NEW v, Of(o, m, v)
  PROVE  \A n \in Name : Of(o, n, FileWritten(saves, m, v)[n])
<1>1. Of(o, m, Junk)
  BY DriveAssumption DEF Of
<1>2. \/ FileWritten(saves, m, v) = saves
      \/ FileWritten(saves, m, v) = [saves EXCEPT ![m] = v]
      \/ FileWritten(saves, m, v) = [saves EXCEPT ![m] = Junk]
  BY DEF FileWritten
<1> QED  BY <1>1, <1>2

(* An image is saved under the name it was written to.                     *)
LEMMA SaveOwned ==
  ASSUME NEW o, NEW w, Good(w), Owned(o, w), NEW n \in Name, NEW v \in Nat, Of(o, n, v)
  PROVE  Owned(o, core_disk_save(w, n, v))
<1> DEFINE i == SlotOf(w, n)
           x == core_disk_save(w, n, v)
           cache == IF i = NoSlot THEN w.cache
                    ELSE [w.cache EXCEPT ![i].data = v, ![i].saved = TRUE]
           saves == IF opt.enable_save THEN FileWritten(w.saves, n, v) ELSE w.saves
<1>1. w \in World /\ w.cache \in [Slot -> Entry] /\ w.saves \in [Name -> Content]
  BY DEF Good, World
<1>2. (i \in Slot /\ w.cache[i].name = n) \/ i = NoSlot
  BY <1>1, SlotOfFinds
<1>3. x = [w EXCEPT !.saves = saves, !.cache = cache]
  BY DEF core_disk_save
<1> HIDE DEF x, i
<1>4. \A m \in Name : Of(o, m, saves[m])
  BY <1>1, FileWrittenOwned DEF Owned
<1>5. ASSUME NEW j \in Slot
      PROVE  /\ cache[j].name = w.cache[j].name
             /\ cache[j].extra = w.cache[j].extra /\ cache[j].extra_name = w.cache[j].extra_name
             /\ cache[j].data = w.cache[j].data \/ (cache[j].data = v /\ w.cache[j].name = n)
  BY <1>1, <1>2 DEF Entry
<1> HIDE DEF saves, cache
<1>6. \A j \in Slot : EntryOf(o, cache[j])
  <2> TAKE j \in Slot
  <2>1. EntryOf(o, w.cache[j])
    BY DEF Owned
  <2> QED  BY <1>5, <2>1 DEF EntryOf
<1>7. x.cache = cache /\ x.saves = saves /\ x.drv = w.drv /\ x.count = w.count
  BY <1>1, <1>3 DEF World
<1>8. Owned(o, x)
  BY <1>4, <1>5, <1>6, <1>7 DEF Owned
<1> QED  BY <1>8 DEF x

(* So is an overlay: the entry is found by extra_name.                     *)
LEMMA OverlayOwned ==
  ASSUME NEW o, NEW w, Good(w), Owned(o, w), NEW n \in Name, NEW v \in Nat, Of(o, n, v)
  PROVE  Owned(o, STX_WriteDisk(w, n, v))
<1> DEFINE i == ExtraSlotOf(w, n)
           x == STX_WriteDisk(w, n, v)
           collected == IF w.advanced THEN Junk ELSE v
           cache == IF i = NoSlot THEN w.cache
                    ELSE [w.cache EXCEPT ![i].extra = collected, ![i].saved = TRUE]
<1>1. w \in World /\ w.cache \in [Slot -> Entry] /\ w.saves \in [Name -> Content]
  BY DEF Good, World
<1>2. (i \in Slot /\ w.cache[i].extra_name = n) \/ i = NoSlot
  <2> DEFINE found == {j \in Slot : w.cache[j].extra_name = n}
  <2>1. CASE found = {}
    BY <2>1 DEF ExtraSlotOf
  <2>2. CASE found # {}
    <3>1. found \in SUBSET Nat
      BY DiskAssumption DEF Slot
    <3>2. Least(found) \in found
      BY <2>2, <3>1, LeastIn
    <3> QED  BY <2>2, <3>2 DEF ExtraSlotOf
  <2> QED  BY <2>1, <2>2
<1>3. n # NoName /\ Of(o, n, collected) /\ Of(o, n, NoData)
  BY DriveAssumption DEF Of
<1>4. \/ x = w
      \/ x = [w EXCEPT !.saves[n] = NoData, !.advanced = TRUE]
      \/ x = [w EXCEPT !.saves[n] = v, !.advanced = TRUE, !.cache = cache]
  BY DEF STX_WriteDisk
<1> HIDE DEF x, i, collected
<1>5. ASSUME NEW j \in Slot
      PROVE  /\ cache[j].name = w.cache[j].name
             /\ cache[j].data = w.cache[j].data /\ cache[j].extra_name = w.cache[j].extra_name
             /\ \/ cache[j].extra = w.cache[j].extra
                \/ cache[j].extra = collected /\ w.cache[j].extra_name = n
  BY <1>1, <1>2 DEF Entry
<1> HIDE DEF cache
<1>6. \A j \in Slot : EntryOf(o, cache[j])
  <2> TAKE j \in Slot
  <2>1. EntryOf(o, w.cache[j])
    BY DEF Owned
  <2> QED  BY <1>3, <1>5, <2>1 DEF EntryOf
<1>7. CASE x = w
  BY <1>7 DEF x
<1>8. CASE x = [w EXCEPT !.saves[n] = NoData, !.advanced = TRUE]
  <2>1. /\ x.cache = w.cache /\ x.drv = w.drv /\ x.count = w.count
        /\ x.saves = [w.saves EXCEPT ![n] = NoData]
    BY <1>1, <1>8 DEF World
  <2>2. Owned(o, x)
    BY <1>1, <1>3, <2>1 DEF Owned
  <2> QED  BY <2>2 DEF x
<1>9. CASE x = [w EXCEPT !.saves[n] = v, !.advanced = TRUE, !.cache = cache]
  <2>1. /\ x.cache = cache /\ x.drv = w.drv /\ x.count = w.count
        /\ x.saves = [w.saves EXCEPT ![n] = v]
    BY <1>1, <1>9 DEF World
  <2>2. Owned(o, x)
    BY <1>1, <1>5, <1>6, <2>1 DEF Owned
  <2> QED  BY <2>2 DEF x
<1> QED  BY <1>4, <1>7, <1>8, <1>9

LEMMA FloppyEjectOwned ==
  ASSUME NEW o, NEW w, Good(w), Owned(o, w), NEW d \in Drive
  PROVE  Owned(o, FloppyEject(w, d))
<1> DEFINE hd == w.drv[d]
           stored == CASE SavesImage(hd)   -> core_disk_save(w, hd.name, hd.buffer)
                       [] SavesOverlay(hd) -> STX_WriteDisk(w, hd.name, hd.overlay)
                       [] OTHER            -> w
           x == FloppyEject(w, d)
<1>1. w \in World /\ w.drv \in [Drive -> DriveState] /\ LoadedDrive(hd) /\ DriveOf(o, hd)
  BY DEF Good, World, Owned
<1>2. SavesImage(hd) => hd.name \in Name /\ hd.buffer \in Nat /\ Of(o, hd.name, hd.buffer)
  BY <1>1 DEF SavesImage, Inserted, DriveState, LoadedDrive, DriveOf
<1>3. SavesOverlay(hd) => hd.name \in Name /\ hd.overlay \in Nat /\ Of(o, hd.name, hd.overlay)
  BY <1>1 DEF SavesOverlay, Inserted, DriveState, LoadedDrive, DriveOf
<1>4. ~(SavesImage(hd) /\ SavesOverlay(hd))
  BY DEF SavesImage, SavesOverlay
<1>5. Good(stored) /\ Owned(o, stored) /\ stored.drv = w.drv
  <2>1. CASE SavesImage(hd)
    BY <1>2, <1>4, <2>1, SaveKeeps, SaveOwned
  <2>2. CASE SavesOverlay(hd)
    BY <1>3, <1>4, <2>2, OverlayKeeps, OverlayOwned
  <2>3. CASE ~SavesImage(hd) /\ ~SavesOverlay(hd)
    BY <2>3
  <2> QED  BY <2>1, <2>2, <2>3
<1>6. x = [stored EXCEPT !.drv[d] = EmptyDrive]
  BY DEF FloppyEject
<1> HIDE DEF hd, stored, x
<1>7. /\ x.drv = [w.drv EXCEPT ![d] = EmptyDrive] /\ x.cache = stored.cache
      /\ x.saves = stored.saves /\ x.count = stored.count
  BY <1>5, <1>6 DEF Good, World
<1>8. DriveOf(o, EmptyDrive)
  BY DriveAssumption DEF DriveOf, Of, EmptyDrive
<1>9. \A e \in Drive : DriveOf(o, x.drv[e])
  BY <1>1, <1>7, <1>8 DEF Owned
<1>10. Owned(o, x)
  BY <1>5, <1>7, <1>9 DEF Owned
<1> QED  BY <1>10 DEF x

LEMMA EjectedOwned ==
  ASSUME NEW o, NEW w, Traced(o, w), NEW d \in Drive
  PROVE  Traced(o, Ejected(w, d))
<1> DEFINE y == FloppyEject(w, d)
           x == Ejected(w, d)
<1>1. Sane(x) /\ Good(w)
  BY EjectedKeeps DEF Traced, Sane
<1>2. CASE ~w.insert[d]
  BY <1>2 DEF Ejected
<1>3. CASE w.insert[d]
  <2>1. Good(y) /\ Owned(o, y)
    BY <1>1, FloppyEjectKeeps, FloppyEjectOwned DEF Traced
  <2>2. x = [y EXCEPT !.insert[d] = FALSE]
    BY <1>3 DEF Ejected
  <2> HIDE DEF x, y
  <2>3. x.cache = y.cache /\ x.drv = y.drv /\ x.saves = y.saves /\ x.count = y.count
    BY <2>1, <2>2 DEF Good, World
  <2>4. Owned(o, x)
    BY <2>1, <2>3 DEF Owned
  <2> QED  BY <1>1, <2>4 DEF Traced, x
<1> QED  BY <1>2, <1>3

LEMMA InsertingOwned ==
  ASSUME NEW o, NEW w, Traced(o, w), NEW d \in Drive, opt \in Options
  PROVE  Traced(o, Inserting(w, d))
<1> DEFINE x == Inserting(w, d)
           i == w.index[d]
           new == ReadImage(w.cache[i].name, w.cache[i].data, w.cache[i].extra, opt.enable_save)
<1>1. Sane(x) /\ w \in World /\ w.drv \in [Drive -> DriveState] /\ i \in 0 .. MaxDisks
  BY InsertingKeeps DEF Traced, Sane, Good, World
<1>2. CASE ~(i < MaxDisks /\ Readable(w.cache[i].name, w.cache[i].data))
  BY <1>2 DEF Inserting
<1>3. CASE i < MaxDisks /\ Readable(w.cache[i].name, w.cache[i].data)
  <2>1. EntryOf(o, w.cache[i])
    BY <1>1, <1>3, DiskAssumption DEF Traced, Owned, Slot
  <2>2. DriveOf(o, new)
    BY <2>1 DEF EntryOf, DriveOf, ReadImage, Of
  <2>3. x = [w EXCEPT !.drv[d] = new, !.insert[d] = TRUE]
    BY <1>3 DEF Inserting
  <2> HIDE DEF x, new
  <2>4. /\ x.cache = w.cache /\ x.drv = [w.drv EXCEPT ![d] = new]
        /\ x.saves = w.saves /\ x.count = w.count
    BY <1>1, <2>3 DEF World
  <2>5. Owned(o, x)
    BY <1>1, <2>2, <2>4 DEF Traced, Owned
  <2> QED  BY <1>1, <2>5 DEF Traced, x
<1> QED  BY <1>2, <1>3

LEMMA InsertDriveOwned ==
  ASSUME NEW o, NEW w, Traced(o, w), NEW d \in Drive, opt \in Options
  PROVE  Traced(o, InsertDrive(w, d))
<1> DEFINE freed == IF w.insert[1 - d] /\ w.index[1 - d] = w.index[d]
                    THEN Ejected(w, 1 - d) ELSE w
<1>1. 1 - d \in Drive
  BY DEF Drive
<1>2. Traced(o, freed)
  BY <1>1, EjectedOwned
<1>3. InsertDrive(w, d) = IF w.insert[d] THEN w ELSE Inserting(freed, d)
  BY DEF InsertDrive
<1> HIDE DEF freed
<1> QED  BY <1>2, <1>3, InsertingOwned

LEMMA set_eject_stateOwned ==
  ASSUME NEW o, NEW w, Traced(o, w), NEW ejected \in BOOLEAN, opt \in Options
  PROVE  Traced(o, set_eject_state(w, ejected))
<1>1. w.drive \in Drive
  BY DEF Traced, Sane, Good, World
<1> QED  BY <1>1, EjectedOwned, InsertDriveOwned DEF set_eject_state

LEMMA set_image_indexOwned ==
  ASSUME NEW o, NEW w, Traced(o, w), NEW i \in 0 .. MaxDisks
  PROVE  Traced(o, set_image_index(w, i))
<1> DEFINE d == w.drive
           y == Ejected(w, d)
           x == set_image_index(w, i)
<1>1. d \in Drive
  BY DEF Traced, Sane, Good, World
<1>2. Sane(x) /\ Traced(o, y)
  BY <1>1, set_image_indexKeeps, EjectedOwned DEF Traced
<1>3. x = w \/ x = [y EXCEPT !.index[d] = i]
  BY DEF set_image_index
<1> HIDE DEF x, y, d
<1>4. CASE x = w
  BY <1>4 DEF x
<1>5. CASE x = [y EXCEPT !.index[d] = i]
  <2>1. x.cache = y.cache /\ x.drv = y.drv /\ x.saves = y.saves /\ x.count = y.count
    BY <1>2, <1>5 DEF Traced, Sane, Good, World
  <2>2. Owned(o, x)
    BY <1>2, <2>1 DEF Traced, Owned
  <2> QED  BY <1>2, <2>2 DEF Traced, x
<1> QED  BY <1>3, <1>4, <1>5

(* A file that is loaded brings the save that has its own name.            *)
LEMMA LoadedEntryOwned ==
  ASSUME NEW o, NEW w, Owned(o, w), NEW old, old.extra_name = NoName, NEW n \in Name
  PROVE  EntryOf(o, LoadedEntry(w, old, n))
<1> DEFINE kept == IF opt.enable_save THEN w.saves[n] ELSE NoData
           stx  == Format[n] = "stx"
           data == IF kept # NoData /\ ~stx THEN kept ELSE FileData(n)
           e == LoadedEntry(w, old, n)
<1>1. Of(o, n, NoData) /\ Of(o, NoName, NoData)
  BY DriveAssumption DEF Of
<1>2. Of(o, n, kept)
  BY <1>1 DEF Owned
<1>3. Of(o, n, FileData(n)) /\ (stx => FileData(n) # NoData)
  BY DriveAssumption DEF FileData, Of
<1>4. e = [name       |-> IF data = NoData THEN NoName ELSE n,
           data       |-> data,
           saved      |-> kept # NoData,
           extra      |-> IF stx THEN kept ELSE NoData,
           extra_name |-> IF stx /\ opt.enable_save THEN n ELSE old.extra_name]
  BY DEF LoadedEntry
<1> HIDE DEF kept, e
<1>5. Of(o, n, data) /\ (stx => data # NoData)
  BY <1>2, <1>3
<1>6. CASE stx
  <2>1. e.name = n /\ e.data = data /\ e.extra = kept /\ e.extra_name \in {n, NoName}
    BY <1>4, <1>5, <1>6
  <2> HIDE DEF data
  <2> QED  BY <1>2, <1>5, <1>6, <2>1 DEF EntryOf, e
<1>7. CASE ~stx
  <2>1. e.name \in {n, NoName} /\ e.data = data /\ e.extra = NoData /\ e.extra_name = NoName
    BY <1>4, <1>7
  <2>2. e.name # n => data = NoData /\ e.name = NoName
    BY <1>4
  <2> HIDE DEF data, stx
  <2>3. Of(o, e.name, e.data) /\ Of(o, e.name, e.extra)
    BY <1>1, <1>5, <2>1, <2>2
  <2> QED  BY <2>1, <2>3 DEF EntryOf, e
<1> QED  BY <1>6, <1>7

(* So does a list of files: the first goes to an entry that no overlay is  *)
(* stored in under another name.                                           *)
LEMMA LoadedListOwned ==
  ASSUME NEW o, NEW w, Traced(o, w), NEW i \in Slot, i < w.count,
         NoOverlays \/ w.cache[i].name = NoName, NEW names \in Seq(Name) \ {<< >>}
  PROVE  Traced(o, LoadedList(w, i, names))
<1> DEFINE x == LoadedList(w, i, names)
           place(j) == IF j = i THEN 1 ELSE j - w.count + 2
           taken(j) == j = i \/ (j >= w.count /\ place(j) <= Len(names))
           total == w.count + Len(names) - 1
           cache == [j \in Slot |-> IF taken(j) THEN LoadedEntry(w, w.cache[j], names[place(j)])
                                    ELSE w.cache[j]]
           count == IF total > MaxDisks THEN MaxDisks ELSE total
<1>1. /\ w \in World /\ w.cache \in [Slot -> Entry] /\ w.count \in 0 .. MaxDisks
      /\ Owned(o, w)
  BY DEF Traced, Sane, Good, World
<1>2. Len(names) \in Nat \ {0} /\ \A k \in 1 .. Len(names) : names[k] \in Name
  BY EmptySeq, LenProperties, ElementOfSeq
<1>3. MaxDisks \in Nat \ {0} /\ Slot = 0 .. MaxDisks - 1 /\ i \in Nat
  BY DiskAssumption DEF Slot
<1>4. x = [w EXCEPT !.cache = cache, !.count = count]
  BY DEF LoadedList
<1>5. Sane(x)
  BY LoadedListKeeps DEF Traced
<1> HIDE DEF x
<1>6. w.cache[i].extra_name = NoName
  <2>1. EntryOf(o, w.cache[i]) /\ w.cache[i].name \in Name \cup {NoName}
    BY <1>1 DEF Owned, Entry
  <2> QED  BY <2>1 DEF EntryOf, NoOverlays
<1>7. ASSUME NEW j \in Slot
      PROVE  EntryOf(o, cache[j])
  <2>1. CASE taken(j)
    <3>1. place(j) \in 1 .. Len(names)
      BY <1>1, <1>2, <1>3, <2>1
    <3>2. names[place(j)] \in Name /\ w.cache[j].extra_name = NoName
      BY <1>1, <1>2, <1>6, <2>1, <3>1 DEF Owned
    <3>3. cache[j] = LoadedEntry(w, w.cache[j], names[place(j)])
      BY <2>1
    <3> HIDE DEF cache, taken, place
    <3> QED  BY <1>1, <3>2, <3>3, LoadedEntryOwned
  <2>2. CASE ~taken(j)
    BY <1>1, <2>2 DEF Owned
  <2> QED  BY <2>1, <2>2
<1>8. ASSUME NEW j \in Slot, j >= count
      PROVE  cache[j].extra_name = NoName
  <2>1. j >= w.count /\ ~taken(j)
    BY <1>1, <1>2, <1>3, <1>8
  <2>2. cache[j] = w.cache[j]
    BY <2>1
  <2> QED  BY <1>1, <2>1, <2>2 DEF Owned
<1> HIDE DEF cache, count, taken, place, total
<1>9. x.cache = cache /\ x.count = count /\ x.drv = w.drv /\ x.saves = w.saves
  BY <1>1, <1>4 DEF World
<1>10. Owned(o, x)
  BY <1>1, <1>7, <1>8, <1>9 DEF Owned
<1> QED  BY <1>5, <1>10 DEF Traced, x

LEMMA replace_image_indexOwned ==
  ASSUME NEW o, NEW w, Traced(o, w), NEW i \in Slot, i < w.count,
         NoOverlays \/ w.cache[i].name = NoName, NEW names \in Seq(Name) \ {<< >>},
         opt \in Options
  PROVE  Traced(o, replace_image_index(w, i, names))
<1> DEFINE first == EjectReplaced(w, i, 0)
           second == EjectReplaced(first, i, 1)
           keeps(u, v) == /\ Traced(o, v) /\ v.count = u.count
                          /\ \A j \in Slot : v.cache[j].name = u.cache[j].name
<1>1. ASSUME NEW u, Traced(o, u), NEW d \in Drive
      PROVE  keeps(u, EjectReplaced(u, i, d))
  <2>1. 0 \in Drive
    BY DEF Drive
  <2>2. keeps(u, InsertDrive(u, 0)) /\ keeps(u, u)
    BY <1>1, <2>1, InsertDriveKeeps, InsertDriveOwned DEF Traced
  <2>3. EjectReplaced(u, i, d) \in {u, InsertDrive(u, 0)}
    BY DEF EjectReplaced
  <2> HIDE DEF keeps
  <2> QED  BY <2>2, <2>3
<1>2. 0 \in Drive /\ 1 \in Drive
  BY DEF Drive
<1>3. keeps(w, first)
  BY <1>1, <1>2
<1> HIDE DEF first
<1>4. keeps(first, second)
  BY <1>1, <1>2, <1>3
<1>5. replace_image_index(w, i, names) = LoadedList(second, i, names)
  BY DEF replace_image_index, first
<1> HIDE DEF second
<1> QED  BY <1>3, <1>4, <1>5, LoadedListOwned

LEMMA add_image_indexOwned ==
  ASSUME NEW o, NEW w, Traced(o, w)
  PROVE  Traced(o, add_image_index(w))
<1> DEFINE x == add_image_index(w)
<1>1. Sane(x) /\ w \in World /\ w.count \in 0 .. MaxDisks
  BY add_image_indexKeeps DEF Traced, Sane, Good, World
<1>2. /\ x.cache = w.cache /\ x.drv = w.drv /\ x.saves = w.saves
      /\ x.count \in Nat /\ x.count >= w.count
  BY <1>1, DiskAssumption DEF add_image_index, World
<1> HIDE DEF x
<1>3. \A j \in Slot : j >= x.count => j >= w.count
  BY <1>1, <1>2, DiskAssumption DEF Slot
<1>4. Owned(o, x)
  BY <1>2, <1>3 DEF Traced, Owned
<1> QED  BY <1>1, <1>4 DEF Traced, x

LEMMA disks_clearOwned ==
  ASSUME NEW o, NEW w, Good(w), Owned(o, w)
  PROVE  Traced(o, disks_clear(w)) /\ \A i \in Slot : disks_clear(w).cache[i].name = NoName
<1> DEFINE noEntries == [i \in Slot |-> EmptyEntry]
           noIndex == [d \in Drive |-> 0]
           noDisk == [d \in Drive |-> FALSE]
           e == [w EXCEPT !.drive = 0, !.count = 0, !.cache = noEntries, !.index = noIndex,
                          !.insert = noDisk]
           y == FloppyEject(e, 0)
<1>1. w \in World /\ \A d \in Drive : LoadedDrive(w.drv[d])
  BY DEF Good
<1>2. EmptyEntry \in Entry /\ EmptyEntry.name = NoName /\ EmptyEntry.data = NoData
  BY DEF EmptyEntry, Entry, Content
<1>3. /\ noEntries \in [Slot -> Entry] /\ noIndex \in [Drive -> 0 .. MaxDisks]
      /\ noDisk \in [Drive -> BOOLEAN] /\ 0 \in 0 .. MaxDisks /\ 0 \in Drive /\ 1 \in Drive
  BY <1>2, DiskAssumption DEF Drive
<1>4. /\ \A i \in Slot : noEntries[i].name = NoName /\ noEntries[i].data = NoData
      /\ \A i \in Slot : EntryOf(o, noEntries[i]) /\ noEntries[i].extra_name = NoName
  BY DriveAssumption DEF EmptyEntry, EntryOf, Of
<1> HIDE DEF noEntries, noIndex, noDisk
<1>5. e \in World /\ e.cache = noEntries /\ e.drv = w.drv /\ e.saves = w.saves
  BY <1>1, <1>3 DEF World
<1>7. disks_clear(w) = FloppyEject(y, 1)
  BY DEF disks_clear, noEntries, noIndex, noDisk
<1> HIDE DEF e
<1>6. Good(e) /\ Owned(o, e)
  BY <1>1, <1>4, <1>5 DEF Good, Owned
<1>8. Good(y) /\ Owned(o, y)
  BY <1>3, <1>6, FloppyEjectKeeps, FloppyEjectOwned
<1> HIDE DEF y
<1> QED  BY <1>3, <1>7, <1>8, FloppyEjectOwned, disks_clearKeeps DEF Traced

LEMMA DriveSelectionOwned ==
  ASSUME NEW o, NEW w, Traced(o, w), NEW d \in Drive
  PROVE  Traced(o, [w EXCEPT !.drive = d])
<1> DEFINE x == [w EXCEPT !.drive = d]
<1>1. Sane(x) /\ w \in World
  BY DriveSelectionKeeps DEF Traced, Sane, Good
<1>2. x.drv = w.drv /\ x.cache = w.cache /\ x.count = w.count /\ x.saves = w.saves
  BY <1>1 DEF World
<1> HIDE DEF x
<1>3. Owned(o, x)
  BY <1>2 DEF Traced, Owned
<1> QED  BY <1>1, <1>3 DEF Traced, x

LEMMA BootOwned ==
  ASSUME NEW o, NEW w, Traced(o, w), NEW d \in Drive, NEW i \in 0 .. MaxDisks, opt \in Options
  PROVE  Traced(o, Boot(w, d, i))
<1> DEFINE w1 == [w EXCEPT !.drive = d]
           w2 == set_image_index(w1, i)
<1>1. Traced(o, w1)
  BY DriveSelectionOwned
<1> HIDE DEF w1
<1>2. Traced(o, w2)
  BY <1>1, set_image_indexOwned
<1> HIDE DEF w2
<1> QED  BY <1>2, set_eject_stateOwned DEF Boot, w1, w2

LEMMA BootAsDirectedOwned ==
  ASSUME NEW o, NEW w, Traced(o, w), NEW p \in Playlists, NEW d \in Drive, opt \in Options
  PROVE  Traced(o, BootAsDirected(w, p, d))
<1> DEFINE b == BootDirective(w, p, d)
<1>1. b > 0 => b - 1 \in 0 .. MaxDisks
  <2>1. w.count \in 0 .. MaxDisks /\ p.boot[d] \in Int
    BY DiskAssumption DEF Traced, Sane, Good, World
  <2> QED  BY <2>1, DiskAssumption DEF BootDirective
<1> HIDE DEF b
<1>2. BootAsDirected(w, p, d) = w \/ (b > 0 /\ BootAsDirected(w, p, d) = Boot(w, d, b - 1))
  BY DEF BootAsDirected, b
<1> QED  BY <1>1, <1>2, BootOwned

LEMMA BootUndirectedOwned ==
  ASSUME NEW o, NEW w, Traced(o, w), NEW p \in Playlists, NEW d \in Drive, opt \in Options
  PROVE  Traced(o, BootUndirected(w, p, d))
<1> DEFINE i == FirstBootable(w, d)
<1>1. i \in 0 .. MaxDisks
  BY FirstBootableType, DiskAssumption DEF Slot, Traced, Sane, Good
<1>2. BootUndirected(w, p, d) \in {w, Boot(w, d, i)}
  BY DEF BootUndirected
<1> HIDE DEF i
<1> QED  BY <1>1, <1>2, BootOwned

LEMMA core_disk_load_gameOwned ==
  ASSUME NEW o, NEW w, Good(w), Owned(o, w), NEW p \in Playlists, opt \in Options
  PROVE  Traced(o, core_disk_load_game(w, p))
<1> DEFINE clear == disks_clear(w)
           one == [clear EXCEPT !.count = 1]
           listed == LoadedList(one, 0, p.names)
           w1 == BootAsDirected(listed, p, 1)
           w2 == BootAsDirected(w1, p, 0)
           w3 == BootUndirected(w2, p, 0)
           w4 == BootUndirected(w3, p, 1)
<1>1. core_disk_load_game(w, p) = [w4 EXCEPT !.drive = 0]
  BY DEF core_disk_load_game, Listed, Booted
<1>2. 0 \in Drive /\ 1 \in Drive /\ 0 \in Slot /\ p.names \in Seq(Name) \ {<< >>}
  BY DiskAssumption DEF Drive, Slot
<1>3. Traced(o, clear) /\ \A i \in Slot : clear.cache[i].name = NoName
  BY disks_clearOwned
<1>4. \A i \in Slot : clear.cache[i].extra_name = NoName
  <2> HIDE DEF clear
  <2> TAKE i \in Slot
  <2>1. EntryOf(o, clear.cache[i]) /\ clear.cache[i].name = NoName
    BY <1>3 DEF Traced, Owned
  <2> QED  BY <2>1 DEF EntryOf
<1> HIDE DEF clear
<1>5. Traced(o, one) /\ one.count = 1 /\ one.cache[0].name = NoName
  <2>1. clear \in World /\ 1 \in 0 .. MaxDisks
    BY <1>3, DiskAssumption DEF Traced, Sane, Good
  <2>2. /\ one.insert = clear.insert /\ one.drv = clear.drv /\ one.saves = clear.saves
        /\ one.cache = clear.cache /\ one.count = 1 /\ one \in World
    BY <2>1 DEF World
  <2> HIDE DEF one
  <2>3. Sane(one)
    BY <1>3, <2>2 DEF Traced, Sane, Good, Agreed
  <2>4. Owned(o, one)
    BY <1>3, <1>4, <2>2 DEF Traced, Owned
  <2> QED  BY <1>2, <1>3, <2>2, <2>3, <2>4 DEF Traced
<1> HIDE DEF one
<1>6. Traced(o, listed)
  BY <1>2, <1>5, LoadedListOwned
<1> HIDE DEF listed
<1>7. Traced(o, w1)
  BY <1>2, <1>6, BootAsDirectedOwned
<1> HIDE DEF w1
<1>8. Traced(o, w2)
  BY <1>2, <1>7, BootAsDirectedOwned
<1> HIDE DEF w2
<1>9. Traced(o, w3)
  BY <1>2, <1>8, BootUndirectedOwned
<1> HIDE DEF w3
<1>10. Traced(o, w4)
  BY <1>2, <1>9, BootUndirectedOwned
<1> HIDE DEF w4
<1> QED  BY <1>1, <1>2, <1>10, DriveSelectionOwned

LEMMA core_disk_unload_gameOwned ==
  ASSUME NEW o, NEW w, Traced(o, w)
  PROVE  Traced(o, core_disk_unload_game(w))
<1> DEFINE y == Ejected(w, 0)
           z == Ejected(y, 1)
<1>1. 0 \in Drive /\ 1 \in Drive
  BY DEF Drive
<1>2. Traced(o, y)
  BY <1>1, EjectedOwned
<1> HIDE DEF y
<1>3. Traced(o, z)
  BY <1>1, <1>2, EjectedOwned
<1> HIDE DEF z
<1> QED  BY <1>3, disks_clearOwned DEF core_disk_unload_game, Traced, Sane, y, z

LEMMA core_disk_drive_reinsertOwned ==
  ASSUME NEW o, NEW w, Traced(o, w), opt \in Options
  PROVE  Traced(o, core_disk_drive_reinsert(w))
<1>1. ASSUME NEW u, Traced(o, u), NEW d \in Drive
      PROVE  Traced(o, Reinserted(u, d))
  BY <1>1, EjectedOwned, InsertDriveOwned DEF Reinserted
<1>2. 0 \in Drive /\ 1 \in Drive
  BY DEF Drive
<1>3. Traced(o, Reinserted(w, 0))
  BY <1>1, <1>2
<1>4. Traced(o, Reinserted(Reinserted(w, 0), 1))
  BY <1>1, <1>2, <1>3
<1> QED  BY <1>3, <1>4 DEF core_disk_drive_reinsert

LEMMA core_disk_swapOwned ==
  ASSUME NEW o, NEW w, Traced(o, w), opt \in Options
  PROVE  Traced(o, core_disk_swap(w))
<1> DEFINE out == Ejected(w, w.drive)
<1>1. w.drive \in Drive
  BY DEF Traced, Sane, Good, World
<1>2. Traced(o, out)
  BY <1>1, EjectedOwned
<1> HIDE DEF out
<1>3. NextIndex(out) \in 0 .. MaxDisks
  BY <1>2, DiskAssumption DEF Traced, Sane, Good, World, NextIndex
<1>4. Traced(o, SelectNext(out))
  BY <1>2, <1>3, set_image_indexOwned DEF SelectNext
<1> QED  BY <1>4, set_eject_stateOwned DEF core_disk_swap, out

(* A savestate puts back disks with what was written to them.              *)
LEMMA RestoreOwned ==
  ASSUME NEW o, NEW w, Good(w), Owned(o, w), NEW drives \in [Drive -> DriveState],
         \A d \in Drive : LoadedDrive(drives[d]) /\ DriveOf(o, drives[d])
  PROVE  Traced(o, core_disk_reindex(DrivesRestored(w, drives)))
<1> DEFINE e == IF opt.floppy_modify THEN FloppyEject(FloppyEject(w, 0), 1) ELSE w
           r == DrivesRestored(w, drives)
           in(d) == Inserted(r.drv[d])
           insert == [d \in Drive |-> in(d)]
           index == [d \in Drive |-> IF in(d) THEN SlotOf(r, r.drv[d].name) ELSE r.index[d]]
           marked == [d \in Drive |->
                        IF in(d) /\ opt.floppy_modify /\ MayRevert(r, r.drv[d].name)
                        THEN [r.drv[d] EXCEPT !.changed = TRUE] ELSE r.drv[d]]
           x == core_disk_reindex(r)
<1>1. Good(e) /\ Owned(o, e)
  <2>1. 0 \in Drive /\ 1 \in Drive
    BY DEF Drive
  <2>2. Good(FloppyEject(w, 0)) /\ Owned(o, FloppyEject(w, 0))
    BY <2>1, FloppyEjectKeeps, FloppyEjectOwned
  <2>3. Good(FloppyEject(FloppyEject(w, 0), 1)) /\ Owned(o, FloppyEject(FloppyEject(w, 0), 1))
    BY <2>1, <2>2, FloppyEjectKeeps, FloppyEjectOwned
  <2> QED  BY <2>2, <2>3
<1>2. r = [e EXCEPT !.drv = drives]
  BY DEF DrivesRestored
<1>3. Sane(x)
  BY RestoreKeeps
<1>4. x = [r EXCEPT !.insert = insert, !.index = index, !.drv = marked]
  BY DEF core_disk_reindex
<1> HIDE DEF e, r, x
<1>5. e \in World
  BY <1>1 DEF Good
<1>6. /\ r.drv = drives /\ r.cache = e.cache /\ r.count = e.count /\ r.saves = e.saves
      /\ r \in World
  BY <1>2, <1>5 DEF World
<1>7. \A d \in Drive : marked[d].buffer = drives[d].buffer /\ marked[d].name = drives[d].name
                       /\ marked[d].overlay = drives[d].overlay
  BY <1>6 DEF DriveState
<1> HIDE DEF marked, insert, index
<1>8. x.drv = marked /\ x.cache = e.cache /\ x.count = e.count /\ x.saves = e.saves
  BY <1>4, <1>6 DEF World
<1>9. \A d \in Drive : DriveOf(o, x.drv[d])
  BY <1>7, <1>8 DEF DriveOf
<1>10. Owned(o, x)
  BY <1>1, <1>8, <1>9 DEF Owned
<1> QED  BY <1>3, <1>10 DEF Traced, x, r

-----------------------------------------------------------------------------
(* The menu and the drives, for savestates of disks that are not loaded    *)

(* Less than Placed: names may repeat, and a drive may hold a disk that    *)
(* the cache does not know.                                                *)
Matched(w) ==
  /\ \A i \in Slot : i >= w.count => w.cache[i].name = NoName
  /\ \A d \in Drive : w.insert[d] /\ w.index[d] # NoSlot
                        => w.drv[d].name = w.cache[w.index[d]].name

Shown(w) == Sane(w) /\ Matched(w)

(* What a sane world's parts are, and that a drive's index is an entry or  *)
(* none.                                                                   *)
LEMMA SaneParts ==
  ASSUME NEW w, Sane(w)
  PROVE  /\ w \in World /\ Good(w) /\ w.drive \in Drive /\ w.count \in 0 .. MaxDisks
         /\ w.insert \in [Drive -> BOOLEAN] /\ w.drv \in [Drive -> DriveState]
         /\ w.index \in [Drive -> 0 .. MaxDisks] /\ w.cache \in [Slot -> Entry]
         /\ \A d \in Drive : w.index[d] # NoSlot => w.index[d] \in Slot
         /\ \A d \in Drive : w.insert[d] => w.drv[d].name # NoName
<1>1. w \in World /\ Good(w) /\ Agreed(w)
  BY DEF Sane, Good
<1>2. \A d \in Drive : w.index[d] \in 0 .. MaxDisks
  BY <1>1 DEF World
<1> QED  BY <1>1, <1>2, DiskAssumption DEF World, NoSlot, Slot, Agreed, Inserted

LEMMA EjectedShown ==
  ASSUME NEW w, Shown(w), NEW d \in Drive
  PROVE  Shown(Ejected(w, d))
<1> DEFINE x == Ejected(w, d)
<1>1. /\ Sane(x) /\ x.index = w.index /\ x.count = w.count
      /\ x.insert = [w.insert EXCEPT ![d] = FALSE]
      /\ \A i \in Slot : x.cache[i].name = w.cache[i].name
      /\ \A e \in Drive \ {d} : x.drv[e] = w.drv[e]
  BY EjectedKeeps DEF Shown
<1> HIDE DEF x
<1>2. \A e \in Drive : w.index[e] # NoSlot => w.index[e] \in Slot
  BY SaneParts DEF Shown
<1>3. \A e \in Drive : x.insert[e] => e # d /\ w.insert[e]
  BY <1>1, SaneParts DEF Shown
<1>4. Matched(x)
  BY <1>1, <1>2, <1>3 DEF Shown, Matched
<1> QED  BY <1>1, <1>4 DEF Shown, x

LEMMA InsertingShown ==
  ASSUME NEW w, Shown(w), NEW d \in Drive, opt \in Options
  PROVE  Shown(Inserting(w, d))
<1> DEFINE x == Inserting(w, d)
           i == w.index[d]
           new == ReadImage(w.cache[i].name, w.cache[i].data, w.cache[i].extra, opt.enable_save)
<1>1. /\ w \in World /\ w.drv \in [Drive -> DriveState] /\ w.insert \in [Drive -> BOOLEAN]
      /\ Sane(x) /\ x.index = w.index /\ x.count = w.count /\ x.cache = w.cache
  BY SaneParts, InsertingKeeps DEF Shown
<1>2. x = w \/ x = [w EXCEPT !.drv[d] = new, !.insert[d] = TRUE]
  BY DEF Inserting
<1>3. new.name = w.cache[i].name
  BY DEF ReadImage
<1> HIDE DEF x, new
<1>4. CASE x = w
  BY <1>4 DEF x
<1>5. CASE x = [w EXCEPT !.drv[d] = new, !.insert[d] = TRUE]
  <2>1. x.drv = [w.drv EXCEPT ![d] = new] /\ x.insert = [w.insert EXCEPT ![d] = TRUE]
    BY <1>1, <1>5 DEF World
  <2>2. Matched(x)
    BY <1>1, <1>3, <2>1 DEF Shown, Matched
  <2> QED  BY <1>1, <2>2 DEF Shown, x
<1> QED  BY <1>2, <1>4, <1>5

LEMMA InsertDriveShown ==
  ASSUME NEW w, Shown(w), NEW d \in Drive, opt \in Options
  PROVE  Shown(InsertDrive(w, d))
<1> DEFINE freed == IF w.insert[1 - d] /\ w.index[1 - d] = w.index[d]
                    THEN Ejected(w, 1 - d) ELSE w
<1>1. 1 - d \in Drive
  BY DEF Drive
<1>2. Shown(freed)
  BY <1>1, EjectedShown
<1>3. InsertDrive(w, d) = IF w.insert[d] THEN w ELSE Inserting(freed, d)
  BY DEF InsertDrive
<1> HIDE DEF freed
<1> QED  BY <1>2, <1>3, InsertingShown

LEMMA set_eject_stateShown ==
  ASSUME NEW w, Shown(w), NEW ejected \in BOOLEAN, opt \in Options
  PROVE  Shown(set_eject_state(w, ejected))
<1>1. w.drive \in Drive
  BY SaneParts DEF Shown
<1> QED  BY <1>1, EjectedShown, InsertDriveShown DEF set_eject_state

(* The drive is empty when its index changes.                              *)
LEMMA set_image_indexShown ==
  ASSUME NEW w, Shown(w), NEW i \in 0 .. MaxDisks
  PROVE  Shown(set_image_index(w, i))
<1> DEFINE d == w.drive
           y == Ejected(w, d)
           x == set_image_index(w, i)
<1>1. d \in Drive /\ w.insert \in [Drive -> BOOLEAN]
  BY SaneParts DEF Shown
<1>2. Sane(x) /\ Shown(y) /\ y.insert = [w.insert EXCEPT ![d] = FALSE]
  BY <1>1, set_image_indexKeeps, EjectedShown, EjectedKeeps DEF Shown
<1>3. x = w \/ x = [y EXCEPT !.index[d] = i]
  BY DEF set_image_index
<1> HIDE DEF x, y, d
<1>4. CASE x = w
  BY <1>4 DEF x
<1>5. CASE x = [y EXCEPT !.index[d] = i]
  <2>1. y \in World /\ y.index \in [Drive -> 0 .. MaxDisks]
    BY <1>2, SaneParts DEF Shown
  <2>2. /\ x.index = [y.index EXCEPT ![d] = i] /\ x.insert = y.insert /\ x.drv = y.drv
        /\ x.cache = y.cache /\ x.count = y.count
    BY <2>1, <1>5 DEF World
  <2>3. \A e \in Drive : x.insert[e] => y.insert[e] /\ x.index[e] = y.index[e]
    BY <1>1, <1>2, <2>1, <2>2
  <2>4. Matched(x)
    BY <1>2, <2>2, <2>3 DEF Shown, Matched
  <2> QED  BY <1>2, <2>4 DEF Shown, x
<1> QED  BY <1>3, <1>4, <1>5

(* Only entries without a name are filled.                                 *)
LEMMA LoadedListShown ==
  ASSUME NEW w, Shown(w), NEW i \in Slot, i < w.count, w.cache[i].name = NoName,
         NEW names \in Seq(Name) \ {<< >>}
  PROVE  Shown(LoadedList(w, i, names))
<1> DEFINE x == LoadedList(w, i, names)
           place(j) == IF j = i THEN 1 ELSE j - w.count + 2
           taken(j) == j = i \/ (j >= w.count /\ place(j) <= Len(names))
           total == w.count + Len(names) - 1
           cache == [j \in Slot |-> IF taken(j) THEN LoadedEntry(w, w.cache[j], names[place(j)])
                                    ELSE w.cache[j]]
           count == IF total > MaxDisks THEN MaxDisks ELSE total
<1>1. /\ w \in World /\ w.count \in 0 .. MaxDisks
      /\ \A d \in Drive : w.index[d] # NoSlot => w.index[d] \in Slot
      /\ \A d \in Drive : w.insert[d] => w.drv[d].name # NoName
  BY SaneParts DEF Shown
<1>2. Len(names) \in Nat \ {0}
  BY EmptySeq, LenProperties
<1>3. MaxDisks \in Nat \ {0} /\ Slot = 0 .. MaxDisks - 1 /\ i \in Nat
  BY DiskAssumption DEF Slot
<1>4. x = [w EXCEPT !.cache = cache, !.count = count]
  BY DEF LoadedList
<1>5. /\ Sane(x) /\ x.index = w.index /\ x.insert = w.insert /\ x.drv = w.drv
  BY LoadedListKeeps DEF Shown
<1> HIDE DEF x
<1>6. \A j \in Slot : taken(j) => w.cache[j].name = NoName
  BY DEF Shown, Matched
<1>7. \A j \in Slot : ~taken(j) => cache[j] = w.cache[j]
  OBVIOUS
<1>8. \A j \in Slot : j >= count => j >= w.count /\ ~taken(j)
  BY <1>1, <1>2, <1>3
<1> HIDE DEF cache, count, taken, place, total
<1>9. x.cache = cache /\ x.count = count
  BY <1>1, <1>4 DEF World
<1>10. Matched(x)
  BY <1>1, <1>5, <1>6, <1>7, <1>8, <1>9 DEF Shown, Matched
<1> QED  BY <1>5, <1>10 DEF Shown, x

LEMMA replace_image_indexShown ==
  ASSUME NEW w, Shown(w), NEW i \in Slot, i < w.count, w.cache[i].name = NoName,
         NEW names \in Seq(Name) \ {<< >>}, opt \in Options
  PROVE  Shown(replace_image_index(w, i, names))
<1>1. ASSUME NEW d \in Drive
      PROVE  EjectReplaced(w, i, d) = w
  BY <1>1, SaneParts DEF EjectReplaced, Shown, Matched, NoSlot, Slot
<1>2. 0 \in Drive /\ 1 \in Drive
  BY DEF Drive
<1>3. replace_image_index(w, i, names) = LoadedList(w, i, names)
  BY <1>1, <1>2 DEF replace_image_index
<1> QED  BY <1>3, LoadedListShown

LEMMA add_image_indexShown ==
  ASSUME NEW w, Shown(w)
  PROVE  Shown(add_image_index(w))
<1> DEFINE x == add_image_index(w)
<1>1. Sane(x) /\ w \in World /\ w.count \in 0 .. MaxDisks
  BY add_image_indexKeeps, SaneParts DEF Shown
<1>2. /\ x.cache = w.cache /\ x.drv = w.drv /\ x.insert = w.insert /\ x.index = w.index
      /\ x.count \in Nat /\ x.count >= w.count
  BY <1>1, DiskAssumption DEF add_image_index, World
<1> HIDE DEF x
<1>3. \A j \in Slot : j >= x.count => j >= w.count
  BY <1>1, <1>2, DiskAssumption DEF Slot
<1>4. Matched(x)
  BY <1>2, <1>3 DEF Shown, Matched
<1> QED  BY <1>1, <1>4 DEF Shown, x

LEMMA DriveSelectionShown ==
  ASSUME NEW w, Shown(w), NEW d \in Drive
  PROVE  Shown([w EXCEPT !.drive = d])
<1> DEFINE x == [w EXCEPT !.drive = d]
<1>1. Sane(x) /\ w \in World
  BY DriveSelectionKeeps, SaneParts DEF Shown
<1>2. /\ x.drv = w.drv /\ x.cache = w.cache /\ x.count = w.count
      /\ x.insert = w.insert /\ x.index = w.index
  BY <1>1 DEF World
<1> HIDE DEF x
<1>3. Matched(x)
  BY <1>2 DEF Shown, Matched
<1> QED  BY <1>1, <1>3 DEF Shown, x

LEMMA BootShown ==
  ASSUME NEW w, Shown(w), NEW d \in Drive, NEW i \in 0 .. MaxDisks, opt \in Options
  PROVE  Shown(Boot(w, d, i))
<1> DEFINE w1 == [w EXCEPT !.drive = d]
           w2 == set_image_index(w1, i)
<1>1. Shown(w1)
  BY DriveSelectionShown
<1> HIDE DEF w1
<1>2. Shown(w2)
  BY <1>1, set_image_indexShown
<1> HIDE DEF w2
<1> QED  BY <1>2, set_eject_stateShown DEF Boot, w1, w2

LEMMA BootAsDirectedShown ==
  ASSUME NEW w, Shown(w), NEW p \in Playlists, NEW d \in Drive, opt \in Options
  PROVE  Shown(BootAsDirected(w, p, d))
<1> DEFINE b == BootDirective(w, p, d)
<1>1. b > 0 => b - 1 \in 0 .. MaxDisks
  <2>1. w.count \in 0 .. MaxDisks /\ p.boot[d] \in Int
    BY SaneParts, DiskAssumption DEF Shown
  <2> QED  BY <2>1, DiskAssumption DEF BootDirective
<1> HIDE DEF b
<1>2. BootAsDirected(w, p, d) = w \/ (b > 0 /\ BootAsDirected(w, p, d) = Boot(w, d, b - 1))
  BY DEF BootAsDirected, b
<1> QED  BY <1>1, <1>2, BootShown

LEMMA BootUndirectedShown ==
  ASSUME NEW w, Shown(w), NEW p \in Playlists, NEW d \in Drive, opt \in Options
  PROVE  Shown(BootUndirected(w, p, d))
<1> DEFINE i == FirstBootable(w, d)
<1>1. i \in 0 .. MaxDisks
  BY FirstBootableType, SaneParts, DiskAssumption DEF Slot, Shown
<1>2. BootUndirected(w, p, d) \in {w, Boot(w, d, i)}
  BY DEF BootUndirected
<1> HIDE DEF i
<1> QED  BY <1>1, <1>2, BootShown

(* Whatever was open before, a content starts with an empty list.          *)
LEMMA core_disk_load_gameShown ==
  ASSUME NEW w, Good(w), NEW p \in Playlists, opt \in Options
  PROVE  Shown(core_disk_load_game(w, p))
<1> DEFINE clear == disks_clear(w)
           one == [clear EXCEPT !.count = 1]
           listed == LoadedList(one, 0, p.names)
           w1 == BootAsDirected(listed, p, 1)
           w2 == BootAsDirected(w1, p, 0)
           w3 == BootUndirected(w2, p, 0)
           w4 == BootUndirected(w3, p, 1)
<1>1. core_disk_load_game(w, p) = [w4 EXCEPT !.drive = 0]
  BY DEF core_disk_load_game, Listed, Booted
<1>2. 0 \in Drive /\ 1 \in Drive /\ 0 \in Slot /\ p.names \in Seq(Name) \ {<< >>}
  BY DiskAssumption DEF Drive, Slot
<1>3. /\ Sane(clear) /\ \A d \in Drive : ~clear.insert[d]
      /\ \A i \in Slot : clear.cache[i].name = NoName
  BY disks_clearKeeps
<1> HIDE DEF clear
<1>4. Shown(one) /\ one.count = 1 /\ one.cache[0].name = NoName
  <2>1. clear \in World /\ 1 \in 0 .. MaxDisks
    BY <1>3, SaneParts, DiskAssumption
  <2>2. /\ one.insert = clear.insert /\ one.drv = clear.drv
        /\ one.cache = clear.cache /\ one.count = 1 /\ one \in World
    BY <2>1 DEF World
  <2> HIDE DEF one
  <2>3. Sane(one)
    BY <1>3, <2>2 DEF Sane, Good, Agreed
  <2>4. Matched(one)
    BY <1>3, <2>2 DEF Matched
  <2> QED  BY <1>2, <1>3, <2>2, <2>3, <2>4 DEF Shown
<1> HIDE DEF one
<1>5. Shown(listed)
  BY <1>2, <1>4, LoadedListShown
<1> HIDE DEF listed
<1>6. Shown(w1)
  BY <1>2, <1>5, BootAsDirectedShown
<1> HIDE DEF w1
<1>7. Shown(w2)
  BY <1>2, <1>6, BootAsDirectedShown
<1> HIDE DEF w2
<1>8. Shown(w3)
  BY <1>2, <1>7, BootUndirectedShown
<1> HIDE DEF w3
<1>9. Shown(w4)
  BY <1>2, <1>8, BootUndirectedShown
<1> HIDE DEF w4
<1> QED  BY <1>1, <1>2, <1>9, DriveSelectionShown

LEMMA core_disk_unload_gameShown ==
  ASSUME NEW w, Sane(w)
  PROVE  Shown(core_disk_unload_game(w))
<1> DEFINE y == Ejected(Ejected(w, 0), 1)
           x == disks_clear(y)
<1>1. 0 \in Drive /\ 1 \in Drive
  BY DEF Drive
<1>2. Sane(Ejected(w, 0))
  BY <1>1, EjectedKeeps
<1>3. Sane(y)
  BY <1>1, <1>2, EjectedKeeps
<1> HIDE DEF y
<1>4. Sane(x) /\ (\A d \in Drive : ~x.insert[d]) /\ \A i \in Slot : x.cache[i].name = NoName
  BY <1>3, SaneParts, disks_clearKeeps
<1>5. core_disk_unload_game(w) = x
  BY DEF core_disk_unload_game, y
<1> HIDE DEF x
<1> QED  BY <1>4, <1>5 DEF Shown, Matched

LEMMA core_disk_drive_reinsertShown ==
  ASSUME NEW w, Shown(w), opt \in Options
  PROVE  Shown(core_disk_drive_reinsert(w))
<1>1. ASSUME NEW u, Shown(u), NEW d \in Drive
      PROVE  Shown(Reinserted(u, d))
  BY <1>1, EjectedShown, InsertDriveShown DEF Reinserted
<1>2. 0 \in Drive /\ 1 \in Drive
  BY DEF Drive
<1>3. Shown(Reinserted(w, 0))
  BY <1>1, <1>2
<1>4. Shown(Reinserted(Reinserted(w, 0), 1))
  BY <1>1, <1>2, <1>3
<1> QED  BY <1>3, <1>4 DEF core_disk_drive_reinsert

LEMMA core_disk_swapShown ==
  ASSUME NEW w, Shown(w), opt \in Options
  PROVE  Shown(core_disk_swap(w))
<1> DEFINE out == Ejected(w, w.drive)
<1>1. w.drive \in Drive
  BY SaneParts DEF Shown
<1>2. Shown(out)
  BY <1>1, EjectedShown
<1> HIDE DEF out
<1>3. NextIndex(out) \in 0 .. MaxDisks
  <2>1. out.drive \in Drive /\ out.index \in [Drive -> 0 .. MaxDisks] /\ out.count \in 0 .. MaxDisks
    BY <1>2, SaneParts DEF Shown
  <2> QED  BY <2>1, DiskAssumption DEF NextIndex
<1>4. Shown(SelectNext(out))
  BY <1>2, <1>3, set_image_indexShown DEF SelectNext
<1> QED  BY <1>4, set_eject_stateShown DEF core_disk_swap, out

LEMMA SectorWrittenShown ==
  ASSUME NEW w, Shown(w), NEW d \in Drive, Inserted(w.drv[d]), NEW v \in Nat
  PROVE  Shown([w EXCEPT !.drv[d] = SectorWritten(w.drv[d], v)])
<1> DEFINE new == SectorWritten(w.drv[d], v)
           x == [w EXCEPT !.drv[d] = new]
<1>1. w \in World /\ w.drv \in [Drive -> DriveState] /\ Sane(x)
  BY SaneParts, SectorWrittenKeeps DEF Shown
<1>2. new.name = w.drv[d].name
  BY <1>1 DEF SectorWritten, DriveState
<1> HIDE DEF new
<1>3. /\ x.drv = [w.drv EXCEPT ![d] = new] /\ x.cache = w.cache /\ x.count = w.count
      /\ x.insert = w.insert /\ x.index = w.index
  BY <1>1 DEF World
<1> HIDE DEF x
<1>4. \A e \in Drive : x.drv[e].name = w.drv[e].name
  BY <1>1, <1>2, <1>3
<1>5. Matched(x)
  BY <1>3, <1>4 DEF Shown, Matched
<1> QED  BY <1>1, <1>5 DEF Shown, x, new

(* A restore looks the disks up: the index is an entry with that name, or  *)
(* none.                                                                   *)
LEMMA RestoreShown ==
  ASSUME NEW w, Shown(w), NEW drives \in [Drive -> DriveState],
         \A d \in Drive : LoadedDrive(drives[d])
  PROVE  Shown(core_disk_reindex(DrivesRestored(w, drives)))
<1> DEFINE e == IF opt.floppy_modify THEN FloppyEject(FloppyEject(w, 0), 1) ELSE w
           r == DrivesRestored(w, drives)
           in(d) == Inserted(r.drv[d])
           insert == [d \in Drive |-> in(d)]
           index == [d \in Drive |-> IF in(d) THEN SlotOf(r, r.drv[d].name) ELSE r.index[d]]
           marked == [d \in Drive |->
                        IF in(d) /\ opt.floppy_modify /\ MayRevert(r, r.drv[d].name)
                        THEN [r.drv[d] EXCEPT !.changed = TRUE] ELSE r.drv[d]]
           x == core_disk_reindex(r)
<1>1. Good(w) /\ Sane(x)
  BY SaneParts, RestoreKeeps DEF Shown
<1>2. Good(e) /\ SameMenu(w, e)
  <2>1. 0 \in Drive /\ 1 \in Drive
    BY DEF Drive
  <2>2. Good(FloppyEject(w, 0)) /\ SameMenu(w, FloppyEject(w, 0))
    BY <1>1, <2>1, FloppyEjectKeeps
  <2>3. /\ Good(FloppyEject(FloppyEject(w, 0), 1))
        /\ SameMenu(FloppyEject(w, 0), FloppyEject(FloppyEject(w, 0), 1))
    BY <2>1, <2>2, FloppyEjectKeeps
  <2> QED  BY <1>1, <2>2, <2>3 DEF SameMenu
<1>3. r = [e EXCEPT !.drv = drives]
  BY DEF DrivesRestored
<1>4. x = [r EXCEPT !.insert = insert, !.index = index, !.drv = marked]
  BY DEF core_disk_reindex
<1> HIDE DEF e, r, x
<1>5. r \in World /\ r.drv = drives /\ r.cache = e.cache /\ r.count = e.count
  BY <1>2, <1>3 DEF Good, World
<1>6. \A d \in Drive : insert[d] => index[d] = SlotOf(r, drives[d].name)
  BY <1>5
<1>7. \A d \in Drive : marked[d].name = drives[d].name
  BY <1>5 DEF DriveState
<1> HIDE DEF marked, insert, index
<1>8. /\ x.insert = insert /\ x.index = index /\ x.drv = marked
      /\ x.cache = e.cache /\ x.count = e.count
  BY <1>4, <1>5 DEF World
<1>9. ASSUME NEW d \in Drive, x.insert[d], x.index[d] # NoSlot
      PROVE  x.drv[d].name = x.cache[x.index[d]].name
  <2>1. SlotOf(r, drives[d].name) = x.index[d]
    BY <1>6, <1>8, <1>9
  <2>2. r.cache[x.index[d]].name = drives[d].name
    BY <1>5, <1>9, <2>1, SlotOfFinds
  <2> QED  BY <1>5, <1>7, <1>8, <2>2
<1>10. \A i \in Slot : i >= x.count => x.cache[i].name = NoName
  BY <1>2, <1>8 DEF SameMenu, Shown, Matched
<1>11. Matched(x)
  BY <1>9, <1>10 DEF Matched
<1> QED  BY <1>1, <1>11 DEF Shown, x, r
================================================================================
