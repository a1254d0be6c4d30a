---------------------------- MODULE CoreDiskProofs ----------------------------
(***************************************************************************)
(* What holds in every reachable state of CoreDisk, for any number of      *)
(* disks, any files and any settings: its types, that the core and Hatari  *)
(* agree on which drives hold a disk, and that no disk gets what was       *)
(* written to another.  With frontends that replace only fresh entries,    *)
(* also that the menu names the disks in the drives; with users that keep  *)
(* to the documented rules, that no disk is in both, and that CoreDisk     *)
(* implements DiskShelf for images, whether everything is saved or, within *)
(* a content, nothing is.                                                  *)
(***************************************************************************)
EXTENDS CoreDiskLemmas

(* The savestate holds well-formed drives.                                 *)
ShotGood == \/ shot = NoData
            \/ shot \in [Drive -> DriveState] /\ \A d \in Drive : LoadedDrive(shot[d])

(* The inductive invariant behind the types and the agreement.  It is      *)
(* stronger than both: a cache entry has a name exactly when it has data   *)
(* (or an unreadable entry could enter a drive), and a disk in a drive has *)
(* contents (or saving it would empty its entry).                          *)
SaneInv ==
  /\ Sane(disk)
  /\ opt \in OptionSets
  /\ fs \in FileSystems
  /\ session \in [n: 0 .. MaxSessions, open: BOOLEAN]
  /\ ShotGood
  /\ writes \in 0 .. MaxWrites
  /\ loads \in 0 .. MaxLoads

LEMMA InitSane == Init => SaneInv
<1> SUFFICES ASSUME Init PROVE SaneInv
  OBVIOUS
<1> DEFINE noEntries == [i \in Slot |-> EmptyEntry]
           noIndex == [d \in Drive |-> 0]
           noDisk == [d \in Drive |-> FALSE]
           noDrives == [d \in Drive |-> EmptyDrive]
           noSaves == [n \in Name |-> NoData]
<1>1. disk = [cache |-> noEntries, count |-> 0, index |-> noIndex, insert |-> noDisk,
              drive |-> 0, drv |-> noDrives, saves |-> noSaves, advanced |-> FALSE]
  BY DEF Init
<1>2. EmptyEntry \in Entry /\ EmptyEntry.name = NoName /\ EmptyEntry.data = NoData
  BY DEF EmptyEntry, Entry, Content
<1>3. EmptyDrive \in DriveState /\ ~Inserted(EmptyDrive)
  BY DEF EmptyDrive, DriveState, Inserted, Content
<1>4. /\ noEntries \in [Slot -> Entry] /\ noIndex \in [Drive -> 0 .. MaxDisks]
      /\ noDisk \in [Drive -> BOOLEAN] /\ noDrives \in [Drive -> DriveState]
      /\ noSaves \in [Name -> Content] /\ 0 \in 0 .. MaxDisks /\ 0 \in Drive
  BY <1>2, <1>3, DiskAssumption DEF Content, Drive
<1>5. /\ \A i \in Slot : noEntries[i].name = NoName /\ noEntries[i].data = NoData
      /\ \A d \in Drive : /\ ~noDisk[d] /\ ~Inserted(noDrives[d])
                          /\ LoadedDrive(noDrives[d])
  BY <1>2, <1>3 DEF LoadedDrive
<1> HIDE DEF noEntries, noIndex, noDisk, noDrives, noSaves
<1>6. Sane(disk)
  BY <1>1, <1>4, <1>5 DEF Sane, Good, Agreed, World
<1> QED  BY <1>6, DiskAssumption DEF Init, SaneInv, ShotGood

LEMMA NextSane == SaneInv /\ [Next]_vars => SaneInv'
<1> SUFFICES ASSUME SaneInv, [Next]_vars PROVE SaneInv'
  OBVIOUS
<1>1. /\ Sane(disk) /\ Good(disk) /\ disk \in World /\ ShotGood
      /\ opt \in Options /\ opt \in OptionSets /\ fs \in FileSystems
      /\ session \in [n: 0 .. MaxSessions, open: BOOLEAN]
      /\ writes \in 0 .. MaxWrites /\ loads \in 0 .. MaxLoads
  BY DiskAssumption DEF SaneInv, Sane, Good
<1> DEFINE rest == opt' = opt /\ fs' = fs /\ session' = session /\ shot' = shot
                   /\ writes' = writes /\ loads' = loads
<1>2. ASSUME NEW x, Sane(x), Runs(x)
      PROVE  SaneInv'
  BY <1>1, <1>2 DEF Runs, SaneInv, ShotGood
<1>3. ASSUME NEW p \in Playlists, retro_load_game(p)
      PROVE  SaneInv'
  <2>1. Sane(core_disk_load_game(disk, p))
    BY <1>1, core_disk_load_gameKeeps
  <2>2. session' \in [n: 0 .. MaxSessions, open: BOOLEAN]
    BY <1>1, <1>3, DiskAssumption DEF retro_load_game
  <2> QED  BY <1>1, <1>3, <2>1, <2>2 DEF retro_load_game, SaneInv, ShotGood
<1>4. ASSUME retro_unload_game
      PROVE  SaneInv'
  <2>1. Sane(core_disk_unload_game(disk))
    BY <1>1, core_disk_unload_gameKeeps
  <2>2. session' \in [n: 0 .. MaxSessions, open: BOOLEAN]
    BY <1>1, <1>4 DEF retro_unload_game
  <2> QED  BY <1>1, <1>4, <2>1, <2>2 DEF retro_unload_game, SaneInv, ShotGood
<1>5. ASSUME NEW e \in BOOLEAN, SetEjectState(e)
      PROVE  SaneInv'
  BY <1>1, <1>2, <1>5, set_eject_stateKeeps DEF SetEjectState
<1>6. ASSUME NEW i \in 0 .. MaxDisks, SetImageIndex(i)
      PROVE  SaneInv'
  BY <1>1, <1>2, <1>6, set_image_indexKeeps DEF SetImageIndex
<1>7. ASSUME NEW i \in Slot, NEW names \in Additions, ReplaceImageIndex(i, names)
      PROVE  SaneInv'
  <2>1. names \in Seq(Name) \ {<< >>}
    BY DiskAssumption
  <2>2. Sane(replace_image_index(disk, i, names))
    BY <1>1, <2>1, replace_image_indexKeeps
  <2> QED  BY <1>2, <1>7, <2>2 DEF ReplaceImageIndex
<1>8. ASSUME AddImageIndex
      PROVE  SaneInv'
  BY <1>1, <1>2, <1>8, add_image_indexKeeps DEF AddImageIndex
<1>9. ASSUME SelectDrive
      PROVE  SaneInv'
  <2>1. 1 - disk.drive \in Drive
    BY <1>1 DEF World, Drive
  <2>2. Sane(core_disk_drive_toggle(disk))
    BY <1>1, <2>1, DriveSelectionKeeps DEF core_disk_drive_toggle
  <2> QED  BY <1>2, <1>9, <2>2 DEF SelectDrive
<1>10. ASSUME SwapDisk
       PROVE  SaneInv'
  BY <1>1, <1>2, <1>10, core_disk_swapKeeps DEF SwapDisk
<1>11. ASSUME ColdReset
       PROVE  SaneInv'
  BY <1>1, <1>2, <1>11, core_disk_drive_reinsertKeeps DEF ColdReset
<1>12. ASSUME NEW d \in Drive, WriteSectors(d)
       PROVE  SaneInv'
  <2>1. writes' \in 0 .. MaxWrites /\ writes + 1 \in Nat
    BY <1>1, <1>12, DiskAssumption DEF WriteSectors
  <2>2. Sane(disk')
    BY <1>1, <1>12, <2>1, SectorWrittenKeeps DEF WriteSectors
  <2> QED  BY <1>1, <1>12, <2>1, <2>2 DEF WriteSectors, SaneInv, ShotGood
<1>13. ASSUME retro_serialize
       PROVE  SaneInv'
  <2>1. disk.drv \in [Drive -> DriveState] /\ \A d \in Drive : LoadedDrive(disk.drv[d])
    BY <1>1 DEF Good, World
  <2> QED  BY <1>1, <1>13, <2>1 DEF retro_serialize, SaneInv, ShotGood
<1>14. ASSUME retro_unserialize
       PROVE  SaneInv'
  <2>1. shot \in [Drive -> DriveState] /\ \A d \in Drive : LoadedDrive(shot[d])
    BY <1>1, <1>14 DEF retro_unserialize, ShotGood
  <2>2. Sane(disk')
    BY <1>1, <1>14, <2>1, RestoreKeeps DEF retro_unserialize
  <2>3. loads' \in 0 .. MaxLoads
    BY <1>1, <1>14, DiskAssumption DEF retro_unserialize
  <2> QED  BY <1>1, <1>14, <2>2, <2>3 DEF retro_unserialize, SaneInv, ShotGood
<1>15. ASSUME NEW o \in OptionSets, ChangeOptions(o)
       PROVE  SaneInv'
  BY <1>1, <1>15 DEF ChangeOptions, SaneInv, ShotGood
<1>16. ASSUME NEW f \in FileSystems, ChangeFileSystem(f)
       PROVE  SaneInv'
  BY <1>1, <1>16 DEF ChangeFileSystem, SaneInv, ShotGood
<1>17. ASSUME UNCHANGED vars
       PROVE  SaneInv'
  BY <1>1, <1>17 DEF vars, SaneInv, ShotGood
<1> QED
  BY <1>3, <1>4, <1>5, <1>6, <1>7, <1>8, <1>9, <1>10, <1>11, <1>12, <1>13, <1>14, <1>15,
     <1>16, <1>17 DEF Next

(* SaneInv holds throughout.                                               *)
THEOREM AlwaysSane == Spec => []SaneInv
BY InitSane, NextSane, PTL DEF Spec

(* Every variable keeps to its type: indices, counters and drives of the   *)
(* core stay in range however content is opened, replaced and restored.    *)
THEOREM TypeCorrect == Spec => []TypeOK
<1>1. SaneInv => TypeOK
  BY DEF SaneInv, Sane, Good, ShotGood, TypeOK
<1> QED  BY <1>1, AlwaysSane, PTL

(* The core believes a disk is in a drive exactly when Hatari has one      *)
(* there, for every frontend, savestate and setting.                       *)
THEOREM InsertionAlwaysAgreed == Spec => []InsertionAgreed
<1>1. SaneInv => InsertionAgreed
  BY DEF SaneInv, Sane, Agreed, InsertionAgreed
<1> QED  BY <1>1, AlwaysSane, PTL

-----------------------------------------------------------------------------
(* The use that the README and libretro ask for: the names in a list       *)
(* differ, Load New Disk replaces new entries only, and a savestate is     *)
(* restored with its disks loaded.                                         *)
Distinct(names) == \A k, l \in 1 .. Len(names) : names[k] = names[l] => k = l

DocumentedUse ==
  /\ ~ReplaceAny
  /\ ~RestoreUncached
  /\ \A p \in Playlists : Distinct(p.names)
  /\ \A names \in Additions : Distinct(names)

(* The inductive invariant behind the two properties below: the menu names *)
(* the disks in the drives, and the savestate holds two different disks.   *)
PlacedInv ==
  /\ Placed(disk)
  /\ shot # NoData => (Inserted(shot[0]) /\ Inserted(shot[1]) => shot[0].name # shot[1].name)

LEMMA InitPlaced == Init => PlacedInv
<1> SUFFICES ASSUME Init PROVE PlacedInv
  OBVIOUS
<1>1. /\ \A i \in Slot : disk.cache[i].name = NoName
      /\ \A d \in Drive : ~disk.insert[d]
  BY DEF Init, EmptyEntry
<1>2. Placed(disk)
  BY <1>1 DEF Placed, Drive
<1> QED  BY <1>2 DEF Init, PlacedInv

LEMMA NextPlaced ==
  ASSUME DocumentedUse, SaneInv, PlacedInv, [Next]_vars
  PROVE  PlacedInv'
<1>1. /\ Sane(disk) /\ Good(disk) /\ disk \in World /\ ShotGood /\ opt \in Options
      /\ Placed(disk) /\ 0 \in Drive /\ 1 \in Drive
  BY DiskAssumption DEF SaneInv, PlacedInv, Sane, Good, Drive
<1>2. ASSUME Placed(disk'), shot' = shot
      PROVE  PlacedInv'
  BY <1>2 DEF PlacedInv, Inserted
<1>3. ASSUME NEW p \in Playlists, retro_load_game(p)
      PROVE  PlacedInv'
  <2>1. Placed(core_disk_load_game(disk, p))
    BY <1>1, core_disk_load_gameKeeps DEF DocumentedUse, Distinct
  <2> QED  BY <1>2, <1>3, <2>1 DEF retro_load_game
<1>4. ASSUME retro_unload_game
      PROVE  PlacedInv'
  <2>1. Placed(core_disk_unload_game(disk))
    BY <1>1, core_disk_unload_gameKeeps
  <2> QED  BY <1>2, <1>4, <2>1 DEF retro_unload_game
<1>5. ASSUME NEW e \in BOOLEAN, SetEjectState(e)
      PROVE  PlacedInv'
  <2>1. Placed(set_eject_state(disk, e))
    BY <1>1, set_eject_stateKeeps
  <2> QED  BY <1>2, <1>5, <2>1 DEF SetEjectState, Runs
<1>6. ASSUME NEW i \in 0 .. MaxDisks, SetImageIndex(i)
      PROVE  PlacedInv'
  <2>1. Placed(set_image_index(disk, i))
    BY <1>1, set_image_indexKeeps
  <2> QED  BY <1>2, <1>6, <2>1 DEF SetImageIndex, Runs
<1>7. ASSUME NEW i \in Slot, NEW names \in Additions, ReplaceImageIndex(i, names)
      PROVE  PlacedInv'
  <2>1. names \in Seq(Name) \ {<< >>} /\ Distinct(names)
    BY DiskAssumption DEF DocumentedUse
  <2>2. disk.cache[i].name = NoName
    BY <1>7 DEF DocumentedUse, ReplaceImageIndex, EmptyEntry
  <2>3. \A d \in Drive : ~(disk.insert[d] /\ disk.index[d] = i)
    BY <1>1, <2>2 DEF Placed, Sane, Agreed, Inserted
  <2>4. /\ i < disk.count
        /\ \A k \in 1 .. Len(names) : \A j \in Slot \ {i} : disk.cache[j].name # names[k]
    BY <1>7 DEF ReplaceImageIndex
  <2>5. Placed(replace_image_index(disk, i, names))
    BY <1>1, <2>1, <2>3, <2>4, replace_image_indexKeeps DEF Distinct
  <2> QED  BY <1>2, <1>7, <2>5 DEF ReplaceImageIndex, Runs
<1>8. ASSUME AddImageIndex
      PROVE  PlacedInv'
  <2>1. Placed(add_image_index(disk))
    BY <1>1, add_image_indexKeeps
  <2> QED  BY <1>2, <1>8, <2>1 DEF AddImageIndex, Runs
<1>9. ASSUME SelectDrive
      PROVE  PlacedInv'
  <2>1. 1 - disk.drive \in Drive
    BY <1>1 DEF World, Drive
  <2>2. Placed(core_disk_drive_toggle(disk))
    BY <1>1, <2>1, DriveSelectionKeeps DEF core_disk_drive_toggle
  <2> QED  BY <1>2, <1>9, <2>2 DEF SelectDrive, Runs
<1>10. ASSUME SwapDisk
       PROVE  PlacedInv'
  <2>1. Placed(core_disk_swap(disk))
    BY <1>1, core_disk_swapKeeps
  <2> QED  BY <1>2, <1>10, <2>1 DEF SwapDisk, Runs
<1>11. ASSUME ColdReset
       PROVE  PlacedInv'
  <2>1. Placed(core_disk_drive_reinsert(disk))
    BY <1>1, core_disk_drive_reinsertKeeps
  <2> QED  BY <1>2, <1>11, <2>1 DEF ColdReset, Runs
<1>12. ASSUME NEW d \in Drive, WriteSectors(d)
       PROVE  PlacedInv'
  <2>1. writes + 1 \in Nat
    BY DiskAssumption DEF SaneInv
  <2>2. Placed(disk')
    BY <1>1, <1>12, <2>1, SectorWrittenKeeps DEF WriteSectors
  <2> QED  BY <1>2, <1>12, <2>2 DEF WriteSectors
<1>13. ASSUME retro_serialize
       PROVE  PlacedInv'
  <2>1. disk' = disk /\ shot' = disk.drv
    BY <1>13 DEF retro_serialize
  <2>2. Inserted(disk.drv[0]) /\ Inserted(disk.drv[1]) => disk.drv[0].name # disk.drv[1].name
    BY <1>1, PlacedDiffer
  <2> QED  BY <1>1, <2>1, <2>2 DEF PlacedInv, Inserted
<1>14. ASSUME retro_unserialize
       PROVE  PlacedInv'
  <2>1. /\ shot # NoData
        /\ \A d \in Drive : Inserted(shot[d]) => SlotOf(disk, shot[d].name) # NoSlot
        /\ disk' = core_disk_reindex(DrivesRestored(disk, shot)) /\ shot' = shot
    BY <1>14 DEF retro_unserialize, DocumentedUse
  <2>2. shot \in [Drive -> DriveState] /\ \A d \in Drive : LoadedDrive(shot[d])
    BY <1>1, <2>1 DEF ShotGood
  <2>3. Inserted(shot[0]) /\ Inserted(shot[1]) => shot[0].name # shot[1].name
    BY <2>1 DEF PlacedInv
  <2>4. Placed(disk')
    BY <1>1, <2>1, <2>2, <2>3, RestoreKeeps
  <2> QED  BY <1>2, <2>1, <2>4
<1>15. ASSUME \/ \E o \in OptionSets : ChangeOptions(o)
              \/ \E f \in FileSystems : ChangeFileSystem(f)
              \/ UNCHANGED vars
       PROVE  PlacedInv'
  BY <1>1, <1>2, <1>15 DEF ChangeOptions, ChangeFileSystem, vars
<1> QED
  BY <1>3, <1>4, <1>5, <1>6, <1>7, <1>8, <1>9, <1>10, <1>11, <1>12, <1>13, <1>14, <1>15
  DEF Next

(* PlacedInv holds throughout, under the documented use.                   *)
THEOREM AlwaysPlaced == ASSUME DocumentedUse PROVE Spec => []PlacedInv
<1>1. SaneInv /\ PlacedInv /\ [Next]_vars => PlacedInv'
  BY NextPlaced
<1> QED  BY <1>1, InitPlaced, AlwaysSane, PTL DEF Spec

(* Under the documented use no disk is ever in both drives, so no eject    *)
(* overwrites what the eject of another copy has saved.                    *)
THEOREM NeverInBothDrives ==
  ASSUME DocumentedUse PROVE Spec => []NoDiskInBothDrives
<1>1. SaneInv /\ PlacedInv => NoDiskInBothDrives
  BY PlacedDiffer DEF SaneInv, PlacedInv, NoDiskInBothDrives
<1> QED  BY <1>1, AlwaysSane, AlwaysPlaced, PTL

-----------------------------------------------------------------------------
(* The inductive invariant behind the next theorem: Shown, without what    *)
(* SaneInv says.                                                           *)
ShownInv == Matched(disk)

LEMMA NextShown ==
  ASSUME ~ReplaceAny, SaneInv, ShownInv, [Next]_vars
  PROVE  ShownInv'
<1>1. Shown(disk) /\ Sane(disk) /\ Good(disk) /\ disk \in World /\ ShotGood /\ opt \in Options
  BY DiskAssumption DEF SaneInv, ShownInv, Shown, Sane, Good
<1>2. ASSUME NEW x, Shown(x), disk' = x
      PROVE  ShownInv'
  BY <1>2 DEF ShownInv, Shown
<1>3. ASSUME NEW p \in Playlists, retro_load_game(p)
      PROVE  ShownInv'
  BY <1>1, <1>2, <1>3, core_disk_load_gameShown DEF retro_load_game
<1>4. ASSUME retro_unload_game
      PROVE  ShownInv'
  BY <1>1, <1>2, <1>4, core_disk_unload_gameShown DEF retro_unload_game
<1>5. ASSUME NEW e \in BOOLEAN, SetEjectState(e)
      PROVE  ShownInv'
  BY <1>1, <1>2, <1>5, set_eject_stateShown DEF SetEjectState, Runs
<1>6. ASSUME NEW i \in 0 .. MaxDisks, SetImageIndex(i)
      PROVE  ShownInv'
  BY <1>1, <1>2, <1>6, set_image_indexShown DEF SetImageIndex, Runs
<1>7. ASSUME NEW i \in Slot, NEW names \in Additions, ReplaceImageIndex(i, names)
      PROVE  ShownInv'
  <2>1. names \in Seq(Name) \ {<< >>} /\ i < disk.count /\ disk.cache[i].name = NoName
    BY <1>7, DiskAssumption DEF ReplaceImageIndex, EmptyEntry
  <2> QED  BY <1>1, <1>2, <1>7, <2>1, replace_image_indexShown DEF ReplaceImageIndex, Runs
<1>8. ASSUME AddImageIndex
      PROVE  ShownInv'
  BY <1>1, <1>2, <1>8, add_image_indexShown DEF AddImageIndex, Runs
<1>9. ASSUME SelectDrive
      PROVE  ShownInv'
  <2>1. 1 - disk.drive \in Drive
    BY <1>1 DEF World, Drive
  <2>2. Shown(core_disk_drive_toggle(disk))
    BY <1>1, <2>1, DriveSelectionShown DEF core_disk_drive_toggle
  <2> QED  BY <1>2, <1>9, <2>2 DEF SelectDrive, Runs
<1>10. ASSUME SwapDisk
       PROVE  ShownInv'
  BY <1>1, <1>2, <1>10, core_disk_swapShown DEF SwapDisk, Runs
<1>11. ASSUME ColdReset
       PROVE  ShownInv'
  BY <1>1, <1>2, <1>11, core_disk_drive_reinsertShown DEF ColdReset, Runs
<1>12. ASSUME NEW d \in Drive, WriteSectors(d)
       PROVE  ShownInv'
  <2>1. writes + 1 \in Nat /\ Inserted(disk.drv[d])
    BY <1>12, DiskAssumption DEF SaneInv, WriteSectors
  <2>2. Shown([disk EXCEPT !.drv[d] = SectorWritten(disk.drv[d], writes + 1)])
    BY <1>1, <2>1, SectorWrittenShown
  <2> QED  BY <1>2, <1>12, <2>2 DEF WriteSectors
<1>13. ASSUME retro_unserialize
       PROVE  ShownInv'
  <2>1. shot \in [Drive -> DriveState] /\ \A d \in Drive : LoadedDrive(shot[d])
    BY <1>1, <1>13 DEF retro_unserialize, ShotGood
  <2> QED  BY <1>1, <1>2, <1>13, <2>1, RestoreShown DEF retro_unserialize
<1>14. ASSUME retro_serialize
       PROVE  ShownInv'
  BY <1>1, <1>2, <1>14 DEF retro_serialize
<1>15. ASSUME NEW o \in OptionSets, ChangeOptions(o)
       PROVE  ShownInv'
  BY <1>1, <1>2, <1>15 DEF ChangeOptions
<1>16. ASSUME NEW f \in FileSystems, ChangeFileSystem(f)
       PROVE  ShownInv'
  BY <1>1, <1>2, <1>16 DEF ChangeFileSystem
<1>17. ASSUME UNCHANGED vars
       PROVE  ShownInv'
  BY <1>1, <1>2, <1>17 DEF vars
<1> QED
  BY <1>3, <1>4, <1>5, <1>6, <1>7, <1>8, <1>9, <1>10, <1>11, <1>12, <1>13, <1>14, <1>15, <1>16,
     <1>17 DEF Next

(* With frontends that replace only empty entries the disk control menu is *)
(* right about what is in the drives, and so is the entry that an eject    *)
(* updates: also when a savestate has put in a disk that the list does not *)
(* name, and when the list names a disk twice.                             *)
THEOREM DriveAlwaysHoldsIndexedDisk ==
  ASSUME ~ReplaceAny PROVE Spec => []DriveHoldsIndexedDisk
<1>1. Init => ShownInv
  BY DEF Init, ShownInv, Matched, EmptyEntry
<1>2. SaneInv /\ ShownInv /\ [Next]_vars => ShownInv'
  BY NextShown
<1>3. SaneInv /\ ShownInv => DriveHoldsIndexedDisk
  BY DEF ShownInv, Matched, DriveHoldsIndexedDisk
<1> QED  BY <1>1, <1>2, <1>3, AlwaysSane, PTL DEF Spec

-----------------------------------------------------------------------------
(* The settings under which everything is saved and nothing fails.         *)
AlwaysSaves ==
  /\ FileSystems = {"ok"}
  /\ \A o \in OptionSets : o.enable_save /\ o.floppy_modify

(* The inductive invariant behind the two theorems below: the cache, the   *)
(* drives and the saves folder agree on every image nobody has written to. *)
KeptInv ==
  /\ Filed(disk)
  /\ shot # NoData => \A d \in Drive : Unsaved(shot[d], disk.saves)

LEMMA InitKept == Init => KeptInv
<1> SUFFICES ASSUME Init PROVE KeptInv
  OBVIOUS
<1>1. Sane(disk) /\ Placed(disk)
  BY InitSane, InitPlaced DEF SaneInv, PlacedInv
<1>2. /\ \A i \in Slot : disk.cache[i].name = NoName /\ disk.cache[i].extra_name = NoName
      /\ \A n \in Name : disk.saves[n] = NoData
      /\ \A d \in Drive : disk.drv[d].name = NoName
      /\ shot = NoData
  BY DEF Init, EmptyEntry, EmptyDrive
<1>3. ~ImageFile(NoName)
  BY DriveAssumption DEF ImageFile
<1>4. EntriesKnown(disk) /\ Pristine(disk) /\ SavesWhole(disk) /\ UniqueNames(disk)
  BY <1>2, <1>3 DEF EntriesKnown, Pristine, SavesWhole, UniqueNames
<1>5. Apart(disk.drv)
  BY <1>2 DEF Apart, Inserted, Drive
<1> QED  BY <1>1, <1>2, <1>4, <1>5 DEF KeptInv, Filed, Kept, Sane

(* Every step but a write, a savestate and its restore leaves all images   *)
(* with what was on them.                                                  *)
LEMMA NextStores ==
  ASSUME DocumentedUse, AlwaysSaves, SaneInv, PlacedInv, KeptInv, [Next]_vars
  PROVE  \/ /\ Later(disk, disk')
            /\ shot' = shot /\ writes' = writes /\ loads' = loads
         \/ \E d \in Drive : WriteSectors(d)
         \/ retro_serialize
         \/ retro_unserialize
<1> DEFINE Quiet == /\ Later(disk, disk')
                    /\ shot' = shot /\ writes' = writes /\ loads' = loads
<1>1. Filed(disk) /\ Saved /\ Placed(disk) /\ Sane(disk)
  BY DiskAssumption DEF KeptInv, SaneInv, AlwaysSaves, Saved, Filed
<1>2. ASSUME NEW x, Later(disk, x), Runs(x)
      PROVE  Quiet
  BY <1>2 DEF Runs
<1>3. ASSUME NEW p \in Playlists, retro_load_game(p)
      PROVE  Quiet
  <2>1. Later(disk, core_disk_load_game(disk, p))
    BY <1>1, core_disk_load_gameStores DEF DocumentedUse, Distinct
  <2> QED  BY <1>3, <2>1 DEF retro_load_game
<1>4. ASSUME retro_unload_game
      PROVE  Quiet
  BY <1>1, <1>4, core_disk_unload_gameStores DEF retro_unload_game
<1>5. ASSUME NEW e \in BOOLEAN, SetEjectState(e)
      PROVE  Quiet
  BY <1>1, <1>2, <1>5, set_eject_stateStores DEF SetEjectState
<1>6. ASSUME NEW i \in 0 .. MaxDisks, SetImageIndex(i)
      PROVE  Quiet
  BY <1>1, <1>2, <1>6, set_image_indexStores DEF SetImageIndex
<1>7. ASSUME NEW i \in Slot, NEW names \in Additions, ReplaceImageIndex(i, names)
      PROVE  Quiet
  <2>1. names \in Seq(Name) \ {<< >>} /\ Distinct(names)
    BY DiskAssumption DEF DocumentedUse
  <2>2. disk.cache[i].name = NoName /\ disk.cache[i].extra_name = NoName
    BY <1>7 DEF DocumentedUse, ReplaceImageIndex, EmptyEntry
  <2>3. \A d \in Drive : ~(disk.insert[d] /\ disk.index[d] = i)
    BY <1>1, <2>2 DEF Placed, Sane, Agreed, Inserted
  <2>4. /\ i < disk.count
        /\ \A k \in 1 .. Len(names) : \A j \in Slot \ {i} : disk.cache[j].name # names[k]
    BY <1>7 DEF ReplaceImageIndex
  <2>5. Later(disk, replace_image_index(disk, i, names))
    BY <1>1, <2>1, <2>2, <2>3, <2>4, replace_image_indexStores DEF Distinct
  <2> QED  BY <1>2, <1>7, <2>5 DEF ReplaceImageIndex
<1>8. ASSUME AddImageIndex
      PROVE  Quiet
  BY <1>1, <1>2, <1>8, add_image_indexStores DEF AddImageIndex
<1>9. ASSUME SelectDrive
      PROVE  Quiet
  <2>1. 1 - disk.drive \in Drive
    BY <1>1 DEF Sane, Good, World, Drive
  <2>2. Later(disk, core_disk_drive_toggle(disk))
    BY <1>1, <2>1, DriveSelectionStores DEF core_disk_drive_toggle
  <2> QED  BY <1>2, <1>9, <2>2 DEF SelectDrive
<1>10. ASSUME SwapDisk
       PROVE  Quiet
  BY <1>1, <1>2, <1>10, core_disk_swapStores DEF SwapDisk
<1>11. ASSUME ColdReset
       PROVE  Quiet
  BY <1>1, <1>2, <1>11, core_disk_drive_reinsertStores DEF ColdReset
<1>12. ASSUME \/ \E o \in OptionSets : ChangeOptions(o)
              \/ \E f \in FileSystems : ChangeFileSystem(f)
              \/ UNCHANGED vars
       PROVE  Quiet
  <2>1. Later(disk, disk)
    BY <1>1, LaterReflexive
  <2> QED  BY <1>12, <2>1 DEF ChangeOptions, ChangeFileSystem, vars
<1> HIDE DEF Quiet
<1>13. \/ Quiet
       \/ \E d \in Drive : WriteSectors(d)
       \/ retro_serialize
       \/ retro_unserialize
  BY <1>3, <1>4, <1>5, <1>6, <1>7, <1>8, <1>9, <1>10, <1>11, <1>12 DEF Next
<1> QED  BY <1>13 DEF Quiet

(* What a write and a restored savestate do to the images.                 *)
LEMMA WriteStores ==
  ASSUME SaneInv, KeptInv, NEW d \in Drive, WriteSectors(d)
  PROVE  /\ Filed(disk') /\ SavesGrow(disk, disk') /\ shot' = shot
         /\ \A n \in Name : ImageFile(n) =>
              OnDisk(disk', n) = IF disk.drv[d].name = n THEN writes + 1 ELSE OnDisk(disk, n)
<1>1. Filed(disk) /\ Inserted(disk.drv[d]) /\ writes + 1 \in Nat
  BY DiskAssumption DEF KeptInv, SaneInv, WriteSectors
<1> QED  BY <1>1, SectorWrittenStores DEF WriteSectors

LEMMA RestoredStores ==
  ASSUME DocumentedUse, AlwaysSaves, SaneInv, PlacedInv, KeptInv, retro_unserialize
  PROVE  /\ Filed(disk') /\ SavesGrow(disk, disk') /\ shot' = shot
         /\ \A n \in Name : ImageFile(n) =>
              OnDisk(disk', n) = IF shot[0].name = n THEN shot[0].buffer
                                 ELSE IF shot[1].name = n THEN shot[1].buffer
                                 ELSE OnDisk(disk, n)
<1>1. Filed(disk) /\ Saved
  BY DiskAssumption DEF KeptInv, SaneInv, AlwaysSaves, Saved
<1>2. /\ shot # NoData
      /\ \A d \in Drive : Inserted(shot[d]) => SlotOf(disk, shot[d].name) # NoSlot
      /\ disk' = core_disk_reindex(DrivesRestored(disk, shot)) /\ shot' = shot
  BY DEF retro_unserialize, DocumentedUse
<1>3. /\ shot \in [Drive -> DriveState] /\ \A d \in Drive : LoadedDrive(shot[d])
      /\ Apart(shot) /\ \A d \in Drive : Unsaved(shot[d], disk.saves)
  BY <1>2 DEF SaneInv, ShotGood, PlacedInv, Apart, KeptInv
<1> QED  BY <1>1, <1>2, <1>3, RestoreStores

LEMMA NextKept ==
  ASSUME DocumentedUse, AlwaysSaves, SaneInv, PlacedInv, KeptInv, [Next]_vars
  PROVE  KeptInv'
<1>1. ASSUME Filed(disk'), SavesGrow(disk, disk'), shot' = shot
      PROVE  KeptInv'
  BY <1>1 DEF KeptInv, Unsaved, SavesGrow, ImageFile
<1>2. CASE /\ Later(disk, disk')
           /\ shot' = shot /\ writes' = writes /\ loads' = loads
  BY <1>1, <1>2 DEF Later
<1>3. CASE \E d \in Drive : WriteSectors(d)
  BY <1>1, <1>3, WriteStores
<1>4. CASE retro_serialize
  <2>1. disk' = disk /\ shot' = disk.drv
    BY <1>4 DEF retro_serialize
  <2>2. ASSUME NEW d \in Drive
        PROVE  Unsaved(disk.drv[d], disk.saves)
    BY DriveAssumption DEF KeptInv, Filed, Kept, Pristine, Unsaved, Version
  <2> QED  BY <2>1, <2>2 DEF KeptInv
<1>5. CASE retro_unserialize
  BY <1>1, <1>5, RestoredStores
<1> QED  BY <1>2, <1>3, <1>4, <1>5, NextStores

(* KeptInv holds throughout, under the documented use with everything      *)
(* saved.                                                                  *)
THEOREM AlwaysKept == ASSUME DocumentedUse, AlwaysSaves PROVE Spec => []KeptInv
<1>1. SaneInv /\ PlacedInv /\ KeptInv /\ [Next]_vars => KeptInv'
  BY NextKept
<1> QED  BY <1>1, InitKept, AlwaysSane, AlwaysPlaced, PTL DEF Spec

(* Under the documented use with everything saved, the cache always has    *)
(* what is on a disk that is not marked changed: not saving it at its      *)
(* eject loses nothing, also after savestates and resets.                  *)
THEOREM UnchangedAlwaysCached ==
  ASSUME DocumentedUse, AlwaysSaves PROVE Spec => []UnchangedDiskIsCached
<1>1. ASSUME SaneInv, KeptInv, NEW d \in Drive,
             Inserted(disk.drv[d]), ~disk.drv[d].changed, disk.index[d] # NoSlot,
             Format[disk.drv[d].name] = "image"
      PROVE  disk.cache[disk.index[d]].data = disk.drv[d].buffer
  <2>1. /\ Sane(disk) /\ Placed(disk) /\ Kept(disk) /\ disk.drv[d] \in DriveState
    BY <1>1 DEF KeptInv, Filed, Sane, Good, LoadedDrive
  <2>2. ImageFile(disk.drv[d].name)
    BY <1>1, <2>1 DEF Inserted, DriveState, ImageFile
  <2>3. disk.index[d] \in Slot /\ disk.drv[d].name = disk.cache[disk.index[d]].name
    BY <1>1, <2>1 DEF Sane, Agreed, Placed
  <2> QED  BY <1>1, <2>1, <2>2, <2>3 DEF Kept, Pristine, EntriesKnown
<1>2. SaneInv /\ KeptInv => UnchangedDiskIsCached
  BY <1>1 DEF UnchangedDiskIsCached
<1> QED  BY <1>2, AlwaysSane, AlwaysKept, PTL

-----------------------------------------------------------------------------
(* Refinement of DiskShelf, for disks that are saved whole.                *)
LEMMA ImagesAreFiles == Images = {n \in Name : ImageFile(n)}
BY DEF Images, ImageFile

(* The contents that the refinement mapping gives an image are what is in  *)
(* its drive or in the saves folder: the cache need not be asked.          *)
ContentsKnown ==
  ContentsOf(Images) = [n \in Images |-> OnDisk(disk, n)]

LEMMA ContentsOnDisk ==
  ASSUME AlwaysSaves PROVE SaneInv /\ KeptInv => ContentsKnown
<1> SUFFICES ASSUME SaneInv, KeptInv, NEW n \in Images
             PROVE  Contents(n) = OnDisk(disk, n)
  BY DEF ContentsKnown, ContentsOf, Persistent, AlwaysSaves
<1>1. /\ n \in Name /\ ImageFile(n) /\ Format[n] # "stx" /\ opt.enable_save /\ n # NoName
  BY ImagesAreFiles, DriveAssumption DEF Images, SaneInv, AlwaysSaves
<1>2. /\ disk \in World /\ EntriesKnown(disk) /\ Apart(disk.drv)
      /\ \A d \in Drive : LoadedDrive(disk.drv[d])
  BY DEF KeptInv, Filed, Kept, Good
<1>3. Contents(n) =
        IF \E d \in Drive : disk.drv[d].name = n
        THEN Version(disk.drv[CHOOSE x \in Drive : disk.drv[x].name = n].buffer)
        ELSE IF SlotOf(disk, n) = NoSlot THEN Version(disk.saves[n])
        ELSE Version(disk.cache[SlotOf(disk, n)].data)
  BY <1>1 DEF Contents
<1>4. ASSUME NEW d \in Drive, disk.drv[d].name = n
      PROVE  Contents(n) = OnDisk(disk, n)
  <2>1. \A x \in Drive : disk.drv[x].name = n => x = d
    BY <1>1, <1>2, <1>4 DEF Apart, Inserted, Drive
  <2>2. (CHOOSE x \in Drive : disk.drv[x].name = n) = d
    BY <1>4, <2>1
  <2>3. Version(disk.drv[d].buffer) = disk.drv[d].buffer
    BY <1>1, <1>2, <1>4 DEF LoadedDrive, Inserted, Version
  <2>4. OnDisk(disk, n) = disk.drv[d].buffer
    BY <1>4, <2>1 DEF OnDisk, Drive
  <2> QED  BY <1>3, <1>4, <2>2, <2>3, <2>4
<1>5. ASSUME \A d \in Drive : disk.drv[d].name # n
      PROVE  Contents(n) = OnDisk(disk, n)
  <2>1. OnDisk(disk, n) = Version(disk.saves[n])
    BY <1>5 DEF OnDisk, Drive
  <2>2. CASE SlotOf(disk, n) = NoSlot
    BY <1>3, <1>5, <2>1, <2>2
  <2>3. CASE SlotOf(disk, n) # NoSlot
    <3>1. disk.cache[SlotOf(disk, n)].data = Version(disk.saves[n])
      BY <1>1, <1>2, <2>3, SlotOfFinds DEF EntriesKnown
    <3>2. Version(Version(disk.saves[n])) = Version(disk.saves[n])
      BY DEF Version
    <3> QED  BY <1>3, <1>5, <2>1, <2>3, <3>1, <3>2
  <2> QED  BY <2>2, <2>3
<1> QED  BY <1>4, <1>5

(* The savestate holds the images that were in the drives.                 *)
CapturedKnown ==
  shot # NoData =>
    Captured(Images) = [n \in {m \in Images : shot[0].name = m \/ shot[1].name = m} |->
                  IF shot[0].name = n THEN shot[0].buffer ELSE shot[1].buffer]

LEMMA CapturedDisks ==
  SaneInv /\ PlacedInv => CapturedKnown
<1> SUFFICES ASSUME SaneInv, PlacedInv, shot # NoData
             PROVE  Captured(Images) = [n \in {m \in Images : shot[0].name = m \/ shot[1].name = m} |->
                                  IF shot[0].name = n THEN shot[0].buffer ELSE shot[1].buffer]
  BY DEF CapturedKnown
<1> DEFINE held == {d \in Drive : shot[d].name \in Images}
           names == {shot[d].name : d \in held}
           at(n) == CHOOSE d \in held : shot[d].name = n
<1>1. Captured(Images) = [n \in names |-> IF Format[n] = "stx" THEN shot[at(n)].overlay
                                  ELSE Version(shot[at(n)].buffer)]
  BY DEF Captured
<1>2. /\ \A d \in Drive : LoadedDrive(shot[d])
      /\ Inserted(shot[0]) /\ Inserted(shot[1]) => shot[0].name # shot[1].name
  BY DEF SaneInv, ShotGood, PlacedInv
<1>3. names = {m \in Images : shot[0].name = m \/ shot[1].name = m}
  BY DEF Drive
<1>4. ASSUME NEW n \in names
      PROVE  /\ Format[n] # "stx"
             /\ Version(shot[at(n)].buffer)
                  = IF shot[0].name = n THEN shot[0].buffer ELSE shot[1].buffer
  <2>1. n \in Images /\ n \in Name /\ n # NoName /\ Format[n] # "stx"
    BY DriveAssumption DEF Images
  <2>2. PICK d \in held : shot[d].name = n
    OBVIOUS
  <2>3. \A x \in held : shot[x].name = n => x = d
    BY <1>2, <2>1, <2>2 DEF Inserted, Drive
  <2>4. at(n) = d
    BY <2>2, <2>3
  <2>5. Version(shot[d].buffer) = shot[d].buffer
    BY <1>2, <2>1, <2>2 DEF LoadedDrive, Inserted, Version
  <2>6. shot[d].buffer = IF shot[0].name = n THEN shot[0].buffer ELSE shot[1].buffer
    BY <2>1, <2>2, <2>3 DEF Drive
  <2> QED  BY <2>1, <2>4, <2>5, <2>6
<1> HIDE DEF names, at
<1> QED  BY <1>1, <1>3, <1>4

(* One step of CoreDisk is one step or none of DiskShelf.                  *)
LEMMA NextShelf ==
  ASSUME DocumentedUse, AlwaysSaves
  PROVE  /\ SaneInv /\ PlacedInv /\ KeptInv
         /\ SaneInv' /\ PlacedInv' /\ KeptInv'
         /\ [Next]_vars
         => [ImageShelf!Next]_(ImageShelf!shelf)
<1> DEFINE contents == ContentsOf(Images)
<1>1. SaneInv' /\ KeptInv' => ContentsKnown'
  BY ContentsOnDisk, PTL
<1>2. SaneInv' /\ PlacedInv' => CapturedKnown'
  BY CapturedDisks, PTL
<1> SUFFICES ASSUME SaneInv, PlacedInv, KeptInv, SaneInv', PlacedInv', KeptInv', [Next]_vars
             PROVE  [ImageShelf!Next]_(ImageShelf!shelf)
  OBVIOUS
<1>3. CapturedKnown /\ CapturedKnown'
  BY <1>2, CapturedDisks
<1>4. /\ contents = [n \in Images |-> OnDisk(disk, n)]
      /\ contents' = [n \in Images |-> OnDisk(disk', n)]
  BY <1>1, ContentsOnDisk DEF ContentsKnown
<1>5. \A n \in Images : n \in Name /\ ImageFile(n)
  BY ImagesAreFiles
<1> HIDE DEF contents
<1>6. CASE /\ Later(disk, disk')
           /\ shot' = shot /\ writes' = writes /\ loads' = loads
  <2>1. contents' = contents
    BY <1>4, <1>5, <1>6 DEF Later, SameDisks
  <2>2. Captured(Images)' = Captured(Images)
    BY <1>6 DEF Captured
  <2>3. session.open \in BOOLEAN /\ session'.open \in BOOLEAN
    BY DEF SaneInv
  <2>4. CASE session'.open = session.open
    BY <1>6, <2>1, <2>2, <2>4 DEF ImageShelf!shelf, contents
  <2>5. CASE session.open /\ ~session'.open
    <3>1. ImageShelf!Close
      BY <1>6, <2>1, <2>2, <2>5 DEF ImageShelf!Close, contents, Persistent, AlwaysSaves
    <3> QED  BY <3>1 DEF ImageShelf!Next
  <2>6. CASE ~session.open /\ session'.open
    <3>1. ImageShelf!Open
      BY <1>6, <2>1, <2>2, <2>6 DEF ImageShelf!Open, contents, Persistent, AlwaysSaves
    <3> QED  BY <3>1 DEF ImageShelf!Next
  <2> QED  BY <2>3, <2>4, <2>5, <2>6
<1>7. ASSUME NEW d \in Drive, WriteSectors(d)
      PROVE  ImageShelf!Next
  <2>1. \A n \in Images :
          OnDisk(disk', n) = IF disk.drv[d].name = n THEN writes + 1 ELSE OnDisk(disk, n)
    BY <1>5, <1>7, WriteStores
  <2>2. /\ session.open /\ writes' = writes + 1 /\ loads' = loads /\ session' = session
        /\ shot' = shot
    BY <1>7 DEF WriteSectors
  <2>3. Captured(Images)' = Captured(Images)
    BY <2>2 DEF Captured
  <2>4. CASE disk.drv[d].name \in Images
    <3>1. contents' = [contents EXCEPT ![disk.drv[d].name] = writes + 1]
      BY <1>4, <2>1, <2>4
    <3>2. ImageShelf!Write(disk.drv[d].name)
      BY <2>2, <2>3, <3>1 DEF ImageShelf!Write, contents
    <3> QED  BY <2>4, <3>2 DEF ImageShelf!Next
  <2>5. CASE disk.drv[d].name \notin Images
    <3>1. contents' = contents
      BY <1>4, <2>1, <2>5
    <3>2. ImageShelf!OtherWrite
      BY <2>2, <2>3, <3>1 DEF ImageShelf!OtherWrite, contents
    <3> QED  BY <3>2 DEF ImageShelf!Next
  <2> QED  BY <2>4, <2>5
<1>8. CASE retro_serialize
  <2>1. /\ session.open /\ shot' = disk.drv /\ disk' = disk /\ writes' = writes
        /\ loads' = loads /\ session' = session /\ opt' = opt
    BY <1>8 DEF retro_serialize
  <2>2. contents' = contents
    BY <1>4, <2>1
  <2> DEFINE S == {m \in Images : disk.drv[0].name = m \/ disk.drv[1].name = m}
  <2>3. CASE shot' # NoData
    <3>1. Captured(Images)' = [n \in S |-> IF disk.drv[0].name = n THEN disk.drv[0].buffer
                                   ELSE disk.drv[1].buffer]
      BY <1>3, <2>1, <2>3 DEF CapturedKnown
    <3>2. \A n \in S : contents[n] = IF disk.drv[0].name = n THEN disk.drv[0].buffer
                                      ELSE disk.drv[1].buffer
      BY <1>4 DEF OnDisk
    <3>3. Captured(Images)' = [n \in S |-> contents[n]]
      BY <3>1, <3>2
    <3>4. ImageShelf!SaveState(S)
      BY <2>1, <2>2, <3>3 DEF ImageShelf!SaveState, contents
    <3> QED  BY <3>4 DEF ImageShelf!Next
  <2>4. CASE shot' = NoData
    <3>1. Captured(Images)' = [n \in {} |-> contents[n]]
      BY <2>4 DEF Captured
    <3>2. ImageShelf!SaveState({})
      BY <2>1, <2>2, <3>1 DEF ImageShelf!SaveState, contents
    <3> QED  BY <3>2 DEF ImageShelf!Next
  <2> QED  BY <2>3, <2>4
<1>9. CASE retro_unserialize
  <2>1. /\ session.open /\ shot # NoData /\ loads' = loads + 1 /\ shot' = shot
        /\ writes' = writes /\ session' = session
    BY <1>9 DEF retro_unserialize
  <2>2. Captured(Images) = [n \in {m \in Images : shot[0].name = m \/ shot[1].name = m} |->
                      IF shot[0].name = n THEN shot[0].buffer ELSE shot[1].buffer]
    BY <1>3, <2>1 DEF CapturedKnown
  <2>3. \A n \in Images :
          OnDisk(disk', n) = IF shot[0].name = n THEN shot[0].buffer
                             ELSE IF shot[1].name = n THEN shot[1].buffer
                             ELSE OnDisk(disk, n)
    BY <1>5, <1>9, RestoredStores
  <2>4. contents' = [n \in Images |-> IF n \in DOMAIN Captured(Images) THEN Captured(Images)[n]
                                        ELSE contents[n]]
    BY <1>4, <2>2, <2>3
  <2>5. Captured(Images)' = Captured(Images)
    BY <2>1 DEF Captured
  <2>6. ImageShelf!LoadState
    BY <2>1, <2>4, <2>5 DEF ImageShelf!LoadState, contents
  <2> QED  BY <2>6 DEF ImageShelf!Next
<1> QED  BY <1>6, <1>7, <1>8, <1>9, NextStores

LEMMA InitShelf ==
  ASSUME AlwaysSaves
  PROVE  Init => ImageShelf!Init
<1> SUFFICES ASSUME Init PROVE ImageShelf!Init
  OBVIOUS
<1>1. SaneInv /\ KeptInv
  BY InitSane, InitKept
<1>2. ContentsOf(Images) = [n \in Images |-> OnDisk(disk, n)]
  BY <1>1, ContentsOnDisk DEF ContentsKnown
<1>3. ASSUME NEW n \in Images
      PROVE  OnDisk(disk, n) = 0
  <2>1. n \in Name /\ n # NoName /\ disk.saves[n] = NoData
    BY DriveAssumption DEF Images, Init
  <2>2. \A d \in Drive : disk.drv[d].name = NoName
    BY DEF Init, EmptyDrive
  <2> QED  BY <2>1, <2>2, DriveAssumption DEF OnDisk, Drive, Version
<1>4. Captured(Images) = << >>
  BY DEF Captured, Init
<1> QED  BY <1>2, <1>3, <1>4 DEF ImageShelf!Init, Init

(* For any number of disks and any files: under the documented use with    *)
(* everything saved, nothing but a write of the machine or a restored      *)
(* savestate changes what is on an image, whatever the order of ejects,    *)
(* inserts, swaps, resets, additions, savestates and contents, and         *)
(* whatever STX disks and unreadable files the image is kept with.         *)
THEOREM ImagesAlwaysAreRegisters ==
  ASSUME DocumentedUse, AlwaysSaves PROVE Spec => ImagesAreRegisters
BY InitShelf, NextShelf, AlwaysSane, AlwaysPlaced, AlwaysKept, PTL
DEF Spec, ImagesAreRegisters, ImageShelf!Spec

-----------------------------------------------------------------------------
(* The same while a content is open, whatever happens to the saves.  What  *)
(* it needs is that a restore saves the disks it takes out, and that a     *)
(* savestate is restored in the content it was made in: the marks of its   *)
(* disks are about that content's cache.                                   *)
StatesStay ==
  /\ \A o \in OptionSets : o.floppy_modify
  /\ MaxSessions = 1 \/ MaxLoads = 0

(* Which contents have all images on their list.                           *)
ListsAll(p) ==
  /\ Len(p.names) <= MaxDisks
  /\ \A n \in Name : ImageFile(n) => \E k \in 1 .. Len(p.names) : p.names[k] = n

(* Saving is on for good, or off for good, or turned on and off while all  *)
(* images are listed: an image that is not is loaded with its save or      *)
(* without.                                                                *)
SavingSettled ==
  \/ \A o, q \in OptionSets : o.enable_save = q.enable_save
  \/ \A p \in Playlists : ListsAll(p)

(* The inductive invariant: the cache has what is on the disks that are    *)
(* not marked changed, in the drives and in the savestate.                 *)
Remembered ==
  /\ shot # NoData \/ session.open => session.n > 0
  /\ shot # NoData => \A d \in Drive : ImageFile(shot[d].name) => Past(shot[d].buffer)
  /\ shot # NoData /\ session.open /\ MaxLoads > 0 => \A d \in Drive : Recalled(shot[d], disk)

AllListed ==
  session.open /\ (\A p \in Playlists : ListsAll(p))
    => \A n \in Name : ImageFile(n) => \E i \in Slot : disk.cache[i].name = n

TrackedInv == Tracked(disk) /\ Remembered /\ AllListed

LEMMA InitTracked == Init => TrackedInv
<1> SUFFICES ASSUME Init PROVE TrackedInv
  OBVIOUS
<1>1. Sane(disk) /\ Placed(disk)
  BY InitSane, InitPlaced DEF SaneInv, PlacedInv
<1>2. /\ \A i \in Slot : disk.cache[i].name = NoName /\ disk.cache[i].extra_name = NoName
      /\ \A n \in Name : disk.saves[n] = NoData
      /\ \A d \in Drive : disk.drv[d].name = NoName
      /\ shot = NoData /\ writes = 0 /\ ~session.open
  BY DEF Init, EmptyEntry, EmptyDrive
<1>3. ~ImageFile(NoName)
  BY DriveAssumption DEF ImageFile
<1>4. NoneNewer(disk)
  BY <1>2, <1>3, DriveAssumption DEF NoneNewer, Past
<1>5. Current(disk) /\ OverlaysApart(disk) /\ UniqueNames(disk)
  BY <1>2, <1>3 DEF Current, OverlaysApart, UniqueNames
<1>6. Apart(disk.drv)
  BY <1>2 DEF Apart, Inserted, Drive
<1>7. Tracked(disk)
  BY <1>1, <1>4, <1>5, <1>6 DEF Tracked, Tended, Sane
<1> QED  BY <1>2, <1>7 DEF TrackedInv, Remembered, AllListed

(* Every step but those that open or close a content, write, make or       *)
(* restore a savestate or change the options leaves all images with what   *)
(* was on them.                                                            *)
Quietly ==
  /\ Onward(disk, disk')
  /\ opt' = opt /\ session' = session /\ shot' = shot /\ writes' = writes /\ loads' = loads

LEMMA NextHolds ==
  ASSUME DocumentedUse, SaneInv, PlacedInv, TrackedInv, [Next]_vars
  PROVE  \/ Quietly
         \/ \E p \in Playlists : retro_load_game(p)
         \/ retro_unload_game
         \/ \E d \in Drive : WriteSectors(d)
         \/ retro_serialize
         \/ retro_unserialize
         \/ \E o \in OptionSets : ChangeOptions(o)
<1>1. Tracked(disk) /\ Placed(disk) /\ Sane(disk) /\ opt \in Options
  BY DiskAssumption DEF TrackedInv, SaneInv, PlacedInv
<1>2. ASSUME NEW x, Onward(disk, x), Runs(x)
      PROVE  Quietly
  BY <1>2 DEF Runs, Quietly
<1>3. ASSUME NEW e \in BOOLEAN, SetEjectState(e)
      PROVE  Quietly
  BY <1>1, <1>2, <1>3, set_eject_stateTracks DEF SetEjectState
<1>4. ASSUME NEW i \in 0 .. MaxDisks, SetImageIndex(i)
      PROVE  Quietly
  BY <1>1, <1>2, <1>4, set_image_indexTracks DEF SetImageIndex
<1>5. ASSUME NEW i \in Slot, NEW names \in Additions, ReplaceImageIndex(i, names)
      PROVE  Quietly
  <2>1. names \in Seq(Name) \ {<< >>} /\ Distinct(names)
    BY DiskAssumption DEF DocumentedUse
  <2>2. /\ disk.cache[i].name = NoName /\ i < disk.count
        /\ \A k \in 1 .. Len(names) : \A j \in Slot \ {i} : disk.cache[j].name # names[k]
    BY <1>5 DEF DocumentedUse, ReplaceImageIndex, EmptyEntry
  <2>3. Onward(disk, replace_image_index(disk, i, names))
    BY <1>1, <2>1, <2>2, replace_image_indexTracks DEF Distinct
  <2> QED  BY <1>2, <1>5, <2>3 DEF ReplaceImageIndex
<1>6. ASSUME AddImageIndex
      PROVE  Quietly
  BY <1>1, <1>2, <1>6, add_image_indexTracks DEF AddImageIndex
<1>7. ASSUME SelectDrive
      PROVE  Quietly
  <2>1. 1 - disk.drive \in Drive
    BY <1>1 DEF Sane, Good, World, Drive
  <2>2. Onward(disk, core_disk_drive_toggle(disk))
    BY <1>1, <2>1, DriveSelectionTracks DEF core_disk_drive_toggle
  <2> QED  BY <1>2, <1>7, <2>2 DEF SelectDrive
<1>8. ASSUME SwapDisk
      PROVE  Quietly
  BY <1>1, <1>2, <1>8, core_disk_swapTracks DEF SwapDisk
<1>9. ASSUME ColdReset
      PROVE  Quietly
  BY <1>1, <1>2, <1>9, core_disk_drive_reinsertTracks DEF ColdReset
<1>10. ASSUME \/ \E f \in FileSystems : ChangeFileSystem(f)
              \/ UNCHANGED vars
       PROVE  Quietly
  <2>1. Onward(disk, disk)
    BY <1>1, OnwardReflexive
  <2> QED  BY <1>10, <2>1 DEF ChangeFileSystem, vars, Quietly
<1> QED  BY <1>3, <1>4, <1>5, <1>6, <1>7, <1>8, <1>9, <1>10 DEF Next

(* What a write and a restored savestate do to the images.                 *)
LEMMA WriteHolds ==
  ASSUME SaneInv, TrackedInv, NEW d \in Drive, WriteSectors(d)
  PROVE  /\ TrackedInv'
         /\ \A n \in Name : ImageFile(n) =>
              Held(disk', n) = IF disk.drv[d].name = n THEN writes + 1 ELSE Held(disk, n)
<1> DEFINE x == [disk EXCEPT !.drv[d] = SectorWritten(disk.drv[d], writes + 1)]
<1>1. /\ Tracked(disk) /\ Inserted(disk.drv[d]) /\ writes + 1 \in Nat /\ writes \in Nat
      /\ NoneNewer(disk)
  BY DiskAssumption DEF TrackedInv, Tracked, Tended, SaneInv, WriteSectors
<1>2. disk' = x /\ writes' = writes + 1 /\ session' = session /\ shot' = shot
  BY DEF WriteSectors
<1>3. /\ Sane(x) /\ Placed(x) /\ UniqueNames(x) /\ Apart(x.drv)
      /\ Current(x) /\ OverlaysApart(x)
      /\ x.cache = disk.cache /\ x.saves = disk.saves
      /\ \A e \in Drive : ImageFile(x.drv[e].name) =>
           /\ disk.drv[e].name = x.drv[e].name
           /\ x.drv[e].buffer \in {writes + 1, disk.drv[e].buffer}
      /\ \A n \in Name : ImageFile(n) =>
           Held(x, n) = IF disk.drv[d].name = n THEN writes + 1 ELSE Held(disk, n)
  BY <1>1, SectorWrittenTracks
<1> HIDE DEF x
<1>4. NoneNewer(disk)'
  <2>1. \A v : v \in {writes + 1} => (v \in Nat => v <= writes')
    BY <1>1, <1>2
  <2>2. \A v : Past(v) => (v \in Nat => v <= writes')
    BY <1>1, <1>2 DEF Past
  <2> QED  BY <1>1, <1>2, <1>3, <2>1, <2>2 DEF NoneNewer, Past
<1>5. Tracked(disk)'
  BY <1>2, <1>3, <1>4 DEF Tracked, Tended, Sane
<1>6. Remembered'
  BY <1>1, <1>2, <1>3 DEF TrackedInv, Remembered, Recalled, Past
<1>7. AllListed'
  BY <1>2, <1>3 DEF TrackedInv, AllListed
<1> QED  BY <1>2, <1>3, <1>5, <1>6, <1>7 DEF TrackedInv

LEMMA RestoredHolds ==
  ASSUME DocumentedUse, StatesStay, SaneInv, PlacedInv, TrackedInv, retro_unserialize
  PROVE  /\ Tracked(disk') /\ Grown(disk, disk')
         /\ \A n \in Name : ImageFile(n) =>
              Held(disk', n) = IF shot[0].name = n THEN shot[0].buffer
                               ELSE IF shot[1].name = n THEN shot[1].buffer
                               ELSE Held(disk, n)
<1>1. /\ Tracked(disk) /\ opt.floppy_modify
  BY DEF TrackedInv, SaneInv, StatesStay
<1>2. /\ shot # NoData /\ session.open /\ loads < MaxLoads
      /\ \A d \in Drive : Inserted(shot[d]) => SlotOf(disk, shot[d].name) # NoSlot
      /\ disk' = core_disk_reindex(DrivesRestored(disk, shot))
  BY DEF retro_unserialize, DocumentedUse
<1>3. /\ shot \in [Drive -> DriveState] /\ \A d \in Drive : LoadedDrive(shot[d])
      /\ Apart(shot)
  BY <1>2 DEF SaneInv, ShotGood, PlacedInv, Apart
<1>4. MaxLoads > 0
  BY <1>2, DiskAssumption DEF SaneInv
<1>5. /\ \A d \in Drive : Recalled(shot[d], disk)
      /\ \A d \in Drive : ImageFile(shot[d].name) => Past(shot[d].buffer)
  BY <1>2, <1>4 DEF TrackedInv, Remembered
<1> QED  BY <1>1, <1>2, <1>3, <1>5, RestoreTracks

LEMMA NextTracked ==
  ASSUME DocumentedUse, StatesStay, SaneInv, PlacedInv, TrackedInv, [Next]_vars
  PROVE  TrackedInv'
<1>1. /\ Tracked(disk) /\ Remembered /\ AllListed /\ opt \in Options
      /\ session \in [n: 0 .. MaxSessions, open: BOOLEAN]
  BY DiskAssumption DEF TrackedInv, SaneInv
<1>2. ASSUME Tracked(disk'), writes' = writes
      PROVE  Tracked(disk)'
  BY <1>2 DEF Tracked, Tended, NoneNewer, Past
<1>3. ASSUME Grown(disk, disk')
      PROVE  /\ \A hd : Recalled(hd, disk) => Recalled(hd, disk')
             /\ \A n \in Name : ImageFile(n) /\ (\E i \in Slot : disk.cache[i].name = n)
                                  => \E i \in Slot : disk'.cache[i].name = n
  <2>1. \A hd : Recalled(hd, disk) => Recalled(hd, disk')
    BY <1>3, RecalledLater
  <2>2. \A n : ImageFile(n) => n # NoName
    BY DriveAssumption DEF ImageFile
  <2> QED  BY <1>3, <2>1, <2>2 DEF Grown
<1>4. ASSUME Tracked(disk'), Grown(disk, disk'),
             session' = session, shot' = shot, writes' = writes
      PROVE  TrackedInv'
  <2>1. Remembered'
    BY <1>1, <1>3, <1>4 DEF Remembered, Recalled, Past
  <2>2. AllListed'
    BY <1>1, <1>3, <1>4 DEF AllListed
  <2> QED  BY <1>2, <1>4, <2>1, <2>2 DEF TrackedInv
<1>5. CASE Quietly
  BY <1>4, <1>5 DEF Quietly, Onward
<1>6. ASSUME NEW p \in Playlists, retro_load_game(p)
      PROVE  TrackedInv'
  <2>1. /\ disk' = core_disk_load_game(disk, p) /\ shot' = shot /\ writes' = writes
        /\ session.n < MaxSessions /\ session' = [n |-> session.n + 1, open |-> TRUE]
    BY <1>6 DEF retro_load_game
  <2>2. /\ Tracked(disk')
        /\ Len(p.names) <= MaxDisks =>
             \A k \in 1 .. Len(p.names) : ImageFile(p.names[k]) =>
               \E j \in Slot : disk'.cache[j].name = p.names[k]
    BY <1>1, <2>1, core_disk_load_gameTracks DEF DocumentedUse, Distinct
  <2>3. Remembered'
    <3>1. session.n \in Nat /\ session'.n > 0
      BY <1>1, <2>1, DiskAssumption
    <3>2. shot # NoData => MaxLoads = 0
      BY <1>1, <2>1, <3>1 DEF Remembered, StatesStay
    <3> QED  BY <1>1, <2>1, <3>1, <3>2 DEF Remembered, Past
  <2>4. AllListed'
    <3> SUFFICES ASSUME ListsAll(p), NEW n \in Name, ImageFile(n)
                 PROVE  \E i \in Slot : disk'.cache[i].name = n
      BY DEF AllListed
    <3>1. PICK k \in 1 .. Len(p.names) : p.names[k] = n
      BY DEF ListsAll
    <3> QED  BY <2>2, <3>1 DEF ListsAll
  <2> QED  BY <1>2, <2>1, <2>2, <2>3, <2>4 DEF TrackedInv
<1>7. CASE retro_unload_game
  <2>1. /\ disk' = core_disk_unload_game(disk) /\ shot' = shot /\ writes' = writes
        /\ session.open /\ ~session'.open /\ session'.n = session.n
    BY <1>1, <1>7 DEF retro_unload_game
  <2>2. Tracked(disk')
    BY <1>1, <2>1, core_disk_unload_gameTracks
  <2>3. Remembered' /\ AllListed'
    BY <1>1, <2>1 DEF Remembered, AllListed, Past
  <2> QED  BY <1>2, <2>1, <2>2, <2>3 DEF TrackedInv
<1>8. CASE \E d \in Drive : WriteSectors(d)
  BY <1>8, WriteHolds
<1>9. CASE retro_serialize
  <2>1. /\ disk' = disk /\ shot' = disk.drv /\ writes' = writes /\ session' = session
        /\ session.open
    BY <1>9 DEF retro_serialize
  <2>2. session.n > 0
    BY <1>1, <2>1 DEF Remembered
  <2>3. ASSUME NEW d \in Drive, ImageFile(disk.drv[d].name)
        PROVE  Past(disk.drv[d].buffer) /\ Recalled(disk.drv[d], disk)
    <3>1. Inserted(disk.drv[d])
      BY <2>3, DriveAssumption DEF ImageFile, Inserted
    <3>2. PICK i \in Slot : disk.cache[i].name = disk.drv[d].name
      BY <1>1, <3>1, TrackedStocked DEF Tracked, Stocked
    <3> QED  BY <1>1, <2>3, <3>2 DEF Tracked, Tended, NoneNewer, Current, Recalled
  <2>4. \A d \in Drive : Recalled(disk.drv[d], disk)
    BY <2>3 DEF Recalled
  <2>5. Remembered'
    BY <2>1, <2>2, <2>3, <2>4 DEF Remembered, Recalled, Past
  <2> QED  BY <1>1, <1>2, <2>1, <2>5 DEF TrackedInv, AllListed
<1>10. CASE retro_unserialize
  <2>1. session' = session /\ shot' = shot /\ writes' = writes
    BY <1>10 DEF retro_unserialize
  <2> QED  BY <1>4, <1>10, <2>1, RestoredHolds
<1>11. ASSUME NEW o \in OptionSets, ChangeOptions(o)
       PROVE  TrackedInv'
  <2>1. disk' = disk /\ session' = session /\ shot' = shot /\ writes' = writes
    BY <1>11 DEF ChangeOptions
  <2> QED  BY <1>1, <1>4, <2>1 DEF Grown
<1> QED
  BY <1>5, <1>6, <1>7, <1>8, <1>9, <1>10, <1>11, NextHolds

(* TrackedInv holds throughout, under the documented use, for any saves    *)
(* folder and any setting of the save options but the safety save.         *)
THEOREM AlwaysTracked == ASSUME DocumentedUse, StatesStay PROVE Spec => []TrackedInv
<1>1. SaneInv /\ PlacedInv /\ TrackedInv /\ [Next]_vars => TrackedInv'
  BY NextTracked
<1> QED  BY <1>1, InitTracked, AlwaysSane, AlwaysPlaced, PTL DEF Spec

(* Also with saving off, or into a folder that is full or write protected, *)
(* the cache has what is on a disk that is not marked changed: not saving  *)
(* it at its eject loses nothing.  Restores must save the disks they take  *)
(* out, and savestates stay in the content they were made in.              *)
THEOREM UnchangedStaysCached ==
  ASSUME DocumentedUse, StatesStay PROVE Spec => []UnchangedDiskIsCached
<1>1. ASSUME SaneInv, TrackedInv, NEW d \in Drive,
             Inserted(disk.drv[d]), ~disk.drv[d].changed, disk.index[d] # NoSlot,
             Format[disk.drv[d].name] = "image"
      PROVE  disk.cache[disk.index[d]].data = disk.drv[d].buffer
  <2>1. /\ Sane(disk) /\ Placed(disk) /\ Current(disk) /\ disk.drv[d] \in DriveState
    BY <1>1 DEF TrackedInv, Tracked, Tended, Sane, Good, LoadedDrive
  <2>2. ImageFile(disk.drv[d].name)
    BY <1>1, <2>1 DEF Inserted, DriveState, ImageFile
  <2>3. disk.index[d] \in Slot /\ disk.drv[d].name = disk.cache[disk.index[d]].name
    BY <1>1, <2>1 DEF Sane, Agreed, Placed
  <2> QED  BY <1>1, <2>1, <2>2, <2>3 DEF Current
<1>2. SaneInv /\ TrackedInv => UnchangedDiskIsCached
  BY <1>1 DEF UnchangedDiskIsCached
<1> QED  BY <1>2, AlwaysSane, AlwaysTracked, PTL

(* The contents that the refinement mapping gives the images of an open    *)
(* content are the ones that the lemmas follow through each handler.       *)
ContentsTracked == [n \in Images |-> Contents(n)] = [n \in Images |-> Held(disk, n)]

LEMMA ContentsHeld == SaneInv /\ TrackedInv => ContentsTracked
<1> SUFFICES ASSUME SaneInv, TrackedInv, NEW n \in Images
             PROVE  Contents(n) = Held(disk, n)
  BY DEF ContentsTracked
<1>1. /\ n \in Name /\ ImageFile(n) /\ Format[n] # "stx" /\ n # NoName
  BY ImagesAreFiles, DriveAssumption DEF Images
<1>2. /\ disk \in World /\ Apart(disk.drv)
      /\ \A d \in Drive : LoadedDrive(disk.drv[d])
  BY DEF TrackedInv, Tracked, Tended, Good
<1>3. Contents(n) =
        IF \E d \in Drive : disk.drv[d].name = n
        THEN Version(disk.drv[CHOOSE x \in Drive : disk.drv[x].name = n].buffer)
        ELSE IF SlotOf(disk, n) = NoSlot THEN Unloaded(disk, n)
        ELSE Version(disk.cache[SlotOf(disk, n)].data)
  BY <1>1 DEF Contents, Unloaded
<1>4. ASSUME NEW d \in Drive, disk.drv[d].name = n
      PROVE  Contents(n) = Held(disk, n)
  <2>1. \A x \in Drive : disk.drv[x].name = n => x = d
    BY <1>1, <1>2, <1>4 DEF Apart, Inserted, Drive
  <2>2. (CHOOSE x \in Drive : disk.drv[x].name = n) = d
    BY <1>4, <2>1
  <2>3. Version(disk.drv[d].buffer) = disk.drv[d].buffer
    BY <1>1, <1>2, <1>4 DEF LoadedDrive, Inserted, Version
  <2>4. Held(disk, n) = disk.drv[d].buffer
    BY <1>4, <2>1 DEF Held, Drive
  <2> QED  BY <1>3, <1>4, <2>2, <2>3, <2>4
<1>5. ASSUME \A d \in Drive : disk.drv[d].name # n
      PROVE  Contents(n) = Held(disk, n)
  BY <1>3, <1>5 DEF Held, Drive
<1> QED  BY <1>4, <1>5

(* Without persistent saves, one step of CoreDisk is still one step or     *)
(* none of DiskShelf: what is on a disk may only be forgotten between two  *)
(* contents.                                                               *)
LEMMA NextShelfForgets ==
  ASSUME DocumentedUse, StatesStay, SavingSettled, ~Persistent
  PROVE  /\ SaneInv /\ PlacedInv /\ TrackedInv
         /\ SaneInv' /\ PlacedInv' /\ TrackedInv'
         /\ [Next]_vars
         => [ImageShelf!Next]_(ImageShelf!shelf)
<1> DEFINE contents == ContentsOf(Images)
<1>1. SaneInv' /\ TrackedInv' => ContentsTracked'
  BY ContentsHeld, PTL
<1>2. SaneInv' /\ PlacedInv' => CapturedKnown'
  BY CapturedDisks, PTL
<1> SUFFICES ASSUME SaneInv, PlacedInv, TrackedInv, SaneInv', PlacedInv', TrackedInv', [Next]_vars
             PROVE  [ImageShelf!Next]_(ImageShelf!shelf)
  OBVIOUS
<1>3. CapturedKnown /\ CapturedKnown'
  BY <1>2, CapturedDisks
<1>4. /\ contents = [n \in Images |-> IF session.open THEN Held(disk, n) ELSE 0]
      /\ contents' = [n \in Images |-> IF session'.open THEN Held(disk, n)' ELSE 0]
  <2>1. ContentsTracked /\ ContentsTracked'
    BY <1>1, ContentsHeld
  <2>2. \A n \in Images : Contents(n) = Held(disk, n) /\ Contents(n)' = Held(disk, n)'
    BY <2>1 DEF ContentsTracked
  <2> QED  BY <2>2 DEF ContentsOf, Persistent
<1>5. \A n \in Images : n \in Name /\ ImageFile(n)
  BY ImagesAreFiles
<1>6. session.open \in BOOLEAN /\ session'.open \in BOOLEAN /\ Tracked(disk) /\ Tracked(disk)'
  BY DEF SaneInv, TrackedInv
<1>7. opt' = opt => \A n : Held(disk, n)' = Held(disk', n)
  BY DEF Held, Unloaded
<1> HIDE DEF contents
<1>8. CASE Quietly
  <2>1. contents' = contents
    BY <1>4, <1>5, <1>7, <1>8 DEF Quietly, Onward, SameHeld
  <2>2. Captured(Images)' = Captured(Images)
    BY <1>8 DEF Quietly, Captured
  <2> QED  BY <1>8, <2>1, <2>2 DEF Quietly, ImageShelf!shelf, contents
<1>9. ASSUME NEW p \in Playlists, retro_load_game(p)
      PROVE  ImageShelf!Next
  <2>1. /\ ~session.open /\ session'.open /\ opt' = opt /\ shot' = shot
        /\ writes' = writes /\ loads' = loads
    BY <1>9 DEF retro_load_game
  <2>2. Tracked(disk')
    BY <1>6, <2>1 DEF Tracked, Tended, NoneNewer, Past
  <2>3. \A n \in Images : Held(disk', n) \in 0 .. writes
    BY <1>5, <2>2, HeldWritten
  <2>4. contents' \in [Images -> 0 .. writes]
    BY <1>4, <1>7, <2>1, <2>3
  <2>5. Captured(Images)' = Captured(Images)
    BY <2>1 DEF Captured
  <2>6. ImageShelf!Open
    BY <2>1, <2>4, <2>5 DEF ImageShelf!Open, contents
  <2> QED  BY <2>6 DEF ImageShelf!Next
<1>10. CASE retro_unload_game
  <2>1. /\ session.open /\ ~session'.open /\ shot' = shot /\ writes' = writes /\ loads' = loads
    BY <1>6, <1>10 DEF retro_unload_game, SaneInv
  <2>2. contents' = [n \in Images |-> 0]
    BY <1>4, <2>1
  <2>3. Captured(Images)' = Captured(Images)
    BY <2>1 DEF Captured
  <2>4. ImageShelf!Close
    BY <2>1, <2>2, <2>3 DEF ImageShelf!Close, contents
  <2> QED  BY <2>4 DEF ImageShelf!Next
<1>11. ASSUME NEW d \in Drive, WriteSectors(d)
       PROVE  ImageShelf!Next
  <2>1. \A n \in Images :
          Held(disk', n) = IF disk.drv[d].name = n THEN writes + 1 ELSE Held(disk, n)
    BY <1>5, <1>11, WriteHolds
  <2>2. /\ session.open /\ writes' = writes + 1 /\ loads' = loads /\ session' = session
        /\ shot' = shot /\ opt' = opt
    BY <1>11 DEF WriteSectors
  <2>3. Captured(Images)' = Captured(Images)
    BY <2>2 DEF Captured
  <2>4. contents' = [n \in Images |-> Held(disk', n)]
        /\ contents = [n \in Images |-> Held(disk, n)]
    BY <1>4, <1>7, <2>2
  <2>5. CASE disk.drv[d].name \in Images
    <3>1. contents' = [contents EXCEPT ![disk.drv[d].name] = writes + 1]
      BY <2>1, <2>4, <2>5
    <3>2. ImageShelf!Write(disk.drv[d].name)
      BY <2>2, <2>3, <3>1 DEF ImageShelf!Write, contents
    <3> QED  BY <2>5, <3>2 DEF ImageShelf!Next
  <2>6. CASE disk.drv[d].name \notin Images
    <3>1. contents' = contents
      BY <2>1, <2>4, <2>6
    <3>2. ImageShelf!OtherWrite
      BY <2>2, <2>3, <3>1 DEF ImageShelf!OtherWrite, contents
    <3> QED  BY <3>2 DEF ImageShelf!Next
  <2> QED  BY <2>5, <2>6
<1>12. CASE retro_serialize
  <2>1. /\ session.open /\ shot' = disk.drv /\ disk' = disk /\ writes' = writes
        /\ loads' = loads /\ session' = session /\ opt' = opt
    BY <1>12 DEF retro_serialize
  <2>2. contents' = contents
    BY <1>4, <1>7, <2>1
  <2> DEFINE S == {m \in Images : disk.drv[0].name = m \/ disk.drv[1].name = m}
  <2>3. CASE shot' # NoData
    <3>1. Captured(Images)' = [n \in S |-> IF disk.drv[0].name = n THEN disk.drv[0].buffer
                                   ELSE disk.drv[1].buffer]
      BY <1>3, <2>1, <2>3 DEF CapturedKnown
    <3>2. \A n \in S : contents[n] = IF disk.drv[0].name = n THEN disk.drv[0].buffer
                                      ELSE disk.drv[1].buffer
      BY <1>4, <2>1 DEF Held
    <3>3. Captured(Images)' = [n \in S |-> contents[n]]
      BY <3>1, <3>2
    <3>4. ImageShelf!SaveState(S)
      BY <2>1, <2>2, <3>3 DEF ImageShelf!SaveState, contents
    <3> QED  BY <3>4 DEF ImageShelf!Next
  <2>4. CASE shot' = NoData
    <3>1. Captured(Images)' = [n \in {} |-> contents[n]]
      BY <2>4 DEF Captured
    <3>2. ImageShelf!SaveState({})
      BY <2>1, <2>2, <3>1 DEF ImageShelf!SaveState, contents
    <3> QED  BY <3>2 DEF ImageShelf!Next
  <2> QED  BY <2>3, <2>4
<1>13. CASE retro_unserialize
  <2>1. /\ session.open /\ shot # NoData /\ loads' = loads + 1 /\ shot' = shot
        /\ writes' = writes /\ session' = session /\ opt' = opt
    BY <1>13 DEF retro_unserialize
  <2>2. Captured(Images) = [n \in {m \in Images : shot[0].name = m \/ shot[1].name = m} |->
                      IF shot[0].name = n THEN shot[0].buffer ELSE shot[1].buffer]
    BY <1>3, <2>1 DEF CapturedKnown
  <2>3. \A n \in Images :
          Held(disk', n) = IF shot[0].name = n THEN shot[0].buffer
                           ELSE IF shot[1].name = n THEN shot[1].buffer
                           ELSE Held(disk, n)
    BY <1>5, <1>13, RestoredHolds
  <2>4. contents' = [n \in Images |-> Held(disk', n)]
        /\ contents = [n \in Images |-> Held(disk, n)]
    BY <1>4, <1>7, <2>1
  <2>5. contents' = [n \in Images |-> IF n \in DOMAIN Captured(Images) THEN Captured(Images)[n]
                                        ELSE contents[n]]
    BY <2>2, <2>3, <2>4
  <2>6. Captured(Images)' = Captured(Images)
    BY <2>1 DEF Captured
  <2>7. ImageShelf!LoadState
    BY <2>1, <2>5, <2>6 DEF ImageShelf!LoadState, contents
  <2> QED  BY <2>7 DEF ImageShelf!Next
<1>14. ASSUME NEW o \in OptionSets, ChangeOptions(o)
       PROVE  UNCHANGED ImageShelf!shelf
  <2>1. /\ disk' = disk /\ session' = session /\ shot' = shot /\ writes' = writes
        /\ loads' = loads /\ opt' \in OptionSets /\ opt \in OptionSets
    BY <1>14 DEF ChangeOptions, SaneInv
  <2>2. ASSUME NEW n \in Images, session.open
        PROVE  Held(disk, n)' = Held(disk, n)
    <3>1. CASE opt'.enable_save = opt.enable_save
      BY <2>1, <3>1 DEF Held, Unloaded, SlotOf
    <3>2. CASE \A p \in Playlists : ListsAll(p)
      <4>1. PICK i \in Slot : disk.cache[i].name = n
        BY <1>5, <2>2, <3>2 DEF TrackedInv, AllListed
      <4>2. SlotOf(disk, n) # NoSlot
        BY <1>5, <1>6, <4>1, DriveAssumption, SlotOfFinds DEF Tracked, Tended, Good, ImageFile
      <4> QED  BY <2>1, <4>2 DEF Held
    <3> QED  BY <2>1, <3>1, <3>2 DEF SavingSettled
  <2>3. contents' = contents
    BY <1>4, <2>1, <2>2
  <2>4. Captured(Images)' = Captured(Images)
    BY <2>1 DEF Captured
  <2> QED  BY <2>1, <2>3, <2>4 DEF ImageShelf!shelf, contents
<1> QED
  BY <1>8, <1>9, <1>10, <1>11, <1>12, <1>13, <1>14, NextHolds

LEMMA InitShelfForgets == ASSUME ~Persistent PROVE Init => ImageShelf!Init
<1> SUFFICES ASSUME Init PROVE ImageShelf!Init
  OBVIOUS
<1>1. Captured(Images) = << >>
  BY DEF Captured, Init
<1> QED  BY <1>1 DEF ImageShelf!Init, ContentsOf, Init

(* The same, whatever becomes of the saves: with saving off, or into a     *)
(* folder that is full or write protected, no order of ejects, inserts,    *)
(* swaps, resets, additions, savestates and options loses a write as long  *)
(* as the content is open.                                                 *)
THEOREM ImagesStayRegisters ==
  ASSUME DocumentedUse, StatesStay, SavingSettled PROVE Spec => ImagesAreRegisters
<1>1. CASE Persistent
  <2>1. AlwaysSaves
    BY <1>1 DEF Persistent, AlwaysSaves, StatesStay
  <2> QED  BY <2>1, ImagesAlwaysAreRegisters
<1>2. CASE ~Persistent
  <2>1. /\ SaneInv /\ PlacedInv /\ TrackedInv
        /\ SaneInv' /\ PlacedInv' /\ TrackedInv'
        /\ [Next]_vars
        => [ImageShelf!Next]_(ImageShelf!shelf)
    BY <1>2, NextShelfForgets
  <2>2. Init => ImageShelf!Init
    BY <1>2, InitShelfForgets
  <2> QED  BY <2>1, <2>2, AlwaysSane, AlwaysPlaced, AlwaysTracked, PTL
           DEF Spec, ImagesAreRegisters, ImageShelf!Spec
<1> QED  BY <1>1, <1>2

(* Without STX disks every disk that can be saved is an image, so the same *)
(* holds of all of them.                                                   *)
LEMMA ShelfOfImages ==
  ASSUME NoOverlays
  PROVE  /\ ImageShelf!Init => Shelf!Init
         /\ [ImageShelf!Next]_(ImageShelf!shelf) => [Shelf!Next]_(Shelf!shelf)
<1>1. Savable = Images
  BY DEF NoOverlays, Savable, Images
<1>2. ImageShelf!Init => Shelf!Init
  BY <1>1 DEF ImageShelf!Init, Shelf!Init
<1>3. ASSUME ImageShelf!Next PROVE Shelf!Next
  <2>1. CASE ImageShelf!Open
    BY <1>1, <2>1 DEF ImageShelf!Open, Shelf!Open, Shelf!Next
  <2>2. CASE ImageShelf!Close
    BY <1>1, <2>2 DEF ImageShelf!Close, Shelf!Close, Shelf!Next
  <2>3. ASSUME NEW n \in Images, ImageShelf!Write(n) PROVE Shelf!Next
    BY <1>1, <2>3 DEF ImageShelf!Write, Shelf!Write, Shelf!Next
  <2>4. CASE ImageShelf!OtherWrite
    BY <1>1, <2>4 DEF ImageShelf!OtherWrite, Shelf!OtherWrite, Shelf!Next
  <2>5. ASSUME NEW S \in SUBSET Images, ImageShelf!SaveState(S) PROVE Shelf!Next
    BY <1>1, <2>5 DEF ImageShelf!SaveState, Shelf!SaveState, Shelf!Next
  <2>6. CASE ImageShelf!LoadState
    BY <1>1, <2>6 DEF ImageShelf!LoadState, Shelf!LoadState, Shelf!Next
  <2> QED  BY <1>3, <2>1, <2>2, <2>3, <2>4, <2>5, <2>6 DEF ImageShelf!Next
<1>4. UNCHANGED ImageShelf!shelf => UNCHANGED Shelf!shelf
  BY <1>1 DEF ImageShelf!shelf, Shelf!shelf
<1> QED  BY <1>2, <1>3, <1>4

(* For any number of disks and any files but STX, with everything saved:   *)
(* CoreDisk implements DiskShelf for every disk that can be saved.         *)
THEOREM DisksAlwaysAreRegisters ==
  ASSUME DocumentedUse, AlwaysSaves, NoOverlays PROVE Spec => DisksAreRegisters
<1>1. Spec => ImageShelf!Spec
  BY ImagesAlwaysAreRegisters DEF ImagesAreRegisters
<1> QED  BY <1>1, ShelfOfImages, PTL DEF DisksAreRegisters, Shelf!Spec, ImageShelf!Spec

(* The same while the content is open, whatever becomes of the saves.      *)
THEOREM DisksStayRegisters ==
  ASSUME DocumentedUse, StatesStay, SavingSettled, NoOverlays PROVE Spec => DisksAreRegisters
<1>1. Spec => ImageShelf!Spec
  BY ImagesStayRegisters DEF ImagesAreRegisters
<1> QED  BY <1>1, ShelfOfImages, PTL DEF DisksAreRegisters, Shelf!Spec, ImageShelf!Spec

-----------------------------------------------------------------------------
(* For any number of disks and any contents: when a content has been       *)
(* opened, each drive holds the disk that the playlist's boot directives   *)
(* ask for, if the core can read it, and nothing is left of the content    *)
(* before.                                                                 *)
THEOREM BootDirectivesAlwaysObeyed == Spec => BootDirectivesObeyed
<1>1. ASSUME SaneInv, NEW p \in Playlists, retro_load_game(p)
      PROVE  BootedAsTold(disk', p)
  <2>1. Good(disk) /\ opt \in Options
    BY <1>1, DiskAssumption DEF SaneInv, Sane
  <2>2. disk' = core_disk_load_game(disk, p)
    BY <1>1 DEF retro_load_game
  <2> QED  BY <2>1, <2>2, core_disk_load_gameDoes
<1>2. SaneInv /\ [Next]_vars =>
        [session'.n # session.n
          => \A p \in Playlists : retro_load_game(p) => BootedAsTold(disk', p)]_vars
  BY <1>1
<1> QED  BY <1>2, AlwaysSane, PTL DEF Spec, BootDirectivesObeyed

-----------------------------------------------------------------------------
(* No disk holds what was written to another                               *)

(* Every write went to one disk, and its version is found nowhere but      *)
(* under the name of that disk.                                            *)
TracedBy(written) == /\ written \in [1 .. writes -> Name]
                     /\ Owned(written, disk)
                     /\ shot = NoData \/ \A d \in Drive : DriveOf(written, shot[d])

TracedInv == \E written : TracedBy(written)

LEMMA InitTraced == Init => TracedInv
<1> SUFFICES ASSUME Init PROVE TracedInv
  OBVIOUS
<1> DEFINE none == [v \in 1 .. 0 |-> CHOOSE n \in Name : TRUE]
<1>1. /\ disk.cache = [i \in Slot |-> EmptyEntry] /\ disk.drv = [d \in Drive |-> EmptyDrive]
      /\ disk.saves = [n \in Name |-> NoData] /\ shot = NoData /\ writes = 0
  BY DEF Init
<1>2. \A n : Of(none, n, NoData) /\ Of(none, n, 0)
  BY DriveAssumption DEF Of
<1>3. none \in [1 .. 0 -> Name]
  OBVIOUS
<1> HIDE DEF none
<1>4. /\ \A i \in Slot : EntryOf(none, disk.cache[i]) /\ disk.cache[i].extra_name = NoName
      /\ \A d \in Drive : DriveOf(none, disk.drv[d])
      /\ \A n \in Name : Of(none, n, disk.saves[n])
  BY <1>1, <1>2 DEF EntryOf, DriveOf, EmptyEntry, EmptyDrive
<1>5. Owned(none, disk)
  BY <1>4 DEF Owned
<1> QED  BY <1>1, <1>3, <1>5 DEF TracedInv, TracedBy

(* A write is one more version, of the disk in the drive.                  *)
LEMMA WriteTraced ==
  ASSUME SaneInv, NEW written, TracedBy(written), NEW d \in Drive, WriteSectors(d)
  PROVE  TracedInv'
<1> DEFINE hd == disk.drv[d]
           next == writes + 1
           more == [v \in 1 .. next |-> IF v = next THEN hd.name ELSE written[v]]
           new == SectorWritten(hd, next)
<1>1. /\ Sane(disk) /\ disk \in World /\ disk.drv \in [Drive -> DriveState] /\ writes \in Nat
      /\ hd \in DriveState /\ hd.name \in Name
  BY DEF SaneInv, Sane, Good, World, WriteSectors, Inserted, DriveState
<1>2. written \in [1 .. writes -> Name] /\ Owned(written, disk) /\ next \in Nat
  BY <1>1 DEF TracedBy
<1>3. more \in [1 .. next -> Name] /\ Of(more, hd.name, next)
  BY <1>1, <1>2 DEF Of
<1>4. ASSUME NEW n, NEW v, Of(written, n, v)
      PROVE  Of(more, n, v)
  BY <1>1, <1>2, <1>4 DEF Of
<1>5. writes' = next /\ shot' = shot /\ disk' = [disk EXCEPT !.drv[d] = new]
  BY DEF WriteSectors
<1>6. /\ new.name = hd.name
      /\ new.buffer \in {hd.buffer, next} /\ new.overlay \in {hd.overlay, next}
  BY <1>1 DEF SectorWritten, DriveState
<1> HIDE DEF hd, more, new, next
<1>7. /\ disk'.drv = [disk.drv EXCEPT ![d] = new] /\ disk'.cache = disk.cache
      /\ disk'.saves = disk.saves /\ disk'.count = disk.count
  BY <1>1, <1>5 DEF World
<1>8. \A e \in Drive : DriveOf(more, disk.drv[e])
  BY <1>2, <1>4 DEF Owned, DriveOf
<1>9. DriveOf(more, new)
  BY <1>3, <1>6, <1>8 DEF DriveOf, hd
<1>10. \A e \in Drive : DriveOf(more, disk'.drv[e])
  BY <1>1, <1>7, <1>8, <1>9
<1>11. \A i \in Slot : EntryOf(more, disk.cache[i])
  BY <1>2, <1>4 DEF Owned, EntryOf
<1>12. \A n \in Name : Of(more, n, disk.saves[n])
  BY <1>2, <1>4 DEF Owned
<1>13. Owned(more, disk')
  BY <1>2, <1>7, <1>10, <1>11, <1>12 DEF Owned
<1>14. shot' = NoData \/ \A e \in Drive : DriveOf(more, shot'[e])
  BY <1>4, <1>5 DEF TracedBy, DriveOf
<1> QED  BY <1>3, <1>5, <1>13, <1>14 DEF TracedInv, TracedBy

LEMMA NextTraced ==
  ASSUME NoOverlays \/ ~ReplaceAny, SaneInv, TracedInv, [Next]_vars
  PROVE  TracedInv'
<1>1. PICK written : TracedBy(written)
  BY DEF TracedInv
<1>2. /\ Traced(written, disk) /\ Good(disk) /\ Owned(written, disk)
      /\ disk \in World /\ ShotGood /\ opt \in Options
  BY <1>1, DiskAssumption DEF SaneInv, Sane, Good, TracedBy, Traced
<1>3. ASSUME NEW x, Traced(written, x), disk' = x, shot' = shot, writes' = writes
      PROVE  TracedInv'
  BY <1>1, <1>3 DEF TracedInv, TracedBy, Traced
<1>4. ASSUME NEW p \in Playlists, retro_load_game(p)
      PROVE  TracedInv'
  BY <1>2, <1>3, <1>4, core_disk_load_gameOwned DEF retro_load_game
<1>5. ASSUME retro_unload_game
      PROVE  TracedInv'
  BY <1>2, <1>3, <1>5, core_disk_unload_gameOwned DEF retro_unload_game
<1>6. ASSUME NEW e \in BOOLEAN, SetEjectState(e)
      PROVE  TracedInv'
  BY <1>2, <1>3, <1>6, set_eject_stateOwned DEF SetEjectState, Runs
<1>7. ASSUME NEW i \in 0 .. MaxDisks, SetImageIndex(i)
      PROVE  TracedInv'
  BY <1>2, <1>3, <1>7, set_image_indexOwned DEF SetImageIndex, Runs
<1>8. ASSUME NEW i \in Slot, NEW names \in Additions, ReplaceImageIndex(i, names)
      PROVE  TracedInv'
  <2>1. names \in Seq(Name) \ {<< >>} /\ i < disk.count
    BY <1>8, DiskAssumption DEF ReplaceImageIndex
  <2>2. NoOverlays \/ disk.cache[i].name = NoName
    BY <1>8 DEF ReplaceImageIndex, EmptyEntry
  <2>3. Traced(written, replace_image_index(disk, i, names))
    BY <1>2, <2>1, <2>2, replace_image_indexOwned
  <2> QED  BY <1>3, <1>8, <2>3 DEF ReplaceImageIndex, Runs
<1>9. ASSUME AddImageIndex
      PROVE  TracedInv'
  BY <1>2, <1>3, <1>9, add_image_indexOwned DEF AddImageIndex, Runs
<1>10. ASSUME SelectDrive
       PROVE  TracedInv'
  <2>1. 1 - disk.drive \in Drive
    BY <1>2 DEF World, Drive
  <2>2. Traced(written, core_disk_drive_toggle(disk))
    BY <1>2, <2>1, DriveSelectionOwned DEF core_disk_drive_toggle
  <2> QED  BY <1>3, <1>10, <2>2 DEF SelectDrive, Runs
<1>11. ASSUME SwapDisk
       PROVE  TracedInv'
  BY <1>2, <1>3, <1>11, core_disk_swapOwned DEF SwapDisk, Runs
<1>12. ASSUME ColdReset
       PROVE  TracedInv'
  BY <1>2, <1>3, <1>12, core_disk_drive_reinsertOwned DEF ColdReset, Runs
<1>13. ASSUME NEW d \in Drive, WriteSectors(d)
       PROVE  TracedInv'
  BY <1>1, <1>13, WriteTraced
<1>14. ASSUME retro_serialize
       PROVE  TracedInv'
  <2>1. \A d \in Drive : DriveOf(written, disk.drv[d])
    BY <1>2 DEF Owned
  <2> QED  BY <1>1, <1>14, <2>1 DEF retro_serialize, TracedInv, TracedBy
<1>15. ASSUME retro_unserialize
       PROVE  TracedInv'
  <2>1. /\ shot \in [Drive -> DriveState]
        /\ \A d \in Drive : LoadedDrive(shot[d]) /\ DriveOf(written, shot[d])
    BY <1>1, <1>2, <1>15 DEF retro_unserialize, ShotGood, TracedBy
  <2>2. Traced(written, core_disk_reindex(DrivesRestored(disk, shot)))
    BY <1>2, <2>1, RestoreOwned
  <2> QED  BY <1>3, <1>15, <2>2 DEF retro_unserialize
<1>16. ASSUME NEW o \in OptionSets, ChangeOptions(o)
       PROVE  TracedInv'
  BY <1>2, <1>3, <1>16 DEF ChangeOptions
<1>17. ASSUME NEW f \in FileSystems, ChangeFileSystem(f)
       PROVE  TracedInv'
  BY <1>2, <1>3, <1>17 DEF ChangeFileSystem
<1>18. ASSUME UNCHANGED vars
       PROVE  TracedInv'
  BY <1>2, <1>3, <1>18 DEF vars
<1> QED
  BY <1>4, <1>5, <1>6, <1>7, <1>8, <1>9, <1>10, <1>11, <1>12, <1>13, <1>14, <1>15, <1>16,
     <1>17, <1>18 DEF Next

THEOREM AlwaysTraced == ASSUME NoOverlays \/ ~ReplaceAny PROVE Spec => []TracedInv
<1>1. SaneInv /\ TracedInv /\ [Next]_vars => TracedInv'
  BY NextTraced
<1> QED  BY <1>1, InitTraced, AlwaysSane, PTL DEF Spec

(* What the machine wrote to one disk is never found under the name of     *)
(* another, however the saves fail, the options change, and savestates are *)
(* restored; unless entries of STX images in use are replaced, as those    *)
(* keep the name that overlays are stored by.                              *)
THEOREM DisksNeverEverMix ==
  ASSUME NoOverlays \/ ~ReplaceAny
  PROVE  Spec => []DisksNeverMix
<1>1. SaneInv /\ TracedInv => DisksNeverMix
  <2> SUFFICES ASSUME SaneInv, TracedInv PROVE DisksNeverMix
    OBVIOUS
  <2>1. PICK written : TracedBy(written)
    BY DEF TracedInv
  <2>2. ASSUME NEW drives, \A d \in Drive : DriveOf(written, drives[d]), NEW c \in CopiesIn(drives)
        PROVE  Of(written, c[1], c[2])
    BY <2>2 DEF CopiesIn, DriveOf
  <2>3. ASSUME NEW c \in Copies
        PROVE  Of(written, c[1], c[2])
    <3>1. CASE c \in CopiesCached(disk.cache)
      BY <2>1, <3>1 DEF CopiesCached, TracedBy, Owned, EntryOf
    <3>2. CASE c \in {<<n, disk.saves[n]>> : n \in Name}
      BY <2>1, <3>2 DEF TracedBy, Owned
    <3>3. CASE c \in CopiesIn(disk.drv)
      BY <2>1, <2>2, <3>3 DEF TracedBy, Owned
    <3>4. CASE shot # NoData /\ c \in CopiesIn(shot)
      BY <2>1, <2>2, <3>4 DEF TracedBy
    <3> QED  BY <2>3, <3>1, <3>2, <3>3, <3>4 DEF Copies
  <2> QED  BY <2>3 DEF DisksNeverMix, Of
<1> QED  BY <1>1, AlwaysSane, AlwaysTraced, PTL
================================================================================
