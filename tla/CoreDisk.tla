------------------------------- MODULE CoreDisk -------------------------------
(***************************************************************************)
(* core_disk.c: the cache of disk images, the libretro disk control        *)
(* interface on top of it, and the saving of modified images, composed     *)
(* with Hatari's two drives (FloppyDrive).                                 *)
(*                                                                         *)
(* A handler of the core runs to completion on one thread, so it is one    *)
(* action.  Handlers are chains of calls: each C function that changes     *)
(* state is an operator from worlds to worlds, and an action installs the  *)
(* world its handler computes.                                             *)
(***************************************************************************)
EXTENDS FloppyDrive, Integers, Sequences

CONSTANTS
  MaxDisks,         \* MAX_DISKS, entries of the cache
  Playlists,        \* the contents a user opens: names and boot directives
  Additions,        \* the lists of names that Load New Disk is used with
  OptionSets,       \* the settings of the core options a run goes through
  FileSystems,      \* the conditions of the saves folder a run goes through
  ReplaceAny,       \* frontends replace entries in use, or only fresh ones
  RestoreUncached,  \* savestates are restored without their disks loaded
  MaxWrites,        \* bound on machine writes
  MaxLoads,         \* bound on restored savestates
  MaxSessions       \* bound on opened contents

Slot == 0 .. MaxDisks - 1

(* Any index past the cache: what core_disk_reindex stores for a disk it   *)
(* does not know, and what a frontend passes to select no disk.            *)
NoSlot == MaxDisks

Options == [enable_b: BOOLEAN, enable_save: BOOLEAN, floppy_modify: BOOLEAN, protect: BOOLEAN]

ASSUME DiskAssumption ==
  /\ MaxDisks \in Nat \ {0}
  /\ \A p \in Playlists : /\ DOMAIN p = {"names", "boot"}
                          /\ p.names \in Seq(Name) \ {<< >>}
                          /\ p.boot \in [Drive -> Int]
  /\ Additions \subseteq Seq(Name) \ {<< >>}
  /\ OptionSets \subseteq Options
  /\ FileSystems \subseteq {"ok", "denied", "full"}
  /\ ReplaceAny \in BOOLEAN /\ RestoreUncached \in BOOLEAN
  /\ MaxWrites \in Nat /\ MaxLoads \in Nat /\ MaxSessions \in Nat

VARIABLES
  disk,      \* the world: core_disk.c's statics, Hatari's drives, saves folder
  opt,       \* core options read by the handlers
  fs,        \* whether the saves folder takes files
  session,   \* [n, open]: content opened so far, and whether one is open
  shot,      \* the savestate kept by the frontend: both drives, or NoData
  writes,    \* machine writes so far; also the newest version
  loads      \* savestates restored so far

vars == <<disk, opt, fs, session, shot, writes, loads>>

(* One element of disks[].                                                 *)
Entry == [name: Name \cup {NoName}, data: Content, saved: BOOLEAN,
          extra: Content, extra_name: Name \cup {NoName}]

EmptyEntry == [name |-> NoName, data |-> NoData, saved |-> FALSE,
               extra |-> NoData, extra_name |-> NoName]

(* advanced is disk_save_advanced_buffer_pos # 0.                          *)
World == [cache: [Slot -> Entry], count: 0 .. MaxDisks,
          index: [Drive -> 0 .. MaxDisks], insert: [Drive -> BOOLEAN], drive: Drive,
          drv: [Drive -> DriveState], saves: [Name -> Content], advanced: BOOLEAN]

Least(S) == CHOOSE i \in S : \A j \in S : i <= j

(* The first entry with a file name, as the strcmp loops find it.          *)
SlotOf(w, n) ==
  LET found == {i \in Slot : w.cache[i].name = n}
  IN IF found = {} THEN NoSlot ELSE Least(found)

ExtraSlotOf(w, n) ==
  LET found == {i \in Slot : w.cache[i].extra_name = n}
  IN IF found = {} THEN NoSlot ELSE Least(found)

-----------------------------------------------------------------------------
(* Saving: called by Hatari when a changed disk is ejected                 *)

(* The saves folder after a whole file is written.  Opening for writing    *)
(* truncates, so a folder that runs full destroys the earlier save.        *)
FileWritten(saves, n, v) ==
  CASE fs = "ok"     -> [saves EXCEPT ![n] = v]
    [] fs = "denied" -> saves
    [] OTHER         -> [saves EXCEPT ![n] = Junk]

(* Bugs that core_disk_save could have: the entry is not marked saved; the *)
(* cache is updated only when the file was written.                        *)
SaveUnmarked(w, n, v) ==
  LET i == SlotOf(w, n)
  IN [w EXCEPT !.saves = IF opt.enable_save THEN FileWritten(w.saves, n, v) ELSE w.saves,
               !.cache = IF i = NoSlot THEN w.cache ELSE [w.cache EXCEPT ![i].data = v]]

SaveIfWritten(w, n, v) ==
  LET i == SlotOf(w, n)
  IN [w EXCEPT !.saves = IF opt.enable_save THEN FileWritten(w.saves, n, v) ELSE w.saves,
               !.cache = IF i = NoSlot \/ fs # "ok" \/ ~opt.enable_save THEN w.cache
                         ELSE [w.cache EXCEPT ![i].data = v, ![i].saved = TRUE]]

(* A bug core_disk_save could have: it updates the entry the menu is at.   *)
SaveAtSelection(w, n, v) ==
  [w EXCEPT !.saves = IF opt.enable_save THEN FileWritten(w.saves, n, v) ELSE w.saves,
            !.cache = [w.cache EXCEPT ![w.index[w.drive]].data = v,
                                      ![w.index[w.drive]].saved = TRUE]]

(* core_disk_save: the file if saving is enabled, and the cache regardless *)
(* of whether that succeeded.                                              *)
core_disk_save(w, n, v) ==
  LET i == SlotOf(w, n)
  IN [w EXCEPT
        !.saves = IF opt.enable_save THEN FileWritten(w.saves, n, v) ELSE w.saves,
        !.cache = IF i = NoSlot THEN w.cache
                  ELSE [w.cache EXCEPT ![i].data = v, ![i].saved = TRUE]]

(* STX_WriteDisk through core_disk_save_open, _write and _close_extra: the *)
(* overlay file is written whatever the save option says, a failed one is  *)
(* removed, a complete one is cached.  The position in the collecting      *)
(* buffer is never reset, so every overlay but the first is misaligned.    *)
STX_WriteDisk(w, n, v) ==
  LET i == ExtraSlotOf(w, n)
      collected == IF w.advanced THEN Junk ELSE v
  IN CASE fs = "denied" -> w
       [] fs = "full"   -> [w EXCEPT !.saves[n] = NoData, !.advanced = TRUE]
       [] OTHER         ->
            [w EXCEPT
               !.saves[n] = v,
               !.advanced = TRUE,
               !.cache = IF i = NoSlot THEN w.cache
                         ELSE [w.cache EXCEPT ![i].extra = collected, ![i].saved = TRUE]]

(* Floppy_EjectDiskFromDrive.                                              *)
FloppyEject(w, d) ==
  LET hd == w.drv[d]
      stored == CASE SavesImage(hd)   -> core_disk_save(w, hd.name, hd.buffer)
                  [] SavesOverlay(hd) -> STX_WriteDisk(w, hd.name, hd.overlay)
                  [] OTHER            -> w
  IN [stored EXCEPT !.drv[d] = EmptyDrive]

-----------------------------------------------------------------------------
(* The disk control interface                                              *)

Ejected(w, d) ==
  IF w.insert[d] THEN [FloppyEject(w, d) EXCEPT !.insert[d] = FALSE] ELSE w

(* A bug Inserting could have: the tray is taken for full when Hatari has  *)
(* refused the image.                                                      *)
InsertingAnyway(w, d) ==
  LET i == w.index[d]
  IN IF i >= MaxDisks THEN w
     ELSE [w EXCEPT
             !.drv[d] = IF Readable(w.cache[i].name, w.cache[i].data)
                        THEN ReadImage(w.cache[i].name, w.cache[i].data, w.cache[i].extra,
                                       opt.enable_save)
                        ELSE @,
             !.insert[d] = TRUE]

(* The disk at the drive's index enters the drive, if there is one and     *)
(* Hatari can read it.                                                     *)
Inserting(w, d) ==
  LET i == w.index[d]
  IN IF i < MaxDisks /\ Readable(w.cache[i].name, w.cache[i].data)
     THEN [w EXCEPT
             !.drv[d] = ReadImage(w.cache[i].name, w.cache[i].data, w.cache[i].extra,
                                  opt.enable_save),
             !.insert[d] = TRUE]
     ELSE w

(* A bug InsertDrive could have: the other drive is not looked at.         *)
InsertDriveOnly(w, d) == IF w.insert[d] THEN w ELSE Inserting(w, d)

(* set_eject_state_drive(false, d): a disk that is in the other drive is   *)
(* taken out of it first.                                                  *)
InsertDrive(w, d) ==
  LET o == 1 - d
      freed == IF w.insert[o] /\ w.index[o] = w.index[d] THEN Ejected(w, o) ELSE w
  IN IF w.insert[d] THEN w ELSE Inserting(freed, d)

set_eject_state(w, ejected) ==
  IF ejected THEN Ejected(w, w.drive) ELSE InsertDrive(w, w.drive)

set_image_index(w, i) ==
  IF i = w.index[w.drive] THEN w
  ELSE [Ejected(w, w.drive) EXCEPT !.index[w.drive] = i]

(* The bytes behind a name when there is no save.  unzip_gz never reports  *)
(* a size, so what comes out of a GZ is stored with size 0.                *)
FileData(n) ==
  CASE Format[n] = "absent" -> NoData
    [] Format[n] = "gz"     -> Junk
    [] OTHER                -> 0

(* The entry that replace_image_index leaves for one file.                 *)
LoadedEntry(w, old, n) ==
  LET kept == IF opt.enable_save THEN w.saves[n] ELSE NoData
      stx  == Format[n] = "stx"
      data == IF kept # NoData /\ ~stx THEN kept ELSE FileData(n)
  IN [name       |-> IF data = NoData THEN NoName ELSE n,
      data       |-> data,
      saved      |-> kept # NoData,
      extra      |-> IF stx THEN kept ELSE NoData,
      extra_name |-> IF stx /\ opt.enable_save THEN n ELSE old.extra_name]

(* A list of files: the first one goes to entry i and the others to new    *)
(* entries, as long as there are any.                                      *)
LoadedList(w, i, names) ==
  LET place(j) == IF j = i THEN 1 ELSE j - w.count + 2
      taken(j) == j = i \/ (j >= w.count /\ place(j) <= Len(names))
      total == w.count + Len(names) - 1
  IN [w EXCEPT
        !.cache = [j \in Slot |-> IF taken(j) THEN LoadedEntry(w, w.cache[j], names[place(j)])
                                  ELSE w.cache[j]],
        !.count = IF total > MaxDisks THEN MaxDisks ELSE total]

(* What should eject entry i from drive d before it is replaced asks drive *)
(* 0 to insert instead, so an entry in use stays where it is.              *)
EjectReplaced(w, i, d) == IF w.insert[d] /\ w.index[d] = i THEN InsertDrive(w, 0) ELSE w

replace_image_index(w, i, names) ==
  LoadedList(EjectReplaced(EjectReplaced(w, i, 0), i, 1), i, names)

add_image_index(w) == [w EXCEPT !.count = IF w.count < MaxDisks THEN w.count + 1 ELSE w.count]

-----------------------------------------------------------------------------
(* Loading content                                                         *)

(* disks_clear: the cache goes first, then the drives.                     *)
disks_clear(w) ==
  LET empty == [w EXCEPT !.drive = 0, !.count = 0,
                         !.cache = [i \in Slot |-> EmptyEntry],
                         !.index = [d \in Drive |-> 0],
                         !.insert = [d \in Drive |-> FALSE]]
  IN FloppyEject(FloppyEject(empty, 0), 1)

(* Drive d selects entry i and closes its tray.                            *)
Boot(w, d, i) == set_eject_state(set_image_index([w EXCEPT !.drive = d], i), FALSE)

(* The automatic selection for drive d takes the first entry that has data *)
(* and is not in the other drive, or entry 0 if there is none.             *)
Bootable(w, d) ==
  LET o == 1 - d
  IN {i \in 0 .. w.count - 1 : w.cache[i].data # NoData /\ ~(w.insert[o] /\ w.index[o] = i)}

FirstBootable(w, d) == IF Bootable(w, d) = {} THEN 0 ELSE Least(Bootable(w, d))

(* A bug BootDirective could have: the last disk counts as past the list.  *)
BootBeforeLast(w, p, d) == IF p.boot[d] >= w.count THEN 0 ELSE p.boot[d]

(* A boot directive past the list means an empty drive, and so does 0; -1  *)
(* stands for no directive.                                                *)
BootDirective(w, p, d) == IF p.boot[d] > w.count THEN 0 ELSE p.boot[d]

BootAsDirected(w, p, d) ==
  IF BootDirective(w, p, d) > 0 /\ (d = 1 => opt.enable_b)
  THEN Boot(w, d, BootDirective(w, p, d) - 1) ELSE w

BootUndirected(w, p, d) ==
  LET i == FirstBootable(w, d)
  IN IF /\ BootDirective(w, p, d) < 0
        /\ d = 1 => opt.enable_b /\ w.cache[i].data # NoData
        /\ ~(w.insert[1 - d] /\ w.index[1 - d] = i)
     THEN Boot(w, d, i) ELSE w

Listed(w, p) == LoadedList([disks_clear(w) EXCEPT !.count = 1], 0, p.names)

(* Directives come first, for B then A, and then the selection for A and B.*)
Booted(w, p) ==
  BootUndirected(BootUndirected(BootAsDirected(BootAsDirected(w, p, 1), p, 0), p, 0), p, 1)

core_disk_load_game(w, p) == [Booted(Listed(w, p), p) EXCEPT !.drive = 0]

core_disk_unload_game(w) == disks_clear(Ejected(Ejected(w, 0), 1))

-----------------------------------------------------------------------------
(* Conveniences and resets                                                 *)

core_disk_drive_toggle(w) == [w EXCEPT !.drive = 1 - w.drive]

(* Eject, and close the tray again if it was closed.                       *)
Reinserted(w, d) == IF w.insert[d] THEN InsertDrive(Ejected(w, d), d) ELSE w

core_disk_drive_reinsert(w) ==
  IF opt.enable_b THEN Reinserted(Reinserted(w, 0), 1) ELSE Reinserted(w, 0)

(* A bug NextIndex could have: the last disk is not followed by the first. *)
NextPastEnd(w) == w.index[w.drive] + 1

(* The entry after the drive's own; the last is followed by the first.     *)
NextIndex(w) == IF w.index[w.drive] + 1 >= w.count THEN 0 ELSE w.index[w.drive] + 1

SelectNext(w) == set_image_index(w, NextIndex(w))

core_disk_swap(w) == set_eject_state(SelectNext(Ejected(w, w.drive)), FALSE)

-----------------------------------------------------------------------------
(* Savestates                                                              *)

(* Floppy_MemorySnapShot_Capture(false): the drives are ejected, with the  *)
(* usual saves unless the safety save is off, then taken from the state.   *)
DrivesRestored(w, drives) ==
  [(IF opt.floppy_modify THEN FloppyEject(FloppyEject(w, 0), 1) ELSE w) EXCEPT !.drv = drives]

(* A bug MayRevert could have: a restored disk is never saved.             *)
NeverReverts(w, n) == FALSE

(* Whether the restored disk may differ from a save that exists.           *)
MayRevert(w, n) ==
  LET i == SlotOf(w, n)
  IN IF i # NoSlot THEN w.cache[i].saved ELSE opt.enable_save /\ w.saves[n] # NoData

(* A bug core_disk_reindex could have: the indices stay where they were.   *)
ReindexInsertOnly(w) ==
  LET in(d) == Inserted(w.drv[d])
  IN [w EXCEPT
        !.insert = [d \in Drive |-> in(d)],
        !.drv = [d \in Drive |->
                   IF in(d) /\ opt.floppy_modify /\ MayRevert(w, w.drv[d].name)
                   THEN [w.drv[d] EXCEPT !.changed = TRUE] ELSE w.drv[d]]]

core_disk_reindex(w) ==
  LET in(d) == Inserted(w.drv[d])
  IN [w EXCEPT
        !.insert = [d \in Drive |-> in(d)],
        !.index = [d \in Drive |-> IF in(d) THEN SlotOf(w, w.drv[d].name) ELSE w.index[d]],
        !.drv = [d \in Drive |->
                   IF in(d) /\ opt.floppy_modify /\ MayRevert(w, w.drv[d].name)
                   THEN [w.drv[d] EXCEPT !.changed = TRUE] ELSE w.drv[d]]]

-----------------------------------------------------------------------------
(* Actions                                                                 *)

Runs(w) == disk' = w /\ UNCHANGED <<opt, fs, session, shot, writes, loads>>

retro_load_game(p) ==
  /\ ~session.open /\ session.n < MaxSessions
  /\ disk' = core_disk_load_game(disk, p)
  /\ session' = [n |-> session.n + 1, open |-> TRUE]
  /\ UNCHANGED <<opt, fs, shot, writes, loads>>

retro_unload_game ==
  /\ session.open
  /\ disk' = core_disk_unload_game(disk)
  /\ session' = [session EXCEPT !.open = FALSE]
  /\ UNCHANGED <<opt, fs, shot, writes, loads>>

SetEjectState(ejected) == session.open /\ Runs(set_eject_state(disk, ejected))

SetImageIndex(i) == session.open /\ Runs(set_image_index(disk, i))

(* Load New Disk opens the tray, adds an entry and replaces it; libretro   *)
(* allows any entry to be replaced while the tray is open.  File names are *)
(* unique, as the README asks.                                             *)
ReplaceImageIndex(i, names) ==
  /\ session.open
  /\ ~disk.insert[disk.drive]
  /\ i < disk.count
  /\ ReplaceAny \/ disk.cache[i] = EmptyEntry
  /\ \A k \in 1 .. Len(names) : \A j \in Slot \ {i} : disk.cache[j].name # names[k]
  /\ Runs(replace_image_index(disk, i, names))

AddImageIndex == session.open /\ disk.count < MaxDisks /\ Runs(add_image_index(disk))

SelectDrive == session.open /\ Runs(core_disk_drive_toggle(disk))

SwapDisk == session.open /\ Runs(core_disk_swap(disk))

ColdReset == session.open /\ Runs(core_disk_drive_reinsert(disk))

(* Floppy_WriteSectors, or its STX counterpart, for the emulated machine.  *)
WriteSectors(d) ==
  /\ session.open /\ writes < MaxWrites
  /\ Inserted(disk.drv[d]) /\ ~opt.protect
  /\ writes' = writes + 1
  /\ disk' = [disk EXCEPT !.drv[d] = SectorWritten(disk.drv[d], writes + 1)]
  /\ UNCHANGED <<opt, fs, session, shot, loads>>

retro_serialize ==
  /\ session.open
  /\ shot' = disk.drv
  /\ UNCHANGED <<disk, opt, fs, session, writes, loads>>

retro_unserialize ==
  /\ session.open /\ shot # NoData /\ loads < MaxLoads
  /\ RestoreUncached \/ \A d \in Drive : Inserted(shot[d]) => SlotOf(disk, shot[d].name) # NoSlot
  /\ loads' = loads + 1
  /\ disk' = core_disk_reindex(DrivesRestored(disk, shot))
  /\ UNCHANGED <<opt, fs, session, shot, writes>>

ChangeOptions(o) ==
  /\ opt' = o
  /\ UNCHANGED <<disk, fs, session, shot, writes, loads>>

ChangeFileSystem(f) ==
  /\ fs' = f
  /\ UNCHANGED <<disk, opt, session, shot, writes, loads>>

Init ==
  /\ disk = [cache |-> [i \in Slot |-> EmptyEntry], count |-> 0,
             index |-> [d \in Drive |-> 0], insert |-> [d \in Drive |-> FALSE], drive |-> 0,
             drv |-> [d \in Drive |-> EmptyDrive],
             saves |-> [n \in Name |-> NoData], advanced |-> FALSE]
  /\ opt \in OptionSets
  /\ fs \in FileSystems
  /\ session = [n |-> 0, open |-> FALSE]
  /\ shot = NoData
  /\ writes = 0
  /\ loads = 0

Next ==
  \/ \E p \in Playlists : retro_load_game(p)
  \/ retro_unload_game
  \/ \E e \in BOOLEAN : SetEjectState(e)
  \/ \E i \in 0 .. MaxDisks : SetImageIndex(i)
  \/ \E i \in Slot, names \in Additions : ReplaceImageIndex(i, names)
  \/ AddImageIndex
  \/ SelectDrive
  \/ SwapDisk
  \/ ColdReset
  \/ \E d \in Drive : WriteSectors(d)
  \/ retro_serialize
  \/ retro_unserialize
  \/ \E o \in OptionSets : ChangeOptions(o)
  \/ \E f \in FileSystems : ChangeFileSystem(f)

Spec == Init /\ [][Next]_vars

-----------------------------------------------------------------------------
(* Properties                                                              *)

(* Every variable keeps to its type.                                       *)
TypeOK ==
  /\ disk \in World
  /\ opt \in OptionSets
  /\ fs \in FileSystems
  /\ session \in [n: 0 .. MaxSessions, open: BOOLEAN]
  /\ shot \in [Drive -> DriveState] \cup {NoData}
  /\ writes \in 0 .. MaxWrites
  /\ loads \in 0 .. MaxLoads

(* image_insert (core_disk.c) and bDiskInserted (floppy.c) are two records *)
(* of one fact: the core believes a disk is in exactly when Hatari has one *)
(* there, whatever failed to insert, was restored or was reset.            *)
InsertionAgreed == \A d \in Drive : disk.insert[d] <=> Inserted(disk.drv[d])

(* The disk in a drive is the one the drive's index names in the cache, so *)
(* the disk control menu shows, and an eject updates, the right image.     *)
DriveHoldsIndexedDisk ==
  \A d \in Drive : disk.insert[d] /\ disk.index[d] # NoSlot
                     => disk.drv[d].name = disk.cache[disk.index[d]].name

(* No disk is in both drives: two private copies of one image would make   *)
(* the later eject overwrite what the earlier one saved.                   *)
NoDiskInBothDrives ==
  Inserted(disk.drv[0]) /\ Inserted(disk.drv[1]) => disk.drv[0].name # disk.drv[1].name

(* Everything that is kept under a disk's name, in the cache, the drives,  *)
(* the saves folder and the frontend's savestate.                          *)
CopiesIn(drives) ==
  UNION {{<<drives[d].name, drives[d].buffer>>, <<drives[d].name, drives[d].overlay>>} : d \in Drive}

CopiesCached(cache) ==
  UNION {{<<cache[i].name, cache[i].data>>, <<cache[i].name, cache[i].extra>>} : i \in Slot}

Copies == {<<n, disk.saves[n]>> : n \in Name} \cup CopiesCached(disk.cache)
            \cup CopiesIn(disk.drv) \cup (IF shot = NoData THEN {} ELSE CopiesIn(shot))

(* What the machine wrote to one disk never turns up under the name of     *)
(* another: core_disk_save and the overlay callbacks find the entry and    *)
(* the file by the name the drive has kept, whatever became of the list,   *)
(* the selection and the options since the disk was inserted.              *)
DisksNeverMix ==
  \A a, b \in Copies : a[2] \in Nat \ {0} /\ a[2] = b[2] => a[1] = b[1]

(* A disk whose copy is not marked changed can be ejected without a save:  *)
(* the cache already has what is on it.                                    *)
UnchangedDiskIsCached ==
  \A d \in Drive :
    LET hd == disk.drv[d]
    IN Inserted(hd) /\ ~hd.changed /\ disk.index[d] # NoSlot /\ Format[hd.name] = "image"
         => disk.cache[disk.index[d]].data = hd.buffer

(* After a content is opened, its boot directives have been obeyed: a      *)
(* drive told to stay empty is empty, a drive told to take a readable disk *)
(* has it (drive A comes first when both ask for the same), and without    *)
(* directives the first readable disks of the list are in A and B, so long *)
(* as everything with data is readable.                                    *)
BootedAsTold(w, p) ==
  LET listed == 0 .. w.count - 1
      disks == {i \in listed : w.cache[i].data # NoData}
      readable(i) == Readable(w.cache[i].name, w.cache[i].data)
      asks(d, i) == p.boot[d] = i + 1 /\ readable(i)
      holds(d, i) == w.insert[d] /\ w.index[d] = i
  IN /\ \A d \in Drive : p.boot[d] = 0 \/ p.boot[d] > w.count => ~w.insert[d]
     /\ \A i \in listed : asks(0, i) => holds(0, i)
     /\ \A i \in listed : asks(1, i) /\ ~asks(0, i) /\ opt.enable_b => holds(1, i)
     /\ (\A d \in Drive : p.boot[d] = -1) /\ (\A i \in disks : readable(i)) =>
          /\ disks # {} => holds(0, Least(disks))
          /\ disks \ {Least(disks)} # {} /\ opt.enable_b
               => holds(1, Least(disks \ {Least(disks)}))

BootDirectivesObeyed ==
  [][session'.n # session.n
       => \A p \in Playlists : retro_load_game(p) => BootedAsTold(disk', p)]_vars

(* While Save Floppy Disks is off the saves folder is not accessed         *)
(* (README, Saving): nothing in it changes.                                *)
SavesOffLeavesFolder == [][~opt.enable_save => disk'.saves = disk.saves]_vars

(* "eject if currently inserted": when an entry is given another file, no  *)
(* drive is left with the disk it had.                                     *)
ReplacedDiskIsEjected ==
  [][\A i \in Slot, d \in Drive :
       /\ disk.insert[d] /\ disk.index[d] = i
       /\ disk'.cache[i].name # disk.cache[i].name
       => ~(disk'.insert[d] /\ disk'.drv[d].name = disk.drv[d].name)]_vars

(* Write protection prevents the safety save (README, Savestates): with it *)
(* on, restoring marks no disk changed that was not changed in the state.  *)
ProtectedRestoreSavesNothing ==
  [][loads' # loads /\ opt.protect
       => \A d \in Drive : disk'.drv[d].changed => shot[d].changed]_vars

(* A GZ can hold any of the floppy formats (README): the image that was in *)
(* the archive can be inserted.                                            *)
GzIsReadable ==
  \A i \in Slot : LET e == disk.cache[i]
                  IN e.name # NoName /\ Format[e.name] = "gz" => Readable(e.name, e.data)

-----------------------------------------------------------------------------
(* Refinement: disks are registers                                         *)

Savable == {n \in Name : Format[n] \in {"image", "stx"}}

(* The disks that are saved whole.                                         *)
Images == {n \in Name : Format[n] = "image"}

Version(v) == IF v \in Nat THEN v ELSE 0

(* What the machine would find on a disk if it were inserted now, or finds *)
(* on it in the drive; for a closed content, if it were opened again.      *)
Contents(n) ==
  LET i == SlotOf(disk, n)
      stx == Format[n] = "stx"
      kept == IF opt.enable_save THEN Version(disk.saves[n]) ELSE 0
  IN IF \E d \in Drive : disk.drv[d].name = n
     THEN LET d == CHOOSE x \in Drive : disk.drv[x].name = n
          IN IF stx THEN disk.drv[d].overlay ELSE Version(disk.drv[d].buffer)
     ELSE CASE i = NoSlot -> kept
            [] i # NoSlot /\ ~stx -> Version(disk.cache[i].data)
            [] i # NoSlot /\ stx  -> IF opt.enable_save THEN Version(disk.cache[i].extra) ELSE 0

Persistent == FileSystems = {"ok"} /\ \A o \in OptionSets : o.enable_save

ContentsOf(S) == [n \in S |-> IF session.open \/ Persistent THEN Contents(n) ELSE 0]

(* The savestate's view of the disks of S that it holds.                   *)
Captured(S) ==
  LET held == IF shot = NoData THEN {} ELSE {d \in Drive : shot[d].name \in S}
      at(n) == CHOOSE d \in held : shot[d].name = n
  IN [n \in {shot[d].name : d \in held} |->
        IF Format[n] = "stx" THEN shot[at(n)].overlay ELSE Version(shot[at(n)].buffer)]

Shelf == INSTANCE DiskShelf WITH
  Disk       <- Savable,
  Persistent <- Persistent,
  contents   <- ContentsOf(Savable),
  state      <- Captured(Savable),
  open       <- session.open

(* Nothing but a write of the machine or a restored savestate changes what *)
(* is on a disk: no order of ejects, inserts, swaps, resets, additions and *)
(* savestates loses a write (README, Saving).                              *)
DisksAreRegisters == Shelf!Spec

ImageShelf == INSTANCE DiskShelf WITH
  Disk       <- Images,
  Persistent <- Persistent,
  contents   <- ContentsOf(Images),
  state      <- Captured(Images),
  open       <- session.open

(* The same for the disks that are saved whole, whatever files they share  *)
(* the cache, the drives, the saves folder and the savestate with.         *)
ImagesAreRegisters == ImageShelf!Spec
=============================================================================
