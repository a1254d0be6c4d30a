# hatariB in TLA+

hatariB is a libretro core: it wraps the Atari ST emulator Hatari in the callbacks a
libretro frontend (RetroArch) calls. This directory models the parts of it where a mistake
is easy to make and hard to test for, checks them with TLC on small instances, and proves the
most important facts with TLAPS for every instance.

    tlc -config DiskRegisters.cfg MCCoreDisk.tla       # a run
    tlapm CoreDiskProofs.tla                           # the proofs of a module

All paths below are relative to the repository.

## The system

The core runs on one thread. The frontend calls it: `retro_load_game`, `retro_run` once per
frame, the disk control and keyboard callbacks between frames, `retro_serialize` and
`retro_unserialize` at any time between frames (run-ahead and netplay call both in every frame),
`retro_reset`, `retro_unload_game`. Within `retro_run` the core polls pads and keys, applies
options and resets, and lets Hatari run to its next VBL. So no two handlers interleave; what
interleaves is the *order of the calls*, and the state they share lives in three places that
have to agree: the core's statics, Hatari's statics, and what the frontend keeps (savestates,
the saves folder, the keys it believes are held).

| Component | State | Operations | What makes it correct |
|---|---|---|---|
| disk cache and disk control, `core/core_disk.c` | `disks[]`, `image_count`, `image_index[2]`, `image_insert[2]`, `drive`, boot directives, STX save buffer | eject, insert, select, add, replace, load and unload content, swap and drive buttons, reinsert on cold reset, save image or overlay, reindex after a restore | what is written to a disk is never lost or resurrected; menu and drives agree |
| Hatari's drives, `hatari/src/floppy.c`, `floppy_stx.c`, `fdc.c` | `EmulationDrives[2]`: name, private copy of the image, changed flag, two transitions; STX overlay | insert, eject (which saves), sector writes, snapshot, drive transition and write protect signal | the emulated system notices every change of disk |
| keyboard, `core/core_input.c`, `hatari/src/keymap.c` | event queue, `retrok_down`, `retrok_joy`, `Keyboard.KeyStates` | host callback, pad and on-screen keys, unstick, force feed, reset, snapshot | no key hangs, no held key is released |
| pads, mouse, auxiliary buttons, `core/core_input.c` | joystick tables, `vmouse`, `aux_buttons`, `joy_autofire`, `jm_toggle_index` | poll once per frame, edges of buttons | one press acts once, the mouse button does not hang, auto-fire keeps its rate |
| run loop, `core/core.c` | `core_runflags`, `core_crash_frames`, pending resets | `retro_run`, `retro_reset`, halt and reset signals | the machine stands still exactly while a pausing screen is up, a halt ends, and by a cold reset |
| savestates, `core/core.c` | snapshot buffer, position, error | `core_serialize` in both directions | a restored core continues as the saved one would |
| video, `core/core.c`, `hatari/src/screen.c` | surface, its size and rate, pending notices | updates by Hatari, resets, `video_cb` | rate and size reach the frontend |
| audio, `core/core.c` | audio buffer | updates by Hatari, `audio_batch_cb` | |
| on-screen keyboard, `core/core_osk.c` | mode, cursor, presses, repeat timer, saved screen | cursor input, overlay, restore | cursor stays on keys and reaches all, presses begin and end with the button, the overlay is taken off again |
| options, `core/core_config.c` | `newparam`, option variables | read, apply at run or reset | |
| files, `core/core_file.c` | paths, VFS | read, write, scan | |
| MIDI, hard disks, machine emulation, EmuTOS, `libretro.h` | | | vendored, generated, or passed through |

How they interact:

* `core_disk.c` calls Hatari to insert and eject (`core_floppy_insert`, `core_floppy_eject`).
  Hatari copies the image, and calls *back* on an eject of a changed disk (`core_disk_save`,
  `core_disk_save_open/_close_extra`), which updates the cache and the saves folder.
* A savestate holds Hatari's drives with their images, but none of `core_disk.c`.
  `core_disk_reindex` rebuilds the core's view from Hatari's after a restore.
* The host's key callback queues events and changes `retrok_down` at once. Hatari takes them at
  the end of the input phase of the next `retro_run`. The savestate holds `retrok_down` and
  `KeyStates`, but not the queue.
* Buttons reach the disks (`core_disk_swap`, `core_disk_drive_toggle`), the run flags and the mode
  of the overlay; a cold reset reinserts the disks.
* The mode of the overlay (`core_osk_mode`) is set by the poll of the buttons, sets the run flags
  `PAUSE` and `OSK` after it, and decides which buttons the next poll passes on, whether a frame is
  run, and what is drawn over the picture. It is part of a savestate, the drawing is not.

What is hard here is listed under `hazards` in `PROJECT.json`, at the line where it bites, with
the properties that cover it. Nearly all of them are of two kinds: state that exists twice and
has to survive a restore or a failure on one side, and long sequences of legal calls.

## Modules

| Module | Models | Proved in |
|---|---|---|
| `DiskShelf` | abstract specification: disks are registers | |
| `FloppyDrive` | Hatari's drive as `core_disk.c` sees it (operators only) | |
| `CoreDisk` | `core_disk.c` composed with two `FloppyDrive`s, saves folder, options, frontend | `CoreDiskLemmas`, `CoreDiskProofs` |
| `DiskChange` | transitions of one drive, the write protect signal, the TOS that polls it | `DiskChangeProofs` |
| `KeyEvents` | event queue, `retrok_down`, `KeyStates`, pads, pause, resets, savestates | `KeyEventsProofs` |
| `PadInput` | fire, auto-fire, the left mouse button, joystick and mouse swap, pause, resets, savestates | `PadInputProofs` |
| `RunLoop` | stages of `retro_run`, run flags, resets, halts, crash timer, mode of the overlay, savestates | `RunLoopProofs` |
| `RunAhead` | `RunLoop` under a frontend that runs ahead and restores in every frame | |
| `ScreenKeyboard` | grid, cursor, repeat and presses of the on-screen keyboard | `ScreenKeyboardProofs` |
| `ScreenOutput` | surface, picture, overlay and its undoing, status bar, size and rate, savestates | `ScreenOutputProofs` |
| `MC...` | instances for TLC | |

Modules meet at the state they share. What one module decides the others leave open: `KeyEvents`
takes any set of keys from pads and keyboard in a frame, `PadInput` and `ScreenOutput` any mode a
poll may end in, `ScreenKeyboard` any button at any poll. So each module allows more than the
composition does, and what holds in it holds in the whole core. `aux_buttons` is divided: each
module has the bits of the buttons it acts on. Every module with state that a savestate holds, or
fails to hold, has the frontend's savestate (`shot`) as a variable of its own.

### CoreDisk and FloppyDrive

A handler in C is a chain of calls that change statics, often through a callback from Hatari in
the middle. Each C function that changes state is an operator from a world to a world with the
function's own name (`set_eject_state`, `core_disk_save`, `replace_image_index`...), where a
world is a record of all of `core_disk.c`'s and `floppy.c`'s statics and the saves folder. An
action is one call of the frontend, a button, or a reset, and installs the world its handler
computes. So the order of the calls in a handler is kept, and a handler is atomic, as it is in
the code.

| Variable | In the code |
|---|---|
| `disk.cache` | `disks[]`: `filename`, `data` (and `size`), `saved`, `extra_data`, `extra_filename` |
| `disk.count`, `index`, `insert`, `drive` | `image_count`, `image_index`, `image_insert`, `drive` |
| `disk.drv` | `EmulationDrives`: `sFileName` (and `bDiskInserted`), `pBuffer`, `bContentsChanged`, the STX overlay |
| `disk.saves` | the files in the saves folder |
| `disk.advanced` | `disk_save_advanced_buffer_pos` is not 0 |
| `opt` | `core_disk_enable_b`, `core_disk_enable_save`, `core_savestate_floppy_modify`, write protection |
| `fs` | whether the saves folder takes files, refuses them, or runs full |
| `shot` | the savestate the frontend keeps, as far as it concerns drives |

The contents of an image are a number: 0 is the file the user supplied, and each write of the
emulated machine produces a number never used before. `Junk` stands for bytes that are no image
(truncated, misaligned, or with size 0), `NoData` for a missing file or a NULL pointer. What a
file is (`Format`) is a constant: an image that can be saved, STX, unsavable, unreadable, GZ, or
absent. M3U and ZIP files are the list of names they yield with the boot directives; hard disks
on such a list are entries without data.

`ReplaceAny = FALSE` and `RestoreUncached = FALSE` are the documented use of Load New Disk and of
savestates (`README.md`, *Savestates*): a frontend fills the entry it has just added, and loads
the disks of a savestate before the savestate. File names are unique, as `README.md` asks.
`disk_drives` has `RestoreUncached = TRUE`: what it checks does not need the rule.

`DiskShelf` says what a user relies on: a disk is a register that only a write and the restore of
a savestate change. `CoreDisk` implements it under the refinement mapping of `DisksAreRegisters`:
the contents of a disk are the copy in the drive if it is in one, else the cached image, else the
saved file. With saving on and a working saves folder, contents even outlive the content
(`Persistent`). Otherwise the shelf is allowed to find any version when it is opened, and the
refinement speaks of one session. `ImagesAreRegisters` is the same with a shelf that holds the images
only: a write to an STX is then an `OtherWrite`, and the STX may be lost, but takes no image with it.

### DiskChange

The ST has no disk change line. TOS polls the write protect signal, and Hatari sets that signal
for a while after an eject, and releases it after an insert, by two timed transitions per drive.
`drive` holds the two transitions as `floppy.c` does; `vbl` is the VBL counter that a reset sets
to 0; `seen` and `since` are the TOS as the comments in `fdc.c` and `floppy.c` rely on it: it looks
at least every `Period` VBLs, and distrusts what it knows once it saw the signal set. A disk that is
ejected while its own insertion is not over cancels the signal of its eject ("If State2 == State1,
ignore it"), and a swap then can go unnoticed. The history variable `rushed` records it, until the TOS
next sees the signal set or a reset starts it anew; without it TLC finds an unnoticed swap within
seconds.

### KeyEvents

| Variable | In the code |
|---|---|
| `retrok_down` | the array of the same name: keys the core has reported as pressed |
| `KeyStates` | `Keyboard.KeyStates` of `ikbd.c`: scancodes pressed on the ST |
| `event_queue` | the queue |
| `lost` | history: the scancodes whose last release found the queue full |
| `stray` | history: the scancodes whose event waited in the queue while a savestate was made or loaded, and met other tables than it came with |
| `shot_history` | history: `lost` and `stray` of the savestate |
| `host_keyboard` | the core option |
| `paused` | `core_osk_mode` is the pause screen or the one-shot keyboard |
| `shot` | the part of a savestate that concerns keys |

What the host's keyboard reports when it is asked (`held`) and what pads and the on-screen
keyboard press (`joy`) are arbitrary in every frame and unrelated to the callbacks: callbacks may
be lost, doubled or late. A frame is one action: pads press, unstick releases, a reset may happen,
Hatari takes the queue. Savestates are made and loaded at any time between two frames, also while
events wait in the queue, which the code neither saves nor empties. No action depends on a history
variable.

### PadInput

`Poll` is one `core_input_update` with the events it pushes for the mouse. `held` says what each pad
has down, by the use the options assign to the button (`FIRE`, `AUTOFIRE`, `MOUSE_L`, `JM_TOGGLE`),
and `HOST` is the host's mouse, held by any pad. `JM_TOGGLE` stands for all auxiliary buttons that
act on their press: its edge is computed as theirs is, and its effect, `jm_toggle_index`, shows.

| Variable | In the code |
|---|---|
| `joy_autofire`, `jm_toggle_index`, `aux_buttons`, `core_autofire`, `core_mouse_port` | the same |
| `paused` | `input_paused` of the next poll |
| `joy_stick` | the ports with `JOY_STICK_F` in `joy_stick[]` |
| `bLButtonDown` | `BUTTON_MOUSE` in `Keyboard.bLButtonDown` of `ikbd.c` |
| `past` | history for the properties, in no guard: what the last poll was about |
| `players` | who plays in this behaviour, `Players` being divided to keep the instances small |

A reset clears `bLButtonDown` while `aux_buttons` keeps the button on record, so a button that is
down in a reset is up for the ST until it is pressed again (`lost`). A reset by a button of the same
poll comes before Hatari takes the event or after it, as kind and frame would have it.

### RunLoop and RunAhead

`retro_run` is cut into its stages, and `pc` names the next: options (which may reset), the poll of
the buttons, the flags that follow the mode (`OskFlags`), pending resets, the frame or the crash
timer. An action is one stage; between two calls (`pc = "idle"`) the frontend may reset, save and
restore. `core_runflags` is the set of its flags. The machine is external: a frame or the start of
the CPU may halt it (`fails`). The timer counts `Fps * CrashTime` frames. `restores` is bounded by
`MaxRestores`; no other counter needs a bound.

`RunAhead` restricts the frontend to what run-ahead does: a run, a savestate, `Ahead` more runs,
the restore.

### ScreenKeyboard

`osk_grid` is the grid that `core_osk.c` builds from its table of keys, with the widths of all keys;
the sixteen layouts differ in them in the row of the shift keys alone, which makes two kinds. `pos`
is row, column and the column remembered for the way back from the space bar. A poll moves the
cursor, presses (`osk_press_key`, `osk_press_mod`, `osk_press_time`), repeats and closes; opening, a
reset of the machine and a change of layout come between. Which plain key is pressed does not matter
to any of it and is left out. `let_go` and `released` are history.

### ScreenOutput

A picture is what it shows: `machine` (the present), `saved` (what a restored state showed), `over`
(an overlay) or `stale`; and its status bar is clean or dark. `surface` is `core_video_buffer` with
its size, replaced by Hatari's mode changes and resets, at one of two addresses. `screen`,
`screen_copy`, `core_osk_screen_restore` and `core_statusbar_restore` are the variables of
`core_osk.c`. The stages of `retro_run` are actions: undo the overlay, options, input (any new
mode), a frame or none, and `Show`, which tells the frontend of rate or size, draws the overlay and
shows the result. Input is two stages, as the code has it: the buttons that reset the machine or
change its surface, which a paused machine does not take, and then those that open or close an
overlay.

The machine's own rate is `nScreenRefreshRate`. Every VBL sets it, and so does every reset, to one of
`ResetRates` (the GLUE is reset: 60 Hz in colour, 71 Hz in monochrome); both pass it to
`core_set_fps`, which notes a change. A cold reset by the core resets, runs a frame of any rate and
resets again. A savestate brings the rate it was made at along without `core_set_fps`; it is left
open in the model. `told` is what the frontend was told, and it is not the same as `core_video_fps`,
the rate last put into a `retro_system_av_info`: a new size alone goes out with `SET_GEOMETRY`, which
tells no rate. `asleep` records that the machine was restored and has neither run a VBL nor been
reset since: while it is paused, or halted, the frontend keeps the rate it was told before.

`OldShots` are savestates an earlier session left. `cut` records the two cases in which the dark bar
stays: a reset that closes the pause screen, and a state of the pause screen whose picture does not
fit the surface.

## Runs

| Run | Question | Bounds |
|---|---|---|
| `disk_registers` | does any order of operations, savestates and sessions lose or resurrect a write, or put one disk into both drives? can a disk be ejected without a save although the cache is behind it? | 2 images, 2 writes, 1 restore, 2 sessions, write protection on and off |
| `disk_registers_session` | are images lost within a session, while saving is switched on and off and the saves folder fails? is the cache behind a disk that is ejected without a save? | 2 images, or an image and an STX; 1 write, 1 restore |
| `disk_drives` | do menu, core and Hatari agree on what is in the drives? is what was written to one disk ever kept as another's? are boot directives obeyed? | 4 files: images, an unreadable file, an STX, one missing; every pair of directives from none to past the end; every setting of drive B, saving and safety save; restores of disks that are on no list |
| `disk_change` | does the TOS notice every swap, and is the signal released? | 2 disks, delay 5 and period 4 instead of 18 and 16, 16 VBLs |
| `key_events` | does a key hang, or is a held one released? | 2 keys on one scancode, a queue of 2, 1 savestate, made and loaded with any queue |
| `pad_input` | does the mouse button hang, does one press act twice, does auto-fire keep its rate? | 2 pads with ports of their own, rates 2 and 5, 1 savestate |
| `run_loop` | does the machine stand still exactly while it should, how does a halt end, is every frame of it counted, does it end? | 2 frames per second, a crash time of 1 second, 1 restore; one button at a time, or the pause button with the keyboard's |
| `screen_keyboard` | does the cursor stay on keys and reach all of them, do presses begin and end with the button? | the grids of both kinds of layout; presses of 2 polls, repetition after 2 and then 1 frames; one button, or two where their order in the code matters |
| `screen_output` | are overlays undone, does the bar come back, is the frontend told? | 2 sizes, 2 rates, of which resets leave one, 2 addresses, 1 savestate and 2 of an earlier session |

Two writes are enough to tell a lost write from a resurrected one; two sessions are enough for a
disk to be saved, found and saved again, since nothing but the saves folder passes from one to the
next. Three entries of the cache give a disk in each drive and one outside. `disk_change` needs a
delay greater than the period and enough VBLs for two complete transitions and a reset between;
the values themselves are covered by the proof. In `key_events`, scancodes share
nothing but the room in the queue, so one is enough, shared by two keys as the ST's Control is by the
two of a PC, which press and release it against each other; the queue has room for a press and a
release, and a third event is dropped. In `pad_input` rate 2 is the
fastest there is, and at 5 a turn has polls with fire, polls without, and a tap in its first half
that fires without beginning a turn; more rates are covered by the proof. In `run_loop` two frames
to a crash time leave a frame in which the timer has counted and not elapsed. Every way to close an
overlay and to reset needs one button, and the pair is the one whose two buttons set the mode in
one poll. In `screen_output` two sizes and two addresses give every combination in which the copy
of the overlay does and does not fit, and two rates every disagreement of machine, core and frontend;
the proof covers more, and resets that leave more than one. Symmetry is declared for disks
(`disk_change`) and for keys (`key_events`), which are only compared for equality.

Three runs end in a counterexample; each refutes a sentence of the documentation or of a comment.
They are listed with the quotes under `findings` in `PROJECT.json`.

| Run | What it shows |
|---|---|
| `stx_second_save` | the buffer that collects an STX overlay is not rewound, so the cache of the second saved STX disk is garbage and its writes are not seen again in that session |
| `key_restore` | a savestate loaded while a press is queued takes the key out of `retrok_down`, the queue presses it all the same, and nothing releases it; a state made while a release is queued does the same |
| `run_ahead` | the crash timer counts frames that are undone and its reset is undone with them, so with run-ahead a halted machine is never reset |

Further configurations are kept for the places where the code does something a reader may not
expect. They are not among the listed runs; each ends in a counterexample.

| Configuration | Module | What it shows |
|---|---|---|
| `ReplaceInUse.cfg` | `MCCoreDisk` | replacing the entry of an inserted disk does not eject it (`core_disk.c:771`: `false` for `true`, and 0 for 1) |
| `GzImage.cfg` | `MCCoreDisk` | an image from a GZ archive has size 0 and cannot be inserted |
| `StxSavesOffFolder.cfg` | `MCCoreDisk` | STX overlays are written to the saves folder with *Save Floppy Disks* off |
| `ProtectedRestore.cfg` | `MCCoreDisk` | the safety save is not prevented by write protection |
| `ReloadedPause.cfg` | `MCScreenOutput` | a state of the pause screen, restored in a session that has drawn no overlay yet, loses the picture that came with it (`core_osk.c:630`) |

**Fairness.** One property of a passing run is a liveness property, `HaltRecovers`. `RunLoop` has
`WF_vars(Run)`: a frontend that shows the core keeps calling `retro_run`, and `retro_run` returns.
It need not reset, save or restore, and the player need not press anything. The premise of
`HaltRecovers` is that the machine is not left paused for ever, since a paused one counts no
frames. `RunAhead` has weak fairness of its whole next-state relation, for the same reason: the
frontend keeps running, saving and restoring. The other components promise no progress.

## Proofs

The theorems hold for all values of the constants that satisfy the named assumptions
(one per module, such as `DiskAssumption` or `RunLoopAssumption`).

**CoreDisk.** `TypeCorrect`, `InsertionAlwaysAgreed`: `SaneInv` is the types with the agreement
of `image_insert` with Hatari's drives, for drives as well as for the savestate; it is inductive.
`CoreDiskLemmas` shows for each operator on worlds that it keeps a world sane, bottom up along the
C call graph, so each action is one application.

`DriveAlwaysHoldsIndexedDisk` needs that frontends replace only fresh entries (`~ReplaceAny`;
`ReplaceInUse.cfg` shows what happens otherwise). `ShownInv` adds to `SaneInv` that a drive with an
index has the name that is at the index, and that no entry past the count has a name. Lists that name a
disk twice and savestates of disks that are on no list are covered, as `core_disk_reindex` gives a
drive either an entry of that name or none.

`NeverInBothDrives` needs `DocumentedUse`: distinct names on each list, no replaced entry, no
uncached restore. The inductive `PlacedInv` adds that names in the cache are distinct, that a disk
in a drive is the one at the drive's index, and that the two drives hold different disks, in the
savestate too. With a name on the list twice, or with a disk in a drive that the list gets only
later, the menu can put it into the other drive as well.

`ImagesAlwaysAreRegisters` is the refinement of `DiskShelf` for images, whatever other files there
are, STX included. It needs `DocumentedUse` and `AlwaysSaves` (every option set saves everything,
every file system takes files). `DisksAlwaysAreRegisters` follows for every disk that can be saved
under `NoOverlays` (no STX, whose second save is the finding `stx_second_save`): then the two shelves
are one (`ShelfOfImages`). Its invariant `KeptInv` says where the
newest version of a disk is: an image that was not written to since it was put into the drive is
what a reader of the cache or of the saves folder would get (`Pristine`, `SavesWhole`), so
`OnDisk(w, n)`, the drive's copy, else the saved file, else the supplied one, is what the mapping of
`ImagesAreRegisters` reads from drive, cache and folder (`ContentsOnDisk`). Each operation on worlds
has a lemma in the section *What is on the disks* that it leaves `OnDisk` alone (`SameDisks`);
a write changes one disk and a restore those of the savestate. `UnchangedAlwaysCached` is read off
the same invariant.

`UnchangedStaysCached` and `ImagesStayRegisters` (with `DisksStayRegisters` as above) are the same
results when saving is off, is switched, or fails. The saves folder is then worth nothing, and the
invariant is about the cache. `Tracked`: an image in a drive that is not marked changed is what its
entry has (`Current`), an entry has overlays of its own file only (`OverlaysApart`), and no version
is newer than the last write (`NoneNewer`). `Remembered` is the same of the savestate: a disk in it
is marked changed, or its entry is marked saved, in which case the restore marks the disk, or the
entry has what is on it (`Recalled`). Two hypotheses are needed, and TLC has a counterexample without
either:

* `StatesStay`: the safety save is on, and savestates stay in the content they were made in (there is
  one content, or nothing is restored). Otherwise a write is lost: write with saves failing, reset,
  make the savestate, close and reopen the content, restore, eject. The disk is not marked in the
  state and its new entry is not marked either, so nothing keeps the write.
* `SavingSettled`: saving is never switched, or every image is on the list. Switching it changes what
  a disk that is not listed would have if it were, although nothing has been done to it.

`DiskShelf` lets contents change between two sessions when not everything is saved, and the mapping
gives a closed content's disks as they were supplied then; so the theorem is about the time that a
content is open.

`DisksNeverEverMix` has the invariant `TracedInv`: there is a function `written` from versions to
names, such that what is kept under a name, in an entry, a drive, a file or the savestate, is a
version written to that name. A write extends the function and every other operation only moves
versions between places of one name (the section *Which disk each version was written to*). It holds
for any lists, options and failures. Frontends may even replace entries in use, unless there are STX
files: a replaced entry keeps `extra_filename` while saving is off, and the overlay that is saved
under it would be that of another disk (`NoOverlays \/ ~ReplaceAny`).

`BootDirectivesAlwaysObeyed` needs no assumption on use. While content is opened no drive has been
written to (`Idle`), so the ejects save nothing and the list stays as it was made (`SameList`);
`EjectedDoes` and `InsertingDoes` say what one eject or insert does to such a world, and
`BootAsDirectedDoes` and `BootUndirectedDoes` follow the two branches of the code.

**DiskChange.** `ProtectionAlwaysEnds` follows from an invariant that bounds both transitions by
the last move of the tray: the second never begins later than the end of the first.
`ChangesAlwaysNoticed` adds `TrustInv`: if the TOS trusts another disk than the one in the drive, and
no disk was `rushed` since it last saw the signal, the signal is set now and stays set until after its
next look, because the delay is longer than the period. It assumes nothing of the user.

**KeyEvents.** `Fed(keys, queue, i)` is what `KeyStates` becomes when Hatari has taken the queue
from the i-th event on: the last effective event for a scancode decides. `StuckKeysAreKnown` says
that what will be pressed belongs to keys in `retrok_down`, to `lost`, whose releases a full queue
dropped, or to `stray`. It is inductive together with the same for the savestate, `ShotInv`: the keys
pressed in it are in its `retrok_down` or in its `shot_history`. What a load adds to `stray` is no
more than the code does wrong: the codes that the queue would press if nothing else were, and that
the restored `retrok_down` does not have. So an overflow and a savestate between a callback and a
frame do no harm but to the keys they are about, and to them only until their next release gets
through; that they do harm is `key_restore`. The lemmas on `Fed` describe one more event, the
forgotten ones of a reset, an empty queue, and the same queue over other tables (`FedByEvents`).
`NeverStuck` follows from the invariant and from what a frame does (`FrameStates`). `HeldAlwaysStay`
follows from the latter alone, and `TypesAlwaysHold`, the types and the bound of the queue, from each
step. None of the four assumes anything of the savestates or of when they are made and loaded.

**PadInput.** `Remembered` says what the core's own record has to do with the world: the mouse
button on record is the ST's, unless a reset came between; the toggle on record is what the last
poll saw; the countdown of auto-fire tells whether fire is down and how many polls the turn has
lasted. `IInv` has it of the state and, in the same words, of the savestate, which is why a restore
keeps it: everything `Remembered` speaks of is saved together. `MouseAlwaysFollows`,
`OnePressAlwaysActsOnce` and `AutofireAlwaysKeepsRate` each follow from it for one poll. The last
holds for every rate from 2 on, since half the rate is then at least 1 and the countdown at 1 is a
poll without fire.

**RunLoop.** `PauseIsShown` and `HaltEndsCold` rest on one `IInv`. `FlagsAgree`: the flags `PAUSE` and
`OSK` agree with the mode at every stage but between the poll and `OskFlags`, and in the savestate,
which can only be made outside `retro_run`. `WaitsForCold`: a halted machine with a warm reset
pending has a cold one pending as well, unless the warm boot button is down. `TypesHold` includes
the bound of the crash timer, which needs a fact on quotients (`CountBound`). `HaltAlwaysTimed` is the
part of `HaltRecovers` that is not liveness: the count never stands still in a frame that is run
halted and unpaused, nothing but a reset or a restore takes it back, and the bound ends it.

**ScreenKeyboard.** `NothingPressedOnOpening`, `PressesEnd` and `HeldKeysStay` hold wherever the
cursor is. `IInv` bounds what is left of a press by what the history says of the button: no more polls
than `PressLen` less those it has been up. `TypesHold`, `CursorAlwaysOnKey` and `UpAlwaysReturns` are
about the cursor: a lemma for each move says that from a key of either grid it ends on a key, and the
two kinds of layout have keys in the same cells, so a redraw under the cursor leaves it on one. For
`UpAlwaysReturns`, the move down to the bar notes the column it came from, and another one down leaves
the note alone.

**ScreenOutput.** Each of `ToldWhatIsShown`, `OverlayUndone` and `BarComesBack` has a strengthening of
its own over `TypesHold`, by the stage of `retro_run`: what is told or still due, what is on the
screen and in the copy while an overlay is up, and who owes the bar a redraw. That of
`ToldWhatIsShown` follows the rate from the machine to the frontend (`RateOnRecord`): unless the
machine is asleep, its rate is the one last given to `core_set_fps`; that one is the rate told, or a
change is due; and `core_video_fps` is the rate told, though it is also set where no rate is told. The
last part is why the cancelling of a due change by a restore is right: it goes back to what the
frontend knows, and the machine's next VBL or reset compares with that.

Not proved: `DisksAreRegisters` of STX disks, which `stx_second_save` refutes; `HaltRecovers`, since
liveness under fairness is out of the prover's reach (`HaltRecoversAhead` is refuted); and
`EveryKeyReachable`, a recursive computation on the two grids the code has, done by TLC once for
each.

## Not modelled

* Sector timing, the formats MSA, DIM, IPF and STX themselves, boot sector checks: `Format` says
  what becomes of a file.
* Parsing of M3U and ZIP files, long and unusual file names; two files with one name, which
  `README.md` says a restore may confuse.
* A TOS image that can be loaded at the start and no longer at a later cold reset, which then ends
  early.
* Running out of memory, savestates larger than the size announced to the frontend, and a restore
  that fails half way through Hatari's part.
* Directions, sticks, the pointer's motion, the right mouse button and the STE's extra buttons, which
  are passed on in the poll that reads them; joystick ports shared by pads with auto-fire, where two
  rhythms are laid over each other.
* Mouse events in the queue they share with keys; a full queue is reached with keys.
* Audio: the count of samples and its fractions have no effect on any other state.
* `core_config.c` copies a table of options. The options that a modelled handler reads are
  variables, changed by a step, or constants.
* `core_file.c` and the bytes of MIDI: wrappers without state of their own. A save fails by being
  refused or by running full; a short write that the frontend calls a success is like the latter.
* What the keyboard and the help screen look like.
* Hatari itself, EmuTOS and `libretro.h`, which are vendored or generated and make up nearly all
  lines of the repository: a cycle-exact machine of CPU, FDC, MFP, video and sound is out of TLC's
  reach, and its correctness is its own project's. Of Hatari, the places the core changes or relies
  on are modelled: drives and their signals, key states, the reset of the keyboard processor,
  surfaces.

## Plan

Done: the disks, because a lost write is the worst the core can do; the disk change; the keys; the
run loop with its crash timer; on-screen keyboard; picture and overlay; pads and mouse. What is
left, in this order:

1. The snapshot as a sequence of sections with a position, a size and an error, and an abstract
   specification "a restored core is the saved one" for all modules at once. It has to settle when
   the announced size may change: `snapshot_buffer_prepare` (`core.c:768`) enlarges it for a larger
   savestate, of a machine with more memory for example, where `libretro.h:4268` says that it never
   grows between `retro_load_game` and `retro_unload_game`.
2. `RunLoop` composed with `ScreenOutput` through the mode, so that the note `bFullUpdate` of a reset
   and the flags of the overlay are one behaviour.
3. The audio buffer, with the fractions of samples per frame and what it does while paused.
