----------------------------- MODULE FloppyDrive -----------------------------
(***************************************************************************)
(* One of Hatari's two floppy drives (hatari/src/floppy.c), seen through   *)
(* the entry points that core_disk.c calls.  The image in a drive is a     *)
(* private copy: writes of the emulated machine change the copy and mark   *)
(* it changed, and only an eject hands the copy back to be saved.          *)
(*                                                                         *)
(* The contents of an image are a version number: 0 is the file the user   *)
(* supplied, and every write of the machine yields a version never seen    *)
(* before.  An STX image is never rewritten.  What the machine writes to   *)
(* it lives in an overlay with a version of its own (0: no overlay).       *)
(***************************************************************************)
EXTENDS Naturals

CONSTANTS
  Name,      \* file names of disk images
  Format,    \* what Hatari makes of the file behind each name
  NoName,    \* no file name: an empty drive, or a cache entry no drive accepts
  NoData,    \* a NULL data pointer, or a file that does not exist
  Junk       \* bytes that are no disk image or overlay (truncated, misaligned)

Formats == {"image",      \* ST, MSA: read, written and saved whole
            "stx",        \* STX: saved as a WD1772 overlay
            "unsavable",  \* DIM, or a boot sector Hatari refuses to save
            "unreadable", \* data that no loader accepts
            "gz",         \* an image inside a GZ archive
            "absent"}     \* a missing file, or a hard disk image

ASSUME DriveAssumption ==
  /\ Format \in [Name -> Formats]
  /\ NoName \notin Name
  /\ NoData \notin Nat
  /\ Junk \notin Nat
  /\ NoData # Junk

Drive == {0, 1}

Content == Nat \cup {NoData, Junk}

(* EMULATION_DRIVE.  The name doubles as bDiskInserted, which is set and   *)
(* cleared together with it.                                               *)
DriveState == [name: Name \cup {NoName}, buffer: Content, overlay: Nat, changed: BOOLEAN]

EmptyDrive == [name |-> NoName, buffer |-> NoData, overlay |-> 0, changed |-> FALSE]

Inserted(drv) == drv.name # NoName

(* Whether the loader chosen by the file name accepts the bytes.           *)
Readable(n, data) == data \in Nat /\ Format[n] \notin {"unreadable", "absent"}

(* The drive after core_floppy_insert of readable data.  An overlay is     *)
(* applied when the core passes one and saving is enabled; one without a   *)
(* valid header is ignored.                                                *)
ReadImage(n, data, extra, enable_save) ==
  [name    |-> n,
   buffer  |-> data,
   overlay |-> IF Format[n] = "stx" /\ enable_save /\ extra \in Nat THEN extra ELSE 0,
   changed |-> FALSE]

(* The drive after the machine has written version v to its disk.          *)
SectorWritten(drv, v) ==
  IF Format[drv.name] = "stx"
  THEN [drv EXCEPT !.overlay = v, !.changed = TRUE]
  ELSE [drv EXCEPT !.buffer = v, !.changed = TRUE]

(* What ejecting the disk passes to the core to be saved.                  *)
SavesImage(drv)   == Inserted(drv) /\ drv.changed /\ Format[drv.name] = "image"
SavesOverlay(drv) == Inserted(drv) /\ drv.changed /\ Format[drv.name] = "stx" /\ drv.overlay # 0
=============================================================================
