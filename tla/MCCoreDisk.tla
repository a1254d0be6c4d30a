----------------------------- MODULE MCCoreDisk -----------------------------
(***************************************************************************)
(* Instances of CoreDisk for TLC: two to four disks, a cache of two or     *)
(* three entries, and the options, contents and frontends of each run.     *)
(***************************************************************************)
EXTENDS CoreDisk, TLC

CONSTANTS D1, D2, D3, D4

(* What the files are.                                                     *)
AllImages == [n \in Name |-> "image"]
AllStx    == [n \in Name |-> "stx"]
WithBad   ==
  [n \in Name |-> CASE n = D1 -> "image" [] n = D2 -> "unreadable"
                    [] n = D3 -> "stx" [] OTHER -> "absent"]
WithStx   == [n \in Name |-> IF n = D3 THEN "stx" ELSE "image"]
WithGz    == [n \in Name |-> IF n = D1 THEN "gz" ELSE "image"]

(* Contents to open: a playlist, with or without boot directives, and a    *)
(* single file.                                                            *)
Content_(names, boota, bootb) == [names |-> names, boot |-> (0 :> boota @@ 1 :> bootb)]
Pair       == {Content_(<<D1, D2>>, -1, -1)}
PairOrStx  == {Content_(<<D1, D2>>, -1, -1), Content_(<<D1, D3>>, -1, -1)}
PairOrOne  == {Content_(<<D1, D2>>, -1, -1), Content_(<<D1>>, -1, 0)}
AnyBoot    == {Content_(<<D1>>, -1, 0), Content_(<<D2, D1>>, -1, -1)}
              \cup {Content_(<<D4, D1, D3>>, i, j) : i \in -1 .. 4, j \in -1 .. 4}

NoAddition == {}
Add2       == {<<D2>>}
Add3       == {<<D3>>}

(* Core options.                                                           *)
Option(b_, save, modify, protect) ==
  [enable_b |-> b_, enable_save |-> save, floppy_modify |-> modify, protect |-> protect]
Defaults   == {Option(TRUE, TRUE, TRUE, FALSE)}
SavesOff   == {Option(TRUE, FALSE, TRUE, FALSE)}
AnyOptions == {Option(x, y, z, FALSE) : x, y, z \in BOOLEAN}
Saving     == {Option(TRUE, x, TRUE, FALSE) : x \in BOOLEAN}
Protection == {Option(TRUE, TRUE, TRUE, x) : x \in BOOLEAN}
=============================================================================
