------------------------------ MODULE DriveModel ------------------------------
(***************************************************************************)
(* What the drivers of the platforms other than GNU/Linux share: the disc  *)
(* as the drive describes it, the environment of an open drive, and the    *)
(* ways in which a read of several sectors is made of commands.  A byte is *)
(* abstracted to the sector it is from and the part of the sector it       *)
(* starts at.                                                              *)
(***************************************************************************)
EXTENDS Integers, Sequences, FiniteSets

CONSTANT MaxEntry      \* the last index of tocent[] that is modelled

CDIO_PREGAP_SECTORS == 150
CDIO_CDROM_LEADOUT_TRACK == 170

INVALID == -45301      \* CDIO_INVALID_LBA
WILD == -99999         \* read from memory that nobody has set

EXITS == -77777        \* a routine that ends the program instead of failing

(* A disc: its first track, where the tracks start and what they are, the  *)
(* format that the full table of contents gives for the session, the       *)
(* leadout, whether it may be copied, and the book of a DVD.               *)
CountOf(d) == Len(d.starts)
LastOf(d)  == d.first + CountOf(d) - 1
TracksOf(d) == d.first..LastOf(d)

StartOf(d, t) == d.starts[t - d.first + 1] + CDIO_PREGAP_SECTORS
KindOf(d, t)  == d.kinds[t - d.first + 1]
EndOf(d)      == d.end + CDIO_PREGAP_SECTORS

(* An entry of the table of contents, with the LBA a getter makes of it.   *)
EntryOf(lba, kind, copy) == [lba |-> lba, kind |-> kind, format |-> "adr", copy |-> copy]
TrackEntry(d, t) == EntryOf(StartOf(d, t), KindOf(d, t), d.copy)
LeadoutEntry(d)  == EntryOf(EndOf(d), KindOf(d, LastOf(d)), d.copy)
BlankEntry(lba)  == EntryOf(lba, "audio", FALSE)
UnreadEntry      == EntryOf(WILD, "wild", FALSE)

(* A table stored entry after entry from the first track on, the leadout   *)
(* last, over the entries ent.                                             *)
TableFromFirst(ent, d) ==
  [k \in DOMAIN ent |->
     IF k < CountOf(d) THEN TrackEntry(d, k + d.first)
     ELSE IF k = CountOf(d) THEN LeadoutEntry(d)
     ELSE ent[k]]

(* The environment: what calloc leaves.                                    *)
NewEnv(mode, blank) ==
  [ fd |-> "closed", mode |-> mode, cam |-> FALSE,
    toc |-> FALSE, first |-> 0, count |-> 0, hdr |-> <<0, 0>>,
    ent |-> [k \in 0..MaxEntry |-> BlankEntry(blank)],
    session |-> [k \in 0..MaxEntry |-> "unread"] ]

Entry(e, k) == IF k \in 0..MaxEntry THEN e.ent[k] ELSE UnreadEntry

-------------------------------------------------------------------------------
(* Reads of n sectors from lsn of which the drive carries out k commands.  *)
Unset == [lsn |-> -1, part |-> "none"]
Cell(lsn, part) == [lsn |-> lsn, part |-> part]

Filled(part, lsn, n, k) == [i \in 1..n |-> IF i <= k THEN Cell(lsn + i - 1, part) ELSE Unset]

(* One command for each sector; the first that fails ends the loop.        *)
ToTheLast(part, lsn, n, k) == [rc |-> "success", buf |-> Filled(part, lsn, n, k)]

BySector(part, lsn, n, k) ==
  [rc |-> IF k >= n THEN "success" ELSE "error", buf |-> Filled(part, lsn, n, k)]

(* One command for all of them.                                            *)
AtOnce(part, lsn, n, k) ==
  [rc |-> IF k > 0 THEN "success" ELSE "error",
   buf |-> Filled(part, lsn, n, IF k > 0 THEN n ELSE 0)]

(* A loop that takes the byte count of the first read for an error.        *)
FirstOnly(part, lsn, n, k) ==
  [rc |-> IF k > 0 THEN "bytes" ELSE "error", buf |-> Filled(part, lsn, n, IF k > 0 THEN 1 ELSE 0)]

(* read_data_sectors_generic: one read(), and any byte counts as success.  *)
AnyBytes(part, lsn, n, k) ==
  [rc |-> IF k > 0 THEN "success" ELSE "error", buf |-> Filled(part, lsn, n, k)]

NothingRead(n) == [rc |-> "error", buf |-> [i \in 1..n |-> Unset]]

WantedPart(kind) == CASE kind = "audio" -> "raw"
                      [] kind = "form2" -> "subheader"
                      [] OTHER -> "user"

-------------------------------------------------------------------------------
(* The mode of a disc, track by track: one format that is not the others'  *)
(* makes it mixed, and a track in error the whole.  Not every driver knows *)
(* CD-i as data.                                                           *)
ModeAfter(m, format) ==
  LET own == CASE format = "audio" -> "CD_DA"
               [] format = "xa" -> "CD_XA"
               [] format \in {"cdi", "data"} -> "CD_DATA"
               [] OTHER -> "error"
  IN  IF "error" \in {m, own} THEN "error" ELSE IF m \in {"no info", own} THEN own ELSE "CD_MIXED"

ModeWithoutCdi(m, format) == ModeAfter(m, IF format = "cdi" THEN "error" ELSE format)

(* What commands tell of the whole disc: the book of a DVD, and of a CD    *)
(* what its first session is.  A command that fails leaves it to the       *)
(* "table".                                                                *)
Dvd(d) == d.book # "none"
Books(d, known) ==
  {"table"} \cup (IF Dvd(d) THEN {IF d.book \in known THEN d.book ELSE "DVD_OTHER"} ELSE {})

FirstSession(d) ==
  CASE d.format = "cdi" -> "CD_I"
    [] d.format = "xa"  -> "CD_XA"
    [] OTHER -> IF KindOf(d, d.first) = "audio" THEN "CD_DA" ELSE "CD_DATA"
===============================================================================
