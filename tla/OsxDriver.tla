------------------------------ MODULE OsxDriver -------------------------------
(***************************************************************************)
(* The OS X driver, osx.c: the table of contents from the system's         *)
(* registry of devices, all at once, and reads by one ioctl each.          *)
(***************************************************************************)
EXTENDS DriveModel

Modes == {"OSX"}

(* cdio_generic_init opens the drive, and init_osx finds its service.      *)
Opened(am, fdOk, found) == IF fdOk /\ found THEN {[NewEnv(am, 0) EXCEPT !.fd = "open"]} ELSE {}

WithMode(e, am, camOk) == [e EXCEPT !.mode = "OSX"]

(* read_toc_osx asks the registry and not the drive, and scans the         *)
(* descriptors for the first and the last track before it stores any.      *)
ReadToc(e, d, n) ==
  IF n = 0 THEN e
  ELSE [e EXCEPT !.first = d.first, !.count = CountOf(d), !.ent = TableFromFirst(@, d), !.toc = TRUE]

TrackLba(e, t) ==
  LET u == IF t = CDIO_CDROM_LEADOUT_TRACK THEN e.count + e.first ELSE t
  IN  IF ~e.toc \/ u > e.count + e.first \/ u < e.first THEN INVALID ELSE Entry(e, u - e.first).lba

(* get_track_format_osx asks the drive, and calls data mode 1 CD-i and     *)
(* data mode 2 XA.                                                         *)
DataMode(d) == IF d.format = "none" THEN 1 ELSE 2

Told(d, t) == IF KindOf(d, t) = "audio" THEN "audio" ELSE IF DataMode(d) = 1 THEN "cdi" ELSE "xa"

TrackFormats(e, d, t) ==
  IF t \notin e.first..(e.first + e.count - 1) \/ e.fd # "open" THEN {"error"}
  ELSE {Told(d, t), "error"}

(* read_data_sectors_osx picks the sector type by the format of the track  *)
(* the sector is in; of a sector of mode 2 the user area begins at the     *)
(* subheader, and the next one does not follow where the caller expects.   *)
TracksUpTo(d, lsn) == {t \in TracksOf(d) : StartOf(d, t) <= lsn + CDIO_PREGAP_SECTORS}
TrackAt(d, lsn) == CHOOSE t \in TracksUpTo(d, lsn) : \A u \in TracksUpTo(d, lsn) : u <= t

DataRead(d, lsn, n, k) ==
  CASE lsn >= d.end -> NothingRead(n)
    [] lsn < d.end /\ Told(d, TrackAt(d, lsn)) = "audio" -> NothingRead(n)
    [] lsn < d.end /\ Told(d, TrackAt(d, lsn)) = "cdi"   -> AtOnce("user", lsn, n, k)
    [] lsn < d.end /\ Told(d, TrackAt(d, lsn)) = "xa"    ->
         IF k = 0 THEN NothingRead(n)
         ELSE [rc |-> "success",
               buf |-> [i \in 1..n |-> IF i = 1 THEN Cell(lsn, "subheader") ELSE Unset]]

ReadSectors(e, d, kind, lsn, n, k) ==
  IF e.fd # "open" THEN NothingRead(n) ELSE
  CASE kind = "audio" -> AtOnce("raw", lsn, n, k)
    [] kind \in {"form1", "form2", "mode1"} -> AtOnce("user", lsn, n, k)
    [] kind = "data"  -> DataRead(d, lsn, n, k)

(* _eject_media_osx closes the drive, unless it cannot tell its name, and  *)
(* does not open it again when the system refuses.                         *)
EjectAttempt(e, k) == IF k = 0 THEN e ELSE [e EXCEPT !.fd = "closed"]
Ejected(e, k) == k > 1

(* get_discmode_osx: the registry's name of the medium, of which every     *)
(* kind of CD is one.                                                      *)
Media(d) == {"error", IF Dvd(d) THEN d.book ELSE "table"}

(* get_disc_last_lsn_osx answers with an LBA.  get_track_green_osx asks    *)
(* the drive whether the track is a data track.                            *)
LastLsns(e) == {TrackLba(e, CDIO_CDROM_LEADOUT_TRACK)}
Greens(e, d, t) ==
  {FALSE} \cup (IF e.toc /\ e.fd = "open" THEN {KindOf(d, t) = "data"} ELSE {})

Supported(e) == {"no answer"}                            \* _get_arg_osx
===============================================================================
