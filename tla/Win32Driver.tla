----------------------------- MODULE Win32Driver ------------------------------
(***************************************************************************)
(* The Windows driver, win32.c over win32_ioctl.c: the table of contents   *)
(* by the full TOC of MMC or, when that has not all it looks for, by       *)
(* IOCTL_CDROM_READ_TOC.                                                   *)
(***************************************************************************)
EXTENDS DriveModel

-----------------------------------------------------------------------------
(* aspi32.c, which win32.c calls once the ASPI library is loaded, whatever *)
(* the access mode is by then.                                             *)

(* init_aspi finds the drive among the host adapters, or does not.         *)
AspiOpened(am, found) == IF found THEN {[NewEnv(am, CDIO_PREGAP_SECTORS) EXCEPT !.cam = TRUE]} ELSE {}

(* read_toc_aspi of which n commands succeed: the header, and then the     *)
(* table.  Without the second the table is empty, has an entry that nobody *)
(* read, and counts as read.                                               *)
AspiReadToc(e, d, n) ==
  CASE n = 0 -> e
    [] n = 1 -> [e EXCEPT !.first = d.first, !.count = 0, !.ent[0] = UnreadEntry, !.toc = TRUE]
    [] n > 1 -> [e EXCEPT !.first = d.first, !.count = CountOf(d), !.ent = TableFromFirst(@, d), !.toc = TRUE]

(* get_track_format_aspi, which asks the multimedia system: it may not     *)
(* open the drive, and what it answers is used if the command failed, too. *)
AspiTrackFormats(e, t) ==
  IF ~e.toc \/ t < e.first \/ t >= e.count + e.first THEN {"error"} ELSE {"audio", "data", "xa", "error"}

(* Form 2 is read whole, and form 1 is taken out of the same.              *)
AspiReadSectors(e, kind, lsn, n, k) ==
  CASE kind = "audio" -> AtOnce("raw", lsn, n, k)
    [] kind = "form2" -> BySector("subheader", lsn, n, k)
    [] kind \in {"form1", "mode1"} -> BySector("user", lsn, n, k)
    [] kind = "data"  -> IF k = 1 THEN AnyBytes("user", lsn, n, 1) ELSE AtOnce("user", lsn, n, k)

(* get_discmode_aspi: the book, then the tracks of the table if one is read. *)
AspiMedia(d) == Books(d, {"DVD_ROM", "DVD_RAM", "DVD_R", "DVD_RW", "DVD_PR", "DVD_PRW"})
AspiNextMode(m, format) == ModeWithoutCdi(m, format)

-----------------------------------------------------------------------------
Modes == {"ioctl", "MMC_RDWR", "ASPI"}

(* init_win32ioctl compares the handle with NULL, not with                 *)
(* INVALID_HANDLE_VALUE, so the handle comes into being all the same.      *)
IoctlOpened(am, fdOk) == {[NewEnv(am, CDIO_PREGAP_SECTORS) EXCEPT !.fd = IF fdOk THEN "open" ELSE "closed"]}

(* init_win32                                                              *)
Opened(am, fdOk, aspiOk) == IF am = "ASPI" THEN AspiOpened(am, aspiOk) ELSE IoctlOpened(am, fdOk)

(* Once ASPI (cam) is there it stays, and goes before the ioctls.          *)
WithMode(e, am, aspiOk) ==
  [e EXCEPT !.mode = am, !.cam = @ \/ (am = "ASPI" /\ aspiOk)]

(* read_fulltoc_win32mmc: the leadout at the number of tracks, a track at  *)
(* its number less one when its number is at most the number of tracks.    *)
(* Only when it sees the track of that number does it succeed.             *)
SawSomeTrack(d) == TracksOf(d) # {}
SawLastTrack(d) == CountOf(d) \in TracksOf(d)

FullToc(e, d) ==
  LET entry(x) == [x EXCEPT !.format = d.format]
  IN  [e EXCEPT !.first = d.first,
                !.count = CountOf(d),
                !.ent = [k \in DOMAIN @ |->
                           IF k = CountOf(d) THEN entry(LeadoutEntry(d))
                           ELSE IF k + 1 \in TracksOf(d) /\ k + 1 <= CountOf(d)
                           THEN entry(TrackEntry(d, k + 1))
                           ELSE @[k]],
                !.toc = SawLastTrack(d)]

(* The ioctl: entry after entry, whatever the first track is.              *)
IoctlToc(e, d) ==
  [e EXCEPT !.first = d.first, !.count = CountOf(d), !.ent = TableFromFirst(@, d), !.toc = TRUE]

(* read_toc_win32ioctl.  The drive answers the full TOC (n = 2, 3), and    *)
(* the ioctl (n = 1, 2), which is all that is tried for a DVD.             *)
IoctlReadToc(e, d, n) ==
  IF e.fd # "open" \/ n \notin 1..3 THEN e
  ELSE LET full == IF n = 1 THEN e ELSE FullToc(e, d)
       IN  IF full.toc \/ n = 3 THEN full ELSE IoctlToc(full, d)

ReadToc(e, d, n) == IF e.cam THEN AspiReadToc(e, d, n) ELSE IoctlReadToc(e, d, n)

TrackLba(e, t) ==
  LET u == IF t = CDIO_CDROM_LEADOUT_TRACK THEN e.count + e.first ELSE t
  IN  IF ~e.toc \/ u > e.count + e.first \/ u < e.first THEN INVALID
      ELSE Entry(e, u - e.first).lba

IoctlTrackFormats(e, t) ==
  LET x == Entry(e, t - e.first)
  IN  IF ~e.toc \/ t < e.first \/ t >= e.count + e.first THEN {"error"}
      ELSE IF x.kind = "data" /\ x.format \in {"cdi", "xa"} THEN {x.format}
      ELSE {x.kind}

(* _cdio_get_track_format                                                  *)
TrackFormats(e, t) == IF e.cam THEN AspiTrackFormats(e, t) ELSE IoctlTrackFormats(e, t)

(* Mode 2 sectors are copied from behind the subheader in either form, and *)
(* data by READ commands, then as a file.                                  *)
IoctlReadAudio(lsn, n, k) == AtOnce("raw", lsn, n, k)

IoctlRead(e, kind, lsn, n, k) ==
  IF e.fd # "open" THEN NothingRead(n) ELSE
  CASE kind = "audio" -> IoctlReadAudio(lsn, n, k)
    [] kind \in {"form1", "form2", "mode1"} -> BySector("user", lsn, n, k)
    [] kind = "data"  -> IF k = 1 THEN AnyBytes("user", lsn, n, 1) ELSE AtOnce("user", lsn, n, k)

ReadSectors(e, kind, lsn, n, k) ==
  IF e.cam THEN AspiReadSectors(e, kind, lsn, n, k) ELSE IoctlRead(e, kind, lsn, n, k)

EjectAttempt(e, k) == e
Ejected(e, k) == k >= 1

(* get_discmode_win32: what the books it knows say, then the tracks.       *)
IoctlMedia(d) == Books(d, {"DVD_ROM", "DVD_RAM", "DVD_R", "DVD_RW", "DVD_PR", "DVD_PRW"})
Media(e, d) == IF e.cam THEN AspiMedia(d) ELSE IoctlMedia(d)
IoctlNextMode(m, format) == ModeWithoutCdi(m, format)
NextMode(e, m, format) == IF e.cam THEN AspiNextMode(m, format) ELSE IoctlNextMode(m, format)
WithoutTable(e) == IF e.cam THEN "no info" ELSE "error"

(* get_disc_last_lsn_win32 does not read the table, and _cdio_get_track_-  *)
(* green looks at the copy permission when the format does not say.        *)
LastLsns(e) == {Entry(e, e.count).lba - CDIO_PREGAP_SECTORS}
Green(e, t, format) ==
  CASE format = "xa" -> TRUE
    [] format \in {"error", "cdi", "audio"} -> FALSE
    [] OTHER -> e.mode # "ASPI" /\ Entry(e, t - e.first).copy

Supported(e) == {"true"}                                 \* is_mmc_supported
===============================================================================
