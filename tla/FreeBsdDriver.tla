----------------------------- MODULE FreeBsdDriver ----------------------------
(***************************************************************************)
(* The FreeBSD driver: freebsd.c with its two ways to the drive, the       *)
(* ioctls of freebsd_ioctl.c and the pass-through of freebsd_cam.c.        *)
(***************************************************************************)
EXTENDS DriveModel

Modes == {"ioctl", "CAM", "MMC_RDWR"}
ByCam(e) == e.mode # "ioctl"

(* cdio_open_am_freebsd, where the first open, and for every mode but      *)
(* ioctl the pass-through device, may not be had.                          *)
Opened(am, fdOk, camOk) ==
  LET e == NewEnv(am, CDIO_PREGAP_SECTORS)
  IN  IF fdOk /\ (am = "ioctl" \/ camOk)
      THEN {[e EXCEPT !.fd = "open", !.cam = am # "ioctl"]} ELSE {}

(* set_arg_freebsd: CAM is set up when the mode is changed to it, and only *)
(* to it, and only once.                                                   *)
WithMode(e, am, camOk) ==
  [e EXCEPT !.mode = am, !.cam = @ \/ (am = "CAM" /\ camOk)]

(* read_toc_freebsd of which n ioctls succeed: the header, an entry for    *)
(* each turn of the loop, the leadout.                                     *)
LastAsked(d) == CountOf(d)
Turns(d)     == Cardinality(d.first..LastAsked(d))

EntriesRead(ent, d, n) ==
  [k \in DOMAIN ent |->
     IF k + d.first \in d.first..LastAsked(d) /\ k + 1 < n THEN TrackEntry(d, k + d.first)
     ELSE IF k = Turns(d) /\ n > Turns(d) + 1 THEN LeadoutEntry(d)
     ELSE ent[k]]

ReadToc(e, d, n) ==
  IF n = 0 THEN e
  ELSE [e EXCEPT !.hdr = <<d.first, LastOf(d)>>, !.first = d.first, !.count = CountOf(d),
                 !.ent = EntriesRead(@, d, n), !.toc = n > Turns(d) + 1]

TOTAL_TRACKS(e)    == e.hdr[2] - e.hdr[1] + 1
FIRST_TRACK_NUM(e) == e.hdr[1]

TrackLba(e, t) ==
  LET u == IF t = CDIO_CDROM_LEADOUT_TRACK THEN TOTAL_TRACKS(e) + 1 ELSE t
  IN  IF u > TOTAL_TRACKS(e) + 1 \/ u = 0 \/ ~e.toc THEN INVALID
      ELSE Entry(e, u - FIRST_TRACK_NUM(e)).lba

(* get_track_format_freebsd does not ask whether there is a table.  The    *)
(* field it tests for the formats of CD-i and XA holds CD_LBA_FORMAT.      *)
TrackFormat(e, t) ==
  IF t > TOTAL_TRACKS(e) \/ t = 0 THEN "error"
  ELSE Entry(e, t - FIRST_TRACK_NUM(e)).kind

(* read_mode2_sectors_freebsd_cam reads form 2 at once, and form 1 is      *)
(* taken out of it sector by sector.  The rest, and the data, are READ CD  *)
(* of MMC, which needs the descriptor as well.                             *)
CamRead(kind, lsn, n, k) ==
  CASE kind \in {"audio", "data"} -> AtOnce(WantedPart(kind), lsn, n, k)
    [] kind = "form2" -> AtOnce("subheader", lsn, n, k)
    [] kind = "form1" -> BySector("user", lsn, n, k)
    [] OTHER -> NothingRead(n)

(* By ioctl; read_mode2_sector_freebsd_ioctl reads form 1 into a buffer of *)
(* its own.                                                                *)
IoctlRead(kind, lsn, n, k) ==
  CASE kind = "audio" -> AtOnce("raw", lsn, n, k)
    [] kind = "form2" -> BySector("user", lsn, n, k)
    [] kind = "form1" -> [FirstOnly("user", lsn, n, k) EXCEPT !.buf = NothingRead(n).buf]
    [] OTHER -> NothingRead(n)

(* read_audio_sectors_freebsd and read_mode2_sectors_freebsd               *)
ReadSectors(e, kind, lsn, n, k) ==
  IF ~ByCam(e) THEN IoctlRead(kind, lsn, n, k)
  ELSE IF e.cam THEN CamRead(kind, lsn, n, k) ELSE NothingRead(n)

(* eject_media_freebsd: allow removal, (start,) eject; k commands succeed. *)
CamEjectSteps == 3
IoctlEjectSteps == 2
Ejected(e, k) == IF ByCam(e) THEN e.cam /\ k >= CamEjectSteps ELSE k >= IoctlEjectSteps
EjectAttempt(e, k) == e

(* get_disc_last_lsn_freebsd, whose ioctl ends the program when it fails.  *)
(* get_track_green_freebsd tests the copy permission.                      *)
LastLsnByIoctl(d) == {d.end, EXITS}
LastLsns(e, d) ==
  IF ~ByCam(e) THEN LastLsnByIoctl(d) ELSE {INVALID} \cup (IF e.cam THEN {d.end} ELSE {})
Green(e, t) == t <= TOTAL_TRACKS(e) + 1 /\ t # 0 /\ Entry(e, t - FIRST_TRACK_NUM(e)).copy

Supported(e) == {IF ByCam(e) THEN "true" ELSE "false"}   \* is_mmc_supported
===============================================================================
