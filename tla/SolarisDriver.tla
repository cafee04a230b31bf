---------------------------- MODULE SolarisDriver -----------------------------
(***************************************************************************)
(* The Solaris driver, solaris.c: the table of contents entry by entry, in *)
(* which i_tracks is the number of the last track, and reads by the ioctls *)
(* of the sd driver.                                                       *)
(***************************************************************************)
EXTENDS DriveModel

(* init_solaris knows two modes; set_arg converts the key "access-mode"    *)
(* instead of the value, which gives the default.                          *)
Modes == {"SCSI", "MMC_RDWR"}

Opened(am, fdOk, camOk) == IF fdOk THEN {[NewEnv(am, 0) EXCEPT !.fd = "open"]} ELSE {}

WithMode(e, am, camOk) == [e EXCEPT !.mode = "SCSI"]

(* read_toc_solaris of which n ioctls succeed.                             *)
ReadToc(e, d, n) ==
  IF n = 0 \/ e.fd # "open" THEN e
  ELSE [e EXCEPT !.first = d.first,
                 !.count = LastOf(d),
                 !.ent = [k \in DOMAIN @ |->
                            IF k = LastOf(d) /\ n > CountOf(d) + 1 THEN LeadoutEntry(d)
                            ELSE IF k + d.first \in TracksOf(d) /\ k + 1 < n
                            THEN TrackEntry(d, k + d.first)
                            ELSE @[k]],
                 !.toc = n > CountOf(d) + 1]

(* get_track_msf_solaris: whether there is a table is not asked again      *)
(* after the attempt to read it.                                           *)
TrackLba(e, t) ==
  LET u == IF t = CDIO_CDROM_LEADOUT_TRACK THEN e.count + e.first ELSE t
  IN  IF u > e.count + e.first \/ u < e.first THEN INVALID ELSE Entry(e, u - 1).lba

(* get_track_format_solaris: the field it tests for the formats of CD-i    *)
(* and XA holds CDIO_CDROM_MSF.                                            *)
TrackFormat(e, t) ==
  IF t > e.count + e.first \/ t < e.first THEN "error" ELSE Entry(e, t - e.first).kind

ReadSectors(e, kind, lsn, n, k) ==
  IF e.fd # "open" THEN NothingRead(n) ELSE
  CASE kind = "audio"  -> AtOnce("raw", lsn, n, k)
    [] kind = "form1"  -> BySector("user", lsn, n, k)
    [] kind = "form2"  -> BySector("subheader", lsn, n, k)
    [] kind = "mode1"  -> FirstOnly("user", lsn, n, k)
    [] kind = "data"   -> AnyBytes("user", lsn, n, k)

(* eject_media_solaris closes the drive, and finds that it is closed.      *)
EjectAttempt(e, k) == [e EXCEPT !.fd = "closed"]
Ejected(e, k) == FALSE

(* get_discmode_solaris: DKIOCGMEDIAINFO, of which it keeps only that the  *)
(* disc is a DVD-ROM, then the command for the full table of contents,     *)
(* which is refused for DVDs, then the tracks.                             *)
Media(e, d) ==
  {"no info"} \cup (IF e.fd # "open" THEN {}
                    ELSE IF d.book = "DVD_ROM" THEN {d.book}
                    ELSE {"table"} \cup (IF Dvd(d) THEN {} ELSE {FirstSession(d)}))
NextMode(m, format) == ModeWithoutCdi(m, format)

(* get_disc_last_lsn_solaris ends the program when its ioctl fails.        *)
LastLsns(e, d) == {EXITS} \cup (IF e.fd = "open" THEN {d.end} ELSE {})
Green(e, t) == t \in e.first..(e.first + e.count - 1) /\ Entry(e, t - e.first).copy

Supported(e) == {"true"}                                 \* is_mmc_supported
===============================================================================
