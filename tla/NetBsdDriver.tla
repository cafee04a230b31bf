----------------------------- MODULE NetBsdDriver -----------------------------
(***************************************************************************)
(* The NetBSD driver, netbsd.c: the whole table of contents in one ioctl,  *)
(* the formats of the sessions by a command of their own.                  *)
(***************************************************************************)
EXTENDS DriveModel

(* cdio_open_netbsd ignores the access mode it is asked for; set_arg       *)
(* converts the key "access-mode" instead of the value, which gives ioctl. *)
Modes == {"none", "IOCTL", "MMC_RDWR"}

Opened(am, fdOk, camOk) ==
  IF fdOk THEN {[NewEnv("none", 0) EXCEPT !.fd = "open"]} ELSE {}

WithMode(e, am, camOk) == [e EXCEPT !.mode = "IOCTL"]

(* _cdio_read_toc of which n ioctls succeed.                               *)
ReadToc(e, d, n) ==
  LET headed == [e EXCEPT !.hdr = <<d.first, LastOf(d)>>]
  IN  IF n = 0 THEN e
      ELSE IF n = 1 THEN headed
      ELSE [headed EXCEPT !.first = d.first, !.count = CountOf(d), !.toc = TRUE,
                          !.ent = [k \in DOMAIN @ |->
                                     IF k < CountOf(d) THEN TrackEntry(d, k + d.first)
                                     ELSE IF k = CountOf(d) THEN LeadoutEntry(d)
                                     ELSE @[k]]]

(* get_track_msf_netbsd returns CDIO_INVALID_TRACK, which is not 0, for a  *)
(* track there is not: the caller goes on with an MSF nobody has set.      *)
TrackLba(e, t) ==
  LET u == IF t = CDIO_CDROM_LEADOUT_TRACK THEN e.count + e.first ELSE t
  IN  IF ~e.toc THEN INVALID
      ELSE IF u > e.first + e.count \/ u < e.first THEN WILD
      ELSE Entry(e, u - e.first).lba

(* _cdio_read_discinfo: the entries of session s from first to last track. *)
ReadDiscInfo(e, d) ==
  [e EXCEPT !.session = [k \in DOMAIN @ |-> IF k + 1 \in TracksOf(d) THEN d.format ELSE "none"]]

NeedsDiscInfo(e, t) ==
  /\ e.toc /\ t \in e.first..(e.first + e.count)
  /\ Entry(e, t - e.first).kind = "data"
  /\ e.session[0] = "unread"

TrackFormat(e, t) ==
  IF ~e.toc THEN "error"
  ELSE IF t > e.first + e.count \/ t < e.first THEN "no_track"
  ELSE IF Entry(e, t - e.first).kind = "audio" THEN "audio"
  ELSE IF e.session[0] = "unread" THEN "error"
  ELSE IF e.session[t - e.first] \in {"cdi", "xa"} THEN e.session[t - e.first]
  ELSE "data"

ReadSectors(e, kind, lsn, n, k) ==
  CASE kind = "audio" -> AtOnce("raw", lsn, n, k)
    [] kind = "form1" -> BySector("user", lsn, n, k)
    [] kind = "form2" -> BySector("subheader", lsn, n, k)
    [] kind = "mode1" -> FirstOnly("user", lsn, n, k)
    [] kind = "data"  -> AnyBytes("user", lsn, n, k)

(* eject_media_netbsd opens the drive once more, by name; that the removal *)
(* is not allowed does not stop it.                                        *)
EjectAttempt(e, k) == e
Ejected(e, k) == k >= 2

(* get_disc_last_lsn_netbsd computes with the BCD bytes of the MSF, and    *)
(* takes an MSF nobody has set when there is no table.                     *)
Bcd(n) == (n \div 10) * 16 + (n % 10)
LastLsns(e) ==
  LET lba == TrackLba(e, CDIO_CDROM_LEADOUT_TRACK)
  IN  IF ~e.toc THEN {WILD}
      ELSE {(Bcd(lba \div 4500) * 60 + Bcd((lba \div 75) % 60)) * 75 + Bcd(lba % 75)}
Green(e, t) == TrackFormat(e, t) = "xa"

Supported(e) == {IF e.mode = "none" THEN "false" ELSE "true"}   \* is_mmc_supported
===============================================================================
