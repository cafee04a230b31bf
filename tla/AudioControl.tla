----------------------------- MODULE AudioControl -----------------------------
(***************************************************************************)
(* Playing an audio CD through the drive: the calls of audio.c, close_tray *)
(* of device.c and get_last_session, by each platform's driver.  A call is *)
(* one ioctl, which may fail; the drive plays on by itself, and a hand may *)
(* open the tray or change the disc at any time.                           *)
(*                                                                         *)
(* Discs are short enough for an address to fit the last byte of an MSF:   *)
(* a sector's MSF is the BCD byte of its number and the pre-gap.           *)
(***************************************************************************)
EXTENDS Integers, Sequences

CONSTANTS
  Platforms,    \* "linux", "freebsd", "netbsd", "solaris", "winnt", "win9x", "osx"
  AudioDiscs,   \* discs: [starts: the tracks' sectors and the leadout, last: the last session's]
  NoDisc,       \* a disc of no tracks, for none
  Addresses,    \* the sectors that callers play from and to
  Pregap,       \* CDIO_PREGAP_SECTORS
  Levels        \* the volume levels

(* Sectors that exist, and discs with at least a leadout.                  *)
AudioConstants ==
  /\ Pregap \in Nat /\ Addresses \subseteq Nat /\ Levels # {}
  /\ \A d \in AudioDiscs \cup {NoDisc} : d.starts \in Seq(Nat) /\ d.starts # << >>

VARIABLES
  platform,     \* the platform the library was built for
  drive,        \* external: [disc, open, status, pos, end, level]
  toc,          \* the disc whose table the driver keeps
  asked,        \* history: the sectors the last play asked for
  said          \* the last call and its answer
vars == <<platform, drive, toc, asked, said>>

cdio_to_bcd8(n) == (n \div 10) * 16 + (n % 10)
cdio_from_bcd8(b) == (b \div 16) * 10 + (b % 16)

Msf(lsn) == cdio_to_bcd8(lsn + Pregap)                   \* cdio_lsn_to_msf

TracksOf(d) == 1 .. Len(d.starts) - 1
End(d) == d.starts[Len(d.starts)]
TrackAt(d, p) == CHOOSE t \in TracksOf(d) : d.starts[t] <= p /\ p < d.starts[t + 1]

-------------------------------------------------------------------------------
(* The drive, which takes sectors.                                         *)
Silent == [op |-> "none", rc |-> "success"]
Loaded(d) == ~d.open /\ d.disc # NoDisc
Rest(d, status) == [d EXCEPT !.status = status, !.pos = 0, !.end = 0]
CanPlay(d, from, to) == Loaded(d) /\ 0 <= from /\ from < to /\ to <= End(d.disc)
Playing(d, from, to) == [d EXCEPT !.status = "play", !.pos = from, !.end = to]

PlayOn ==
  /\ drive.status = "play"
  /\ drive' = IF drive.pos + 1 = drive.end THEN Rest(drive, "completed")
              ELSE [drive EXCEPT !.pos = @ + 1]
  /\ said' = Silent
  /\ UNCHANGED <<platform, toc, asked>>

ByHand ==
  /\ \E d \in AudioDiscs \cup {NoDisc}, o \in BOOLEAN :
       drive' = [Rest(drive, "none") EXCEPT !.disc = d, !.open = o]
  /\ said' = Silent
  /\ UNCHANGED <<platform, toc, asked>>

-------------------------------------------------------------------------------
(* What a call returns: DRIVER_OP_SUCCESS, what a failed ioctl returns, or *)
(* that the driver has no routine.                                         *)
Answer(op, rc) == [op |-> op, rc |-> rc]
(* The routines that each driver has.                                      *)
Played == {"play_msf", "pause", "resume", "stop", "set_volume"}
LinuxRoutines   == Played \cup {"play_tracks", "subchannel", "get_volume", "last_session", "close_tray"}
FreeBsdRoutines == Played \cup {"play_tracks", "subchannel", "get_volume", "close_tray"}
NetBsdRoutines  == Played \cup {"subchannel", "get_volume", "last_session"}
SolarisRoutines == Played \cup {"play_tracks", "subchannel", "last_session", "close_tray"}
WinNtRoutines   == Played \cup {"subchannel", "get_volume", "last_session", "close_tray"}
Win9xRoutines   == {"subchannel", "close_tray"}
OsxRoutines     == {"close_tray"}

Has(op) ==
  op \in CASE platform = "linux"   -> LinuxRoutines
           [] platform = "freebsd" -> FreeBsdRoutines
           [] platform = "netbsd"  -> NetBsdRoutines
           [] platform = "solaris" -> SolarisRoutines
           [] platform = "winnt"   -> WinNtRoutines
           [] platform = "win9x"   -> Win9xRoutines
           [] platform = "osx"     -> OsxRoutines

(* A call without a routine under it, or whose ioctl fails.                *)
RoutineFails(op, rc) ==
  /\ said' = Answer(op, IF Has(op) THEN rc ELSE "unsupported")
  /\ UNCHANGED <<platform, drive, toc, asked>>
Fails(op) == RoutineFails(op, "error")

(* cdio_audio_play_msf: every driver converts the three bytes.             *)
Unconverted(b) == b                                      \* mutant of Binary
Binary(b) == cdio_from_bcd8(b)

PlayFrom(op, start, end, from, to) ==
  /\ CanPlay(drive, start, end)
  /\ drive' = Playing(drive, start, end)
  /\ asked' = [op |-> op, from |-> from, to |-> to]
  /\ said' = Answer(op, "success")
  /\ UNCHANGED platform

PlayMsf ==
  \/ Fails("play_msf")
  \/ /\ Has("play_msf")
     /\ \E from, to \in Addresses :
          PlayFrom("play_msf", Binary(Msf(from)) - Pregap, Binary(Msf(to)) - Pregap, from, to)
     /\ UNCHANGED toc

(* cdio_audio_play_track_index: GNU/Linux and Solaris leave the tracks to  *)
(* the drive.  FreeBSD looks them up in its table, which it reads if it    *)
(* has none, takes the address for an LSN although it is an LBA, gives the *)
(* MSF's bytes as they are, and plays up to where the end track begins.    *)
LsnOfTrack(d, t) == d.starts[t] + Pregap                 \* get_track_lba_freebsd

PlayTracks ==
  \/ Fails("play_tracks")
  \/ /\ platform \in {"linux", "solaris"} /\ Loaded(drive)
     /\ \E f, l \in TracksOf(drive.disc) :
          LET from == drive.disc.starts[f]   to == drive.disc.starts[l + 1]
          IN  PlayFrom("play_tracks", from, to, from, to)
     /\ UNCHANGED toc
  \/ /\ platform = "freebsd" /\ (toc # NoDisc \/ Loaded(drive))
     /\ toc' = IF toc = NoDisc THEN drive.disc ELSE toc
     /\ \/ \E f, l \in TracksOf(toc') :
             PlayFrom("play_tracks", Msf(LsnOfTrack(toc', f)) - Pregap, Msf(LsnOfTrack(toc', l)) - Pregap,
                      toc'.starts[f], toc'.starts[l + 1])
        \/ said' = Answer("play_tracks", "error") /\ UNCHANGED <<platform, drive, asked>>

(* cdio_audio_pause, cdio_audio_resume, cdio_audio_stop                    *)
Control(op, from, after) ==
  \/ Fails(op)
  \/ /\ Has(op) /\ drive.status \in from
     /\ drive' = after
     /\ said' = Answer(op, "success")
     /\ UNCHANGED <<platform, toc, asked>>

Pause  == Control("pause", {"play"}, [drive EXCEPT !.status = "paused"])
Resume == Control("resume", {"paused"}, [drive EXCEPT !.status = "play"])
Stop   == Control("stop", {"play", "paused", "completed", "none"}, Rest(drive, "none"))

(* cdio_audio_read_subchannel: where it plays, as MSF bytes.  Solaris puts *)
(* the format it wants into the caller's record instead of the request,    *)
(* whose format is then anything: the drive refuses, or answers with an    *)
(* MSF or an LBA.  The older Windows sends the MMC command.                *)
MsfTold(p) == Msf(p)
Told(p) == MsfTold(p)
LbaBytes == 0                                            \* of a small LBA, the first bytes

ReadSubchannel ==
  \/ Fails("subchannel")
  \/ /\ Has("subchannel") /\ Loaded(drive)
     /\ \E abs \in IF platform = "solaris" THEN {Told(drive.pos), LbaBytes} ELSE {Told(drive.pos)} :
          said' = [op |-> "subchannel", rc |-> "success", status |-> drive.status,
                   track |-> TrackAt(drive.disc, drive.pos), abs |-> abs, at |-> drive.pos]
     /\ UNCHANGED <<platform, drive, toc, asked>>

(* cdio_audio_get_volume, cdio_audio_set_volume; Solaris only sets it.     *)
GetVolume ==
  \/ Fails("get_volume")
  \/ /\ Has("get_volume")
     /\ said' = [op |-> "get_volume", rc |-> "success", level |-> drive.level]
     /\ UNCHANGED <<platform, drive, toc, asked>>

SetVolume ==
  \/ Fails("set_volume")
  \/ /\ Has("set_volume")
     /\ \E v \in Levels : drive' = [drive EXCEPT !.level = v]
     /\ said' = Answer("set_volume", "success")
     /\ UNCHANGED <<platform, toc, asked>>

(* get_last_session of the drivers: the first sector of the last session.  *)
(* Solaris passes the address of its own parameter: the caller's variable  *)
(* is not set.                                                             *)
LastSession ==
  \/ Fails("last_session")
  \/ /\ Has("last_session") /\ Loaded(drive)
     /\ said' = [op |-> "last_session", rc |-> "success",
                 value |-> IF platform = "solaris" THEN "unset" ELSE drive.disc.last]
     /\ UNCHANGED <<platform, drive, toc, asked>>

-------------------------------------------------------------------------------
(* cdio_close_tray, by a descriptor of its own.                            *)
Closed ==
  /\ said' = Answer("close_tray", "success")
  /\ drive' = IF drive.open THEN [Rest(drive, "none") EXCEPT !.open = FALSE] ELSE drive
  /\ UNCHANGED <<platform, toc, asked>>

(* GNU/Linux asks for the status first and does nothing about a tray with  *)
(* a disc in it; a status it does not know, or did not get, does not keep  *)
(* it from trying.                                                         *)
AlreadyClosed ==
  /\ platform = "linux" /\ Loaded(drive)
  /\ said' = Answer("close_tray", "success")
  /\ UNCHANGED <<platform, drive, toc, asked>>

(* On Windows a command of the media control interface that failed is a    *)
(* false test, by which the call returns 1; an interface that could not be *)
(* opened is an error.                                                     *)
FailsToClose ==
  \/ Fails("close_tray")
  \/ platform \in {"winnt", "win9x"} /\ RoutineFails("close_tray", "one")

(* OS X runs a program, which has failed if it prints anything.            *)
CloseTray == FailsToClose \/ AlreadyClosed \/ (Has("close_tray") /\ Closed)

-------------------------------------------------------------------------------
Init ==
  /\ platform \in Platforms
  /\ drive \in [disc : AudioDiscs, open : {FALSE}, status : {"none"}, pos : {0}, end : {0},
                level : {CHOOSE v \in Levels : TRUE}]
  /\ toc = NoDisc
  /\ asked = [op |-> "none", from |-> 0, to |-> 0]
  /\ said = Silent

Next ==
  \/ PlayMsf \/ PlayTracks \/ Pause \/ Resume \/ Stop \/ ReadSubchannel
  \/ GetVolume \/ SetVolume \/ LastSession \/ CloseTray \/ PlayOn \/ ByHand

Spec == Init /\ [][Next]_vars

-------------------------------------------------------------------------------
(* What plays or is paused is inside of what the last play that succeeded  *)
(* asked for, in sectors, whatever was paused, refused or failed since,    *)
(* and the subchannel tells where it was as an MSF, on every platform: the *)
(* addresses go through BCD both ways.  Left out: tracks on FreeBSD, and   *)
(* the addresses of Solaris.                                               *)
ByTracksOnFreeBsd == platform = "freebsd" /\ asked.op = "play_tracks"

PlayingAsAsked ==
  /\ drive.status \in {"play", "paused"} /\ ~ByTracksOnFreeBsd =>
       asked.from <= drive.pos /\ drive.pos < asked.to
  /\ said.op = "subchannel" /\ said.rc = "success" /\ platform # "solaris" =>
       cdio_from_bcd8(said.abs) = said.at + Pregap
===============================================================================
