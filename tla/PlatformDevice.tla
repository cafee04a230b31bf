---------------------------- MODULE PlatformDevice ----------------------------
(***************************************************************************)
(* A drive under one of the platform drivers: opened, asked for its table  *)
(* of contents, read from, switched to another access mode, ejected and    *)
(* closed, in any order, with any of the commands failing.  The actions    *)
(* are the calls of device.c, track.c and read.c, with the driver's        *)
(* routines under them.                                                    *)
(***************************************************************************)
EXTENDS DriveModel, SequencesExt

CONSTANTS Platforms, Discs, Lsns, MaxBlocks, MaxCommands

(* A disc has a track, and the table has room for all of them.             *)
PlatformConstants ==
  /\ Lsns \subseteq Nat /\ MaxBlocks \in Nat /\ MaxEntry \in Nat
  /\ \A d \in Discs :
       /\ d.first \in Nat \ {0} /\ d.starts \in Seq(Nat) /\ d.starts # << >> /\ d.end \in Nat
       /\ LastOf(d) <= MaxEntry /\ LastOf(d) < CDIO_CDROM_LEADOUT_TRACK

FreeBSD == INSTANCE FreeBsdDriver
NetBSD  == INSTANCE NetBsdDriver
Solaris == INSTANCE SolarisDriver
Win32   == INSTANCE Win32Driver
OSX     == INSTANCE OsxDriver

VARIABLES platform, disc, env, said
vars == <<platform, disc, env, said>>

Closed == [NewEnv("closed", 0) EXCEPT !.fd = "none"]
IsOpen == env.fd # "none"

Nothing == [op |-> "none"]

(* The calls, as the driver of the platform makes them.                    *)
ModesOf == CASE platform = "freebsd" -> FreeBSD!Modes [] platform = "netbsd" -> NetBSD!Modes
             [] platform = "solaris" -> Solaris!Modes [] platform = "win32" -> Win32!Modes
             [] platform = "osx" -> OSX!Modes

OpenedBy(am, f, c) ==
  CASE platform = "freebsd" -> FreeBSD!Opened(am, f, c)
    [] platform = "netbsd"  -> NetBSD!Opened(am, f, c)
    [] platform = "solaris" -> Solaris!Opened(am, f, c)
    [] platform = "win32"   -> Win32!Opened(am, f, c)
    [] platform = "osx"     -> OSX!Opened(am, f, c)

ModeSet(am, c) ==
  CASE platform = "freebsd" -> FreeBSD!WithMode(env, am, c)
    [] platform = "netbsd"  -> NetBSD!WithMode(env, am, c)
    [] platform = "solaris" -> Solaris!WithMode(env, am, c)
    [] platform = "win32"   -> Win32!WithMode(env, am, c)
    [] platform = "osx"     -> OSX!WithMode(env, am, c)

TocRead(n) ==
  CASE platform = "freebsd" -> FreeBSD!ReadToc(env, disc, n)
    [] platform = "netbsd"  -> NetBSD!ReadToc(env, disc, n)
    [] platform = "solaris" -> Solaris!ReadToc(env, disc, n)
    [] platform = "win32"   -> Win32!ReadToc(env, disc, n)
    [] platform = "osx"     -> OSX!ReadToc(env, disc, n)

LbaBy(e, t) ==
  CASE platform = "freebsd" -> FreeBSD!TrackLba(e, t)
    [] platform = "netbsd"  -> NetBSD!TrackLba(e, t)
    [] platform = "solaris" -> Solaris!TrackLba(e, t)
    [] platform = "win32"   -> Win32!TrackLba(e, t)
    [] platform = "osx"     -> OSX!TrackLba(e, t)

FormatsBy(e, t) ==
  CASE platform = "freebsd" -> {FreeBSD!TrackFormat(e, t)}
    [] platform = "netbsd"  -> {NetBSD!TrackFormat(e, t)}
    [] platform = "solaris" -> {Solaris!TrackFormat(e, t)}
    [] platform = "win32"   -> Win32!TrackFormats(e, t)
    [] platform = "osx"     -> OSX!TrackFormats(e, disc, t)

ReadBy(e, kind, lsn, n, k) ==
  CASE platform = "freebsd" -> FreeBSD!ReadSectors(e, kind, lsn, n, k)
    [] platform = "netbsd"  -> NetBSD!ReadSectors(e, kind, lsn, n, k)
    [] platform = "solaris" -> Solaris!ReadSectors(e, kind, lsn, n, k)
    [] platform = "win32"   -> Win32!ReadSectors(e, kind, lsn, n, k)
    [] platform = "osx"     -> OSX!ReadSectors(e, disc, kind, lsn, n, k)

MediaBy(e) ==
  CASE platform \in {"freebsd", "netbsd"} -> Books(disc, {disc.book})
    [] platform = "solaris" -> Solaris!Media(e, disc)
    [] platform = "win32"   -> Win32!Media(e, disc)
    [] platform = "osx"     -> OSX!Media(disc)

NextModeBy(e, m, f) ==
  CASE platform = "solaris" -> Solaris!NextMode(m, f)
    [] platform = "win32"   -> Win32!NextMode(e, m, f)
    [] OTHER                -> ModeAfter(m, f)

LastLsnsBy(e) ==
  CASE platform = "freebsd" -> FreeBSD!LastLsns(e, disc)
    [] platform = "netbsd"  -> NetBSD!LastLsns(e)
    [] platform = "solaris" -> Solaris!LastLsns(e, disc)
    [] platform = "win32"   -> Win32!LastLsns(e)
    [] platform = "osx"     -> OSX!LastLsns(e)

GreensBy(e, t, f) ==
  CASE platform = "freebsd" -> {FreeBSD!Green(e, t)}
    [] platform = "netbsd"  -> {NetBSD!Green(e, t)}
    [] platform = "solaris" -> {Solaris!Green(e, t)}
    [] platform = "win32"   -> {Win32!Green(e, t, f)}
    [] platform = "osx"     -> OSX!Greens(e, disc, t)

SupportedBy(e) ==
  CASE platform = "freebsd" -> FreeBSD!Supported(e)
    [] platform = "netbsd"  -> NetBSD!Supported(e)
    [] platform = "solaris" -> Solaris!Supported(e)
    [] platform = "win32"   -> Win32!Supported(e)
    [] platform = "osx"     -> OSX!Supported(e)

EjectedBy(k) ==
  CASE platform = "freebsd" -> FreeBSD!Ejected(env, k)
    [] platform = "netbsd"  -> NetBSD!Ejected(env, k)
    [] platform = "solaris" -> Solaris!Ejected(env, k)
    [] platform = "win32"   -> Win32!Ejected(env, k)
    [] platform = "osx"     -> OSX!Ejected(env, k)

AfterEject(k) ==
  CASE platform = "solaris" -> Solaris!EjectAttempt(env, k)
    [] platform = "osx"     -> OSX!EjectAttempt(env, k)
    [] OTHER                -> env

-------------------------------------------------------------------------------
Init ==
  /\ platform \in Platforms
  /\ disc \in Discs
  /\ env = Closed
  /\ said = Nothing

(* cdio_open_am: a driver that refuses leaves no handle.                   *)
Open ==
  /\ ~IsOpen
  /\ \E am \in ModesOf, f, c \in BOOLEAN : \E e \in OpenedBy(am, f, c) : env' = e
  /\ said' = Nothing
  /\ UNCHANGED <<platform, disc>>

(* The getters read the table when there is none, by as many commands as   *)
(* succeed.                                                                *)
Tables == IF env.toc THEN {env} ELSE {TocRead(n) : n \in 0..MaxCommands}

Asked == TracksOf(disc) \cup {0, LastOf(disc) + 1, CDIO_CDROM_LEADOUT_TRACK}

(* cdio_get_track_lba                                                      *)
AskTrack ==
  /\ IsOpen
  /\ \E e \in Tables, t \in Asked :
       /\ env' = e
       /\ said' = [op |-> "lba", track |-> t, value |-> LbaBy(e, t)]
  /\ UNCHANGED <<platform, disc>>

(* cdio_get_track_format; NetBSD reads the formats of the sessions, which  *)
(* may fail, when it first needs one.                                      *)
WithFormats(e, ts) ==
  IF platform = "netbsd" /\ \E t \in ts : NetBSD!NeedsDiscInfo(e, t)
  THEN {e, NetBSD!ReadDiscInfo(e, disc)} ELSE {e}

AskFormat ==
  /\ IsOpen
  /\ \E e \in Tables, t \in TracksOf(disc) : \E x \in WithFormats(e, {t}) :
       /\ env' = x
       /\ \E f \in FormatsBy(x, t) : said' = [op |-> "format", track |-> t, value |-> f]
  /\ UNCHANGED <<platform, disc>>

(* cdio_get_track_green, which not every driver answers from the format.   *)
(* FreeBSD reads no table for it.                                          *)
AskGreen ==
  /\ IsOpen
  /\ \E e \in IF platform = "freebsd" THEN {env} ELSE Tables, t \in TracksOf(disc) :
       \E x \in WithFormats(e, {t}) :
         /\ env' = x
         /\ \E f \in IF platform = "win32" THEN FormatsBy(x, t) ELSE {"any"} :
              \E g \in GreensBy(x, t, f) : said' = [op |-> "green", track |-> t, value |-> g]
  /\ UNCHANGED <<platform, disc>>

(* cdio_get_discmode: what the medium as a whole is told to be, or what is *)
(* made of the formats of the tracks in the table.                         *)
TracksInTable(e) == [i \in 1..e.count |-> e.first + i - 1]

ModesOfTracks(e) ==
  FoldLeft(LAMBDA modes, t : {NextModeBy(e, m, f) : m \in modes, f \in FormatsBy(e, t)},
           {"no info"}, TracksInTable(e))

ModeOfNoTable(e) == IF platform = "win32" THEN Win32!WithoutTable(e) ELSE "no info"

AskDiscMode ==
  /\ IsOpen
  /\ \/ /\ \E m \in MediaBy(env) \ {"table"} : said' = [op |-> "discmode", value |-> m]
        /\ UNCHANGED env
     \/ /\ "table" \in MediaBy(env)
        /\ \E e \in Tables :
             \/ ~e.toc /\ env' = e /\ said' = [op |-> "discmode", value |-> ModeOfNoTable(e)]
             \/ /\ e.toc
                /\ \E x \in WithFormats(e, e.first..(e.first + e.count - 1)) :
                     /\ env' = x
                     /\ \E m \in ModesOfTracks(x) : said' = [op |-> "discmode", value |-> m]
  /\ UNCHANGED <<platform, disc>>

(* cdio_get_disc_last_lsn, for which only NetBSD and OS X read the table.  *)
AskLastLsn ==
  /\ IsOpen
  /\ \E e \in IF platform \in {"netbsd", "osx"} THEN Tables ELSE {env} :
       \E lsn \in LastLsnsBy(e) :
         /\ env' = IF lsn = EXITS THEN Closed ELSE e
         /\ said' = [op |-> "last_lsn", value |-> lsn]
  /\ UNCHANGED <<platform, disc>>

(* cdio_get_arg for "mmc-supported?"                                       *)
AskArg ==
  /\ IsOpen
  /\ \E a \in SupportedBy(env) : said' = [op |-> "mmc-supported?", value |-> a]
  /\ UNCHANGED <<platform, disc, env>>

(* check_lsn and check_lsn_blocks ask for the leadout first, which may     *)
(* read the table, and cut a request that runs past it, unless it is one   *)
(* for data sectors.  What a wild entry holds may be anything.             *)
Ends(e) == LET lba == LbaBy(e, CDIO_CDROM_LEADOUT_TRACK)
           IN  IF lba = WILD THEN {INVALID, EndOf(disc)} \cup {l + CDIO_PREGAP_SECTORS : l \in Lsns} ELSE {lba}

Cut(kind, lsn, n, end) == IF kind # "data" /\ lsn + n > end + 1 THEN end - lsn + 1 ELSE n

(* cdio_read_audio_sectors, cdio_read_mode1_sectors,                       *)
(* cdio_read_mode2_sectors and cdio_read_data_sectors, of which k commands *)
(* for a sector succeed.  FreeBSD has no routine for mode 1.               *)
Kinds == {"audio", "form1", "form2", "data"} \cup (IF platform = "freebsd" THEN {} ELSE {"mode1"})

Read ==
  /\ IsOpen
  /\ \E e \in Tables, kind \in Kinds, lsn \in Lsns, n \in 1..MaxBlocks :
       \E end \in {x - CDIO_PREGAP_SECTORS : x \in Ends(e)} :
         LET m == Cut(kind, lsn, n, end)
         IN  /\ env' = e
             /\ \E k \in 0..m :
                  LET r == IF lsn > end THEN NothingRead(n) ELSE ReadBy(e, kind, lsn, m, k)
                  IN  said' = [op |-> "read", kind |-> kind, lsn |-> lsn, n |-> n,
                               all |-> k = m, rc |-> r.rc, buf |-> r.buf]
  /\ UNCHANGED <<platform, disc>>

(* cdio_set_arg(..., "access-mode", ...)                                   *)
SetAccessMode ==
  /\ IsOpen
  /\ \E am \in ModesOf, c \in BOOLEAN : env' = ModeSet(am, c)
  /\ said' = Nothing
  /\ UNCHANGED <<platform, disc>>

(* cdio_eject_media destroys the handle of a drive that has ejected.       *)
Eject ==
  /\ IsOpen
  /\ \E k \in 0..3 : env' = IF EjectedBy(k) THEN Closed ELSE AfterEject(k)
  /\ said' = Nothing
  /\ UNCHANGED <<platform, disc>>

(* cdio_destroy                                                            *)
Destroy ==
  /\ IsOpen
  /\ env' = Closed
  /\ said' = Nothing
  /\ UNCHANGED <<platform, disc>>

Ask == AskTrack \/ AskFormat \/ AskGreen \/ AskDiscMode \/ AskLastLsn \/ AskArg

Next == Open \/ Ask \/ Read \/ SetAccessMode \/ Eject \/ Destroy

Spec == Init /\ [][Next]_vars

-------------------------------------------------------------------------------
RightLba(t) == IF t \in TracksOf(disc) THEN StartOf(disc, t) ELSE EndOf(disc)

(* The platforms whose table is in place whatever the disc's first track   *)
(* is; Win32's is, where the first track's number exceeds the count.       *)
Indexed ==
  \/ disc.first = 1
  \/ platform \in {"netbsd", "osx"}
  \/ platform = "win32" /\ disc.first > CountOf(disc)

(* A table that counts as read; ASPI's may be one of no tracks.            *)
HasTable == env.toc /\ env.count # 0

(* A getter answers the track's start, or that it has none, and the start  *)
(* whenever the table was read; no answer is made of a table half read,    *)
(* except by Solaris, which does not look.                                 *)
TableAnswersForDisc ==
  said.op = "lba" /\ said.track # 0 /\ Indexed =>
    /\ HasTable => said.value = RightLba(said.track)
    /\ ~env.toc /\ platform # "solaris" => said.value = INVALID

(* The formats that a driver can tell: OS X knows the mode of the data,    *)
(* not the format of the session.                                          *)
RightFormats(t) ==
  CASE KindOf(disc, t) = "audio" -> {"audio"}
    [] KindOf(disc, t) = "data"  ->
         CASE platform \in {"netbsd", "win32"} -> {"data", disc.format} \ {"none"}
           [] platform = "osx" -> {"cdi", "xa"}
           [] OTHER -> {"data"}

(* With a table the format is that of the asked track; what cannot be told *)
(* from a session's format is "data", and an error is said to be one.      *)
(* Left out: ASPI, which may repeat what was on its stack.                 *)
OverAspi == platform = "win32" /\ env.cam

FormatOfTrack ==
  said.op = "format" /\ HasTable /\ Indexed /\ ~OverAspi =>
    said.value \in RightFormats(said.track) \cup
                   (IF platform \in {"netbsd", "osx"} THEN {"error"} ELSE {})

(* A disc's mode is one that its tracks make, or the first session's, as   *)
(* Solaris has it, or a DVD's; that it cannot be told is said only when a  *)
(* format or command of the platform may fail, or is one it does not know. *)
KindsOf(d) == {KindOf(d, t) : t \in TracksOf(d)}
RightModes ==
  (CASE Dvd(disc) -> {disc.book, "DVD_OTHER", "CD_DATA"}
    [] ~Dvd(disc) /\ KindsOf(disc) = {"audio"} -> {"CD_DA"}
    [] ~Dvd(disc) /\ KindsOf(disc) = {"data"}  -> {"CD_DATA"} \cup (IF disc.format = "xa" THEN {"CD_XA"} ELSE {})
    [] ~Dvd(disc) /\ Cardinality(KindsOf(disc)) = 2 -> {"CD_MIXED"})
  \cup (IF platform = "solaris" THEN {FirstSession(disc)} ELSE {})
  \cup (IF platform \in {"netbsd", "osx"} \/ (platform = "win32" /\ disc.format = "cdi") THEN {"error"} ELSE {})

ModeOfDisc ==
  said.op = "discmode" /\ said.value # "no info" /\ HasTable /\ Indexed /\ ~OverAspi =>
    said.value \in RightModes

(* The last LSN is the leadout's, unless it is said not to be known, or    *)
(* the program was ended for it.  Left out: NetBSD, which computes with    *)
(* BCD digits, and OS X, which gives an LBA.                               *)
LastLsnOfDisc ==
  /\ said.op = "last_lsn" /\ platform \notin {"netbsd", "osx"}
  /\ platform = "win32" => HasTable /\ Indexed
  => said.value \in {disc.end, INVALID, EXITS}

(* A track that is called green is one of data, or one that may be copied, *)
(* which is what the bit that is looked at tells.                          *)
GreenOfTrack ==
  said.op = "green" /\ said.value /\ Indexed /\ ~OverAspi => disc.copy \/ KindOf(disc, said.track) = "data"

(* A read that reports success has filled the buffer with the sectors that *)
(* were asked for, up to the leadout, each by the part that its kind of    *)
(* read stands for, on every platform, in every access mode and whether or *)
(* not the table was read before.  Left out: form 2 by FreeBSD's ioctls    *)
(* and by Win32's and OS X's, which copy from 8 bytes too far on, data of  *)
(* mode 2 on OS X, read in units of another size, data reads that the      *)
(* system cut short, which count as success, and requests that are cut at  *)
(* a leadout that is not the disc's: out of a table that is not Indexed,   *)
(* an empty one of ASPI's, and one that Solaris did not read.              *)
OwedBlocks == Cut(said.kind, said.lsn, said.n, disc.end)
ShiftedForm2 ==
  /\ said.kind = "form2"
  /\ \/ platform = "win32" /\ ~env.cam
     \/ platform = "osx"
     \/ platform = "freebsd" /\ env.mode = "ioctl"
WrongUnits == platform = "osx" /\ said.kind = "data" /\ disc.format # "none"

LeadoutKnown == Indexed /\ (env.toc => env.count # 0) /\ (platform = "solaris" => env.toc)

SectorsAsAsked ==
  said.op = "read" /\ said.rc = "success" /\ LeadoutKnown /\ ~ShiftedForm2 /\ ~WrongUnits /\ (said.kind = "data" => said.all) =>
    /\ Len(said.buf) = OwedBlocks
    /\ \A i \in 1..OwedBlocks : said.buf[i] = Cell(said.lsn + i - 1, WantedPart(said.kind))
===============================================================================
