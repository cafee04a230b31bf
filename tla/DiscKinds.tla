------------------------------- MODULE DiscKinds -------------------------------
(* What kind of disc is in the drive: lib/driver/cd_types.c, the search for    *)
(* drives by what is in them (lib/driver/device.c), and the analysis that      *)
(* src/cd-info.c makes of the tracks and sessions of a disc, and so does       *)
(* src/cdinfo-linux.c, the program it grew out of, with a guess of its own.    *)
(*                                                                             *)
(* cdio_guess_cd_type reads a few blocks of a track into static buffers and    *)
(* looks for signatures in them.  The buffers outlive the call: what a guess   *)
(* tells must come from the blocks it read and not from those of a guess       *)
(* before it.  A block is the set of signatures in it, with the number and     *)
(* the name that are taken from it; one read is one action.                    *)
EXTENDS Integers, Sequences, FiniteSets, SequencesExt

CONSTANTS
  KindDiscs,   \* discs: [first, tracks, leadout, at, bad, mode, playing, tree]
  Searches     \* requests: [need, any, drives], drives a sequence of discs

KindConstants == \A r \in Searches : r.drives \in Seq(KindDiscs)

VARIABLES
  task,        \* "info" (cd-info), "linux" (cdinfo-linux) or "search" (cdio_get_devices_with_cap)
  cd,          \* the disc in the drive that is open
  buffer,      \* static char buffer[6][]
  guess,       \* the call of cdio_guess_cd_type: [at, track, start, ret, sector0]
  analysis,    \* the caller's cdio_iso_analysis_t
  info,        \* cd-info's variables and the place in its main
  report,      \* what cd-info has printed of tracks, sessions and directories
  search       \* the search: [request, left, found]
vars == <<task, cd, buffer, guess, analysis, info, report, search>>

-----------------------------------------------------------------------------
(* The disc: tracks[k] is track first+k-1, with its format, its start and the *)
(* session it was written in; at[lsn] is a block that is not blank.           *)
Block(marks, value, name) == [marks |-> marks, value |-> value, name |-> name]
Blank == Block({}, 0, "")
On(d, lsn) == IF lsn \in DOMAIN d.at THEN d.at[lsn] ELSE Blank

NumTracks(d) == Len(d.tracks)
TracksOf(d) == d.first .. d.first + NumTracks(d) - 1
Format(d, t) == IF t \in TracksOf(d) THEN d.tracks[t - d.first + 1].format ELSE "error"
TrackLsn(d, t) == IF t \in TracksOf(d) THEN d.tracks[t - d.first + 1].lsn ELSE d.leadout

(* Compares a track number with a number of tracks.                          *)
SecCount(d, t) == IF t \in 1 .. NumTracks(d) THEN TrackLsn(d, t + 1) - TrackLsn(d, t) ELSE 0

-----------------------------------------------------------------------------
(* cdio_guess_cd_type.                                                        *)

(* The buffer that each signature is looked for in.                           *)
BufferOf(mark) ==
  CASE mark \in {"xbox", "bea01", "cd001", "cd_i", "cdtv", "cd_rtos", "cdrom", "bridge", "xa"} -> 0
    [] mark \in {"photo", "ext2", "hfs", "3do"} -> 1
    [] mark = "ufs" -> 2
    [] mark \in {"el_torito", "joliet"} -> 3
    [] mark \in {"vcd", "svcd"} -> 4
    [] mark = "anchor" -> 5

Is(b, mark) == mark \in b[BufferOf(mark)].marks

Kind(type, bits) == [type |-> type, bits |-> bits]
Unknown == Kind("unknown", {})
Tell(ret, bits) == [ret EXCEPT !.bits = @ \cup bits]

Guessing(purpose, t, start) ==
  [at |-> IF Format(cd, t) = "audio" THEN "done" ELSE "superblock", purpose |-> purpose, track |-> t,
   start |-> start, sector0 |-> FALSE, ret |-> IF Format(cd, t) = "audio" THEN Kind("audio", {}) ELSE Unknown]

Idle == [at |-> "idle", purpose |-> "none", track |-> 0, start |-> 0, sector0 |-> FALSE, ret |-> Unknown]
NoAnalysis == [size |-> 0, label |-> "", version |-> 0, level |-> 0]

(* _cdio_read_block: the buffer is cleared before anything is looked at; a   *)
(* block past the end of the track is not asked for.                          *)
Readable(block) == ~(SecCount(cd, guess.track) < block) /\ guess.start + block \notin cd.bad
ReadBlockOver(b, num, block) ==
  [b EXCEPT ![num] = IF Readable(block) THEN On(cd, guess.start + block) ELSE @]
ReadBlock(b, num, block) ==
  [b EXCEPT ![num] = IF Readable(block) THEN On(cd, guess.start + block) ELSE Blank]

To(step) == guess' = [guess EXCEPT !.at = step]
Return(ret) == guess' = [guess EXCEPT !.at = "done", !.ret = ret]

(* The checks at the end; the early returns do without them.                  *)
OtherChecks(b, ret) ==
  Tell(ret, (IF Is(b, "xa") THEN {"xa"} ELSE {}) \cup (IF Is(b, "photo") THEN {"photo_cd"} ELSE {})
            \cup (IF Is(b, "cdtv") THEN {"cdtv"} ELSE {}))

(* One step of the guess reads a block and goes on from the buffers, or, when *)
(* the block cannot be read, gives up with what it has.                       *)
Reads(step, num, block) ==
  guess.at = step /\ buffer' = ReadBlock(buffer, num, block) /\ UNCHANGED <<task, cd, info, report, search>>

GiveUp == Return(guess.ret) /\ UNCHANGED analysis

(* Sector 16 is read twice, as PVD and as superblock.                         *)
Superblock(b) ==
  /\ UNCHANGED analysis
  /\ IF Is(b, "xbox") THEN Return(Kind("none", {"xiso"}))
     ELSE IF Is(b, "bea01") THEN To("udf_version")
     ELSE IF Is(b, "cd_i") /\ Is(b, "cd_rtos") /\ ~Is(b, "bridge") /\ ~Is(b, "xa")
       THEN Return(Kind("interactive", {"any"}))
     ELSE To("sector0")
ReadSuperblock == Reads("superblock", 0, 16) /\ IF Readable(16) THEN Superblock(buffer') ELSE GiveUp

UdfVersion(b) == To("udf_label") /\ analysis' = [analysis EXCEPT !.version = b[5].value]
ReadUdfVersion == Reads("udf_version", 5, 35) /\ IF Readable(35) THEN UdfVersion(buffer') ELSE GiveUp

UdfLabel(b) == Return(Kind("udf", {})) /\ analysis' = [analysis EXCEPT !.label = b[5].name]
NoUdfLabel == Return(Kind("udf", {})) /\ UNCHANGED analysis
ReadUdfLabel == Reads("udf_label", 5, 32) /\ IF Readable(32) THEN UdfLabel(buffer') ELSE NoUdfLabel

(* CDIO_FS_UNKNOWN has every bit of the type set, so High Sierra, HFS, EXT2,  *)
(* 3DO and UFS, which are or-ed to it, are told as unknown.                   *)
SectorZero(b) ==
  LET ok == Readable(0)
      NotIso(bits) == Return(OtherChecks(b, Kind("unknown", bits))) /\ UNCHANGED analysis
  IN  IF Is(b, "cdrom") THEN NotIso({})
      ELSE IF Is(b, "cd001")
        THEN /\ guess' = [guess EXCEPT !.at = "anchor", !.sector0 = ok, !.ret =
                   IF Is(b, "cd_rtos") /\ Is(b, "bridge") THEN Kind("iso_interactive", {"any"})
                   ELSE IF Is(b, "hfs") THEN Kind("iso_hfs", {}) ELSE Kind("iso", {"any"})]
             /\ analysis' = [analysis EXCEPT !.size = b[0].value, !.label = b[0].name]
      ELSE IF Is(b, "hfs") THEN NotIso({})
      ELSE IF ok /\ Is(b, "ext2") THEN NotIso({"any"})
      ELSE IF Is(b, "3do") THEN NotIso({})
      ELSE To("ufs") /\ UNCHANGED analysis
ReadSectorZero == Reads("sector0", 1, 0) /\ SectorZero(buffer')

Ufs(b) == Return(OtherChecks(b, Unknown)) /\ UNCHANGED analysis
ReadUfs == Reads("ufs", 2, 4) /\ IF Readable(4) THEN Ufs(buffer') ELSE GiveUp

(* Without the anchor's sector, in a track shorter than that, nothing further *)
(* is looked for.                                                             *)
Anchor(b) == To(IF Is(b, "anchor") THEN "iso_udf" ELSE "boot") /\ UNCHANGED analysis
ReadAnchor == Reads("anchor", 5, 256) /\ IF Readable(256) THEN Anchor(buffer') ELSE GiveUp

IsoUdf(b) ==
  /\ guess' = [guess EXCEPT !.at = "boot", !.ret = Kind("iso_udf", {})]
  /\ analysis' = [analysis EXCEPT !.version = b[5].value]
ReadIsoUdf == Reads("iso_udf", 5, 35) /\ IF Readable(35) THEN IsoUdf(buffer') ELSE GiveUp

Boot(b) ==
  LET joliet == IF Is(b, "joliet") THEN {"joliet", "any"} ELSE {}
      bootable == IF Is(b, "el_torito") THEN {"bootable"} ELSE {}
      ret == Tell(guess.ret, joliet \cup bootable)
      vcd == Is(b, "xa") /\ ~(guess.sector0 /\ Is(b, "photo"))
  IN  /\ analysis' = IF Is(b, "joliet") THEN [analysis EXCEPT !.level = b[3].value] ELSE analysis
      /\ IF vcd THEN guess' = [guess EXCEPT !.at = "vcd", !.ret = ret] ELSE Return(OtherChecks(b, ret))
ReadBoot == Reads("boot", 3, 17) /\ IF Readable(17) THEN Boot(buffer') ELSE GiveUp

Vcd(b) ==
  LET bits == IF Is(b, "bridge") /\ Is(b, "cd_rtos")
                THEN {"any"} \cup (IF Is(b, "vcd") THEN {"video_cd"} ELSE IF Is(b, "svcd") THEN {"svcd"} ELSE {})
              ELSE IF Is(b, "svcd") THEN {"cvd"} ELSE {}
  IN  Return(OtherChecks(b, Tell(guess.ret, bits))) /\ UNCHANGED analysis
ReadVcd == Reads("vcd", 4, 150) /\ IF Readable(150) THEN Vcd(buffer') ELSE GiveUp

GuessCdType ==
  \/ ReadSuperblock \/ ReadUdfVersion \/ ReadUdfLabel \/ ReadSectorZero \/ ReadUfs
  \/ ReadAnchor \/ ReadIsoUdf \/ ReadBoot \/ ReadVcd

-----------------------------------------------------------------------------
(* guess_filesystem of cdinfo-linux, which knows neither UDF nor the length    *)
(* of a track.  A block is read a second time, by the ioctl's descriptor, into *)
(* a buffer of its own that nothing is looked for in.                          *)
NoData == Kind("none", {})
LinuxGuessing(purpose, t, start) ==
  [at |-> "linux_superblock", purpose |-> purpose, track |-> t, start |-> start, sector0 |-> FALSE, ret |-> NoData]

ReadableByLinux(block) == guess.start + block < cd.leadout /\ guess.start + block \notin cd.bad
LinuxReads(step, num, block) ==
  /\ guess.at = step
  /\ buffer' = [buffer EXCEPT ![num] = IF ReadableByLinux(block) THEN On(cd, guess.start + block) ELSE Blank]
  /\ UNCHANGED <<task, cd, info, report, search>>

LinuxSuperblock ==
  /\ LinuxReads("linux_superblock", 0, 16)
  /\ IF ~ReadableByLinux(16) THEN Return(Unknown)
     ELSE IF Is(buffer', "cd_i") /\ Is(buffer', "cd_rtos") /\ ~Is(buffer', "bridge") /\ ~Is(buffer', "xa")
       THEN Return(Kind("interactive", {}))
     ELSE To("linux_sector0")
  /\ UNCHANGED analysis

(* Here the types are no bits of one another.                                 *)
OtherFileSystem(b) ==
  CASE Is(b, "cdrom") -> "high_sierra" [] ~Is(b, "cdrom") /\ Is(b, "hfs") -> "hfs"
    [] OTHER -> IF Is(b, "ext2") THEN "ext2" ELSE IF Is(b, "3do") THEN "panasonic" ELSE "none"
IsoFileSystem(b) ==
  IF Is(b, "cd_rtos") /\ Is(b, "bridge") THEN "iso_interactive" ELSE IF Is(b, "hfs") THEN "iso_hfs" ELSE "iso"

LinuxSectorZero ==
  /\ LinuxReads("linux_sector0", 1, 0)
  /\ LET b == buffer' IN
     IF ~ReadableByLinux(0) THEN GiveUp
     ELSE IF Is(b, "cd001") /\ ~Is(b, "cdrom")
       THEN /\ guess' = [guess EXCEPT !.at = "linux_boot", !.ret = Kind(IsoFileSystem(b), {})]
            /\ analysis' = [analysis EXCEPT !.size = b[0].value, !.label = b[0].name]
     ELSE IF OtherFileSystem(b) = "none" THEN To("linux_ufs") /\ UNCHANGED analysis
     ELSE Return(OtherChecks(b, Kind(OtherFileSystem(b), {}))) /\ UNCHANGED analysis

LinuxBoot ==
  /\ LinuxReads("linux_boot", 3, 17)
  /\ LET b == buffer'
         ret == Tell(guess.ret, (IF Is(b, "joliet") THEN {"joliet"} ELSE {})
                                \cup (IF Is(b, "el_torito") THEN {"bootable"} ELSE {}))
         vcd == Is(b, "bridge") /\ Is(b, "xa") /\ Is(b, "cd_rtos") /\ ~Is(b, "photo")
     IN  IF ~ReadableByLinux(17) THEN GiveUp
         ELSE /\ analysis' = IF Is(b, "joliet") THEN [analysis EXCEPT !.level = b[3].value] ELSE analysis
              /\ IF vcd THEN guess' = [guess EXCEPT !.at = "linux_vcd", !.ret = ret]
                 ELSE Return(OtherChecks(b, ret))

LinuxVcd ==
  /\ LinuxReads("linux_vcd", 4, 150)
  /\ LET bits == IF Is(buffer', "vcd") THEN {"video_cd"} ELSE {} IN
     IF ReadableByLinux(150) THEN Return(OtherChecks(buffer', Tell(guess.ret, bits))) /\ UNCHANGED analysis
     ELSE GiveUp

LinuxUfs ==
  /\ LinuxReads("linux_ufs", 2, 4)
  /\ LET type == IF Is(buffer', "ufs") THEN "ufs" ELSE "unknown" IN
     IF ReadableByLinux(4) THEN Return(OtherChecks(buffer', Kind(type, {}))) /\ UNCHANGED analysis ELSE GiveUp

GuessFilesystem ==
  \/ LinuxSuperblock \/ LinuxSectorZero \/ LinuxBoot \/ LinuxVcd \/ LinuxUfs

-----------------------------------------------------------------------------
(* cdio_get_devices_with_cap_ret: each drive is opened, the first track of    *)
(* its disc guessed at, and the drive kept when the guess fits the request.   *)
Fits(ret, request) ==
  /\ request.need.type \in {"unknown", "none", ret.type}
  /\ \/ request.need.bits = {}
     \/ IF request.any THEN ret.bits \cap request.need.bits # {} ELSE request.need.bits \subseteq ret.bits

OpenDrive ==
  /\ task = "search" /\ guess.at = "idle" /\ search.left # << >>
  /\ \E opens \in BOOLEAN :
       IF opens /\ NumTracks(Head(search.left)) > 0
         THEN /\ cd' = Head(search.left)
              /\ guess' = LET d == Head(search.left) IN
                   [Idle EXCEPT !.purpose = "search", !.track = d.first,
                      !.at = IF Format(d, d.first) = "audio" THEN "done" ELSE "superblock",
                      !.ret = IF Format(d, d.first) = "audio" THEN Kind("audio", {}) ELSE Unknown]
              /\ UNCHANGED search
         ELSE search' = [search EXCEPT !.left = Tail(@)] /\ UNCHANGED <<cd, guess>>
  /\ UNCHANGED <<task, buffer, analysis, info, report>>

JudgeDrive ==
  /\ guess.at = "done" /\ guess.purpose = "search"
  /\ search' = [search EXCEPT !.left = Tail(@),
                  !.found = IF Fits(guess.ret, search.request) THEN Append(@, cd) ELSE @]
  /\ guess' = Idle
  /\ UNCHANGED <<task, cd, buffer, analysis, info, report>>

-----------------------------------------------------------------------------
(* cd-info.                                                                   *)
ProgramAt(place) == info.at = place /\ guess.at = "idle"
InfoAt(place) == task = "info" /\ ProgramAt(place)
Leave(status) == info' = [info EXCEPT !.at = "exited", !.status = status]
InfoStep == UNCHANGED <<task, cd, buffer, search>>

(* The mode of the disc and the numbers of its tracks; a drive may not tell.  *)
OpenDisc ==
  /\ InfoAt("open")
  /\ IF cd.mode = "dvd" /\ ~info.show_dvd THEN Leave("success")
     ELSE IF NumTracks(cd) = 0 THEN Leave("failure")
     ELSE info' = [info EXCEPT !.at = "table", !.i = cd.first, !.start = TrackLsn(cd, cd.first)]
  /\ UNCHANGED <<guess, analysis, report>> /\ InfoStep

(* One line of the track list; after the last track the lead-out's.           *)
TrackLine ==
  /\ InfoAt("table")
  /\ \E told \in BOOLEAN :   \* cdio_get_track_msf
       IF ~told THEN Leave("failure") /\ UNCHANGED report
       ELSE IF info.i \notin TracksOf(cd) THEN info' = [info EXCEPT !.at = "identify"] /\ UNCHANGED report
       ELSE LET audio == Format(cd, info.i) = "audio" IN
            /\ report' = Append(report, [what |-> "track", track |-> info.i, format |-> Format(cd, info.i)])
            /\ info' = [info EXCEPT !.i = @ + 1,
                          !.num_audio = @ + (IF audio THEN 1 ELSE 0), !.num_data = @ + (IF audio THEN 0 ELSE 1),
                          !.first_audio = IF audio /\ @ = -1 THEN info.i ELSE @,
                          !.first_data = IF ~audio /\ @ = -1 THEN info.i ELSE @]
  /\ UNCHANGED <<guess, analysis>> /\ InfoStep

(* The catalogue number, the ISRCs of as many tracks as are audio from the    *)
(* first of them on, and, of a disc with audio, whether it is being played.   *)
Identify ==
  /\ InfoAt("identify")
  /\ \E isrc, status \in BOOLEAN :
       LET cdrom == cd.mode # "dvd"
           plays == cdrom /\ cd.mode \in {"cd_da", "mixed"} /\ status /\ cd.playing
           asked == IF cdrom /\ isrc
                      THEN [k \in 1 .. info.num_audio |-> [what |-> "isrc", track |-> info.first_audio + k - 1]]
                      ELSE << >>
       IN  /\ report' = report \o asked
           /\ IF info.no_analysis \/ plays THEN Leave("success")
              ELSE info' = [info EXCEPT !.at = IF info.num_audio > 0 THEN "audio" ELSE "data"]
  /\ UNCHANGED <<guess, analysis>> /\ InfoStep

(* print_analysis: what is told of the kind, the volume and its files.        *)
Said(fs) ==
  {b \in fs.bits : b \in {"xa", "multisession", "hidden_track", "photo_cd", "cdtv", "bootable", "svcd", "cvd"}}
  \cup (IF info.first_data = 1 /\ info.num_audio > 0 THEN {"mixed_mode"} ELSE {})
  \cup (IF info.first_data > 1 THEN {"cd_plus"} ELSE {})
  \cup (IF "video_cd" \in fs.bits /\ info.num_audio = 0 THEN {"video_cd"} ELSE {})

IsoTypes == {"iso", "iso_interactive", "iso_hfs", "iso_udf"}
Analysed(fs) ==
  [what |-> "analysis", fs |-> fs, said |-> Said(fs),
   size |-> IF fs.type \in IsoTypes THEN analysis.size ELSE -1,
   version |-> IF fs.type \in {"udf", "iso_udf"} THEN analysis.version ELSE -1]

(* cddb_discid: the digits of the tracks' starts, in seconds, the seconds from *)
(* the first of them to the lead-out, and the number of tracks; nothing that   *)
(* makes sense when there is no track 1.                                      *)
Seconds(lsn) == (lsn + 150) \div 75
DigitSum[n \in Nat] == (n % 10) + (IF n < 10 THEN 0 ELSE DigitSum[n \div 10])
DiscId(d) ==
  IF d.first # 1 THEN << >> ELSE
  <<FoldLeft(+, 0, [t \in 1 .. NumTracks(d) |-> DigitSum[Seconds(TrackLsn(d, t))]]) % 255,
    Seconds(d.leadout) - Seconds(TrackLsn(d, 1)), NumTracks(d)>>

(* cdinfo-linux takes a disc of which it knows no data for one of audio.      *)
Lines(fs) ==
  IF task = "linux" /\ fs.type = "none" /\ info.num_audio > 0
    THEN <<Analysed(fs), [what |-> "cddb", id |-> DiscId(cd)]>> ELSE <<Analysed(fs)>>

(* After an analysis the files are listed, when asked for and the superblock  *)
(* can be read, and main goes on at next.                                     *)
PrintAnalysis(fs, next) ==
  /\ report' = report \o Lines(fs)
  /\ \E lists \in BOOLEAN :
       info' = IF fs.type \in IsoTypes /\ info.print_iso9660 /\ lists
                 THEN [info EXCEPT !.at = "listing", !.next = next, !.left = <<"/">>, !.fs = fs]
                 ELSE [info EXCEPT !.at = next, !.fs = fs]

(* print_iso9660_recurse: the directory's line, then its directories in turn. *)
ListDirectory ==
  /\ InfoAt("listing") /\ info.left # << >>
  /\ \E reads \in BOOLEAN :
       LET below == IF reads THEN cd.tree[Head(info.left)] ELSE << >> IN
       /\ info' = [info EXCEPT !.left = below \o Tail(@)]
       /\ report' = Append(report, [what |-> "directory", path |-> Head(info.left), read |-> reads])
  /\ UNCHANGED <<guess, analysis>> /\ InfoStep
Listed ==
  /\ InfoAt("listing") /\ info.left = << >>
  /\ info' = [info EXCEPT !.at = info.next]
  /\ UNCHANGED <<guess, analysis, report>> /\ InfoStep

(* With audio tracks: a first track that begins late is looked at, from       *)
(* sector 0 on, for a hidden one.                                             *)
HiddenTrack ==
  /\ InfoAt("audio")
  /\ IF info.start > 100
       THEN guess' = Guessing("hidden", 1, 0) /\ UNCHANGED <<info, report>>
       ELSE PrintAnalysis(info.fs, "data") /\ UNCHANGED guess
  /\ UNCHANGED analysis /\ InfoStep
HiddenChecked ==
  /\ guess.at = "done" /\ guess.purpose = "hidden"
  /\ guess' = Idle
  /\ PrintAnalysis(IF guess.ret.type # "unknown" THEN Tell(guess.ret, {"hidden_track"})
                   ELSE [guess.ret EXCEPT !.type = "none"], "data")
  /\ UNCHANGED analysis /\ InfoStep

(* The walk over the data: tracks inside the volume of the session being      *)
(* walked are passed over, another one is guessed at.                         *)
BeginData ==
  /\ InfoAt("data")
  /\ IF info.num_data = 0 THEN Leave("success")
     ELSE info' = [info EXCEPT !.at = "walk", !.i = info.first_data]
  /\ UNCHANGED <<guess, analysis, report>> /\ InfoStep

StartOf(i) == IF i = 1 THEN 0 ELSE TrackLsn(cd, i)
Inside(lsn, data_start) == lsn < data_start + analysis.size

GuessAtTrack(i, lsn) == IF task = "linux" THEN LinuxGuessing("session", i, lsn) ELSE Guessing("session", i, lsn)

PassOrGuess ==
  /\ IF info.i > NumTracks(cd) THEN Leave("success") /\ UNCHANGED guess
     ELSE LET lsn == StartOf(info.i)
              data_start == IF info.i = info.first_data THEN lsn ELSE info.data_start
              skip == Inside(lsn, data_start)
          IN  /\ info' = [info EXCEPT !.start = lsn, !.data_start = data_start,
                            !.i = IF skip THEN @ + 1 ELSE @]
              /\ IF skip THEN UNCHANGED guess ELSE guess' = GuessAtTrack(info.i, lsn)
  /\ UNCHANGED <<analysis, report>> /\ InfoStep
WalkTrack == InfoAt("walk") /\ PassOrGuess

(* Only sessions with ISO 9660 are followed by others.                        *)
AfterSession(fs) == IF fs.type \in {"iso", "iso_hfs", "iso_interactive"} THEN "next" ELSE "exit"
SessionAsGuessed(label) ==
  /\ guess.at = "done" /\ guess.purpose = "session"
  /\ guess' = Idle
  /\ IF info.i > 1
       THEN /\ report' = Append(report, [what |-> "session", number |-> info.j, track |-> info.i,
                                         lsn |-> info.start, size |-> analysis.size, label |-> label])
            /\ info' = [info EXCEPT !.offset = info.start, !.j = @ + 1, !.at = AfterSession(guess.ret),
                          !.fs = Tell(guess.ret, {"multisession"})]
       ELSE PrintAnalysis(guess.ret, AfterSession(guess.ret))
  /\ UNCHANGED analysis /\ InfoStep

SessionGuessed == task = "info" /\ SessionAsGuessed(analysis.label)

NextTrack ==
  /\ ProgramAt("next")
  /\ info' = [info EXCEPT !.at = "walk", !.i = @ + 1]
  /\ UNCHANGED <<guess, analysis, report>> /\ InfoStep
StopWalk ==
  /\ ProgramAt("exit") /\ Leave("success")
  /\ UNCHANGED <<guess, analysis, report>> /\ InfoStep

-----------------------------------------------------------------------------
(* cdinfo-linux up to the walk.  The list of tracks goes from the number of    *)
(* the first to the number of tracks, and on to the lead-out; each entry is    *)
(* read by an ioctl as well.  A track is one of data when its format is        *)
(* TRACK_FORMAT_DATA, and one of audio otherwise.                              *)
LinuxAt(place) == task = "linux" /\ ProgramAt(place)

LinuxOpen ==
  /\ LinuxAt("open")
  /\ \E opened \in BOOLEAN :
       IF opened THEN info' = [info EXCEPT !.at = "table", !.i = cd.first] ELSE Leave("failure")
  /\ UNCHANGED <<guess, analysis, report>> /\ InfoStep

LEADOUT == 170     \* CDIO_CDROM_LEADOUT_TRACK
NextLine(i) == IF i = NumTracks(cd) THEN LEADOUT ELSE i + 1

LinuxLine ==
  /\ LinuxAt("table")
  /\ \/ Leave("failure") /\ UNCHANGED report     \* CDROMREADTOCENTRY, cdio_get_track_msf
     \/ info.i = LEADOUT /\ info' = [info EXCEPT !.at = "status"] /\ UNCHANGED report
     \/ LET data == Format(cd, info.i) = "data" IN
        /\ info.i \in TracksOf(cd)
        /\ report' = Append(report, [what |-> "track", track |-> info.i, format |-> Format(cd, info.i)])
        /\ info' = [info EXCEPT !.i = NextLine(@),
                      !.num_audio = @ + (IF data THEN 0 ELSE 1), !.num_data = @ + (IF data THEN 1 ELSE 0),
                      !.first_audio = IF ~data /\ @ = -1 THEN info.i ELSE @,
                      !.first_data = IF data /\ @ = -1 THEN info.i ELSE @]
  /\ UNCHANGED <<guess, analysis>> /\ InfoStep

(* What the ioctls say, each of which may fail.                               *)
LinuxStatus ==
  /\ LinuxAt("status")
  /\ \E subchannel \in BOOLEAN :
       report' = Append(report, [what |-> "status", playing |-> subchannel /\ cd.playing])
  /\ IF info.no_analysis THEN Leave("success")
     ELSE info' = [info EXCEPT !.at = IF info.num_data = 0 THEN "audio" ELSE "walk", !.i = info.first_data]
  /\ UNCHANGED <<guess, analysis>> /\ InfoStep

(* A disc without data.  The start of track 1, when the disc has none, is      *)
(* what was in the variable.                                                   *)
LateStart == IF 1 \in TracksOf(cd) THEN {TrackLsn(cd, 1) > 100} ELSE BOOLEAN
LinuxAnalysis(fs) == PrintAnalysis(fs, "exit")

LinuxHidden ==
  /\ LinuxAt("audio")
  /\ \E late \in LateStart :
       IF late THEN guess' = LinuxGuessing("linux_hidden", 1, 0) /\ UNCHANGED <<info, report>>
       ELSE LinuxAnalysis(NoData) /\ UNCHANGED guess
  /\ UNCHANGED analysis /\ InfoStep

LinuxHiddenChecked ==
  /\ guess.at = "done" /\ guess.purpose = "linux_hidden"
  /\ guess' = Idle
  /\ LinuxAnalysis(IF guess.ret.type # "unknown" THEN Tell(guess.ret, {"hidden_track"})
                   ELSE [guess.ret EXCEPT !.type = "none"])
  /\ UNCHANGED analysis /\ InfoStep

(* The walk is that of cd-info, with the label out of the block read last.    *)
LinuxWalk == LinuxAt("walk") /\ PassOrGuess
LinuxSession == task = "linux" /\ SessionAsGuessed(buffer[0].name)

-----------------------------------------------------------------------------
Main(no_analysis, print, dvd) ==
  [at |-> "open", status |-> "none", i |-> 0, j |-> 2, num_audio |-> 0, num_data |-> 0,
   first_data |-> -1, first_audio |-> -1, data_start |-> 0, offset |-> 0, start |-> 0,
   fs |-> Kind("audio", {}), left |-> << >>, next |-> "none",
   no_analysis |-> no_analysis, print_iso9660 |-> print, show_dvd |-> dvd]

NoDisc == [first |-> 1, tracks |-> << >>, leadout |-> 0, at |-> << >>, bad |-> {}, mode |-> "none",
           playing |-> FALSE, tree |-> << >>]

InitInfo ==
  /\ task = "info" /\ cd \in KindDiscs
  /\ \E no_analysis, print, dvd \in BOOLEAN : info = Main(no_analysis, print, dvd)
  /\ search = [request |-> [need |-> Unknown, any |-> FALSE, drives |-> << >>], left |-> << >>, found |-> << >>]
InitLinux ==
  /\ task = "linux" /\ cd \in KindDiscs
  /\ \E no_analysis \in BOOLEAN : info = Main(no_analysis, FALSE, FALSE)
  /\ search = [request |-> [need |-> Unknown, any |-> FALSE, drives |-> << >>], left |-> << >>, found |-> << >>]
InitSearch ==
  /\ task = "search" /\ cd = NoDisc /\ info = Main(FALSE, FALSE, FALSE)
  /\ \E r \in Searches : search = [request |-> r, left |-> r.drives, found |-> << >>]
InitNone ==   \* nothing is to be told
  /\ task = "none" /\ cd = NoDisc /\ info = Main(FALSE, FALSE, FALSE)
  /\ search = [request |-> [need |-> Unknown, any |-> FALSE, drives |-> << >>], left |-> << >>, found |-> << >>]
  /\ buffer = [n \in 0 .. 5 |-> Blank]
  /\ guess = Idle /\ analysis = NoAnalysis /\ report = << >>
Init ==
  /\ InitInfo \/ InitLinux \/ InitSearch
  /\ buffer = [n \in 0 .. 5 |-> Blank]
  /\ guess = Idle /\ analysis = NoAnalysis /\ report = << >>

CdInfo ==
  \/ OpenDisc \/ TrackLine \/ Identify \/ HiddenTrack \/ HiddenChecked \/ ListDirectory \/ Listed
  \/ BeginData \/ WalkTrack \/ SessionGuessed \/ NextTrack \/ StopWalk

CdInfoLinux ==
  \/ LinuxOpen \/ LinuxLine \/ LinuxStatus \/ LinuxHidden \/ LinuxHiddenChecked \/ LinuxWalk \/ LinuxSession

Next == GuessCdType \/ GuessFilesystem \/ OpenDrive \/ JudgeDrive \/ CdInfo \/ CdInfoLinux

-----------------------------------------------------------------------------
(* Where on a volume the evidence for each thing that is told lies.           *)
Evidence ==
  [xa |-> <<16, "xa">>, photo_cd |-> <<0, "photo">>, cdtv |-> <<16, "cdtv">>, bootable |-> <<17, "el_torito">>,
   joliet |-> <<17, "joliet">>, video_cd |-> <<150, "vcd">>, svcd |-> <<150, "svcd">>, cvd |-> <<150, "svcd">>,
   xiso |-> <<16, "xbox">>, udf |-> <<16, "bea01">>, interactive |-> <<16, "cd_i">>, iso |-> <<16, "cd001">>,
   iso_hfs |-> <<0, "hfs">>, iso_udf |-> <<256, "anchor">>, iso_interactive |-> <<16, "cd_rtos">>,
   high_sierra |-> <<16, "cdrom">>, hfs |-> <<0, "hfs">>, ext2 |-> <<0, "ext2">>, panasonic |-> <<0, "3do">>,
   ufs |-> <<4, "ufs">>]

Shows(d, t, start, thing) ==
  LET block == Evidence[thing][1] IN
  /\ IF task = "linux" THEN start + block < d.leadout ELSE ~(SecCount(d, t) < block)
  /\ start + block \notin d.bad
  /\ Evidence[thing][2] \in On(d, start + block).marks

(* Everything a guess tells is on the disc, in the track asked about and in a *)
(* block that could be read; the size and the label are that volume's.        *)
ToldOfItsTrack ==
  guess.at = "done" /\ guess.ret.type # "audio" =>
    /\ \A thing \in (guess.ret.bits \cup {guess.ret.type}) \cap DOMAIN Evidence :
         Shows(cd, guess.track, guess.start, thing)
    /\ guess.ret.type \in IsoTypes =>
         /\ Shows(cd, guess.track, guess.start, "iso")
         /\ analysis.size = On(cd, guess.start + 16).value /\ analysis.label = On(cd, guess.start + 16).name
    /\ guess.ret.type \in {"udf", "iso_udf"} => analysis.version = On(cd, guess.start + 35).value
    /\ "joliet" \in guess.ret.bits => analysis.level = On(cd, guess.start + 17).value

(* The drives found are some of those searched, each with a disc that shows   *)
(* what was asked for.                                                        *)
FoundAsAsked ==
  \A k \in DOMAIN search.found :
    LET d == search.found[k]
        asked == search.request.need.bits \cap DOMAIN Evidence
        shown == {b \in asked : Shows(d, d.first, 0, b)}
    IN  /\ d \in ToSet(search.request.drives)
        /\ asked # {} => IF ~search.request.any THEN shown = asked
                         ELSE shown # {} \/ asked # search.request.need.bits

(* A disc that can be read, numbered from 1, of ISO 9660 volumes each as long *)
(* as its session, with nothing before its first track and no audio after its *)
(* data: cd-info reports the first data track of every session once, with     *)
(* that volume's size.  (An audio track behind the data is reported as a      *)
(* session too, with the size of the volume before it.)                       *)
DataTracks(d) == {t \in TracksOf(d) : Format(d, t) # "audio"}
Session(d, t) == d.tracks[t - d.first + 1].session
Opening(d) == {t \in DataTracks(d) : \A u \in DataTracks(d) : Session(d, u) = Session(d, t) => t <= u}
PlainSessions(d) ==
  /\ d.first = 1 /\ d.bad = {} /\ TrackLsn(d, 1) <= 100
  /\ \A t, u \in TracksOf(d) : Format(d, t) # "audio" /\ Format(d, u) = "audio" => u < t
  /\ \A t \in Opening(d) : {"cd001", "cdrom", "xbox", "bea01"} \cap On(d, StartOf(t) + 16).marks = {"cd001"}
  /\ \A t \in Opening(d) : "anchor" \notin On(d, StartOf(t) + 256).marks /\ 16 <= SecCount(d, t)

Reported(what) == SelectSeq(report, LAMBDA r : r.what = what)
SessionsReported ==
  task \in {"info", "linux"} /\ info.at = "exited" /\ info.status = "success" /\ ~info.no_analysis
    /\ PlainSessions(cd) /\ ~cd.playing /\ cd.mode # "dvd"
    /\ (task = "linux" => \A t \in DataTracks(cd) : Format(cd, t) = "data") =>
    /\ {r.track : r \in ToSet(Reported("session"))} = Opening(cd) \ {1}
    /\ Len(Reported("session")) = Cardinality(Opening(cd) \ {1})
    /\ \A r \in ToSet(Reported("session")) : r.size = On(cd, StartOf(r.track) + 16).value
    /\ 1 \in Opening(cd) => \E r \in ToSet(Reported("analysis")) : r.size = On(cd, 16).value

(* No directory is listed twice, and a list that met no error is of them all. *)
DirectoriesListed ==
  LET listed == Reported("directory") IN
  /\ \A a, b \in DOMAIN listed : a < b /\ Len(Reported("analysis")) = 1 => listed[a].path # listed[b].path
  /\ info.at = "exited" /\ listed # << >> /\ (\A k \in DOMAIN listed : listed[k].read) =>
       {listed[k].path : k \in DOMAIN listed} = DOMAIN cd.tree

(* The length in the id of an audio disc is that of the disc, to a second.    *)
IdTellsLength ==
  \A r \in ToSet(Reported("cddb")) :
    cd.first = 1 => 75 * r.id[2] - (cd.leadout - TrackLsn(cd, 1)) \in -74 .. 74

KindsAsOnDisc == ToldOfItsTrack /\ FoundAsAsked /\ SessionsReported /\ DirectoriesListed /\ IdTellsLength
===============================================================================
