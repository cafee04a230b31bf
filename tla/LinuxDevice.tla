---------------------------- MODULE LinuxDevice ----------------------------
(***************************************************************************)
(* A CD-ROM drive under GNU/Linux, as lib/driver/gnu_linux.c drives it:    *)
(* the table of contents that read_toc_linux reads into the environment    *)
(* once, the getters that answer from it (with those of _cdio_generic.c    *)
(* and track.c), and the sector reads, with the mode 2 read's fallback     *)
(* from one access mode to the next.                                       *)
(*                                                                         *)
(* Each ioctl and command is a step of its own, since the user may change  *)
(* the disc between any two of them: the device is opened with O_NONBLOCK, *)
(* which does not lock the tray.  External: the disc and the drive.  Any   *)
(* ioctl may fail; a command that fails moves no data.                     *)
(***************************************************************************)
EXTENDS Integers, Sequences

CONSTANTS
  Discs,          \* the discs the user has
  NoDisc,         \* the drive is empty
  First, Last,    \* numbers of the first and last track of each disc
  MaxTracks,      \* CDIO_CD_MAX_TRACKS: 99, or fewer to check
  Tracks,         \* the track numbers callers ask about
  Lsns, Blocks    \* the sectors callers read, and how many at a time

LeadoutTrack == 170    \* CDIO_CDROM_LEADOUT_TRACK
InvalidTrack == 255    \* CDIO_INVALID_TRACK

ASSUME LinuxDeviceAssumption ==
  /\ NoDisc \notin Discs /\ MaxTracks \in 1 .. 99
  /\ First \in [Discs -> 1 .. MaxTracks] /\ Last \in [Discs -> 1 .. MaxTracks]
  /\ \A d \in Discs : First[d] <= Last[d]
  /\ Tracks \subseteq 0 .. MaxTracks
  /\ Lsns \subseteq Nat /\ Blocks \subseteq Nat \ {0}

VARIABLES
  disc,           \* external: the disc in the drive
  seen,           \* history: what was in the drive since the header was last read
  toc_init,       \* "no" or "yes"
  i_first_track, i_last_track, i_tracks,
  tocent,         \* which track of which disc each entry was read from
  track_flags,    \* the same of the flags
  pc,             \* "idle", or the ioctl or command that comes next
  at,             \* the loop counter i: a track's number, or the sectors read
  query,          \* the call that runs: [op, n, count]
  answer,         \* what the last call returned: [op, n, rc, from]
  access_mode,    \* how mode 2 sectors are read
  blocksize,      \* external: the block size the drive is set to
  buf,            \* the sector that the address in the read buffer names
  stored          \* the sectors the caller's buffer was filled with

toc == <<toc_init, i_first_track, i_last_track, i_tracks, tocent, track_flags>>
reader == <<access_mode, blocksize, buf, stored>>
vars == <<disc, seen, toc, pc, at, query, answer, reader>>

Blank == <<NoDisc, 0>>
Entries == (Discs \cup {NoDisc}) \X (0 .. 255)
Ok == 0          \* DRIVER_OP_SUCCESS, or a getter's success
Failed == -1
Query(op, n, count) == [op |-> op, n |-> n, count |-> count]
Result(rc, from) == [op |-> query.op, n |-> query.n, rc |-> rc, from |-> from]
NoAnswer == [op |-> "none", n |-> 0, rc |-> 0, from |-> Blank]

Sectors == {"mode1", "mode2"}
TocSteps == {"header", "entry", "leadout"}
Mode2Steps == {"mode2", "read10", "restore", "undo"}

TypeOK ==
  /\ disc \in Discs \cup {NoDisc} /\ seen \subseteq Discs \cup {NoDisc}
  /\ toc_init \in {"no", "yes"}
  /\ i_first_track \in 0 .. MaxTracks /\ i_last_track \in 0 .. MaxTracks
  /\ i_tracks \in 0 .. MaxTracks
  /\ tocent \in [0 .. MaxTracks -> Entries]
  /\ track_flags \in [0 .. MaxTracks -> Entries]
  /\ pc \in {"idle", "answer", "check", "mode1"} \cup TocSteps \cup Mode2Steps
  /\ at \in Nat
  /\ pc = "entry" => at \in i_first_track .. i_last_track
  /\ query.n \in Nat /\ query.count \in Nat
  /\ pc = "check" => query.op \in Sectors
  /\ access_mode \in {"IOCTL", "READ_CD", "READ_10"}
  /\ blocksize \in {2048, 2336}
  /\ buf \in Int /\ stored \in Seq(Int)

-----------------------------------------------------------------------------
(* The user takes the disc out, or puts one in.                            *)
Swap(d) ==
  /\ d # disc
  /\ disc' = d
  /\ seen' = IF pc \in {"entry", "leadout"} THEN seen \cup {d} ELSE seen
  /\ UNCHANGED <<toc, pc, at, query, answer, reader>>

-----------------------------------------------------------------------------
(* A call reads the table first, unless that was done: a sector read does  *)
(* for the leadout.  The copy permit and pre-emphasis flags are looked up  *)
(* without.                                                                *)
ReadsToc(op) == op \in Sectors \cup
  {"first_track", "num_tracks", "format", "green", "msf", "channels", "last_lsn"}
ReadAnyway(op) == ReadsToc(op)                           \* mutant of MustRead
MustRead(op) == ReadsToc(op) /\ toc_init = "no"

AfterToc(op) == IF op \in Sectors THEN "check" ELSE "answer"

Call(op, n, count) ==
  /\ pc = "idle"
  /\ query' = Query(op, n, count)
  /\ answer' = NoAnswer
  /\ pc' = IF MustRead(op) THEN "header" ELSE AfterToc(op)
  /\ at' = 0 /\ buf' = 0 /\ stored' = << >>
  /\ UNCHANGED <<disc, seen, toc, access_mode, blocksize>>

(* read_toc_linux.  An ioctl that fails leaves what was read before it.    *)
GiveUp ==
  /\ pc \in TocSteps
  /\ pc' = AfterToc(query.op)
  /\ UNCHANGED <<disc, seen, toc, at, query, answer, reader>>

ReadHeader ==
  /\ pc = "header" /\ disc \in Discs
  /\ i_first_track' = First[disc]
  /\ i_last_track' = Last[disc]
  /\ i_tracks' = Last[disc] - First[disc] + 1
  /\ at' = First[disc]
  /\ seen' = {disc}
  /\ pc' = "entry"
  /\ UNCHANGED <<disc, toc_init, tocent, track_flags, query, answer, reader>>

FlagsOfEntry(t) == t - i_first_track                     \* mutant of FlagsIndex
FlagsIndex(t) == t

MoreTracks(i) == i < i_last_track

ReadEntry ==
  /\ pc = "entry" /\ disc \in Discs /\ at \in First[disc] .. Last[disc]
  /\ tocent' = [tocent EXCEPT ![at - i_first_track] = <<disc, at>>]
  /\ track_flags' = [track_flags EXCEPT ![FlagsIndex(at)] = <<disc, at>>]
  /\ at' = at + 1
  /\ pc' = IF MoreTracks(at) THEN "entry" ELSE "leadout"
  /\ UNCHANGED <<disc, seen, toc_init, i_first_track, i_last_track, i_tracks,
                 query, answer, reader>>

ReadLeadout ==
  /\ pc = "leadout" /\ disc \in Discs
  /\ tocent' = [tocent EXCEPT ![i_tracks] = <<disc, LeadoutTrack>>]
  /\ toc_init' = "yes"
  /\ pc' = AfterToc(query.op)
  /\ UNCHANGED <<disc, seen, i_first_track, i_last_track, i_tracks, track_flags,
                 at, query, answer, reader>>

-----------------------------------------------------------------------------
(* What the getters make of the table, or of what there is of it.  The     *)
(* leadout is the entry after the last track's, and has a number of its    *)
(* own only for get_track_msf_linux.                                       *)
Lead == i_first_track + i_tracks
HasEntry(t) == i_first_track <= t /\ t <= Lead
EntryOf(t) == IF HasEntry(t) THEN Result(Ok, tocent[t - i_first_track])
                             ELSE Result(Failed, Blank)
LastTrackNum == Lead - 1

Answers ==
  LET t == query.n
  IN CASE query.op = "first_track" ->
            {Result(Ok, <<NoDisc, IF toc_init = "yes" THEN i_first_track ELSE InvalidTrack>>)}
       [] query.op = "num_tracks" ->
            {Result(Ok, <<NoDisc, IF toc_init = "yes" THEN i_tracks ELSE InvalidTrack>>)}
       [] query.op = "format" -> {EntryOf(t)}
       [] query.op = "green" ->
            {IF HasEntry(t) /\ t # Lead THEN EntryOf(t) ELSE Result(Failed, Blank)}
       [] query.op = "msf" ->
            {IF t = LeadoutTrack THEN EntryOf(Lead) ELSE EntryOf(t)}
       [] query.op = "channels" ->
            {IF toc_init = "yes" /\ t > LastTrackNum THEN Result(Failed, Blank)
             ELSE Result(Ok, track_flags[t])}
       [] query.op = "permit" -> {Result(Ok, track_flags[t])}
       [] query.op = "last_lsn" ->
            {Result(Ok, <<d, LeadoutTrack>>) : d \in {disc} \ {NoDisc}} \cup {Result(Failed, Blank)}

Answer ==
  /\ pc = "answer"
  /\ answer' \in Answers
  /\ pc' = "idle"
  /\ UNCHANGED <<disc, seen, toc, at, query, reader>>

-----------------------------------------------------------------------------
(* The requests of read.c: the table's leadout, or the blank entry in its  *)
(* place, refuses a read or cuts it short.  A mode 2 read puts the address *)
(* of its sector, for the ioctl, into the buffer that every access mode    *)
(* reads into.                                                             *)
AddressOf(i) == query.n + i

Return(rc) == answer' = Result(rc, Blank) /\ pc' = "idle"

CheckLsn ==
  /\ pc = "check"
  /\ \/ Return(Failed) /\ UNCHANGED <<query, at, buf>>
     \/ /\ tocent[i_tracks] # Blank
        /\ \E n \in 1 .. query.count : query' = Query(query.op, query.n, n)
        /\ pc' = query.op
        /\ at' = 0
        /\ buf' = IF query.op = "mode2" THEN AddressOf(0) ELSE buf
        /\ UNCHANGED answer
  /\ UNCHANGED <<disc, seen, toc, access_mode, blocksize, stored>>

(* _read_mode1_sectors_linux: lseek and read, sector by sector, until one  *)
(* does not return 0.  A read returns the number of bytes it read.         *)
Mode1Sector ==
  /\ pc = "mode1"
  /\ \/ \E rc \in {Failed, 1024} : Return(rc) /\ UNCHANGED <<at, stored>>
     \/ Return(2048) /\ stored' = Append(stored, AddressOf(at)) /\ UNCHANGED at
     \/ /\ IF at + 1 = query.count THEN Return(0) ELSE UNCHANGED <<pc, answer>>
        /\ at' = at + 1
        /\ UNCHANGED stored
  /\ UNCHANGED <<disc, seen, toc, query, access_mode, blocksize, buf>>

(* _read_mode2_sectors_linux has a sector: the loop over them goes on.     *)
SectorDone(sector) ==
  /\ stored' = Append(stored, sector)
  /\ at' = at + 1
  /\ IF at + 1 = query.count
       THEN Return(0) /\ buf' = sector
       ELSE pc' = "mode2" /\ buf' = AddressOf(at + 1) /\ UNCHANGED answer

SectorFails(rc) == Return(rc) /\ UNCHANGED <<at, stored, buf>>

(* The fallback of _read_mode2_sector_linux is kept for later reads.       *)
BackToReadCd == IF access_mode = "READ_CD" THEN "READ_10" ELSE "READ_CD"   \* mutant of NextMode
NextMode == IF access_mode = "READ_CD" THEN "READ_10" ELSE "IOCTL"
FallBack == access_mode' = NextMode /\ pc' = "mode2" /\ UNCHANGED <<at, stored, answer>>

(* CDROMREADMODE2 reads the sector whose address is in the buffer.         *)
Mode2Ioctl ==
  /\ pc = "mode2" /\ access_mode = "IOCTL"
  /\ SectorDone(buf) \/ SectorFails(1)
  /\ UNCHANGED <<disc, seen, toc, query, access_mode, blocksize>>

Mode2ReadCd ==
  /\ pc = "mode2" /\ access_mode = "READ_CD"
  /\ \/ SectorDone(AddressOf(at)) /\ UNCHANGED access_mode
     \/ FallBack /\ UNCHANGED buf
  /\ UNCHANGED <<disc, seen, toc, query, blocksize>>

(* READ_10: MODE SELECT sets the drive's block size, the command reads,    *)
(* and the block size is set back, after a failure too.                    *)
SelectBlocksize ==
  /\ pc = "mode2" /\ access_mode = "READ_10"
  /\ \/ blocksize' = 2336 /\ pc' = "read10" /\ UNCHANGED <<access_mode, at, stored, answer>>
     \/ FallBack /\ UNCHANGED blocksize
  /\ UNCHANGED <<disc, seen, toc, query, buf>>

Elsewhere == -1       \* the address that a sector's own first bytes look like
Read10 ==
  /\ pc = "read10"
  /\ \/ buf' = Elsewhere /\ pc' = "restore"
     \/ UNCHANGED buf /\ pc' = "undo"
  /\ UNCHANGED <<disc, seen, toc, at, query, answer, access_mode, blocksize, stored>>

LeftAsRead == blocksize                                  \* mutant of Restored
Restored == 2048

(* After a read that failed the result of the restore is not looked at.    *)
Undo ==
  /\ pc = "undo"
  /\ blocksize' \in {Restored, blocksize}
  /\ FallBack
  /\ UNCHANGED <<disc, seen, toc, query, buf>>

Restore ==
  /\ pc = "restore"
  /\ \/ blocksize' = Restored /\ SectorDone(AddressOf(at)) /\ UNCHANGED access_mode
     \/ FallBack /\ UNCHANGED <<blocksize, buf>>
  /\ UNCHANGED <<disc, seen, toc, query>>

-----------------------------------------------------------------------------
(* set_arg_linux of "access-mode" converts the key instead of the value,   *)
(* and the key names no mode (str_to_access_mode_linux).                   *)
SetAccessMode ==
  /\ pc = "idle"
  /\ access_mode' = "IOCTL"
  /\ query' = Query("set_arg", 0, 0)
  /\ answer' = [op |-> "set_arg", n |-> 0, rc |-> Ok, from |-> Blank]
  /\ UNCHANGED <<disc, seen, toc, pc, at, blocksize, buf, stored>>

-----------------------------------------------------------------------------
(* cdio_open_am_linux with each of the access modes.                       *)
Init ==
  /\ disc \in Discs \cup {NoDisc}
  /\ seen = {}
  /\ toc_init = "no"
  /\ i_first_track = 0 /\ i_last_track = 0 /\ i_tracks = 0
  /\ tocent = [k \in 0 .. MaxTracks |-> Blank]
  /\ track_flags = [t \in 0 .. MaxTracks |-> Blank]
  /\ pc = "idle"
  /\ at = 0
  /\ query = Query("none", 0, 0)
  /\ answer = NoAnswer
  /\ access_mode \in {"IOCTL", "READ_CD", "READ_10"}
  /\ blocksize = 2048
  /\ buf = 0
  /\ stored = << >>

ReadToc == GiveUp \/ ReadHeader \/ ReadEntry \/ ReadLeadout
Mode2Sector == Mode2Ioctl \/ Mode2ReadCd \/ SelectBlocksize \/ Read10 \/ Undo \/ Restore
Calls == ReadToc \/ Answer \/ CheckLsn \/ Mode1Sector \/ Mode2Sector
Next ==
  \/ \E d \in Discs \cup {NoDisc} : Swap(d)
  \/ \E op \in {"first_track", "num_tracks", "last_lsn"} : Call(op, 0, 0)
  \/ \E op \in {"format", "green", "channels", "permit"}, t \in Tracks : Call(op, t, 0)
  \/ \E t \in Tracks \cup {LeadoutTrack} : Call("msf", t, 0)
  \/ \E op \in Sectors, lsn \in Lsns, n \in Blocks : Call(op, lsn, n)
  \/ SetAccessMode
  \/ Calls

(* The caller's thread runs each call to its end.                          *)
Spec == Init /\ [][Next]_vars /\ WF_vars(Calls)

-----------------------------------------------------------------------------
(* A table that was read whole names the tracks of the disc or discs that  *)
(* were in the drive since its header was read, and the flags are those of *)
(* its entries: nothing is left of a reading that was given up before, of  *)
(* whatever disc (read_toc_linux).                                         *)
EntriesRead(n) ==
  \A k \in 0 .. n - 1 :
    /\ tocent[k][1] \in seen \ {NoDisc}
    /\ tocent[k][2] = i_first_track + k
    /\ track_flags[i_first_track + k] = tocent[k]

TableOfOneReading ==
  toc_init = "yes" =>
    /\ EntriesRead(i_tracks)
    /\ tocent[i_tracks][1] \in seen \ {NoDisc}
    /\ tocent[i_tracks][2] = LeadoutTrack

(* What a caller was told of the tracks stays true of the environment: a   *)
(* table that was read is never read again, not even when the disc was     *)
(* changed (the toc_init tests of gnu_linux.c and _cdio_generic.c).        *)
TableNeverChanges == [][toc_init = "yes" => UNCHANGED toc]_vars

(* With the table read, a getter that succeeds answers with the entry of   *)
(* the track that was asked about, the leadout under both its numbers, and *)
(* never with one that was not read (the range checks of gnu_linux.c).     *)
AnswersFromTable ==
  toc_init = "yes" /\ answer.rc = Ok =>
    /\ answer.op \in {"msf", "format", "green"} =>
         /\ answer.from[1] \in seen \ {NoDisc}
         /\ answer.from[2] = IF answer.n \in {Lead, LeadoutTrack} THEN LeadoutTrack ELSE answer.n
    /\ answer.op = "channels" =>
         answer.n < i_first_track \/ answer.from[2] = answer.n

(* READ_10 changes the drive's block size, which 2048-byte reads rely on:  *)
(* between calls it is set back, or the driver has stopped using commands  *)
(* that change it (_read_mode2_sectors_mmc, with any command failing).     *)
BlockSizeKnown == pc = "idle" /\ blocksize # 2048 => access_mode = "IOCTL"

(* A mode 2 read that succeeds stores the sectors asked for, one after the *)
(* other, whichever access modes failed on the way, unless the block size  *)
(* could not be set back (_read_mode2_sector_linux's retry).               *)
Mode2ReadsAskedSectors ==
  answer.op = "mode2" /\ answer.rc = 0 /\ blocksize = 2048 =>
    stored = [i \in 1 .. query.count |-> query.n + i - 1]

(* Every call ends, whichever ioctls and commands fail and however often   *)
(* the disc is changed: the retries of a mode 2 read run out of access     *)
(* modes.                                                                  *)
CallsEnd == pc # "idle" ~> pc = "idle"
=============================================================================
