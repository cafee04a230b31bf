------------------------------ MODULE CueSheet ------------------------------
(***************************************************************************)
(* Opening a BIN/CUE image: lib/driver/image/bincue.c.                     *)
(*                                                                         *)
(* cdio_is_cuefile first runs parse_cuefile over the sheet with no image   *)
(* to fill (cd is NULL, a dry run that only accepts or rejects); then      *)
(* _init_bincue runs the same parser with one.  The dry run's lines are    *)
(* chosen one by one and kept in sheet, and the second run reads them      *)
(* again.  A line is a keyword and what the parser makes of its words; a   *)
(* string strdup'ed from a line is the number of that line.                *)
(***************************************************************************)
EXTENDS Integers, Sequences, FiniteSets, FiniteSetsExt

CONSTANTS
  Lines,       \* the lines of cue sheets: [kw, arg, n, at, flags]
  MaxLines,    \* bound on the length of a sheet
  LeadLsns,    \* sizes of the BIN file, in sectors
  Pregap       \* CDIO_PREGAP_SECTORS, 150 in the code

Keywords == {"REM", "CATALOG", "CDTEXTFILE", "FILE", "TRACK", "FLAGS", "ISRC",
             "PREGAP", "INDEX", "TITLE", "other"}

ASSUME CueSheetAssumption ==
  /\ \A l \in Lines : l.kw \in Keywords /\ l.n \in Nat /\ l.at \in Int
  /\ MaxLines \in Nat /\ MaxLines < 100
  /\ LeadLsns \subseteq Nat
  /\ Pregap \in Nat

VARIABLES
  pc,       \* "probe", "rejected", "load", "failed", "open", "freed"
  sheet,    \* the lines of the cue sheet, as far as the dry run has read it
  line,     \* i_line
  i,        \* position in tocent
  b_first_index_for_track,   \* "no" or "yes"
  img,      \* the image's p_env
  heap      \* the strings allocated and not freed

vars == <<pc, sheet, line, i, b_first_index_for_track, img, heap>>

Loading == pc = "load"        \* cd is not NULL
ThisLine == line + 1

-----------------------------------------------------------------------------
(* How a sector of each track mode is laid out.  MODE2/2048 and MODE2/2324 *)
(* leave the last three fields as calloc made them.  A second test for     *)
(* MODE2/2336 further down is never reached.                               *)
Layout(mode) ==
  LET L(f, block, start, size, end) ==
        [format |-> f, blocksize |-> block, datastart |-> start,
         datasize |-> size, endsize |-> end]
  IN CASE mode = "AUDIO"      -> L("AUDIO", 2352, 0, 2352, 0)
       [] mode = "MODE1/2048" -> L("DATA", 2048, 0, 2048, 0)
       [] mode = "MODE1/2352" -> L("DATA", 2352, 12 + 4, 2048, 4 + 8 + 276)
       [] mode = "MODE2/2336" -> L("XA", 2336, 12 + 4, 2336, 0)
       [] mode = "MODE2/2048" -> L("XA", 2048, 0, 0, 0)
       [] mode = "MODE2/2324" -> L("XA", 2324, 0, 0, 0)
       [] mode = "MODE2/2352" -> L("XA", 2352, 12 + 4 + 8, 2048, 12 + 276)

Modes == {"AUDIO", "MODE1/2048", "MODE1/2352", "MODE2/2336", "MODE2/2048",
          "MODE2/2324", "MODE2/2352"}

(* The disc mode a track of each mode stands for.                          *)
OwnDiscMode(mode) ==
  CASE mode = "AUDIO" -> "CD_DA"
    [] mode \in {"MODE1/2048", "MODE1/2352", "MODE2/2336"} -> "CD_DATA"
    [] OTHER -> "CD_XA"

DiscModeAfter(disc, mode) ==
  CASE disc = "NO_INFO" -> OwnDiscMode(mode)
    [] disc \in {OwnDiscMode(mode), "CD_MIXED"} -> disc
    [] OTHER -> "CD_MIXED"

EmptyTrack ==
  [layout |-> [format |-> "AUDIO", blocksize |-> 0, datastart |-> 0,
               datasize |-> 0, endsize |-> 0],
   start_lba |-> 0, pregap |-> 0, silence |-> 0, sec_count |-> 0,
   num_indices |-> 0, flags |-> {}, isrc |-> 0, filename |-> 0]

(* The p_env that cdio_open_cue allocates, with the BIN's size.            *)
EmptyImage(lead) ==
  [lead_lsn |-> lead, i_tracks |-> 0, i_first_track |-> 1, disc_mode |-> "NO_INFO",
   tocent |-> [t \in 0 .. MaxLines |-> EmptyTrack], mcn |-> 0,
   cdtextfile |-> 0, titles |-> {}]

-----------------------------------------------------------------------------
(* The ways a line ends: the parser goes on, with the image changed when   *)
(* there is one, or leaves through err_exit.                               *)
Take(image) ==
  /\ img' = IF Loading THEN image ELSE img
  /\ pc' = pc
Reject(image) ==
  /\ img' = IF Loading THEN image ELSE img
  /\ pc' = IF Loading THEN "failed" ELSE "rejected"
StrDup == heap' = IF Loading THEN heap \cup {ThisLine} ELSE heap
Stay == UNCHANGED <<i, b_first_index_for_track>>

NoTrackLoaded == img.i_tracks = 0                      \* mutant of InGlobalSection
InGlobalSection == i = -1

Rem(l) == l.kw = "REM" /\ Take(img) /\ Stay /\ UNCHANGED heap

(* strdup comes before the look for further words.                         *)
Catalog(l) ==
  /\ l.kw = "CATALOG"
  /\ \/ InGlobalSection /\ l.arg = "digits" /\ Take([img EXCEPT !.mcn = ThisLine]) /\ StrDup
     \/ InGlobalSection /\ l.arg = "trailing" /\ Reject([img EXCEPT !.mcn = ThisLine]) /\ StrDup
     \/ (~InGlobalSection \/ l.arg = "malformed") /\ Reject(img) /\ UNCHANGED heap
  /\ Stay

(* Only the second run opens the file of CD-TEXT packs.                    *)
CdtextFile(l) ==
  /\ l.kw = "CDTEXTFILE"
  /\ \/ l.arg = "packs" /\ Take([img EXCEPT !.cdtextfile = ThisLine])
     \/ l.arg = "unreadable" /\ IF Loading THEN Reject(img) ELSE Take(img)
     \/ l.arg = "bare" /\ Reject(img)
  /\ Stay /\ UNCHANGED heap

(* The name goes to the entry of the track to come.                        *)
FileEntry(k) == k + 1
File(l) ==
  /\ l.kw = "FILE"
  /\ \/ /\ l.arg = "named"
        /\ Take([img EXCEPT !.tocent[FileEntry(i)].filename = ThisLine])
        /\ StrDup
     \/ l.arg = "bare" /\ Reject(img) /\ UNCHANGED heap
  /\ Stay

-----------------------------------------------------------------------------
(* The entry and i_tracks are set before the mode is looked at; a track    *)
(* number that is out of sequence is only logged.                          *)
Numbered(l) == [img EXCEPT !.i_first_track = IF InGlobalSection THEN l.n ELSE @]
WithTrack(l) == [Numbered(l) EXCEPT !.i_tracks = @ + 1]
WithMode(l) ==
  [WithTrack(l) EXCEPT !.tocent[img.i_tracks].layout = Layout(l.arg),
                       !.tocent[img.i_tracks].num_indices = 0,
                       !.disc_mode = DiscModeAfter(@, l.arg)]

IndexFlagKept == b_first_index_for_track               \* mutant of IndexFlagCleared
IndexFlagCleared == "no"
ModeWordRead ==
  /\ i' = i + 1
  /\ b_first_index_for_track' = IF Loading THEN IndexFlagCleared ELSE b_first_index_for_track

Track(l) ==
  /\ l.kw = "TRACK"
  /\ \/ /\ l.n \in 1 .. 99 /\ l.arg \in Modes
        /\ Take(WithMode(l))
        /\ ModeWordRead
     \/ l.n \in 1 .. 99 /\ l.arg = "unknown" /\ Reject(WithTrack(l)) /\ ModeWordRead
     \/ l.n \in 1 .. 99 /\ l.arg = "none" /\ Reject(Numbered(l)) /\ Stay
     \/ l.n \notin 1 .. 99 /\ Reject(img) /\ Stay
  /\ UNCHANGED heap

Flags(l) ==
  /\ l.kw = "FLAGS"
  /\ LET flagged == [img EXCEPT !.tocent[i].flags = @ \cup l.flags]
     IN \/ ~InGlobalSection /\ l.arg = "known" /\ Take(flagged)
        \/ ~InGlobalSection /\ l.arg = "unknown" /\ Reject(flagged)
        \/ InGlobalSection /\ Reject(img)
  /\ Stay /\ UNCHANGED heap

Isrc(l) ==
  /\ l.kw = "ISRC"
  /\ \/ /\ ~InGlobalSection /\ l.arg = "code"
        /\ Take([img EXCEPT !.tocent[i].isrc = ThisLine])
        /\ StrDup
     \/ (InGlobalSection \/ l.arg = "bare") /\ Reject(img) /\ UNCHANGED heap
  /\ Stay

(* The pre-gap of silence: the length is converted as if it were a place.  *)
PregapLine(l) ==
  /\ l.kw = "PREGAP"
  /\ \/ /\ ~InGlobalSection /\ l.arg = "msf"
        /\ Take([img EXCEPT !.tocent[i].silence = l.at + Pregap])
     \/ /\ ~InGlobalSection /\ l.arg = "trailing"
        /\ Reject([img EXCEPT !.tocent[i].silence = l.at + Pregap])
     \/ (InGlobalSection \/ l.arg = "malformed") /\ Reject(img)
  /\ Stay /\ UNCHANGED heap

-----------------------------------------------------------------------------
(* INDEX 01 places the track; the one before it ends where this one        *)
(* starts, less the pre-gap when there is room for one.                    *)
PregapAlwaysOff(prev, start) == start - prev - Pregap  \* mutant of PrevSecCount
PrevSecCount(prev, start) ==
  CASE start < prev -> 0
    [] start >= prev + Pregap -> start - prev - Pregap
    [] OTHER -> start - prev

WithIndex1(l) ==
  LET this == img.i_tracks - 1
      start == IF b_first_index_for_track = "no" THEN l.at + Pregap
               ELSE img.tocent[this].start_lba
      placed == [img.tocent EXCEPT ![this].start_lba = start, ![this].num_indices = @ + 1]
  IN [img EXCEPT !.tocent =
        IF img.i_tracks > 1
        THEN [placed EXCEPT ![this - 1].sec_count = PrevSecCount(placed[this - 1].start_lba, start)]
        ELSE placed]

Index(l) ==
  /\ l.kw = "INDEX"
  /\ \/ /\ ~InGlobalSection /\ l.arg = "msf" /\ l.n = 0
        /\ Take([img EXCEPT !.tocent[img.i_tracks - 1].pregap = l.at + Pregap])
        /\ UNCHANGED b_first_index_for_track
     \/ /\ ~InGlobalSection /\ l.arg = "msf" /\ l.n = 1
        /\ Take(WithIndex1(l))
        /\ b_first_index_for_track' = IF Loading THEN "yes" ELSE b_first_index_for_track
     \/ /\ ~InGlobalSection /\ l.arg = "msf" /\ l.n > 1
        /\ Take(img)
        /\ UNCHANGED b_first_index_for_track
     \/ /\ InGlobalSection \/ l.arg = "malformed"
        /\ Reject(img)
        /\ UNCHANGED b_first_index_for_track
  /\ UNCHANGED <<i, heap>>

(* A CD-Text keyword names the disc or, after a TRACK line, the track.     *)
TextTrack == IF InGlobalSection THEN 0 ELSE img.i_first_track + i
Title(l) ==
  /\ l.kw = "TITLE"
  /\ Take([img EXCEPT !.titles = {t \in @ : t.track # TextTrack}
                                  \cup {[track |-> TextTrack, text |-> ThisLine]}])
  /\ Stay /\ UNCHANGED heap

Unrecognized(l) == l.kw = "other" /\ Reject(img) /\ Stay /\ UNCHANGED heap

-----------------------------------------------------------------------------
(* fgets: the dry run meets new lines, the second run the same ones.       *)
ReadLine(l) ==
  /\ \/ pc = "probe" /\ Len(sheet) < MaxLines /\ sheet' = Append(sheet, l)
     \/ Loading /\ line < Len(sheet) /\ l = sheet[ThisLine] /\ UNCHANGED sheet
  /\ line' = ThisLine

ParseLine(l) ==
  /\ ReadLine(l)
  /\ \/ Rem(l) \/ Catalog(l) \/ CdtextFile(l) \/ File(l)
     \/ Track(l) \/ Flags(l) \/ Isrc(l) \/ PregapLine(l) \/ Index(l)
     \/ Title(l) \/ Unrecognized(l)

(* The dry run came to the end of the sheet: cdio_open_cue starts over     *)
(* with an image.                                                          *)
ProbeAccepts ==
  /\ pc = "probe"
  /\ pc' = "load"
  /\ line' = 0
  /\ i' = -1
  /\ b_first_index_for_track' = "no"
  /\ UNCHANGED <<sheet, img, heap>>

(* The rest of _init_bincue: the leadout's entry, and a sector count that  *)
(* is meant for the last track.  An index below 0 falls outside tocent.    *)
LastEntry == img.i_tracks - img.i_first_track

WithLeadout ==
  LET placed == [img.tocent EXCEPT ![img.i_tracks].start_lba = img.lead_lsn + Pregap]
  IN [img EXCEPT !.tocent =
        IF LastEntry \in DOMAIN placed
        THEN [placed EXCEPT ![LastEntry].sec_count =
                img.lead_lsn - placed[LastEntry].start_lba + Pregap]
        ELSE placed]

LoadEnds ==
  /\ Loading
  /\ line = Len(sheet)
  /\ pc' = "open"
  /\ img' = WithLeadout
  /\ UNCHANGED <<sheet, line, i, b_first_index_for_track, heap>>

(* _free_image: cdio_open_cue calls it when the second run fails, and      *)
(* cdio_destroy when the image is no longer wanted.                        *)
OneTrackShort == {img.mcn} \cup UNION {{img.tocent[t].filename, img.tocent[t].isrc} :
                                       t \in 1 .. img.i_tracks - 1}   \* mutant of Freed
Freed == {img.mcn} \cup UNION {{img.tocent[t].filename, img.tocent[t].isrc} :
                               t \in 0 .. img.i_tracks - 1}
FreeImage ==
  /\ pc \in {"failed", "open"}
  /\ pc' = "freed"
  /\ heap' = heap \ Freed
  /\ UNCHANGED <<sheet, line, i, b_first_index_for_track, img>>

Init ==
  /\ pc = "probe"
  /\ sheet = << >>
  /\ line = 0
  /\ i = -1
  /\ b_first_index_for_track = "no"
  /\ \E lead \in LeadLsns : img = EmptyImage(lead)
  /\ heap = {}

Next == (\E l \in Lines : ParseLine(l)) \/ ProbeAccepts \/ LoadEnds \/ FreeImage

Spec == Init /\ [][Next]_vars
-----------------------------------------------------------------------------
(* The sheet, read as a whole.  Track t of tocent is the one of the        *)
(* (t + 1)-st TRACK line, and Own(t) the lines under it.                   *)
LinesOf(kw, from, to) == {k \in from .. to : sheet[k].kw = kw}
TrackLines(to) == LinesOf("TRACK", 1, to)
TracksBefore(k) == Cardinality(TrackLines(k - 1))
Own(t) == {k \in 1 .. Len(sheet) : TracksBefore(k) = t + 1}
OwnLines(t, kw) == {k \in Own(t) : sheet[k].kw = kw}
LastOf(S) == IF S = {} THEN 0 ELSE Max(S)
Index1Lines(t) == {k \in OwnLines(t, "INDEX") : sheet[k].n = 1}

(* What the dry run accepted the second run does too, as long as the files *)
(* of CD-TEXT packs can be read.                                           *)
ProbeAgreesWithLoad ==
  pc = "failed" => sheet[line].kw = "CDTEXTFILE" /\ sheet[line].arg = "unreadable"

(* i is "same as cd->gen.i_tracks - 1" (bincue.c:272), in the dry run,     *)
(* which has no i_tracks, as well: both count the TRACK lines.             *)
PositionIsTrackCount ==
  /\ pc \in {"probe", "load"} => i = Cardinality(TrackLines(line)) - 1
  /\ Loading => img.i_tracks = i + 1

(* The last track of an open image runs up to the leadout, when the first  *)
(* track is number 1: the entry that gets the count is the one of track    *)
(* number i_tracks - i_first_track + 1.                                    *)
LastTrackCounted ==
  (pc = "open" /\ img.i_tracks > 0 /\ img.i_first_track = 1) =>
    LET last == img.tocent[img.i_tracks - 1]
    IN last.sec_count = img.tocent[img.i_tracks].start_lba - last.start_lba

(* The disc mode tells which formats the tracks have: one, or a mixture.   *)
(* A MODE2/2336 track has the format XA and counts as CD_DATA.             *)
DiscModeMatchesTracks ==
  (pc = "open" /\ \A t \in 0 .. img.i_tracks - 1 : img.tocent[t].layout.blocksize # 2336) =>
    LET formats == {img.tocent[t].layout.format : t \in 0 .. img.i_tracks - 1}
    IN img.disc_mode = CASE formats = {} -> "NO_INFO"
                         [] formats = {"AUDIO"} -> "CD_DA"
                         [] formats = {"DATA"} -> "CD_DATA"
                         [] formats = {"XA"} -> "CD_XA"
                         [] OTHER -> "CD_MIXED"

(* Each track has the place of its first INDEX 01, the flags, ISRC and     *)
(* title given below its TRACK line, and the file named last before it.    *)
TracksAsWritten ==
  pc = "open" =>
    /\ img.i_tracks = Cardinality(TrackLines(Len(sheet)))
    /\ \A t \in 0 .. img.i_tracks - 1 :
         LET entry == img.tocent[t]
             files == {k \in LinesOf("FILE", 1, Len(sheet)) : TracksBefore(k) = t}
         IN /\ entry.start_lba = IF Index1Lines(t) = {} THEN 0
                                 ELSE sheet[Min(Index1Lines(t))].at + Pregap
            /\ entry.flags = UNION {sheet[k].flags : k \in OwnLines(t, "FLAGS")}
            /\ entry.isrc = LastOf(OwnLines(t, "ISRC"))
            /\ entry.filename = LastOf(files)
            /\ \A k \in {LastOf(OwnLines(t, "TITLE"))} \ {0} :
                 [track |-> img.i_first_track + t, text |-> k] \in img.titles
    /\ Cardinality(img.titles) =
         Cardinality({TracksBefore(k) : k \in LinesOf("TITLE", 1, Len(sheet))})

(* An open image is what the sheet says: the tracks are as written, their  *)
(* number was right at each line, the last one runs up to the leadout and  *)
(* the disc mode sums their formats up (parse_cuefile, _init_bincue).      *)
LoadedAsWritten ==
  PositionIsTrackCount /\ TracksAsWritten /\ LastTrackCounted /\ DiscModeMatchesTracks

(* Tracks that follow one another on the disc do not overlap, and at most  *)
(* a pre-gap of sectors belongs to neither (when the first track is not    *)
(* number 1, the count meant for the last track overwrites an earlier one).*)
TracksDoNotOverlap ==
  (pc = "open" /\ img.i_first_track = 1) =>
    \A t \in 0 .. img.i_tracks - 2 :
      LET room == img.tocent[t + 1].start_lba - img.tocent[t].start_lba
      IN (Index1Lines(t) # {} /\ Index1Lines(t + 1) # {} /\ room >= 0) =>
           img.tocent[t].sec_count \in room - Pregap .. room /\ img.tocent[t].sec_count >= 0

(* Strings outlive the image only when their line was superseded: by a     *)
(* line of its kind in the same section, or because no TRACK line followed *)
(* the FILE line that was to name its file.                                *)
Superseded(k) ==
  \/ \E m \in k + 1 .. line : sheet[m].kw = sheet[k].kw /\ TracksBefore(m) = TracksBefore(k)
  \/ sheet[k].kw = "FILE" /\ TracksBefore(k) = TracksBefore(line + 1)
OnlySupersededStringsLeak == pc = "freed" => \A k \in heap : Superseded(k)
=============================================================================
