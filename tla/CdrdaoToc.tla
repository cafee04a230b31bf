----------------------------- MODULE CdrdaoToc -----------------------------
(***************************************************************************)
(* CDRDAO TOC images: lib/driver/image/cdrdao.c.                           *)
(*                                                                         *)
(* cdio_is_tocfile parses the TOC without an image to fill (a dry run that *)
(* accepts or refuses), _init_cdrdao parses it again with one.  Every      *)
(* track may name a file of its own; a seek goes to the track's file, the  *)
(* sector reads to the first track's.                                      *)
(*                                                                         *)
(* A line is a keyword and what the parser makes of the words after it; a  *)
(* malformed line is one whose words it refuses.  A file is found from the *)
(* current directory, from the TOC's, or from both.  A byte of an image is *)
(* the offset it has in its file.                                          *)
(***************************************************************************)
EXTENDS Integers, Sequences, SequencesExt, FiniteSetsExt, Functions

CONSTANTS
  Sheets,      \* TOC files: sequences of lines, see IsSheet
  Here,        \* names that are found from the current directory
  Beside,      \* names that are found from the TOC's directory
  SizeOf,      \* the size of each of these files
  Header,      \* CDIO_CD_SYNC_SIZE + CDIO_CD_HEADER_SIZE
  Subheader,   \* CDIO_CD_SUBHEADER_SIZE
  Frame,       \* CDIO_CD_FRAMESIZE
  M2Raw,       \* M2RAW_SECTOR_SIZE
  Raw,         \* CDIO_CD_FRAMESIZE_RAW
  Form2End,    \* CDIO_CD_SYNC_SIZE + CDIO_CD_ECC_SIZE
  Pregap,      \* CDIO_PREGAP_SECTORS
  Lsns,        \* the sectors callers ask for
  Blocks,      \* how many at a time
  Offsets,     \* the offsets callers seek to
  Sizes        \* the sizes callers read

Global == {"CATALOG", "CD_DA", "CD_ROM", "CD_ROM_XA"}
OfTrack == {"FILE", "DATAFILE", "START", "PREGAP", "INDEX"}
Flags == {"COPY", "PRE_EMPHASIS", "FOUR_CHANNEL_AUDIO"}
Modes == {"AUDIO", "MODE1", "MODE1_RAW", "MODE2", "MODE2_FORM1", "MODE2_FORM2",
          "MODE2_FORM_MIX", "MODE2_RAW"}
Keywords == Global \cup OfTrack \cup Flags \cup
  {"TRACK", "NO", "TWO_CHANNEL_AUDIO", "ISRC", "SILENCE", "ZERO", "FIFO",
   "CD_TEXT", "LANGUAGE", "LANGUAGE_MAP", "{", "}", "field", "other"}

(* A line: times and lengths in sectors, 0 for what a keyword has none of. *)
IsLine(l) ==
  /\ l.kw \in Keywords
  /\ l.kw = "TRACK" => l.arg \in Modes \cup {"malformed"}
  /\ {l.n, l.start, l.length, l.offset} \subseteq Int

(* A TOC with tracks; NO and ISRC, which write to the entry of the current *)
(* track without looking whether there is one, come after a TRACK.         *)
IsSheet(s) ==
  /\ s \in Seq(Range(s)) /\ \A k \in DOMAIN s : IsLine(s[k])
  /\ \E k \in DOMAIN s : s[k].kw = "TRACK"
  /\ \A k \in DOMAIN s : s[k].kw \in {"NO", "ISRC"} => \E j \in 1 .. k : s[j].kw = "TRACK"

ASSUME CdrdaoTocAssumption ==
  /\ \A s \in Sheets : IsSheet(s)
  /\ DOMAIN SizeOf = Here \cup Beside /\ \A n \in Here \cup Beside : SizeOf[n] \in Nat
  /\ {Header, Subheader, Frame, M2Raw, Pregap} \subseteq Nat \ {0}
  /\ Form2End \in Nat /\ Raw = Header + M2Raw /\ Subheader + Frame < M2Raw
  /\ Lsns \subseteq Int /\ Blocks \subseteq Nat /\ Offsets \subseteq Nat /\ Sizes \subseteq Nat

VARIABLES
  sheet,   \* the TOC
  stage,   \* "probe", "rejected", "load", "failed", "open", "undefined"
  line,    \* i_line
  i,       \* position in tocent
  img,     \* the image's p_env, see EmptyImage
  offset,  \* the position of each track's data source
  pos,     \* p_env->pos: [lba, index, buff_offset], the index from 1 on
  call     \* the last call: [op, at, n, rc, got], got what it stored

vars == <<sheet, stage, line, i, img, offset, pos, call>>

Success == 0
Error == -1
Zero == -1       \* a byte of a buffer that nothing was read into
None == "none"   \* no data source
NotGiven == -1   \* a time or an offset that a line leaves out
Call(op, a, n, rc, got) == [op |-> op, at |-> a, n |-> n, rc |-> rc, got |-> got]

(* calloc leaves a format of 0, which is AUDIO's.                          *)
EmptyTrack ==
  [format |-> "AUDIO", blocksize |-> 0, datastart |-> 0, datasize |-> 0, endsize |-> 0,
   green |-> FALSE, start_lba |-> 0, pregap |-> 0, silence |-> 0, sec_count |-> 0,
   offset |-> 0, source |-> None, flags |-> {}, isrc |-> 0]
EmptyImage ==
  [tocent |-> << >>, disc_mode |-> "NO_INFO", mcn |-> 0, texts |-> {}, nest |-> 0, leadout |-> 0]

-----------------------------------------------------------------------------
(* TRACK: how a sector of each mode is laid out.  MODE2, MODE2_FORM1 and   *)
(* MODE2_FORM2 leave the block size as it was.                             *)
Laid(t, mode) ==
  LET L(format, start, size, end, green) ==
        [t EXCEPT !.format = format, !.datastart = start, !.datasize = size,
                  !.endsize = end, !.green = @ \/ green,
                  !.blocksize = IF mode \in {"MODE2", "MODE2_FORM1", "MODE2_FORM2"} THEN @ ELSE Raw]
  IN CASE mode = "AUDIO" -> L("AUDIO", 0, Raw, 0, FALSE)
       [] mode \in {"MODE1", "MODE1_RAW"} -> L("DATA", Header, Frame, Raw - Header - Frame, FALSE)
       [] mode = "MODE2" -> L("XA", Header, M2Raw, 0, FALSE)
       [] mode = "MODE2_FORM1" -> L("XA", Header, Raw, 0, FALSE)
       [] mode = "MODE2_FORM2" -> L("XA", Header + Subheader, Frame, Form2End, FALSE)
       [] mode = "MODE2_FORM_MIX" -> L("XA", Header + Subheader, M2Raw, 0, TRUE)
       [] mode = "MODE2_RAW" -> L("XA", Header + Subheader, Frame, 0, TRUE)

OwnDiscMode(mode) ==
  IF mode = "AUDIO" THEN "CD_DA" ELSE IF mode \in {"MODE1", "MODE1_RAW"} THEN "CD_DATA" ELSE "CD_XA"
DiscModeAfter(disc, mode) ==
  CASE disc = "NO_INFO" -> OwnDiscMode(mode)
    [] disc \in {OwnDiscMode(mode), "CD_MIXED"} -> disc
    [] OTHER -> "CD_MIXED"

-----------------------------------------------------------------------------
(* How a line ends.                                                        *)
Parsing == stage \in {"probe", "load"} /\ line < Len(sheet)
Loading == stage = "load"
Line == sheet[line + 1]
Same == UNCHANGED <<sheet, offset, pos, call>>
Take(image) ==
  /\ img' = IF Loading THEN image ELSE img
  /\ line' = line + 1 /\ UNCHANGED <<stage, i>> /\ Same
Reject ==
  /\ stage' = IF Loading THEN "failed" ELSE "rejected"
  /\ UNCHANGED <<line, i, img>> /\ Same
Is(kws) == Parsing /\ Line.kw \in kws
InTrack == i >= 0
Sound == Line.arg # "malformed"

Entry == img.tocent[i + 1]
WithEntry(t) == [img EXCEPT !.tocent[i + 1] = t]

Catalog ==
  /\ Is({"CATALOG"})
  /\ IF ~InTrack /\ Sound THEN Take([img EXCEPT !.mcn = line + 1]) ELSE Reject
DiscKind ==
  /\ Is({"CD_DA", "CD_ROM", "CD_ROM_XA"})
  /\ IF InTrack THEN Reject
     ELSE Take([img EXCEPT !.disc_mode = CASE Line.kw = "CD_DA" -> "CD_DA"
                             [] Line.kw = "CD_ROM" -> "CD_DATA" [] OTHER -> "CD_XA"])

(* The position moves before the mode is looked at.                        *)
Track ==
  /\ Is({"TRACK"})
  /\ i' = i + 1
  /\ IF Sound
     THEN /\ line' = line + 1 /\ stage' = stage
          /\ img' = IF ~Loading THEN img
               ELSE [img EXCEPT !.tocent = Append(@, Laid(EmptyTrack, Line.arg)),
                                !.disc_mode = DiscModeAfter(@, Line.arg)]
     ELSE stage' = (IF Loading THEN "failed" ELSE "rejected") /\ UNCHANGED <<line, img>>
  /\ Same

SetFlag == Is(Flags) /\ Take(IF InTrack /\ Loading THEN WithEntry([Entry EXCEPT !.flags = @ \cup {Line.kw}]) ELSE img)
ClearFlag ==
  \/ /\ Is({"TWO_CHANNEL_AUDIO"})
     /\ Take(IF InTrack /\ Loading THEN WithEntry([Entry EXCEPT !.flags = @ \ {"FOUR_CHANNEL_AUDIO"}]) ELSE img)
  \/ /\ Is({"NO"})
     /\ IF Sound THEN Take(WithEntry([Entry EXCEPT !.flags = @ \ {Line.arg}])) ELSE Reject
Isrc == Is({"ISRC"}) /\ IF Sound THEN Take(WithEntry([Entry EXCEPT !.isrc = line + 1])) ELSE Reject
Silence ==
  /\ Is({"SILENCE"}) /\ (InTrack \/ ~Sound)
  /\ IF Sound THEN Take(WithEntry([Entry EXCEPT !.silence = Line.n])) ELSE Reject
Ignored == Is({"ZERO", "LANGUAGE_MAP"}) /\ Take(img)
Refused == Is({"FIFO", "other"}) /\ Reject

-----------------------------------------------------------------------------
(* FILE and AUDIOFILE.  The name is looked for from the current directory, *)
(* in the dry run too; the length is compared with the file's only when    *)
(* the image is filled, and counted in data bytes; 0 stands for all of it. *)
OpenedFrom(kw) == IF kw = "DATAFILE" /\ stage = "probe" THEN Beside ELSE Here
WholeFile(t, name) == SizeOf[name] \div t.blocksize

TooLong(t, l) == l.length # NotGiven /\ l.length * t.datasize > SizeOf[l.name]
FileTrack(t, l) ==
  LET started == IF l.start = NotGiven THEN t ELSE [t EXCEPT !.start_lba = l.start + Pregap]
  IN IF l.length = NotGiven THEN [started EXCEPT !.source = l.name]
     ELSE [started EXCEPT !.source = l.name,
             !.sec_count = IF l.length = 0 THEN WholeFile(t, l.name) ELSE l.length]

WhenFilled == Loading => InTrack                              \* mutant of FileAllowed
FileAllowed == InTrack
(* With no block size the length of the whole file is a division by 0.     *)
Divides0 == Loading /\ Line.length = 0 /\ Entry.blocksize = 0
File ==
  /\ Is({"FILE"})
  /\ IF FileAllowed /\ Sound /\ Line.name \in OpenedFrom("FILE") /\ (Loading => ~TooLong(Entry, Line))
     THEN IF Divides0 THEN stage' = "undefined" /\ UNCHANGED <<line, i, img>> /\ Same
          ELSE Take(WithEntry(FileTrack(Entry, Line)))
     ELSE Reject

(* DATAFILE.  Without a start a track begins where the file before it      *)
(* ends, one pre-gap later; a start is taken as it is written.             *)
Previous == img.tocent[i]
PreviousBlocks == IF Previous.source = None THEN 0 ELSE SizeOf[Previous.source] \div Previous.blocksize
DataTrack(t, l) ==
  LET named == [t EXCEPT !.source = l.name, !.offset = IF l.offset = NotGiven THEN @ ELSE l.offset]
      base == IF i = 0 THEN t.start_lba ELSE Previous.start_lba + PreviousBlocks
  IN IF l.start # NotGiven THEN [named EXCEPT !.start_lba = l.start]
     ELSE [named EXCEPT !.offset = 0, !.start_lba = base + Pregap]
DividesPrevious == Loading /\ Line.start = NotGiven /\ i > 0 /\ Previous.blocksize = 0
DataFile ==
  /\ Is({"DATAFILE"})
  /\ IF InTrack /\ Sound /\ Line.name \in OpenedFrom("DATAFILE")
     THEN IF DividesPrevious THEN stage' = "undefined" /\ UNCHANGED <<line, i, img>> /\ Same
          ELSE Take(WithEntry(DataTrack(Entry, Line)))
     ELSE Reject

Start ==
  /\ Is({"START"})
  /\ IF InTrack /\ Sound
     THEN Take(WithEntry([Entry EXCEPT !.pregap = Entry.start_lba, !.start_lba = @ + Line.n]))
     ELSE Reject
PregapLine ==
  Is({"PREGAP"}) /\ IF InTrack /\ Sound THEN Take(WithEntry([Entry EXCEPT !.pregap = Line.n])) ELSE Reject
Index == Is({"INDEX"}) /\ IF InTrack /\ Sound THEN Take(img) ELSE Reject

(* CD_TEXT, which asks for a brace behind it, LANGUAGE, which takes any    *)
(* word, and the braces; a field's text goes to the disc or the track.     *)
Nested(n) == IF Line.kw = "CD_TEXT" \/ Line.arg = "{" THEN n + 1 ELSE n
CdText ==
  \/ /\ Is({"CD_TEXT", "LANGUAGE"})
     /\ IF Sound THEN Take([img EXCEPT !.nest = Nested(@)]) ELSE Reject
  \/ Is({"{"}) /\ Take([img EXCEPT !.nest = @ + 1])
  \/ Is({"}"}) /\ Take([img EXCEPT !.nest = IF @ > 0 THEN @ - 1 ELSE @])
  \/ Is({"field"}) /\ Take([img EXCEPT !.texts = @ \cup {[track |-> i + 1, line |-> line + 1]}])

-----------------------------------------------------------------------------
(* get_disc_last_lsn_cdrdao: the end of the last track, rounded up, from   *)
(* its count, its silence or its file.                                     *)
Tracks == img.tocent
LastTrack == Last(Tracks)
RoundedUp(bytes, size) == IF bytes % size = 0 THEN bytes \div size ELSE bytes \div size + 1
Remaining == IF LastTrack.source = None THEN LastTrack.silence
             ELSE SizeOf[LastTrack.source] - LastTrack.offset
LastLength == IF LastTrack.sec_count # 0 THEN LastTrack.sec_count
              ELSE RoundedUp(Remaining, LastTrack.blocksize)
NoEnd == LastTrack.sec_count = 0 /\ LastTrack.source = None /\ LastTrack.silence = 0
Overrun == LastTrack.sec_count = 0 /\ Remaining < 0
NoBlocks == LastTrack.sec_count = 0 /\ ~NoEnd /\ ~Overrun /\ LastTrack.blocksize = 0
(* A size below 0 is returned as it is; only -1 is taken for an error.     *)
LastLsn == IF Overrun THEN Remaining ELSE LastLength + LastTrack.start_lba - Pregap

EndOfSheet ==
  /\ stage \in {"probe", "load"} /\ line = Len(sheet)
  /\ \/ /\ stage = "probe" /\ stage' = "load" /\ line' = 0 /\ i' = -1
        /\ UNCHANGED <<img, offset>>
     \/ /\ stage = "load" /\ UNCHANGED <<line, i>>
        /\ offset' = [t \in DOMAIN Tracks |-> 0]
        /\ IF NoEnd THEN stage' = "failed" /\ UNCHANGED img
           ELSE IF NoBlocks THEN stage' = "undefined" /\ UNCHANGED img
           ELSE /\ stage' = IF LastLsn = -1 THEN "failed" ELSE "open"
                /\ img' = [img EXCEPT !.leadout = LastLsn,
                     !.tocent[Len(Tracks)].sec_count = LastLsn + Pregap - LastTrack.start_lba]
  /\ UNCHANGED <<sheet, pos, call>>

-----------------------------------------------------------------------------
(* Seeks and reads.                                                        *)
Smaller(a, b) == IF a < b THEN a ELSE b
FileSize(t) == IF Tracks[t].source = None THEN 0 ELSE SizeOf[Tracks[t].source]
Bytes(t, o, n) == [k \in 1 .. Smaller(n, IF o < FileSize(t) THEN FileSize(t) - o ELSE 0) |-> o + k - 1]
Open == stage = "open" /\ call.op \in {"open", "seek", "read"}
Kept == UNCHANGED <<sheet, stage, line, i, img>>

Before(size, t) == FoldLeft(+, 0, [k \in 1 .. t - 1 |-> size[k]])
Data == [t \in DOMAIN Tracks |-> Tracks[t].sec_count * Tracks[t].datasize]
Blocked == [t \in DOMAIN Tracks |-> Tracks[t].sec_count * Tracks[t].blocksize]
Counts == [t \in DOMAIN Tracks |-> Tracks[t].sec_count]
Reaching(o) == {t \in DOMAIN Tracks : Data[t] >= o - Before(Data, t)}
RealOffset(t, rest) ==
  Before(Blocked, t) + (rest \div Tracks[t].datasize) * Tracks[t].blocksize
    + (rest % Tracks[t].datasize) + Tracks[t].datastart

(* A track without a data source cannot be sought in.                      *)
Lseek(o) ==
  /\ Open
  /\ IF Reaching(o) = {}
     THEN /\ call' = Call("seek", o, 0, Error, << >>) /\ UNCHANGED offset
          /\ pos' = [pos EXCEPT !.lba = Before(Counts, Len(Tracks) + 1), !.index = Len(Tracks)]
     ELSE LET t == Min(Reaching(o))
              rest == o - Before(Data, t)
          IN /\ pos' = [lba |-> Before(Counts, t) + (rest \div Tracks[t].datasize), index |-> t,
                        buff_offset |-> rest % Tracks[t].datasize]
             /\ offset' = IF Tracks[t].source = None THEN offset
                          ELSE [offset EXCEPT ![t] = RealOffset(t, rest)]
             /\ call' = Call("seek", o, 0, IF Tracks[t].source = None THEN Error ELSE Success, << >>)
  /\ Kept

(* _read_cdrdao of what is left of the sector, at most: longer reads,      *)
(* which take the end of a sector twice, are not finished in the code.     *)
Read(n) ==
  /\ Open /\ n > 0 /\ n <= Tracks[pos.index].datasize - pos.buff_offset
  /\ LET got == Bytes(pos.index, offset[pos.index], n)
     IN /\ call' = Call("read", offset[pos.index], n, Len(got), got)
        /\ offset' = [offset EXCEPT ![pos.index] = @ + Len(got)]
  /\ UNCHANGED pos /\ Kept

(* check_lsn_blocks of read.c.                                             *)
OnDisc(lsn) == lsn <= img.leadout
Clipped(lsn, n) == IF lsn + n \in 0 .. img.leadout + 1 THEN n ELSE img.leadout - lsn + 1

(* The sector reads, all from the first track's file, whose bytes go to a  *)
(* buffer that holds Zero before.  A data sector is read whole and a part  *)
(* of it copied; one of which nothing can be read copies nothing.  The     *)
(* sectors of a mode 2 read go a frame apart, those of a mode 1 read as    *)
(* far apart as they are long.                                             *)
Part(op, form2) ==
  IF form2 = "yes" THEN [from |-> Header, size |-> M2Raw]
  ELSE [from |-> IF op = "mode1" THEN Header ELSE Header + Subheader, size |-> Frame]
Nth(lsn, k) == lsn + k - 1
Stride(op, part) == IF op = "mode2" THEN Frame ELSE part.size
SectorBytes(lsn) == Bytes(1, lsn * Raw, Raw)
Copies(lsn, n, stride, size, b) ==
  {k \in 1 .. n : SectorBytes(Nth(lsn, k)) # << >> /\ b - (k - 1) * stride \in 1 .. size}
DataBuffer(op, form2, lsn, n) ==
  LET part == Part(op, form2)
      stride == Stride(op, part)
  IN [b \in 1 .. (n - 1) * stride + part.size |->
        LET covers == Copies(lsn, n, stride, part.size, b)
            k == Max(covers)
            byte == part.from + b - (k - 1) * stride
        IN IF covers = {} \/ byte > Len(SectorBytes(Nth(lsn, k))) THEN Zero
           ELSE SectorBytes(Nth(lsn, k))[byte]]

SectorRead(asked, op, form2, lsn, n) ==
  IF lsn < 0 \/ Tracks[1].source = None
  THEN call' = Call(asked, lsn, n, Error, << >>) /\ UNCHANGED offset
  ELSE \/ LET got == Bytes(1, lsn * Raw, n * Raw) IN
          /\ op = "audio"
          /\ call' = Call(asked, lsn, n, IF got = << >> THEN 1 ELSE Success, got)
          /\ offset' = [offset EXCEPT ![1] = lsn * Raw + Len(got)]
       \/ LET last == Nth(lsn, n) IN
          /\ op # "audio"
          /\ call' = Call(asked, lsn, n, Success, DataBuffer(op, form2, lsn, n))
          /\ offset' = [offset EXCEPT ![1] = last * Raw + Len(SectorBytes(last))]

Name(op, form2) == IF op = "mode2" /\ form2 = "yes" THEN "mode2 form 2" ELSE op
ReadSectors(op, form2, lsn, n) ==
  /\ Open
  /\ IF OnDisc(lsn) /\ Clipped(lsn, n) > 0
     THEN SectorRead(Name(op, form2), op, form2, lsn, Clipped(lsn, n))
     ELSE /\ call' = Call(op, lsn, n, IF OnDisc(lsn) THEN Success ELSE Error, << >>)
          /\ UNCHANGED offset
  /\ UNCHANGED pos /\ Kept

(* read_data_sectors_image, by the format of the track of the sector.      *)
StartLsn(t) == Tracks[t].start_lba - Pregap
TracksAt(lsn) == {t \in DOMAIN Tracks : StartLsn(t) <= lsn /\
                    lsn < IF t < Len(Tracks) THEN StartLsn(t + 1) ELSE img.leadout}
ReadData(lsn, n) ==
  /\ Open /\ OnDisc(lsn) /\ n > 0
  /\ \/ /\ \A t \in TracksAt(lsn) : Tracks[t].format = "AUDIO"
        /\ call' = Call("data", lsn, n, Error, << >>) /\ UNCHANGED offset
     \/ \E t \in TracksAt(lsn) :
          /\ Tracks[t].format # "AUDIO"
          /\ SectorRead("data", IF Tracks[t].format = "DATA" THEN "mode1" ELSE "mode2", "no",
                        lsn, Clipped(lsn, n))
  /\ UNCHANGED pos /\ Kept

-----------------------------------------------------------------------------
Init ==
  /\ sheet \in Sheets /\ stage = "probe" /\ line = 0 /\ i = -1
  /\ img = EmptyImage /\ offset = << >>
  /\ pos = [lba |-> 0, index |-> 1, buff_offset |-> 0]
  /\ call = Call("open", 0, 0, Success, << >>)

Parse == Catalog \/ DiscKind \/ Track \/ SetFlag \/ ClearFlag \/ Isrc \/ Silence \/ Ignored
         \/ Refused \/ File \/ DataFile \/ Start \/ PregapLine \/ Index \/ CdText \/ EndOfSheet

Next ==
  \/ Parse
  \/ \E o \in Offsets : Lseek(o)
  \/ \E n \in Sizes : Read(n)
  \/ \E lsn \in Lsns, n \in Blocks :
       \/ \E op \in {"audio", "mode1", "mode2"}, form2 \in {"no", "yes"} : ReadSectors(op, form2, lsn, n)
       \/ ReadData(lsn, n)

Spec == Init /\ [][Next]_vars

-----------------------------------------------------------------------------
(* What cdio_is_tocfile accepts is refused by the load only for what the   *)
(* dry run does not look at: a length the file does not have, a data file  *)
(* that is not found from the current directory, and a last track that has *)
(* no end.                                                                 *)
RefusedForItsFiles ==
  stage = "failed" =>
    IF line < Len(sheet)
    THEN InTrack /\ (\/ Line.kw = "FILE" /\ TooLong(Entry, Line)
                     \/ Line.kw = "DATAFILE" /\ Line.name \notin Here)
    ELSE NoEnd \/ LastLsn = -1

(* The tracks of one file, one behind the other.                           *)
OneFile ==
  /\ \A t \in DOMAIN Tracks : /\ Tracks[t].source = Tracks[1].source /\ Tracks[t].source # None
                            /\ Tracks[t].blocksize = Raw /\ Tracks[t].sec_count >= 0
  /\ StartLsn(1) = 0
  /\ \A t \in 1 .. Len(Tracks) - 1 : StartLsn(t + 1) = StartLsn(t) + Tracks[t].sec_count

(* In an image of one file a seek and the sector reads mean the same bytes *)
(* by a sector: after a seek the track's data source stands where the data *)
(* of the sector the seek arrived at lie, so far into it as was asked.     *)
SeekFindsSectorData ==
  (stage = "open" /\ OneFile /\ call.op = "seek" /\ call.rc = Success) =>
    offset[pos.index] = pos.lba * Raw + Tracks[pos.index].datastart + pos.buff_offset

(* Data sectors are stored one behind the other, each from behind the      *)
(* header of its track's mode, out of the sectors asked for: the routine   *)
(* is chosen by the track, and several sectors are read one by one.        *)
SectorsInPlace ==
  (stage = "open" /\ call.op = "data" /\ call.rc = Success) =>
    \E t \in TracksAt(call.at) : \A b \in DOMAIN call.got :
      LET skip == IF Tracks[t].format = "DATA" THEN Header ELSE Header + Subheader
      IN call.got[b] \in {Zero, (call.at + (b - 1) \div Frame) * Raw + skip + ((b - 1) % Frame)}

(* "Reads nblocks of mode2 sectors from cd device into data starting from  *)
(* lsn" (cdrdao.c:1123): all of them, form 2 sectors too.                  *)
AllMode2SectorsStored ==
  (stage = "open" /\ call.op = "mode2 form 2" /\ call.rc = Success /\ call.got # << >>) =>
    \A k \in 1 .. Clipped(call.at, call.n) :
      LET first == Nth(call.at, k) * Raw + Header IN
      {b \in first .. first + M2Raw - 1 : b < FileSize(1)} \subseteq Range(call.got)
=============================================================================
