------------------------------ MODULE ImageRead ------------------------------
(***************************************************************************)
(* Reading an open BIN/CUE image: cdio_lseek, cdio_read and the sector     *)
(* reads of lib/driver/read.c over lib/driver/image/bincue.c and           *)
(* read_data_sectors_image of image_common.c.                              *)
(*                                                                         *)
(* All of them move the one position of the image's data source, which     *)
(* behaves as the cursor of module ByteCursor.  A byte is the offset it    *)
(* has in the BIN file, so a result shows where it was read from.  The     *)
(* sector of 2352 bytes is scaled down: its parts are constants.           *)
(***************************************************************************)
EXTENDS Integers, Sequences, SequencesExt, FiniteSetsExt

CONSTANTS
  Images,     \* open images: [tracks, size], see IsImage
  Header,     \* CDIO_CD_SYNC_SIZE + CDIO_CD_HEADER_SIZE
  Subheader,  \* CDIO_CD_SUBHEADER_SIZE
  Frame,      \* CDIO_CD_FRAMESIZE, the data of a sector
  Raw,        \* CDIO_CD_FRAMESIZE_RAW, a whole sector
  Pregap,     \* CDIO_PREGAP_SECTORS
  Entries,    \* CDIO_CD_MAX_TRACKS + 1, the entries of tocent
  Lsns,       \* the sectors callers ask for
  Blocks,     \* how many at a time
  Offsets,    \* the offsets callers seek to
  Sizes,      \* the sizes callers read
  MaxLba      \* bound: no read starts when pos.lba is beyond it

(* A track as parse_cuefile left it; the sectors of an image are blocks of *)
(* blocksize bytes in the BIN file.  For MODE2/2048 and MODE2/2324 it sets *)
(* no layout, so that datastart, datasize and endsize stay 0: an empty     *)
(* track, of whose sectors nothing is read.                                *)
Track == [format : {"AUDIO", "DATA", "XA"}, start : Nat, sec_count : Nat, datastart : Nat,
          datasize : Nat, endsize : Int, blocksize : Nat \ {0}]
IsImage(g) ==
  /\ g.size \in Nat
  /\ g.tracks \in Seq(Track) /\ g.tracks # << >> /\ Len(g.tracks) < Entries
  /\ \A t \in DOMAIN g.tracks : t > 1 => g.tracks[t].start > g.tracks[t - 1].start

ASSUME ImageReadAssumption ==
  /\ \A g \in Images : IsImage(g)
  /\ {Header, Subheader, Pregap, Entries} \subseteq Nat /\ {Frame, Raw} \subseteq Nat \ {0}
  /\ Raw >= Header + Subheader + Frame
  /\ Lsns \subseteq Int /\ Blocks \subseteq Nat
  /\ Offsets \subseteq Nat /\ Sizes \subseteq Nat /\ MaxLba \in Nat

(* Images of whole sectors (MODE1/2352, MODE2/2352 and AUDIO tracks) whose *)
(* BIN file reaches to where each track starts.  The sector routines take  *)
(* every track's sectors for such ones.                                    *)
OfRawSectors(g) ==
  \A t \in DOMAIN g.tracks :
    /\ g.tracks[t].start <= g.size \div Raw /\ g.tracks[t].blocksize = Raw
    /\ g.tracks[t].format = "DATA" =>
         g.tracks[t].datastart = Header /\ g.tracks[t].datasize = Frame
    /\ g.tracks[t].format = "XA" =>
         g.tracks[t].datastart = Header + Subheader /\ g.tracks[t].datasize = Frame
    /\ g.tracks[t].format = "AUDIO" =>
         g.tracks[t].datastart = 0 /\ g.tracks[t].datasize = Raw

VARIABLES
  image,   \* the open image
  offset,  \* the data source's position
  pos,     \* p_env->pos: [lba, index, buff_offset]
  left,    \* in _read_bincue: size, the bytes still to read; else 0
  call,    \* the last call: [op, at, n, rc, got], got the bytes it stored
  cursor   \* history: where a file of the image's data would stand, Lost
           \* when no seek placed it since a sector read moved offset

vars == <<image, offset, pos, left, call, cursor>>

tracks == image.tracks
lead == image.size \div Raw           \* get_disc_last_lsn_bincue
Success == 0
Error == -1                           \* DRIVER_OP_ERROR
Lost == -1
Idle == left = 0 /\ call.op # "undefined"      \* no call is under way

Call(op, at, n, rc, got) == [op |-> op, at |-> at, n |-> n, rc |-> rc, got |-> got]

-----------------------------------------------------------------------------
(* cdio_stream_read at offset o: the bytes up to the end of the file.      *)
Smaller(a, b) == IF a < b THEN a ELSE b
Bytes(o, n) == [k \in 1 .. Smaller(n, IF o < image.size THEN image.size - o ELSE 0) |-> o + k - 1]

TrackOf(lsn) == {t \in DOMAIN tracks : tracks[t].start <= lsn /\
                   lsn < IF t < Len(tracks) THEN tracks[t + 1].start ELSE lead}

(* check_lsn_blocks: a request that runs past the leadout is cut to end    *)
(* with the sector of the leadout itself.  The sum is unsigned, so that    *)
(* one below 0 counts as past the leadout.                                 *)
OnDisc(lsn) == lsn <= lead
Clipped(lsn, n) == IF lsn + n \in 0 .. lead + 1 THEN n ELSE lead - lsn + 1

(* The part of a raw sector that each sector routine copies out.           *)
Mode1Part == [from |-> Header, size |-> Frame]
Mode2Part == [from |-> Header + Subheader, size |-> Frame]
PartOf(op, form2) ==
  CASE op = "audio" -> [from |-> 0, size |-> Raw]
    [] op = "mode1" /\ form2 = "no" -> Mode1Part
    [] op = "mode2" /\ form2 = "no" -> Mode2Part
    [] OTHER -> [from |-> Header, size |-> Raw - Header]

(* Part part of the n sectors from lsn on.  A sector of which nothing can  *)
(* be read is passed over without an error.                                *)
EachSectorFirst(lsn, n, part) ==                              \* mutant of Sectors
  FlattenSeq([k \in 1 .. n |-> Bytes(lsn * Raw + part.from, part.size)])
Sectors(lsn, n, part) ==
  FlattenSeq([k \in 1 .. n |-> Bytes((lsn + k - 1) * Raw + part.from, part.size)])

(* _read_audio_sectors_bincue, _read_mode1_sectors_bincue and              *)
(* _read_mode2_sectors_bincue, with the checks in front of them.  Audio    *)
(* answers 1 when nothing was read.                                        *)
ReadSectors(asked, op, form2, lsn, n) ==
  LET blocks == Clipped(lsn, n)
      got == Sectors(lsn, blocks, PartOf(op, form2))
  IN \/ /\ ~OnDisc(lsn) \/ lsn < 0
        /\ call' = Call(asked, lsn, n, Error, << >>)
        /\ UNCHANGED offset
     \/ /\ OnDisc(lsn) /\ lsn >= 0 /\ blocks = 0
        /\ call' = Call(asked, lsn, n, Success, << >>)
        /\ UNCHANGED offset
     \/ /\ OnDisc(lsn) /\ lsn >= 0 /\ blocks > 0
        /\ call' = Call(asked, lsn, n, IF op = "audio" /\ got = << >> THEN 1 ELSE Success, got)
        /\ offset' = Smaller((lsn + blocks) * Raw, image.size)

CdioReadSectors(op, form2, lsn, n) ==
  /\ Idle
  /\ ReadSectors(op, op, form2, lsn, n)
  /\ cursor' = Lost
  /\ UNCHANGED <<image, pos, left>>

(* cdio_read_data_sectors over read_data_sectors_image: the routine that   *)
(* the format of lsn's track asks for.                                     *)
ReadDataSectors(lsn, n) ==
  /\ Idle
  /\ \/ /\ ~OnDisc(lsn) \/ (n > 0 /\ \A t \in TrackOf(lsn) : tracks[t].format = "AUDIO")
        /\ call' = Call("data", lsn, n, Error, << >>)
        /\ UNCHANGED offset
     \/ /\ OnDisc(lsn) /\ n = 0
        /\ call' = Call("data", lsn, n, Success, << >>)
        /\ UNCHANGED offset
     \/ /\ OnDisc(lsn) /\ n > 0
        /\ \E t \in TrackOf(lsn) :
             \/ tracks[t].format = "DATA" /\ ReadSectors("data", "mode1", "no", lsn, n)
             \/ tracks[t].format = "XA" /\ ReadSectors("data", "mode2", "no", lsn, n)
  /\ cursor' = Lost
  /\ UNCHANGED <<image, pos, left>>

-----------------------------------------------------------------------------
(* _lseek_bincue adds up the tracks before the first one that reaches the  *)
(* offset: SumBefore(sizes, t) is what the tracks before t come to.        *)
SumBefore(sizes, t) ==
  LET sum[k \in 1 .. Len(sizes) + 1] == IF k = 1 THEN 0 ELSE sum[k - 1] + sizes[k - 1]
  IN  sum[t]
Data == [t \in DOMAIN tracks |-> tracks[t].sec_count * tracks[t].datasize]
File == [t \in DOMAIN tracks |-> tracks[t].sec_count * tracks[t].blocksize]
Count == [t \in DOMAIN tracks |-> tracks[t].sec_count]

DatastartForgotten(t, o) ==                                   \* mutant of RealOffset
  SumBefore(File, t) + (o \div tracks[t].datasize) * tracks[t].blocksize
    + (o % tracks[t].datasize)
RealOffset(t, o) ==
  SumBefore(File, t) + (o \div tracks[t].datasize) * tracks[t].blocksize
    + (o % tracks[t].datasize) + tracks[t].datastart

(* The first track reaches offset 0 even when it is empty; the division by *)
(* its datasize then ends the program.                                     *)
Lseek(off) ==
  /\ Idle
  /\ LET reach == {t \in DOMAIN tracks : off <= SumBefore(Data, t + 1)}
         t == Min(reach)
         o == off - SumBefore(Data, t)
     IN \/ /\ reach = {}
           /\ pos' = [pos EXCEPT !.lba = SumBefore(Count, Len(tracks) + 1),
                                 !.index = Len(tracks)]
           /\ call' = Call("seek", off, 0, Error, << >>)
           /\ cursor' = Lost
           /\ UNCHANGED offset
        \/ /\ reach # {} /\ tracks[t].datasize = 0
           /\ pos' = [pos EXCEPT !.lba = SumBefore(Count, t), !.index = t]
           /\ call' = Call("undefined", off, 0, Error, << >>)
           /\ cursor' = Lost
           /\ UNCHANGED offset
        \/ /\ reach # {} /\ tracks[t].datasize # 0
           /\ pos' = [lba |-> SumBefore(Count, t) + o \div tracks[t].datasize,
                      index |-> t, buff_offset |-> o % tracks[t].datasize]
           /\ offset' = RealOffset(t, o)
           /\ call' = Call("seek", off, 0, Success, << >>)
           /\ cursor' = off
  /\ UNCHANGED <<image, left>>

-----------------------------------------------------------------------------
(* cdio_read over _read_bincue, which goes round once for each sector the  *)
(* request touches.  It takes what is left of the sector from pos, which   *)
(* the last turn does not bring up to date.                                *)
(*                                                                         *)
(* The entry of tocent after the last track is the leadout's, of which     *)
(* only the start is set, and the ones after it are as calloc left them.   *)
Entry(t) ==
  IF t <= Len(tracks) THEN tracks[t] ELSE [datastart |-> 0, datasize |-> 0, endsize |-> 0]
StartLba(t) ==
  CASE t <= Len(tracks) -> tracks[t].start + Pregap
    [] t = Len(tracks) + 1 -> lead + Pregap
    [] OTHER -> 0

(* A seek that fails leaves the place in a sector of the track it came     *)
(* from, which may lie beyond the sectors of the last track.  A read from  *)
(* there, with fewer than no bytes left of the sector, is left out.        *)
Rem == Entry(pos.index).datasize - pos.buff_offset

Read(size) ==
  /\ Idle /\ size > 0 /\ pos.lba <= MaxLba /\ Rem >= 0
  /\ left' = size
  /\ call' = Call(IF call.op = "seek" /\ cursor # Lost THEN "read" ELSE "read_on", cursor, size, Success, << >>)
  /\ UNCHANGED <<image, offset, pos, cursor>>

Stored(n) == call.got \o Bytes(offset, n)
AndSomethingRead == left > Rem /\ Bytes(offset, Rem) # << >>   \* mutant of MoreSectors
MoreSectors == left > Rem

LastTurn ==
  /\ left > 0 /\ left <= Rem
  /\ call' = [call EXCEPT !.got = Stored(left)]
  /\ offset' = offset + Len(Bytes(offset, left))
  /\ left' = 0
  /\ cursor' = IF cursor = Lost THEN Lost ELSE cursor + Len(Stored(left))
  /\ UNCHANGED <<image, pos>>

(* "Reading across block boundaries not finished": the rest of the sector  *)
(* is read a second time before the gap to the next one is skipped.  Of an *)
(* empty sector nothing is taken, and the loop goes round to the next one. *)
(* What it finds when it has gone through all the entries of tocent is the *)
(* memory behind the table: the model stops there.                         *)
Turn ==
  /\ left > 0 /\ MoreSectors /\ pos.index < Entries
  /\ LET track == Entry(pos.index)
         skip == track.datastart + track.endsize
         gone == Smaller(offset + Rem + Rem + skip, image.size)
         beyond == pos.lba + 1 >= StartLba(pos.index + 1)
     IN /\ call' = [call EXCEPT !.got = Stored(Rem)]
        /\ offset' = IF offset > gone THEN offset ELSE gone
        /\ left' = left - Rem
        /\ pos' = [lba |-> pos.lba + 1, buff_offset |-> 0,
                   index |-> IF beyond THEN pos.index + 1 ELSE pos.index]
  /\ UNCHANGED <<image, cursor>>

-----------------------------------------------------------------------------
Init ==
  /\ image \in Images
  /\ offset = 0
  /\ pos = [lba |-> 0, index |-> 1, buff_offset |-> 0]
  /\ left = 0
  /\ call = Call("open", 0, 0, Success, << >>)
  /\ cursor = Lost

Next ==
  \/ \E lsn \in Lsns, n \in Blocks :
       \/ ReadDataSectors(lsn, n)
       \/ CdioReadSectors("audio", "no", lsn, n)
       \/ \E op \in {"mode1", "mode2"}, form2 \in {"no", "yes"} : CdioReadSectors(op, form2, lsn, n)
  \/ \E off \in Offsets : Lseek(off)
  \/ \E size \in Sizes : Read(size)
  \/ LastTurn
  \/ Turn

(* The caller's thread runs the loop of _read_bincue to its end.           *)
Spec == Init /\ [][Next]_vars /\ WF_vars(LastTurn \/ Turn)

-----------------------------------------------------------------------------
(* The BIN file as the cue sheet describes it: where track t begins in it, *)
(* the data of its sectors, and all the data of the image in order.        *)
Length(t) == (IF t < Len(tracks) THEN tracks[t + 1].start ELSE lead) - tracks[t].start
Begin[t \in DOMAIN tracks] ==
  IF t = 1 THEN tracks[1].start * tracks[1].blocksize
  ELSE Begin[t - 1] + Length(t - 1) * tracks[t - 1].blocksize
SectorData(t, k) ==
  [b \in 1 .. tracks[t].datasize |->
     Begin[t] + (k - 1) * tracks[t].blocksize + tracks[t].datastart + b - 1]
TrackData(t) == FlattenSeq([k \in 1 .. Length(t) |-> SectorData(t, k)])
ImageData == FlattenSeq([t \in DOMAIN tracks |-> TrackData(t)])

(* What cdio_read_data_sectors stores of an image of raw sectors, when it  *)
(* succeeds, is the data of the sectors asked for, in the layout the sheet *)
(* gives their track.                                                      *)
SectorReadsInPlace ==
  (OfRawSectors(image) /\ call.op = "data" /\ call.rc = Success) =>
    \A t \in TrackOf(call.at) :
      LET k == call.at - tracks[t].start
      IN k + call.n <= Length(t) =>
           call.got = SubSeq(TrackData(t), k * tracks[t].datasize + 1,
                                           (k + call.n) * tracks[t].datasize)

(* The same of cdio_read on a file of the image's data: call c stored the  *)
(* bytes that follow where the cursor was.                                 *)
ReadsInOrder(c) ==
  c.got = SubSeq(ImageData, c.at + 1, Smaller(c.at + c.n, Len(ImageData)))
WithinSector(c) ==
  \A t \in DOMAIN tracks :
    c.at \in SumBefore(Data, t) .. SumBefore(Data, t + 1) =>
      ((c.at - SumBefore(Data, t)) % tracks[t].datasize) + c.n <= tracks[t].datasize

(* A seek finds its way when the image begins with the first track and     *)
(* ends with a sector, and the tracks that it passes over count all their  *)
(* sectors: parse_cuefile leaves the size of a pre-gap out of the count of *)
(* a track that is not shorter than one, whether there is one or not.      *)
Counted(off) ==
  /\ tracks[1].start = 0 /\ lead * Raw = image.size
  /\ \A t \in DOMAIN tracks :
       /\ tracks[t].sec_count <= Length(t)
       /\ SumBefore(Data, t + 1) < off => tracks[t].sec_count = Length(t)

(* A read within a sector of an image of raw sectors, right after a seek,  *)
(* stores the bytes that "libc's seek() but we have to adjust for the      *)
(* extra track header information in each sector" (bincue.c:138) would     *)
(* lead to.  Left out is a seek to the first byte of a track after one of  *)
(* another layout: it is resolved in the earlier track, with the earlier   *)
(* track's datastart.                                                      *)
Layout(t) == <<tracks[t].datastart, tracks[t].datasize>>
Between(off) ==
  \E t \in 2 .. Len(tracks) : off = SumBefore(Data, t) /\ Layout(t) # Layout(t - 1)
ReadAfterSeek ==
  (/\ OfRawSectors(image) /\ left = 0 /\ call.op = "read"
   /\ WithinSector(call) /\ ~Between(call.at) /\ Counted(call.at))
    => ReadsInOrder(call)

(* The loop of _read_bincue comes to an end, also when it goes through     *)
(* empty tracks and beyond the end of the file, unless it passes the       *)
(* tracks: there tocent has empty sectors only and the read never returns. *)
(* It does return when what is left to read is no more than the sectors up *)
(* to the leadout's entry, each of any track from pos.index on, hold.      *)
PastTracks == pos.index > Len(tracks)
DataAhead ==
  /\ ~PastTracks
  /\ \A t \in pos.index .. Len(tracks) :
       left <= Rem + (StartLba(Len(tracks) + 1) - 1 - pos.lba) * tracks[t].datasize
ReadEnds ==
  /\ left > 0 ~> (left = 0 \/ PastTracks)
  /\ (left > 0 /\ DataAhead) ~> left = 0
=============================================================================
