------------------------------ MODULE NrgImage ------------------------------
(***************************************************************************)
(* Nero NRG images: lib/driver/image/nrg.c.                                *)
(*                                                                         *)
(* cdio_is_nrg walks the chunks of the file's footer in an environment of  *)
(* its own and throws it away; _init_nrg then walks them again to fill the *)
(* handle's: a list of mappings from sectors to bytes of the file, and     *)
(* tocent, "in a sense redundant with the mapping list" (nrg.c:103).  A    *)
(* sector read goes by the mappings, a seek by tocent.                     *)
(*                                                                         *)
(* A chunk is what parse_nrg takes from it, in the machine's byte order.   *)
(* A byte of the image is the offset it has in the file, and Zero is a     *)
(* byte of a buffer that nothing was read into.  Sizes are constants, so   *)
(* that a sector has a few bytes.                                          *)
(***************************************************************************)
EXTENDS Integers, Sequences, SequencesExt, FiniteSetsExt, Functions

CONSTANTS
  Files,       \* NRG files: [magic, chunks, size], see IsFile
  Header,      \* CDIO_CD_SYNC_SIZE + CDIO_CD_HEADER_SIZE
  Subheader,   \* CDIO_CD_SUBHEADER_SIZE
  Frame,       \* CDIO_CD_FRAMESIZE
  M2Raw,       \* M2RAW_SECTOR_SIZE
  Raw,         \* CDIO_CD_FRAMESIZE_RAW
  Pregap,      \* CDIO_PREGAP_SECTORS
  DaoOffset,   \* 0x4b000
  Word,        \* 2^32, the range of a uint32_t
  Half,        \* 2^16, the range of a uint16_t
  Lsns,        \* the sectors callers ask for
  Blocks,      \* how many at a time
  Offsets,     \* the offsets callers seek to
  Sizes        \* the sizes callers read

Tags == {"CUES", "CUEX", "DAO", "ETNF", "ETN2", "MTYP", "CDTX", "SINF", "NERO", "END!", "other"}

(* Entries of a CUE chunk: [track, format, lsn, ctrl]; of an ETN chunk:    *)
(* [start, length, mode, start_lsn]; a DAO chunk (DAOX and DAOI differ in  *)
(* the width of their fields) has [dtyp, mode, index0].  A Nero file has a *)
(* track, its CUE entries come in pairs once the lead-in is taken off, and *)
(* those of a CUES chunk hold sectors, not MSF addresses.                  *)
IsFile(f) ==
  /\ f.magic \in {"NERO", "NER5", "other"}
  /\ f.size \in Nat
  /\ \A k \in DOMAIN f.chunks : f.chunks[k].tag \in Tags
  /\ \A k \in DOMAIN f.chunks :
       f.chunks[k].tag = "CUES" => \A e \in Range(f.chunks[k].entries) : e.format = 0
  /\ f.magic # "other" => \E k \in DOMAIN f.chunks :
       f.chunks[k].tag \in {"CUES", "CUEX", "ETNF", "ETN2", "NERO"}

(* What the constants are; a module that instantiates this one assumes it. *)
NrgImageAssumption ==
  /\ \A f \in Files : IsFile(f)
  /\ {Header, Subheader, Frame, M2Raw, Pregap, DaoOffset} \subseteq Nat \ {0}
  /\ Raw = Header + M2Raw /\ Frame + Subheader < M2Raw
  /\ Half <= Word
  /\ Lsns \subseteq Int /\ Blocks \subseteq Nat
  /\ Offsets \subseteq Nat /\ Sizes \subseteq Nat

VARIABLES
  file,    \* the NRG file
  stage,   \* "probe", "load", "open", "refused", "asserted"
  at,      \* number of chunks walked: pos in the code
  env,     \* p_env, see EmptyEnv
  offset,  \* position of the data source
  call     \* the last call: [op, at, n, rc, got], got the bytes of each sector

vars == <<file, stage, at, env, offset, call>>

Success == 0
Error == -1
Zero == -1
Nothing == << >>
Call(op, a, n, rc, got) == [op |-> op, at |-> a, n |-> n, rc |-> rc, got |-> got]

(* The environment of the probe is all zeros, that of the handle has no    *)
(* DAO type yet.                                                           *)
EmptyEnv(dtyp) ==
  [mapping |-> << >>, tocent |-> << >>, flags |-> << >>, pregap |-> << >>,
   size |-> 0, leadout |-> 0, dtyp |-> dtyp, is_dao |-> FALSE, is_cues |-> FALSE,
   mtyp |-> 0, disc_mode |-> "NO_INFO", cdtext |-> "none"]
Mode1Type == 0
Mode2XaType == 2
InvalidType == 255

-----------------------------------------------------------------------------
(* _register_mapping: one more node of the list, and its entry of tocent.  *)
Layout(format, green, blocksize) ==
  CASE format = "AUDIO" -> [blocksize |-> Raw, datasize |-> Raw]
    [] format = "XA" /\ green -> [blocksize |-> Frame, datasize |-> M2Raw]
    [] OTHER -> [blocksize |-> blocksize, datasize |-> Frame]

SizeAfter(e, start, count) == Max({e.size, (start + count) % Word})

Register(e, start, count, img_offset, blocksize, format, green) ==
  LET layout == Layout(format, green, blocksize)
      from == (IF e.is_cues THEN img_offset ELSE 0) + (IF green THEN Subheader ELSE 0)
  IN [e EXCEPT
       !.mapping = Append(@, [start_lsn |-> start, sec_count |-> count,
                              img_offset |-> img_offset, blocksize |-> blocksize]),
       !.tocent = Append(@, [start_lsn |-> start, sec_count |-> count, format |-> format,
                             green |-> green, datastart |-> from % Half,
                             blocksize |-> layout.blocksize, datasize |-> layout.datasize]),
       !.size = SizeAfter(e, start, count)]

-----------------------------------------------------------------------------
(* CUES and CUEX.  Entries idx of the code are 1 less than here.           *)
Pairs(c) == IF c.tag = "CUES" THEN {p \in 2 .. Len(c.entries) - 1 : p % 2 = 0}
                              ELSE {p \in 3 .. Len(c.entries) : p % 2 = 1}
CueOk(c) ==
  /\ env.mapping = << >>
  /\ c.tag = "CUES" =>
       \A p \in Pairs(c) : c.entries[p].track = c.entries[p + 1].track
  /\ c.tag = "CUEX" =>
       /\ c.entries[1].lsn = -Pregap
       /\ \A p \in Pairs(c) : /\ c.entries[p].format \in {0, 1}
                              /\ c.entries[p].track # c.entries[p + 1].track

(* An XA track of sectors without sync and header, its bytes counted from  *)
(* the pre-gap on.                                                         *)
CueTrack(e, c, p) ==
  LET entry == c.entries[p]
      next == c.entries[p + 1]
      lsn == entry.lsn
      count == IF c.tag = "CUES" THEN 2 * next.lsn ELSE next.lsn - lsn
  IN [Register(e, lsn % Word, count % Word, (lsn + Pregap) * M2Raw, M2Raw, "XA", TRUE)
       EXCEPT !.flags = Append(@, entry.ctrl)]

Cue(e, c) ==
  LET pair == SetToSortSeq(Pairs(c), <)
  IN FoldLeft(LAMBDA x, p : CueTrack(x, c, p), [e EXCEPT !.is_cues = @ \/ c.tag = "CUES"], pair)

-----------------------------------------------------------------------------
(* DAOX and DAOI: the type of the first track, and a mode, that go for all *)
(* tracks registered so far.  Type 2 sets mode 0.                          *)
DaoFormat(dtyp) == IF dtyp = 0 THEN "DATA" ELSE IF dtyp \in {2, 3, 6, 32} THEN "XA" ELSE "AUDIO"
DiscMode(type) ==
  CASE type = 0 -> "CD_DATA" [] type \in {2, 3, 32} -> "CD_XA"
    [] type = 6 -> "CD_MIXED" [] type = 7 -> "CD_DA"
DaoKnown(type) == type \in {0, 2, 3, 6, 7, 32}

DaoEntry(t, format, mode) ==
  CASE mode = 0 /\ format = "AUDIO" ->
         [t EXCEPT !.format = format, !.green = FALSE, !.datastart = 0,
                   !.blocksize = Raw, !.datasize = Raw]
    [] mode = 0 /\ format # "AUDIO" ->
         [t EXCEPT !.format = format, !.green = FALSE, !.datastart = 0, !.datasize = Frame]
    [] mode = 2 ->
         [t EXCEPT !.format = format, !.green = TRUE, !.datasize = Frame,
                   !.datastart = IF format = "XA" THEN Header + Subheader ELSE Header]
    [] OTHER -> t

Dao(e, c) ==
  LET mode == IF c.dtyp = 2 THEN 0 ELSE c.mode
      toc == [t \in DOMAIN e.tocent |-> DaoEntry(e.tocent[t], DaoFormat(c.dtyp), mode)]
  IN [e EXCEPT !.dtyp = c.dtyp, !.is_dao = TRUE, !.tocent = toc,
        !.disc_mode = IF DaoKnown(c.dtyp) THEN DiscMode(c.dtyp) ELSE @,
        !.pregap = [t \in DOMAIN toc |-> c.index0 \div toc[t].datasize]]

-----------------------------------------------------------------------------
(* ETNF and ETN2: one entry a track, Pregap sectors further on the disc    *)
(* for each track before it.                                               *)
EtnFormat(mode) == IF mode = 0 THEN "DATA" ELSE IF mode = 7 THEN "AUDIO" ELSE "XA"
EtnGreen(mode) == mode \in {3, 6, 32}
EtnBlock(mode) == IF mode \in {0, 2} THEN Frame ELSE IF mode = 7 THEN Raw ELSE M2Raw
EtnKnown(c, k) == c.entries[k].mode \in IF c.tag = "ETNF" THEN {0, 2, 3, 6, 7, 32} ELSE {0, 2, 3, 7}
EtnWhole(c, k) ==
  LET t == c.entries[k] IN
  c.tag = "ETNF" => /\ t.length % EtnBlock(t.mode) = 0
                    /\ t.start_lsn * EtnBlock(t.mode) = t.start
(* The first entry that cannot be taken decides.                           *)
EtnBad(c) == {k \in DOMAIN c.entries : ~EtnKnown(c, k) \/ ~EtnWhole(c, k)}
EtnAsserts(c) == env.mapping # << >> \/ (EtnBad(c) # {} /\ EtnKnown(c, Min(EtnBad(c))))
EtnRefused(c) == env.mapping = << >> /\ EtnBad(c) # {} /\ ~EtnKnown(c, Min(EtnBad(c)))

(* ETN2 looks for a block size that fits the length, then for one that     *)
(* fits the start; the length is counted in the first.                     *)
Fitting(S, otherwise) ==
  IF Frame \in S THEN Frame ELSE IF M2Raw \in S THEN M2Raw
  ELSE IF Raw \in S THEN Raw ELSE otherwise
LengthBlock(t) ==
  LET b == EtnBlock(t.mode) IN
  IF t.length % b = 0 THEN b ELSE Fitting({s \in {Frame, M2Raw, Raw} : t.length % s = 0}, b)
StartBlock(t) ==
  LET b == LengthBlock(t) IN
  IF t.start_lsn * b = t.start THEN b
  ELSE Fitting({s \in {Frame, M2Raw, Raw} : t.start_lsn * s = t.start}, b)

NoPregap(t, k) == t.start_lsn                                 \* mutant of EtnStart
EtnStart(t, k) == t.start_lsn + (k - 1) * Pregap

EtnTrack(e, c, k) ==
  LET t == c.entries[k]
      registered == Register(e, EtnStart(t, k), t.length \div LengthBlock(t), t.start,
                             StartBlock(t), EtnFormat(t.mode), EtnGreen(t.mode))
  IN IF c.tag = "ETNF" THEN [registered EXCEPT !.disc_mode = DiscMode(t.mode)] ELSE registered

Etn(e, c) == FoldLeftDomain(LAMBDA x, k : EtnTrack(x, c, k), e, c.entries)

-----------------------------------------------------------------------------
(* The walk.                                                               *)
Walking == stage \in {"probe", "load"}
Chunk == file.chunks[at + 1]
Ended == at < Len(file.chunks) => Chunk.tag = "END!"
On(e) == env' = e /\ at' = at + 1 /\ UNCHANGED <<file, stage, offset, call>>
Leave(how) == stage' = how /\ UNCHANGED <<file, at, env, offset, call>>

NotNero == Walking /\ file.magic = "other" /\ Leave("refused")

ChunkOf(tags) == Walking /\ file.magic # "other" /\ ~Ended /\ Chunk.tag \in tags

CueChunk == ChunkOf({"CUES", "CUEX"}) /\ IF CueOk(Chunk) THEN On(Cue(env, Chunk)) ELSE Leave("asserted")
DaoChunk == ChunkOf({"DAO"}) /\ On(Dao(env, Chunk))
EtnChunk ==
  /\ ChunkOf({"ETNF", "ETN2"})
  /\ \/ EtnAsserts(Chunk) /\ Leave("asserted")
     \/ EtnRefused(Chunk) /\ Leave("refused")
     \/ ~EtnAsserts(Chunk) /\ ~EtnRefused(Chunk) /\ On(Etn(env, Chunk))
MtypChunk == ChunkOf({"MTYP"}) /\ On([env EXCEPT !.mtyp = Chunk.value])
CdtxChunk == ChunkOf({"CDTX"}) /\ On([env EXCEPT !.cdtext = Chunk.packs])
MagicChunk == ChunkOf({"NERO"}) /\ Leave("refused")
OtherChunk == ChunkOf({"SINF", "other"}) /\ On(env)

LastCount(e) == e.size - Last(e.tocent).start_lsn
WithLeadout(e) ==
  [e EXCEPT !.leadout = e.size, !.tocent[Len(e.tocent)].sec_count = LastCount(e)]

EndOfFooter ==
  /\ Walking /\ file.magic # "other" /\ Ended
  /\ \/ /\ stage = "probe" /\ stage' = "load" /\ at' = 0
        /\ env' = EmptyEnv(InvalidType)
     \/ stage = "load" /\ stage' = "open" /\ env' = WithLeadout(env) /\ at' = at
  /\ UNCHANGED <<file, offset, call>>

-----------------------------------------------------------------------------
(* Seeks and reads of the open image.                                      *)
(* A sector read keeps nothing that a later call looks at but the place of *)
(* the file, which every call but cdio_read sets: it is the last one here. *)
toc == env.tocent
Open == stage = "open" /\ call.op \in {"open", "seek", "read"}
Smaller(a, b) == IF a < b THEN a ELSE b
Bytes(o, n) == [k \in 1 .. Smaller(n, IF o < file.size THEN file.size - o ELSE 0) |-> o + k - 1]
After(o, got) == o + Len(got)

(* _lseek_nrg: the first track that reaches the offset.                    *)
Before(size, t) == FoldLeft(+, 0, [k \in 1 .. t - 1 |-> size[k]])
Data == [t \in DOMAIN toc |-> toc[t].sec_count * toc[t].datasize]
Blocked == [t \in DOMAIN toc |-> toc[t].sec_count * toc[t].blocksize]
Reaching(o) == {t \in DOMAIN toc : Data[t] >= o - Before(Data, t)}
RealOffset(t, o) ==
  LET rest == o - Before(Data, t) IN
  (IF env.is_dao THEN DaoOffset ELSE 0) + Before(Blocked, t) + toc[t].datastart
    + (rest \div toc[t].datasize) * toc[t].blocksize + (rest % toc[t].datasize)

Lseek(o) ==
  /\ Open
  /\ IF Reaching(o) = {}
     THEN call' = Call("seek", o, 0, Error, << >>) /\ UNCHANGED offset
     ELSE /\ offset' = RealOffset(Min(Reaching(o)), o)
          /\ call' = Call("seek", o, 0, Success, << >>)
  /\ UNCHANGED <<file, stage, at, env>>

Read(n) ==
  /\ Open
  /\ call' = Call("read", offset, n, Len(Bytes(offset, n)), <<Bytes(offset, n)>>)
  /\ offset' = After(offset, Bytes(offset, n))
  /\ UNCHANGED <<file, stage, at, env>>

(* The first node whose range has the sector, the comparison unsigned.     *)
Spans(m, lsn) == (lsn % Word) \in m.start_lsn .. ((m.start_lsn + m.sec_count - 1) % Word)
Nodes(lsn) == {k \in DOMAIN env.mapping : Spans(env.mapping[k], lsn)}
NodeOf(lsn) == env.mapping[Min(Nodes(lsn))]
BeyondEnd(lsn) == (lsn % Word) >= env.size

(* _read_mode1_sector_nrg and _read_mode2_sector_nrg: a block goes into a  *)
(* raw sector, behind a header when it has none of its own, and a part of  *)
(* the sector goes to the caller.  Nothing is stored when the block is     *)
(* behind the end of the file; a sector of no mapping is all zeros.        *)
FileBlock(lsn) ==
  LET m == NodeOf(lsn) IN Bytes(m.img_offset + (lsn - m.start_lsn) * m.blocksize, m.blocksize)
Filled(block, from) ==
  [b \in 1 .. Raw |-> IF b - from \in DOMAIN block THEN block[b - from] ELSE Zero]
SectorBuffer(lsn) ==
  IF Nodes(lsn) = {} THEN Filled(<< >>, 0)
  ELSE Filled(FileBlock(lsn), IF NodeOf(lsn).blocksize = M2Raw THEN Header ELSE 0)
Part(op, form2) ==
  IF form2 = "yes" THEN [from |-> Header, size |-> M2Raw]
  ELSE [from |-> IF op = "mode1" THEN Header ELSE Header + Subheader, size |-> Frame]
Sector(op, form2, lsn) ==
  LET part == Part(op, form2) IN
  IF Nodes(lsn) # {} /\ FileBlock(lsn) = << >> THEN Nothing
  ELSE SubSeq(SectorBuffer(lsn), part.from + 1, part.from + part.size)

(* The sectors up to the first one beyond the end of the image.            *)
Nth(lsn, k) == lsn + k - 1
Within(lsn, n) == {k \in 1 .. n : \A j \in 1 .. k : ~BeyondEnd(lsn + j - 1)}
SectorLoop(asked, op, form2, lsn, n) ==
  LET got == [k \in Within(lsn, n) |-> Sector(op, form2, Nth(lsn, k))]
      last == {lsn + k - 1 : k \in {j \in Within(lsn, n) : Nodes(lsn + j - 1) # {}}}
  IN /\ call' = Call(asked, lsn, n, IF Within(lsn, n) = 1 .. n THEN Success ELSE Error, got)
     /\ offset' = IF last = {} THEN offset
                  ELSE LET m == NodeOf(Max(last))
                           o == m.img_offset + (Max(last) - m.start_lsn) * m.blocksize
                       IN After(o, FileBlock(Max(last)))

(* check_lsn_blocks of read.c.                                             *)
OnDisc(lsn) == lsn <= env.leadout
Clipped(lsn, n) == IF lsn + n \in 0 .. env.leadout + 1 THEN n ELSE env.leadout - lsn + 1
Checked(op, lsn, n) ==
  /\ Open
  /\ ~OnDisc(lsn) \/ Clipped(lsn, n) = 0
  /\ call' = Call(op, lsn, n, IF OnDisc(lsn) THEN Success ELSE Error, << >>)
  /\ UNCHANGED <<file, stage, at, env, offset>>

ReadSectors(op, form2, lsn, n) ==
  /\ Open /\ OnDisc(lsn) /\ Clipped(lsn, n) > 0
  /\ SectorLoop(op, op, form2, lsn, Clipped(lsn, n))
  /\ UNCHANGED <<file, stage, at, env>>

(* _read_audio_sectors_nrg: one read of all sectors, from the first one's  *)
(* node or, in a disc-at-once image, from the start of the file.           *)
AudioOffset(lsn) ==
  IF env.is_dao THEN (lsn + Pregap) * Raw
  ELSE NodeOf(lsn).img_offset + (lsn - NodeOf(lsn).start_lsn) * Raw
ReadAudio(lsn, n) ==
  LET blocks == Clipped(lsn, n)
      got == Bytes(AudioOffset(lsn), blocks * Raw)
  IN /\ Open /\ OnDisc(lsn) /\ blocks > 0
     /\ \/ /\ BeyondEnd(lsn)
           /\ call' = Call("audio", lsn, n, Error, << >>) /\ UNCHANGED offset
        \/ /\ ~BeyondEnd(lsn) /\ ~env.is_dao /\ Nodes(lsn) = {}
           /\ call' = Call("audio", lsn, n, Success, << >>) /\ UNCHANGED offset
        \/ /\ ~BeyondEnd(lsn) /\ (env.is_dao \/ Nodes(lsn) # {})
           /\ call' = Call("audio", lsn, n, IF env.is_dao /\ got = << >> THEN 1 ELSE Success, <<got>>)
           /\ offset' = After(AudioOffset(lsn), got)
     /\ UNCHANGED <<file, stage, at, env>>

(* get_track_format_nrg, and read_data_sectors_image of image_common.c     *)
(* over it and cdio_get_track.                                             *)
TrackFormat(t) ==
  CASE env.dtyp = Mode2XaType -> "XA" [] env.dtyp = Mode1Type -> "DATA" [] OTHER -> toc[t].format
TracksAt(lsn) == {t \in DOMAIN toc : toc[t].start_lsn <= lsn /\
                    lsn < IF t < Len(toc) THEN toc[t + 1].start_lsn ELSE env.leadout}
ReadData(lsn, n) ==
  /\ Open /\ OnDisc(lsn) /\ n > 0
  /\ \/ /\ \A t \in TracksAt(lsn) : TrackFormat(t) = "AUDIO"
        /\ call' = Call("data", lsn, n, Error, << >>) /\ UNCHANGED offset
     \/ \E t \in TracksAt(lsn) :
          /\ TrackFormat(t) # "AUDIO"
          /\ SectorLoop("data", IF TrackFormat(t) = "DATA" THEN "mode1" ELSE "mode2", "no",
                        lsn, Clipped(lsn, n))
  /\ UNCHANGED <<file, stage, at, env>>

-----------------------------------------------------------------------------
Init ==
  /\ file \in Files /\ stage = "probe" /\ at = 0
  /\ env = EmptyEnv(0) /\ offset = 0 /\ call = Call("open", 0, 0, Success, << >>)

Walk == NotNero \/ CueChunk \/ DaoChunk \/ EtnChunk \/ MtypChunk \/ CdtxChunk
        \/ MagicChunk \/ OtherChunk \/ EndOfFooter

Next ==
  \/ Walk
  \/ \E o \in Offsets : Lseek(o)
  \/ \E n \in Sizes : Read(n)
  \/ \E lsn \in Lsns, n \in Blocks :
       \/ \E op \in {"mode1", "mode2"}, form2 \in {"no", "yes"} : ReadSectors(op, form2, lsn, n)
       \/ ReadAudio(lsn, n)
       \/ ReadData(lsn, n)
       \/ \E op \in {"audio", "mode1", "mode2", "data"} : Checked(op, lsn, n)

Spec == Init /\ [][Next]_vars

-----------------------------------------------------------------------------
(* The two tables built from the footer are the same: a track starts where *)
(* its node does and has as many sectors, the last one included, whose     *)
(* count parse_nrg computes once more from the leadout.                    *)
TocMatchesMapping ==
  stage = "open" =>
    \A t \in DOMAIN toc : /\ toc[t].start_lsn = env.mapping[t].start_lsn
                          /\ toc[t].sec_count = env.mapping[t].sec_count

(* What a track-at-once image's footer says: track k's sectors lie one     *)
(* after the other from start on, and on the disc after k - 1 pre-gaps     *)
(* that are not in the file.  An empty track at sector 0 is left out: the  *)
(* range of its node, 0 to 0 - 1, is that of all sectors.                  *)
Written == file.chunks[1].entries
TrackAtOnce == /\ file.chunks # << >> /\ file.chunks[1].tag = "ETNF" /\ ~env.is_dao
               /\ \A k \in DOMAIN Written : Written[k].length > 0
WrittenTracks(lsn) ==
  {k \in DOMAIN Written :
     LET first == Written[k].start_lsn + (k - 1) * Pregap
     IN lsn \in first .. first + (Written[k].length \div EtnBlock(Written[k].mode)) - 1}
WrittenBytes(k, lsn) ==
  LET block == EtnBlock(Written[k].mode)
      start == Written[k].start + (lsn - Written[k].start_lsn - (k - 1) * Pregap) * block
  IN start .. start + block - 1

(* The sector reads of a track-at-once image give a track's sector bytes   *)
(* of the block that the footer has for it, and a sector between two       *)
(* tracks none: the pre-gaps are added once, and each of several sectors   *)
(* is looked for by itself.                                                *)
SectorsComeFromTheirTrack ==
  (stage = "open" /\ TrackAtOnce /\ call.op \in {"mode1", "mode2", "data"}) =>
    \A j \in DOMAIN call.got : \A b \in Range(call.got[j]) \ {Zero} :
      \E k \in WrittenTracks(call.at + j - 1) : b \in WrittenBytes(k, call.at + j - 1)

=============================================================================
