---------------------------- MODULE MCOtherImages ----------------------------
(* An image of one of the two other formats, a CDRDAO TOC or a Nero NRG     *)
(* file.  TOCs have a head, one or two tracks and a tail, with each keyword, *)
(* well and badly formed, somewhere; "near" is a file found from both       *)
(* directories, "away" one found only beside the TOC, "lone" one found only *)
(* from the current directory.  Sectors have twelve bytes: four of sync and *)
(* header, two of subheader, five of data and one of error code.            *)
EXTENDS CdrdaoToc

MCLine(kw) == [kw |-> kw, arg |-> "", n |-> 0, name |-> "near", start |-> NotGiven, length |-> NotGiven, offset |-> NotGiven]
MCWord(kw, arg) == [MCLine(kw) EXCEPT !.arg = arg]
MCTime(kw, n) == [MCLine(kw) EXCEPT !.n = n]
MCFileLine(name, start, length) == [MCLine("FILE") EXCEPT !.name = name, !.start = start, !.length = length]
MCDataLine(name, o, start) == [MCLine("DATAFILE") EXCEPT !.name = name, !.offset = o, !.start = start]

Heads ==
  {<< >>, <<MCLine("CATALOG"), MCLine("CD_DA")>>, <<MCLine("CD_ROM")>>, <<MCLine("CD_ROM_XA"), MCLine("CD_TEXT"),
   MCLine("LANGUAGE_MAP"), MCWord("LANGUAGE", "0"), MCLine("field"), MCLine("}"), MCLine("}"), MCLine("}")>>}
Sound1 ==
  {<<MCFileLine("near", 0, 2)>>, <<MCFileLine("near", 0, 0)>>, <<MCFileLine("near", NotGiven, NotGiven)>>,
   <<MCFileLine("lone", 1, 2)>>, <<MCDataLine("near", NotGiven, 2)>>, <<MCDataLine("away", NotGiven, NotGiven)>>,
   <<MCDataLine("near", NotGiven, NotGiven)>>}
Sound2 ==
  {<<MCFileLine("near", 2, 2)>>, <<MCFileLine("near", 0, 9)>>, <<MCDataLine("near", 12, NotGiven)>>,
   <<MCDataLine("lone", 30, 4)>>, <<MCDataLine("near", 50, 4)>>, <<MCTime("SILENCE", 24)>>,
   <<MCFileLine("lone", 2, 1), MCTime("START", 1)>>, << >>}
Extra ==
  {<<MCLine("COPY"), MCLine("FOUR_CHANNEL_AUDIO"), MCLine("TWO_CHANNEL_AUDIO"), MCWord("NO", "COPY")>>,
   <<MCLine("ISRC"), MCLine("CD_TEXT"), MCWord("LANGUAGE", "{"), MCLine("field"), MCLine("{"), MCLine("}")>>,
   <<MCLine("ZERO"), MCTime("PREGAP", 1), MCTime("INDEX", 1)>>}
Bad ==
  {MCWord(kw, "malformed") : kw \in {"CATALOG", "TRACK", "NO", "ISRC", "FILE", "DATAFILE",
                                     "START", "PREGAP", "INDEX", "CD_TEXT", "LANGUAGE", "SILENCE"}}
  \cup {MCLine(kw) : kw \in {"CATALOG", "CD_DA", "FIFO", "other"}}
First == MCFileLine("near", 0, 2)
Second == MCFileLine("near", 2, 2)
T(mode) == <<MCWord("TRACK", mode)>>

MCSheets ==
  {T(m) \o f : m \in Modes, f \in Sound1}
  \cup {h \o T("MODE1") \o <<First>> : h \in Heads}
  \cup {T(m) \o <<First>> \o T("AUDIO") \o <<Second>> : m \in Modes}
  \cup {T("MODE1") \o <<First>> \o T(m) \o <<Second>> : m \in Modes}
  \cup {T("MODE1") \o <<First>> \o T(m) \o f : m \in {"AUDIO", "MODE2"}, f \in Sound2}
  \cup {T("AUDIO") \o f \o T("MODE2_RAW") \o <<Second>> : f \in Sound1}
  \cup {T(m) \o <<First>> \o T("AUDIO") \o <<MCDataLine("near", NotGiven, NotGiven)>> : m \in Modes}
  \cup {T("AUDIO") \o x \o <<First>> : x \in Extra}
  \cup {T("MODE1") \o <<First, b>> : b \in Bad}
  \cup {<<b>> \o T("MODE1") \o <<First>> : b \in {MCLine(kw) : kw \in
          {"FILE", "DATAFILE", "START", "PREGAP", "INDEX", "COPY", "TWO_CHANNEL_AUDIO"}}}

MCSizeOf == [near |-> 36, away |-> 24, lone |-> 25]
MCLsns == -1 .. 4

-----------------------------------------------------------------------------
MCCue(track, lsn, ctrl) == [track |-> track, format |-> 0, lsn |-> lsn, ctrl |-> ctrl]
MCEtn(start, length, mode, lsn) == [start |-> start, length |-> length, mode |-> mode, start_lsn |-> lsn]
MCCues(tag, entries) == [tag |-> tag, entries |-> entries]
MCDao(dtyp, mode) == [tag |-> "DAO", dtyp |-> dtyp, mode |-> mode, index0 |-> 10]

(* Discs at once of one track and of two, one cut before its second track, *)
(* and one with a lead-in that is not the pre-gap's.                       *)
CueChunks ==
  {MCCues("CUES", <<MCCue(0, -2, {}), MCCue(1, 0, {}), MCCue(1, 2, {}), MCCue(2, 4, {})>>),
   MCCues("CUES", <<MCCue(0, -2, {}), MCCue(1, 0, {}), MCCue(2, 2, {}), MCCue(2, 4, {})>>),
   MCCues("CUEX", <<MCCue(0, -2, {}), MCCue(1, -2, {}), MCCue(1, 0, {}), MCCue(2, 2, {}),
                    MCCue(2, 3, {"pre_emphasis"}), MCCue(3, 5, {})>>),
   MCCues("CUEX", <<MCCue(0, 0, {}), MCCue(1, 0, {}), MCCue(1, 0, {}), MCCue(2, 2, {})>>)}

EtnfTracks ==
  {<<MCEtn(0, 10, 0, 0)>>, <<MCEtn(0, 24, 7, 0), MCEtn(24, 12, 7, 2)>>,
   <<MCEtn(0, 10, 2, 0), MCEtn(10, 10, 2, 2)>>, <<MCEtn(0, 10, 0, 0), MCEtn(10, 5, 0, 2)>>,
   <<MCEtn(0, 16, 3, 0), MCEtn(16, 16, 6, 2)>>, <<MCEtn(0, 16, 32, 0)>>,
   <<MCEtn(0, 11, 0, 0)>>, <<MCEtn(0, 10, 1, 0)>>, <<MCEtn(0, 0, 7, 0), MCEtn(0, 24, 7, 0)>>}
Etn2Tracks ==
  {<<MCEtn(0, 10, 0, 0), MCEtn(10, 5, 2, 2)>>, <<MCEtn(0, 24, 0, 0), MCEtn(24, 12, 0, 2)>>,
   <<MCEtn(0, 16, 3, 0)>>, <<MCEtn(0, 7, 7, 0)>>, <<MCEtn(0, 10, 6, 0)>>}

Layouts == CueChunks \cup {MCCues("ETNF", e) : e \in EtnfTracks}
                     \cup {MCCues("ETN2", e) : e \in Etn2Tracks}

Tails ==
  {<<[tag |-> "MTYP", value |-> 1], [tag |-> "END!"], [tag |-> "NERO"]>>,
   <<[tag |-> "CDTX", packs |-> "kept"], [tag |-> "SINF"]>>, <<[tag |-> "NERO"]>>}
Daos == {<<MCDao(dtyp, mode)>> : dtyp \in {0, 2, 3, 7, 9}, mode \in {0, 2, 32}}
AtOnce == {MCCues("ETNF", <<MCEtn(0, 24, 7, 0), MCEtn(24, 12, 7, 2)>>)}

MCFiles ==
  {[magic |-> "NER5", chunks |-> <<layout>>, size |-> 60] : layout \in Layouts}
  \cup {[magic |-> "NER5", chunks |-> <<layout>> \o tail, size |-> 60] :
          layout \in AtOnce, tail \in Tails}
  \cup {[magic |-> "NERO", chunks |-> <<layout>> \o dao, size |-> 44] :
          layout \in AtOnce \cup CueChunks, dao \in Daos}
  \cup {[magic |-> "NERO", chunks |-> <<layout, layout>>, size |-> 20] : layout \in Layouts}
  \cup {[magic |-> "other", chunks |-> << >>, size |-> 20]}

-----------------------------------------------------------------------------
VARIABLES format, file, reached, at, env, nrgOffset, nrgCall
nrgVars == <<format, file, reached, at, env, nrgOffset, nrgCall>>

Nrg == INSTANCE NrgImage WITH
  stage <- reached, offset <- nrgOffset, call <- nrgCall,
  Files <- MCFiles, DaoOffset <- 10, Word <- 100000, Half <- 1000, Lsns <- -1 .. 7,
  Blocks <- {0, 1, 3}, Offsets <- {0, 5, 12, 30}, Sizes <- {0, 6}

ASSUME NrgConstants == Nrg!NrgImageAssumption

InitToc == /\ format = "toc" /\ Init /\ Nrg!Init
           /\ file = [magic |-> "other", chunks |-> << >>, size |-> 20]
InitNrg == format = "nrg" /\ Nrg!Init /\ Init /\ sheet = T("AUDIO") \o <<First>>

OnToc == format = "toc" /\ Next /\ UNCHANGED nrgVars
OnNrg == format = "nrg" /\ Nrg!Next /\ UNCHANGED <<format, vars>>

ImagesSpec == (InitToc \/ InitNrg) /\ [][OnToc \/ OnNrg]_<<vars, nrgVars>>

(* A sector comes out of the place its track has in the files: the seek in  *)
(* a CDRDAO image finds the track and where in its file the sector's data   *)
(* are, and the reads of a track-at-once NRG image give a track's sector    *)
(* out of the block that the footer has for it, and none between two        *)
(* tracks, the pre-gaps that the file lacks being added once.  The two      *)
(* tables that parse_nrg builds from a footer agree: each track starts      *)
(* where its node of the mapping list does and is as long, the last one     *)
(* included, whose length is computed once more from the leadout.  The data *)
(* sectors of a CDRDAO image are stored one behind the other.               *)
SectorsComeFromTheirTrack ==
  IF format = "toc" THEN SeekFindsSectorData /\ SectorsInPlace
  ELSE Nrg!SectorsComeFromTheirTrack /\ Nrg!TocMatchesMapping
=============================================================================
