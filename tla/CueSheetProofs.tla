--------------------------- MODULE CueSheetProofs ---------------------------
(***************************************************************************)
(* What holds of opening a BIN/CUE image, for sheets of any length and any *)
(* set of lines: the dry run and the load agree, an open image is what its *)
(* sheet says, its tracks do not overlap, and freeing it leaves only the   *)
(* strings of lines that later lines superseded.                           *)
(*                                                                         *)
(* The properties speak of an open image and its whole sheet; the          *)
(* invariant IInv says the same of an image half filled and the lines read *)
(* so far, field by field: a section of the sheet is what stands under one *)
(* TRACK line, and an entry of the table is placed by its section          *)
(* (EntriesAsRead), named and counted by the ones before and after         *)
(* (StringsAsRead, CountsAsRead).  LoadedLine turns the actions of a line  *)
(* into what the line does to each field, and one lemma for each conjunct  *)
(* (StringsRead and so on) carries it over a line.  That a line of the     *)
(* second run is never rejected, but for an unreadable file of packs,      *)
(* needs SheetAccepted: the dry run went through the same line at the same *)
(* position.                                                               *)
(***************************************************************************)
EXTENDS CueSheet, FiniteSetTheorems, WellFoundedInduction, TLAPS

LayoutType == [format : {"AUDIO", "DATA", "XA"}, blocksize : Nat, datastart : Nat,
               datasize : Nat, endsize : Nat]
TrackType ==
  [layout : LayoutType, start_lba : Int, pregap : Int, silence : Int, sec_count : Int,
   num_indices : Nat, flags : SUBSET UNION {l.flags : l \in Lines}, isrc : Nat, filename : Nat]
TocType == [0 .. MaxLines -> TrackType]
ImageType ==
  [lead_lsn : Nat, i_tracks : Nat, i_first_track : 1 .. 99,
   disc_mode : {"NO_INFO", "CD_DA", "CD_DATA", "CD_XA", "CD_MIXED"},
   tocent : TocType, mcn : Nat, cdtextfile : Nat, titles : SUBSET [track : Nat, text : Nat]]

TypeOK ==
  /\ pc \in {"probe", "rejected", "load", "failed", "open", "freed"}
  /\ sheet \in Seq(Lines)
  /\ Len(sheet) <= MaxLines
  /\ line \in 0 .. Len(sheet)
  /\ pc = "probe" => line = Len(sheet)
  /\ i \in Int
  /\ b_first_index_for_track \in {"no", "yes"}
  /\ img \in ImageType
  /\ heap \subseteq 1 .. MaxLines

(* The lines of one keyword read so far in one section of the sheet: the   *)
(* global section is number 0, and b the one under the b-th TRACK line.    *)
Section(b, kw) == {k \in 1 .. line : TracksBefore(k) = b /\ sheet[k].kw = kw}
Placing(t) == {k \in Section(t + 1, "INDEX") : sheet[k].n = 1}

Positioned ==
  /\ pc \in {"probe", "load"} => i = TracksBefore(line + 1) - 1
  /\ pc \in {"load", "failed", "open"} => img.i_tracks = TracksBefore(line + 1)
  /\ pc = "open" => line = Len(sheet)

(* The dry run changes no image and allocates no string.                   *)
ProbeIsDry ==
  pc \in {"probe", "rejected"} => heap = {} /\ \E lead \in LeadLsns : img = EmptyImage(lead)

(* What the dry run asks of a line with words l at place k.                *)
Acceptable(l, k) ==
  LET global == TracksBefore(k) = 0
  IN /\ l.kw = "CATALOG" => global /\ l.arg = "digits"
     /\ l.kw = "CDTEXTFILE" => l.arg \in {"packs", "unreadable"}
     /\ l.kw = "FILE" => l.arg = "named"
     /\ l.kw = "TRACK" => l.n \in 1 .. 99 /\ l.arg \in Modes
     /\ l.kw = "FLAGS" => ~global /\ l.arg = "known"
     /\ l.kw = "ISRC" => ~global /\ l.arg = "code"
     /\ l.kw \in {"PREGAP", "INDEX"} => ~global /\ l.arg = "msf"
     /\ l.kw # "other"
SheetAccepted == pc # "rejected" => \A k \in 1 .. Len(sheet) : Acceptable(sheet[k], k)

(* The strings of the image are those of the last lines that gave one, and *)
(* every string allocated was one of these at its time.                    *)
StringLines == {k \in 1 .. line : sheet[k].kw \in {"CATALOG", "FILE", "ISRC"}}
StringsAsRead ==
  /\ heap \subseteq StringLines
  /\ img.mcn = LastOf(Section(0, "CATALOG"))
  /\ \A t \in 0 .. MaxLines : /\ img.tocent[t].isrc = LastOf(Section(t + 1, "ISRC"))
                             /\ img.tocent[t].filename = LastOf(Section(t, "FILE"))

(* An entry is placed by the first INDEX 01 of its track, and the index    *)
(* flag tells whether the current track had one.                           *)
EntriesAsRead ==
  /\ \A t \in 0 .. MaxLines :
       /\ img.tocent[t].start_lba =
            IF Placing(t) = {} THEN 0 ELSE sheet[Min(Placing(t))].at + Pregap
       /\ img.tocent[t].flags = UNION {sheet[k].flags : k \in Section(t + 1, "FLAGS")}
  /\ i >= 0 => (b_first_index_for_track = "no" <=> Placing(i) = {})

(* One title for each section that has some, the last.                     *)
TitleTrack(b) == IF b = 0 THEN 0 ELSE img.i_first_track + b - 1
Titled == {b \in 0 .. MaxLines : Section(b, "TITLE") # {}}
TitlesAsRead ==
  img.titles = {[track |-> TitleTrack(b), text |-> LastOf(Section(b, "TITLE"))] : b \in Titled}

(* A track that another one follows has the count that INDEX 01 of the     *)
(* next one gave it.                                                       *)
CountsAsRead ==
  \A t \in 0 .. img.i_tracks - 2 :
    Placing(t + 1) # {} =>
      img.tocent[t].sec_count = PrevSecCount(img.tocent[t].start_lba, img.tocent[t + 1].start_lba)

(* The disc mode of the tracks read so far.                                *)
Formats == {img.tocent[t].layout.format : t \in 0 .. img.i_tracks - 1}
SummedUp(formats) ==
  CASE formats = {} -> "NO_INFO"
    [] formats = {"AUDIO"} -> "CD_DA"
    [] formats = {"DATA"} -> "CD_DATA"
    [] formats = {"XA"} -> "CD_XA"
    [] OTHER -> "CD_MIXED"
NoMode2336 == \A t \in 0 .. img.i_tracks - 1 : img.tocent[t].layout.blocksize # 2336
ModeAsRead == NoMode2336 => img.disc_mode = SummedUp(Formats)

IInv ==
  /\ TypeOK
  /\ Positioned
  /\ ProbeIsDry
  /\ SheetAccepted
  /\ ProbeAgreesWithLoad
  /\ pc \in {"load", "failed", "open"} => StringsAsRead
  /\ Loading => EntriesAsRead /\ TitlesAsRead /\ CountsAsRead /\ ModeAsRead
  /\ TracksAsWritten /\ LastTrackCounted /\ DiscModeMatchesTracks
  /\ TracksDoNotOverlap
  /\ OnlySupersededStringsLeak

-----------------------------------------------------------------------------
(* The layout that a mode of set_trackmode stands for.                     *)
LEMMA LayoutIsTyped ==
  ASSUME NEW mode \in Modes
  PROVE  Layout(mode) \in LayoutType
BY DEF Layout, Modes, LayoutType

(* The lines of one keyword can be counted.                                *)
LEMMA TracksFinite ==
  ASSUME NEW kw, NEW from \in Int, NEW to \in Int
  PROVE  /\ IsFiniteSet(LinesOf(kw, from, to))
         /\ Cardinality(LinesOf(kw, from, to)) \in Nat
BY FS_Interval, FS_Subset, FS_CardinalityType DEF LinesOf

(* A TRACK line counts for the lines after it, any other line for none.    *)
LEMMA TracksBeforeNext ==
  ASSUME NEW k \in Nat \ {0}
  PROVE  /\ TracksBefore(k) \in Nat
         /\ TracksBefore(k + 1) = TracksBefore(k) + (IF sheet[k].kw = "TRACK" THEN 1 ELSE 0)
<1>1. IsFiniteSet(TrackLines(k - 1)) /\ Cardinality(TrackLines(k - 1)) \in Nat
  BY TracksFinite DEF TrackLines
<1>2. k \notin TrackLines(k - 1)
  BY DEF TrackLines, LinesOf
<1>3. TrackLines(k) = IF sheet[k].kw = "TRACK" THEN TrackLines(k - 1) \cup {k} ELSE TrackLines(k - 1)
  BY DEF TrackLines, LinesOf
<1>4. Cardinality(TrackLines(k - 1) \cup {k}) = Cardinality(TrackLines(k - 1)) + 1
  BY <1>1, <1>2, FS_AddElement
<1>5. k + 1 - 1 = k
  OBVIOUS
<1>6. TracksBefore(k) = Cardinality(TrackLines(k - 1)) /\ TracksBefore(k + 1) = Cardinality(TrackLines(k))
  BY <1>5 DEF TracksBefore
<1>7. CASE sheet[k].kw = "TRACK"
  BY <1>1, <1>3, <1>4, <1>6, <1>7
<1>8. CASE sheet[k].kw # "TRACK"
  BY <1>1, <1>3, <1>6, <1>8
<1> QED BY <1>7, <1>8

(* The tracks before a line are no fewer than before an earlier line, and  *)
(* no more than the lines before it.                                       *)
LEMMA TracksBeforeGrows ==
  ASSUME NEW j \in Nat \ {0}, NEW k \in Nat, j <= k
  PROVE  TracksBefore(j) <= TracksBefore(k) /\ TracksBefore(k) <= k - 1
<1>1. TrackLines(j - 1) \subseteq TrackLines(k - 1) /\ TrackLines(k - 1) \subseteq 1 .. k - 1
  BY DEF TrackLines, LinesOf
<1>2. IsFiniteSet(TrackLines(k - 1)) /\ IsFiniteSet(1 .. k - 1)
  BY TracksFinite, FS_Interval DEF TrackLines
<1>3. Cardinality(1 .. k - 1) = k - 1
  <2>1. Cardinality(1 .. k - 1) = IF 1 > k - 1 THEN 0 ELSE (k - 1) - 1 + 1
    BY FS_Interval
  <2> QED BY <2>1
<1> QED BY <1>1, <1>2, <1>3, FS_Subset, FS_CardinalityType DEF TracksBefore

-----------------------------------------------------------------------------
(* What one accepted line l does to each field of the image in the second  *)
(* run.                                                                    *)
PutsIsrc(l, t) == l.kw = "ISRC" /\ t = i
PutsFile(l, t) == l.kw = "FILE" /\ t = i + 1
PutsFlags(l, t) == l.kw = "FLAGS" /\ t = i
PutsLayout(l, t) == l.kw = "TRACK" /\ t = i + 1
PutsStart(l, t) == l.kw = "INDEX" /\ l.n = 1 /\ t = i /\ b_first_index_for_track = "no"
PutsCount(l, t) == l.kw = "INDEX" /\ l.n = 1 /\ t = i - 1

EntryRead(l, t, old, new) ==
  /\ new.isrc = IF PutsIsrc(l, t) THEN ThisLine ELSE old.isrc
  /\ new.filename = IF PutsFile(l, t) THEN ThisLine ELSE old.filename
  /\ new.flags = IF PutsFlags(l, t) THEN old.flags \cup l.flags ELSE old.flags
  /\ new.layout = IF PutsLayout(l, t) THEN Layout(l.arg) ELSE old.layout
  /\ new.start_lba = IF PutsStart(l, t) THEN l.at + Pregap ELSE old.start_lba

LineRead(l) ==
  /\ l = sheet[ThisLine] /\ line < Len(sheet) /\ line' = ThisLine /\ sheet' = sheet
  /\ pc' = "load"
  /\ Acceptable(l, ThisLine)
  /\ i' = IF l.kw = "TRACK" THEN i + 1 ELSE i
  /\ b_first_index_for_track' = CASE l.kw = "TRACK" -> "no"
                                  [] l.kw = "INDEX" /\ l.n = 1 -> "yes"
                                  [] OTHER -> b_first_index_for_track
  /\ heap' = IF l.kw \in {"CATALOG", "FILE", "ISRC"} THEN heap \cup {ThisLine} ELSE heap
  /\ img' \in ImageType
  /\ img'.mcn = IF l.kw = "CATALOG" THEN ThisLine ELSE img.mcn
  /\ img'.i_tracks = IF l.kw = "TRACK" THEN img.i_tracks + 1 ELSE img.i_tracks
  /\ img'.i_first_track = IF l.kw = "TRACK" /\ i = -1 THEN l.n ELSE img.i_first_track
  /\ img'.disc_mode = IF l.kw = "TRACK" THEN DiscModeAfter(img.disc_mode, l.arg) ELSE img.disc_mode
  /\ img'.titles = IF l.kw = "TITLE"
                   THEN {t \in img.titles : t.track # TextTrack} \cup {[track |-> TextTrack, text |-> ThisLine]}
                   ELSE img.titles
  /\ \A t \in 0 .. MaxLines :
       /\ EntryRead(l, t, img.tocent[t], img'.tocent[t])
       /\ img'.tocent[t].sec_count =
            IF PutsCount(l, t) /\ t >= 0
            THEN PrevSecCount(img'.tocent[t].start_lba, img'.tocent[t + 1].start_lba)
            ELSE img.tocent[t].sec_count

(* The disc mode after one more track is a disc mode.                      *)
LEMMA DiscModeIsTyped ==
  ASSUME NEW disc \in {"NO_INFO", "CD_DA", "CD_DATA", "CD_XA", "CD_MIXED"}, NEW mode \in Modes
  PROVE  DiscModeAfter(disc, mode) \in {"NO_INFO", "CD_DA", "CD_DATA", "CD_XA", "CD_MIXED"}
BY DEF DiscModeAfter, OwnDiscMode, Modes

(* The count that INDEX 01 gives the track before is a number, also when   *)
(* the sheet places it backwards.                                          *)
LEMMA PrevSecCountIsTyped ==
  ASSUME NEW prev \in Int, NEW start \in Int
  PROVE  PrevSecCount(prev, start) \in Int
BY CueSheetAssumption DEF PrevSecCount

(* A new table of entries leaves the rest of the image alone.              *)
SameButToc(im, new) ==
  /\ new.lead_lsn = im.lead_lsn /\ new.i_tracks = im.i_tracks
  /\ new.i_first_track = im.i_first_track /\ new.disc_mode = im.disc_mode
  /\ new.mcn = im.mcn /\ new.cdtextfile = im.cdtextfile /\ new.titles = im.titles

LEMMA TocChanged ==
  ASSUME NEW im \in ImageType, NEW T \in TocType
  PROVE  /\ [im EXCEPT !.tocent = T] \in ImageType
         /\ SameButToc(im, [im EXCEPT !.tocent = T])
         /\ [im EXCEPT !.tocent = T].tocent = T
BY DEF ImageType, SameButToc

(* An entry of the table replaced by another leaves the other entries and  *)
(* every other field of the image as they were.                            *)
LEMMA EntryChanged ==
  ASSUME NEW im \in ImageType, NEW k \in 0 .. MaxLines, NEW e \in TrackType
  PROVE  /\ [im EXCEPT !.tocent[k] = e] \in ImageType
         /\ SameButToc(im, [im EXCEPT !.tocent[k] = e])
         /\ \A t \in 0 .. MaxLines :
              [im EXCEPT !.tocent[k] = e].tocent[t] = IF t = k THEN e ELSE im.tocent[t]
<1> DEFINE T == [im.tocent EXCEPT ![k] = e]
<1>1. im.tocent \in TocType
  BY DEF ImageType
<1>2. T \in TocType /\ \A t \in 0 .. MaxLines : T[t] = IF t = k THEN e ELSE im.tocent[t]
  BY <1>1 DEF TocType
<1> HIDE DEF T
<1>3. [im EXCEPT !.tocent = T] \in ImageType /\ SameButToc(im, [im EXCEPT !.tocent = T])
      /\ [im EXCEPT !.tocent = T].tocent = T
  BY <1>2, TocChanged
<1>4. [im EXCEPT !.tocent = T] = [im EXCEPT !.tocent[k] = e]
  BY DEF T
<1>5. /\ [im EXCEPT !.tocent[k] = e] \in ImageType
      /\ SameButToc(im, [im EXCEPT !.tocent[k] = e])
      /\ [im EXCEPT !.tocent[k] = e].tocent = T
  BY <1>3, <1>4, Zenon
<1> QED BY <1>2, <1>5, Zenon

(* A line of the second run does to each field of the image what LineRead  *)
(* says, or it is the CDTEXTFILE line whose file cannot be read. One case  *)
(* for each action; the error exits of the others are closed by            *)
(* SheetAccepted, and the index flag by the position.                      *)
LEMMA LoadedLine ==
  ASSUME TypeOK, Positioned, SheetAccepted, Loading, NEW l \in Lines, ParseLine(l)
  PROVE  \/ LineRead(l)
         \/ /\ pc' = "failed" /\ l.kw = "CDTEXTFILE" /\ l.arg = "unreadable"
            /\ l = sheet[ThisLine] /\ line < Len(sheet) /\ line' = ThisLine /\ sheet' = sheet
            /\ UNCHANGED <<i, b_first_index_for_track, img, heap>>
<1>1. /\ l = sheet[ThisLine] /\ line < Len(sheet) /\ line' = ThisLine /\ sheet' = sheet
      /\ line \in Nat /\ ThisLine \in 1 .. MaxLines /\ ThisLine \in Nat \ {0}
      /\ ThisLine = line + 1 /\ MaxLines \in Nat /\ pc # "rejected" /\ pc # "probe"
  BY CueSheetAssumption DEF ParseLine, ReadLine, Loading, TypeOK, ThisLine
<1>2. Acceptable(l, ThisLine)
  BY <1>1 DEF SheetAccepted, ThisLine, TypeOK
<1>3. /\ TracksBefore(ThisLine) \in 0 .. line
      /\ i = TracksBefore(ThisLine) - 1
      /\ InGlobalSection <=> TracksBefore(ThisLine) = 0
      /\ img.i_tracks = i + 1
  <2>1. TracksBefore(ThisLine) \in Nat
    BY <1>1, TracksBeforeNext
  <2>2. TracksBefore(ThisLine) <= ThisLine - 1
    BY <1>1, TracksBeforeGrows
  <2> QED BY <1>1, <2>1, <2>2 DEF Positioned, Loading, ThisLine, InGlobalSection
<1>4. l.kw \in Keywords /\ l.n \in Nat /\ l.at \in Int /\ Pregap \in Nat /\ l.at + Pregap \in Int
  BY CueSheetAssumption
<1>5. l.flags \subseteq UNION {m.flags : m \in Lines}
  OBVIOUS
<1>a. img \in ImageType /\ \A t \in 0 .. MaxLines : img.tocent[t] \in TrackType
  BY DEF TypeOK, ImageType, TocType
<1>6. CASE Rem(l)
  BY <1>1, <1>2, <1>3, <1>4, <1>6, <1>a DEF Rem, Take, Stay, Loading, LineRead, EntryRead,
     PutsIsrc, PutsFile, PutsFlags, PutsLayout, PutsStart, PutsCount
<1>7. CASE Catalog(l)
  <2>1. /\ l.kw = "CATALOG"
        /\ img' = [img EXCEPT !.mcn = ThisLine]
        /\ pc' = pc /\ heap' = heap \cup {ThisLine} /\ Stay
    BY <1>2, <1>3, <1>7 DEF Catalog, Take, StrDup, Loading, Acceptable
  <2>2. img' \in ImageType /\ img'.tocent = img.tocent
    BY <1>1, <1>a, <2>1 DEF ImageType
  <2> QED
    BY <1>1, <1>2, <1>3, <1>a, <2>1, <2>2 DEF Stay, Loading, LineRead, EntryRead,
       PutsIsrc, PutsFile, PutsFlags, PutsLayout, PutsStart, PutsCount, ImageType
<1>8. CASE CdtextFile(l)
  <2>1. CASE pc' = "failed"
    BY <1>1, <1>2, <1>8, <2>1 DEF CdtextFile, Take, Reject, Stay, Loading, Acceptable
  <2>2. CASE pc' # "failed"
    <3>1. /\ l.kw = "CDTEXTFILE"
          /\ img' = [img EXCEPT !.cdtextfile = ThisLine]
          /\ pc' = pc /\ heap' = heap /\ Stay
      BY <1>2, <1>3, <1>8, <2>2 DEF CdtextFile, Take, Reject, Loading, Acceptable
    <3>2. img' \in ImageType /\ img'.tocent = img.tocent
      BY <1>1, <1>a, <3>1 DEF ImageType
    <3> QED
      BY <1>1, <1>2, <1>3, <1>a, <3>1, <3>2 DEF Stay, Loading, LineRead, EntryRead,
         PutsIsrc, PutsFile, PutsFlags, PutsLayout, PutsStart, PutsCount, ImageType
  <2> QED BY <2>1, <2>2
<1>9. CASE File(l)
  <2>0. PICK k \in 0 .. MaxLines : k = i + 1
    BY <1>1, <1>3
  <2> DEFINE e == [img.tocent[k] EXCEPT !.filename = ThisLine]
  <2>1. /\ l.kw = "FILE" /\ i \in Int
        /\ img' = [img EXCEPT !.tocent[k] = e]
        /\ pc' = pc /\ heap' = heap \cup {ThisLine} /\ Stay
    BY <1>2, <1>3, <1>9, <2>0 DEF File, FileEntry, Take, Reject, StrDup, Loading, Acceptable
  <2>3. e \in TrackType
    BY <1>1, <1>4, <1>5, <1>a, <2>0 DEF TrackType
  <2>4. /\ img' \in ImageType /\ SameButToc(img, img')
        /\ \A t \in 0 .. MaxLines : img'.tocent[t] = IF t = k THEN e ELSE img.tocent[t]
    BY <1>a, <2>1, <2>0, <2>3, EntryChanged
  <2>5. ASSUME NEW t \in 0 .. MaxLines
        PROVE  EntryRead(l, t, img.tocent[t], img'.tocent[t])
               /\ img'.tocent[t].sec_count = img.tocent[t].sec_count
    BY <1>a, <2>1, <2>0, <2>4 DEF EntryRead, TrackType, PutsIsrc, PutsFile, PutsFlags,
       PutsLayout, PutsStart
  <2> QED
    BY <1>1, <1>2, <1>3, <2>0, <2>1, <2>4, <2>5 DEF Stay, Loading, LineRead, SameButToc, PutsCount
<1>10. CASE Flags(l)
  <2> DEFINE e == [img.tocent[i] EXCEPT !.flags = @ \cup l.flags]
  <2>1. /\ l.kw = "FLAGS" /\ i >= 0
        /\ img' = [img EXCEPT !.tocent[i] = e]
        /\ pc' = pc /\ heap' = heap /\ Stay
    BY <1>2, <1>3, <1>10 DEF Flags, Take, Reject, Loading, Acceptable
  <2>2. i \in 0 .. MaxLines
    BY <1>1, <1>3, <2>1
  <2>3. e \in TrackType
    BY <1>1, <1>4, <1>5, <1>a, <2>2 DEF TrackType
  <2>e. /\ e.flags = img.tocent[i].flags \cup l.flags
        /\ e.isrc = img.tocent[i].isrc /\ e.filename = img.tocent[i].filename
        /\ e.layout = img.tocent[i].layout /\ e.start_lba = img.tocent[i].start_lba
        /\ e.sec_count = img.tocent[i].sec_count
    BY <1>a, <2>2 DEF TrackType
  <2> HIDE DEF e
  <2>4. /\ img' \in ImageType /\ SameButToc(img, img')
        /\ \A t \in 0 .. MaxLines : img'.tocent[t] = IF t = i THEN e ELSE img.tocent[t]
    BY <1>a, <2>1, <2>2, <2>3, EntryChanged
  <2>5. ASSUME NEW t \in 0 .. MaxLines
        PROVE  EntryRead(l, t, img.tocent[t], img'.tocent[t])
               /\ img'.tocent[t].sec_count = img.tocent[t].sec_count
    <3>1. CASE t = i
      <4>1. img'.tocent[t] = e
        BY <2>4, <3>1
      <4> QED BY <2>1, <2>e, <3>1, <4>1, Zenon DEF EntryRead, PutsIsrc, PutsFile, PutsFlags,
            PutsLayout, PutsStart
    <3>2. CASE t # i
      <4>1. img'.tocent[t] = img.tocent[t]
        BY <2>4, <3>2
      <4> QED BY <2>1, <3>2, <4>1 DEF EntryRead, PutsIsrc, PutsFile, PutsFlags, PutsLayout, PutsStart
    <3> QED BY <3>1, <3>2
  <2> QED
    BY <1>1, <1>2, <1>3, <2>1, <2>4, <2>5 DEF Stay, Loading, LineRead, SameButToc, PutsCount
<1>11. CASE Isrc(l)
  <2> DEFINE e == [img.tocent[i] EXCEPT !.isrc = ThisLine]
  <2>1. /\ l.kw = "ISRC" /\ i >= 0
        /\ img' = [img EXCEPT !.tocent[i] = e]
        /\ pc' = pc /\ heap' = heap \cup {ThisLine} /\ Stay
    BY <1>2, <1>3, <1>11 DEF Isrc, Take, Reject, StrDup, Loading, Acceptable
  <2>2. i \in 0 .. MaxLines
    BY <1>1, <1>3, <2>1
  <2>3. e \in TrackType
    BY <1>1, <1>4, <1>5, <1>a, <2>2 DEF TrackType
  <2>4. /\ img' \in ImageType /\ SameButToc(img, img')
        /\ \A t \in 0 .. MaxLines : img'.tocent[t] = IF t = i THEN e ELSE img.tocent[t]
    BY <1>a, <2>1, <2>2, <2>3, EntryChanged
  <2>5. ASSUME NEW t \in 0 .. MaxLines
        PROVE  EntryRead(l, t, img.tocent[t], img'.tocent[t])
               /\ img'.tocent[t].sec_count = img.tocent[t].sec_count
    BY <1>a, <2>1, <2>2, <2>4 DEF EntryRead, TrackType, PutsIsrc, PutsFile, PutsFlags,
       PutsLayout, PutsStart
  <2> QED
    BY <1>1, <1>2, <1>3, <2>1, <2>4, <2>5 DEF Stay, Loading, LineRead, SameButToc, PutsCount
<1>12. CASE PregapLine(l)
  <2> DEFINE e == [img.tocent[i] EXCEPT !.silence = l.at + Pregap]
  <2>1. /\ l.kw = "PREGAP" /\ i >= 0
        /\ img' = [img EXCEPT !.tocent[i] = e]
        /\ pc' = pc /\ heap' = heap /\ Stay
    BY <1>2, <1>3, <1>12 DEF PregapLine, Take, Reject, Loading, Acceptable
  <2>2. i \in 0 .. MaxLines
    BY <1>1, <1>3, <2>1
  <2>3. e \in TrackType
    BY <1>1, <1>4, <1>5, <1>a, <2>2 DEF TrackType
  <2>4. /\ img' \in ImageType /\ SameButToc(img, img')
        /\ \A t \in 0 .. MaxLines : img'.tocent[t] = IF t = i THEN e ELSE img.tocent[t]
    BY <1>a, <2>1, <2>2, <2>3, EntryChanged
  <2>5. ASSUME NEW t \in 0 .. MaxLines
        PROVE  EntryRead(l, t, img.tocent[t], img'.tocent[t])
               /\ img'.tocent[t].sec_count = img.tocent[t].sec_count
    BY <1>a, <2>1, <2>2, <2>4 DEF EntryRead, TrackType, PutsIsrc, PutsFile, PutsFlags,
       PutsLayout, PutsStart
  <2> QED
    BY <1>1, <1>2, <1>3, <2>1, <2>4, <2>5 DEF Stay, Loading, LineRead, SameButToc, PutsCount
<1>13. CASE Title(l)
  <2> DEFINE T == {t \in img.titles : t.track # TextTrack} \cup {[track |-> TextTrack, text |-> ThisLine]}
  <2>1. /\ l.kw = "TITLE"
        /\ img' = [img EXCEPT !.titles = T]
        /\ pc' = pc /\ heap' = heap /\ Stay
    BY <1>13 DEF Title, Take, Loading
  <2>a. img.i_first_track \in 1 .. 99 /\ img.titles \subseteq [track : Nat, text : Nat]
    BY <1>a DEF ImageType
  <2>b. TextTrack \in Nat
    <3>1. i \in Int /\ i >= -1
      BY <1>1, <1>3
    <3> QED BY <2>a, <3>1 DEF TextTrack, InGlobalSection
  <2>2. T \subseteq [track : Nat, text : Nat]
    BY <1>1, <2>a, <2>b
  <2>3. img' \in ImageType /\ img'.tocent = img.tocent /\ img'.titles = T
    BY <1>1, <1>a, <2>1, <2>2 DEF ImageType
  <2> QED
    BY <1>1, <1>2, <1>3, <1>a, <2>1, <2>3 DEF Stay, Loading, LineRead, EntryRead,
       PutsIsrc, PutsFile, PutsFlags, PutsLayout, PutsStart, PutsCount, ImageType
<1>14. CASE Unrecognized(l)
  BY <1>2, <1>14 DEF Unrecognized, Acceptable
<1>15. CASE Track(l)
  <2>1. /\ l.kw = "TRACK" /\ l.n \in 1 .. 99 /\ l.arg \in Modes
        /\ img' = WithMode(l)
        /\ i' = i + 1 /\ b_first_index_for_track' = "no"
        /\ pc' = pc /\ heap' = heap
    BY <1>2, <1>15 DEF Track, Take, Reject, Loading, Acceptable, ModeWordRead, IndexFlagCleared, Modes
  <2>2. PICK k \in 0 .. MaxLines : k = i + 1 /\ k = img.i_tracks
    BY <1>1, <1>3
  <2>3. PICK w \in ImageType :
          /\ w = WithTrack(l)
          /\ w.tocent = img.tocent /\ w.i_tracks = img.i_tracks + 1
          /\ w.i_first_track = IF i = -1 THEN l.n ELSE img.i_first_track
          /\ w.mcn = img.mcn /\ w.disc_mode = img.disc_mode /\ w.titles = img.titles
    <3> DEFINE first == IF InGlobalSection THEN l.n ELSE img.i_first_track
    <3>1. first \in 1 .. 99 /\ img.i_tracks + 1 \in Nat
          /\ first = IF i = -1 THEN l.n ELSE img.i_first_track
      BY <1>a, <2>1 DEF ImageType, InGlobalSection
    <3>2. WithTrack(l) = [img EXCEPT !.i_tracks = @ + 1, !.i_first_track = first]
      BY <1>a DEF WithTrack, Numbered, ImageType
    <3> HIDE DEF first
    <3> QED BY <1>a, <3>1, <3>2 DEF ImageType
  <2> DEFINE e1 == [img.tocent[k] EXCEPT !.layout = Layout(l.arg)]
             m1 == [w EXCEPT !.tocent[k].layout = Layout(l.arg)]
  <2>4. PICK e \in TrackType :
          /\ e = [e1 EXCEPT !.num_indices = 0]
          /\ e.isrc = img.tocent[k].isrc /\ e.filename = img.tocent[k].filename
          /\ e.flags = img.tocent[k].flags /\ e.start_lba = img.tocent[k].start_lba
          /\ e.sec_count = img.tocent[k].sec_count /\ e.layout = Layout(l.arg)
    <3>1. e1 \in TrackType
      BY <1>a, <2>1, LayoutIsTyped DEF TrackType
    <3>2. [e1 EXCEPT !.num_indices = 0] \in TrackType
      BY <3>1 DEF TrackType
    <3> QED BY <1>a, <3>1, <3>2 DEF TrackType
  <2>5. /\ m1 \in ImageType /\ SameButToc(w, m1)
        /\ \A t \in 0 .. MaxLines : m1.tocent[t] = IF t = k THEN e1 ELSE img.tocent[t]
    <3>1. e1 \in TrackType
      BY <1>a, <2>1, LayoutIsTyped DEF TrackType
    <3>2. m1 = [w EXCEPT !.tocent[k] = e1]
      BY <2>3
    <3> QED BY <2>3, <3>1, <3>2, EntryChanged
  <2>6. PICK m \in ImageType :
          /\ m = [m1 EXCEPT !.tocent[k].num_indices = 0] /\ SameButToc(w, m)
          /\ \A t \in 0 .. MaxLines : m.tocent[t] = IF t = k THEN e ELSE img.tocent[t]
    <3>1. m1.tocent[k] = e1
      BY <2>5
    <3> HIDE DEF m1, e1
    <3>2. [m1 EXCEPT !.tocent[k].num_indices = 0] = [m1 EXCEPT !.tocent[k] = e]
      BY <2>4, <3>1
    <3>3. /\ [m1 EXCEPT !.tocent[k] = e] \in ImageType
          /\ SameButToc(m1, [m1 EXCEPT !.tocent[k] = e])
          /\ \A t \in 0 .. MaxLines :
               [m1 EXCEPT !.tocent[k] = e].tocent[t] = IF t = k THEN e ELSE m1.tocent[t]
      BY <2>5, EntryChanged
    <3>4. PICK m \in ImageType : m = [m1 EXCEPT !.tocent[k] = e]
      BY <3>3
    <3>5. /\ SameButToc(m1, m)
          /\ \A t \in 0 .. MaxLines : m.tocent[t] = IF t = k THEN e ELSE m1.tocent[t]
      BY <3>3, <3>4
    <3>6. \A t \in 0 .. MaxLines : m.tocent[t] = IF t = k THEN e ELSE img.tocent[t]
      BY <2>5, <3>5
    <3>7. SameButToc(w, m)
      BY <2>5, <3>5 DEF SameButToc
    <3> QED BY <3>2, <3>4, <3>6, <3>7
  <2>7. img' = [m EXCEPT !.disc_mode = DiscModeAfter(img.disc_mode, l.arg)]
    <3>1. m.disc_mode = img.disc_mode
      BY <2>3, <2>6 DEF SameButToc
    <3> QED BY <2>1, <2>2, <2>3, <2>6, <3>1 DEF WithMode
  <2>8. DiscModeAfter(img.disc_mode, l.arg) \in {"NO_INFO", "CD_DA", "CD_DATA", "CD_XA", "CD_MIXED"}
    BY <1>a, <2>1, DiscModeIsTyped DEF ImageType
  <2>9. /\ img' \in ImageType /\ img'.tocent = m.tocent
        /\ img'.disc_mode = DiscModeAfter(img.disc_mode, l.arg)
        /\ img'.mcn = img.mcn /\ img'.titles = img.titles
        /\ img'.i_tracks = img.i_tracks + 1 /\ img'.i_first_track = w.i_first_track
    BY <2>3, <2>6, <2>7, <2>8 DEF ImageType, SameButToc
  <2>10. ASSUME NEW t \in 0 .. MaxLines
         PROVE  EntryRead(l, t, img.tocent[t], img'.tocent[t])
                /\ img'.tocent[t].sec_count = img.tocent[t].sec_count
    BY <2>1, <2>2, <2>4, <2>6, <2>9 DEF EntryRead, PutsIsrc, PutsFile, PutsFlags, PutsLayout, PutsStart
  <2> QED
    BY <1>1, <1>2, <2>1, <2>3, <2>9, <2>10 DEF Loading, LineRead, PutsCount
<1>16. CASE Index(l) /\ l.n = 0
  <2> DEFINE e == [img.tocent[i] EXCEPT !.pregap = l.at + Pregap]
  <2>1. /\ l.kw = "INDEX" /\ i >= 0
        /\ img' = [img EXCEPT !.tocent[i] = e]
        /\ pc' = pc /\ heap' = heap /\ Stay
    <3>1. img.i_tracks - 1 = i
      BY <1>1, <1>3
    <3> QED BY <1>2, <1>3, <1>16, <3>1 DEF Index, Take, Reject, Loading, Acceptable, Stay
  <2>2. i \in 0 .. MaxLines
    BY <1>1, <1>3, <2>1
  <2>3. e \in TrackType
    BY <1>1, <1>4, <1>5, <1>a, <2>2 DEF TrackType
  <2>4. /\ img' \in ImageType /\ SameButToc(img, img')
        /\ \A t \in 0 .. MaxLines : img'.tocent[t] = IF t = i THEN e ELSE img.tocent[t]
    BY <1>a, <2>1, <2>2, <2>3, EntryChanged
  <2>5. ASSUME NEW t \in 0 .. MaxLines
        PROVE  EntryRead(l, t, img.tocent[t], img'.tocent[t])
               /\ img'.tocent[t].sec_count = img.tocent[t].sec_count
    BY <1>16, <1>a, <2>1, <2>2, <2>4 DEF EntryRead, TrackType, PutsIsrc, PutsFile, PutsFlags,
       PutsLayout, PutsStart
  <2> QED
    BY <1>1, <1>2, <1>3, <1>16, <2>1, <2>4, <2>5 DEF Stay, Loading, LineRead, SameButToc, PutsCount
<1>17. CASE Index(l) /\ l.n > 1
  <2>1. /\ l.kw = "INDEX" /\ l.n # 1 /\ img' = img /\ pc' = pc /\ heap' = heap /\ i' = i
        /\ b_first_index_for_track' = b_first_index_for_track
    BY <1>2, <1>3, <1>4, <1>17 DEF Index, Take, Reject, Acceptable, Loading
  <2>2. ASSUME NEW t \in 0 .. MaxLines
        PROVE  EntryRead(l, t, img.tocent[t], img'.tocent[t])
    BY <2>1 DEF EntryRead, PutsIsrc, PutsFile, PutsFlags, PutsLayout, PutsStart
  <2> QED
    BY <1>1, <1>2, <1>a, <2>1, <2>2 DEF Loading, LineRead, PutsCount
<1>18. CASE Index(l) /\ l.n = 1
  <2> DEFINE start == IF b_first_index_for_track = "no" THEN l.at + Pregap
                      ELSE img.tocent[i].start_lba
             e1 == [img.tocent[i] EXCEPT !.start_lba = start]
             e == [e1 EXCEPT !.num_indices = @ + 1]
             placed == [img.tocent EXCEPT ![i].start_lba = start, ![i].num_indices = @ + 1]
             T == IF img.i_tracks > 1
                  THEN [placed EXCEPT ![i - 1].sec_count = PrevSecCount(placed[i - 1].start_lba, start)]
                  ELSE placed
  <2>0. img.i_tracks - 1 = i /\ (img.i_tracks > 1 <=> i > 0) /\ i \in Int
    BY <1>1, <1>3
  <2>1. /\ l.kw = "INDEX" /\ i >= 0
        /\ img' = WithIndex1(l)
        /\ b_first_index_for_track' = "yes" /\ i' = i
        /\ pc' = pc /\ heap' = heap
    BY <1>2, <1>3, <1>18 DEF Index, Take, Reject, Loading, Acceptable
  <2>2. i \in 0 .. MaxLines
    BY <1>1, <1>3, <2>1
  <2>3. start \in Int /\ img.tocent[i] \in TrackType
    BY <1>4, <1>a, <2>2 DEF TrackType
  <2>4. img' = [img EXCEPT !.tocent = T]
    <3> DEFINE At(k) == IF b_first_index_for_track = "no" THEN l.at + Pregap
                        ELSE img.tocent[k].start_lba
               Set(k) == [img.tocent EXCEPT ![k].start_lba = At(k), ![k].num_indices = @ + 1]
               Toc(k) ==
                 IF img.i_tracks > 1
                 THEN [Set(k) EXCEPT ![k - 1].sec_count = PrevSecCount(Set(k)[k - 1].start_lba, At(k))]
                 ELSE Set(k)
    <3>1. img' = [img EXCEPT !.tocent = Toc(img.i_tracks - 1)]
      BY <2>1, Zenon DEF WithIndex1
    <3>2. T = Toc(i)
      OBVIOUS
    <3> HIDE DEF Toc, T
    <3> QED BY <2>0, <3>1, <3>2
  <2> HIDE DEF start
  <2>5. e1 \in TrackType /\ e \in TrackType
    <3>1. e1 \in TrackType
      BY <2>3 DEF TrackType
    <3> HIDE DEF e1
    <3>2. e1.num_indices + 1 \in Nat
      BY <3>1 DEF TrackType
    <3> QED BY <3>1, <3>2 DEF TrackType
  <2>e. /\ e.start_lba = start /\ e.sec_count = img.tocent[i].sec_count
        /\ e.isrc = img.tocent[i].isrc /\ e.filename = img.tocent[i].filename
        /\ e.flags = img.tocent[i].flags /\ e.layout = img.tocent[i].layout
    BY <2>3 DEF TrackType
  <2>6. placed = [img.tocent EXCEPT ![i] = e]
    BY <1>a, <2>2 DEF TocType, ImageType
  <2> HIDE DEF e, e1, placed
  <2>7. /\ placed \in TocType
        /\ \A t \in 0 .. MaxLines : placed[t] = IF t = i THEN e ELSE img.tocent[t]
    BY <1>a, <2>2, <2>5, <2>6 DEF TocType, ImageType
  <2>8. CASE i > 0
    <3> DEFINE c == PrevSecCount(placed[i - 1].start_lba, start)
               e2 == [placed[i - 1] EXCEPT !.sec_count = c]
    <3>1. i - 1 \in 0 .. MaxLines
      BY <1>1, <2>2, <2>8
    <3>2. placed[i - 1] = img.tocent[i - 1] /\ placed[i - 1] \in TrackType
      BY <1>a, <2>0, <2>2, <2>7, <3>1
    <3>3. c \in Int
      BY <2>3, <3>2, PrevSecCountIsTyped DEF TrackType
    <3> HIDE DEF c
    <3>4. e2 \in TrackType
      BY <3>2, <3>3 DEF TrackType
    <3>5. /\ e2.sec_count = c /\ e2.start_lba = img.tocent[i - 1].start_lba
          /\ e2.isrc = img.tocent[i - 1].isrc /\ e2.filename = img.tocent[i - 1].filename
          /\ e2.flags = img.tocent[i - 1].flags /\ e2.layout = img.tocent[i - 1].layout
      BY <3>2 DEF TrackType
    <3>6. T = [placed EXCEPT ![i - 1] = e2]
      BY <2>0, <2>8 DEF c
    <3> HIDE DEF e2, T
    <3>7. /\ T \in TocType
          /\ \A t \in 0 .. MaxLines : T[t] = CASE t = i -> e [] t = i - 1 -> e2 [] OTHER -> img.tocent[t]
      BY <2>0, <2>2, <2>7, <3>1, <3>4, <3>6 DEF TocType
    <3>8. img' \in ImageType /\ SameButToc(img, img') /\ img'.tocent = T
      BY <1>a, <2>4, <3>7, TocChanged
    <3>9. c = PrevSecCount(img'.tocent[i - 1].start_lba, img'.tocent[i].start_lba)
      BY <2>0, <2>2, <2>e, <3>1, <3>2, <3>5, <3>7, <3>8 DEF c
    <3>10. ASSUME NEW t \in 0 .. MaxLines
           PROVE  EntryRead(l, t, img.tocent[t], img'.tocent[t])
      BY <1>18, <2>0, <2>1, <2>e, <3>5, <3>7, <3>8, <3>10 DEF EntryRead, PutsIsrc, PutsFile, PutsFlags,
         PutsLayout, PutsStart, start
    <3>11. ASSUME NEW t \in 0 .. MaxLines
           PROVE  img'.tocent[t].sec_count =
                    IF PutsCount(l, t) /\ t >= 0
                    THEN PrevSecCount(img'.tocent[t].start_lba, img'.tocent[t + 1].start_lba)
                    ELSE img.tocent[t].sec_count
      <4>1. CASE t = i - 1
        <5>1. t + 1 = i
          BY <2>0, <4>1
        <5> QED BY <1>18, <2>0, <2>1, <3>1, <3>5, <3>7, <3>8, <3>9, <4>1, <5>1 DEF PutsCount
      <4>2. CASE t # i - 1
        BY <2>0, <2>e, <3>7, <3>8, <4>2 DEF PutsCount
      <4> QED BY <4>1, <4>2
    <3> QED
      BY <1>1, <1>2, <1>3, <1>18, <2>1, <3>8, <3>10, <3>11 DEF Loading, LineRead, SameButToc
  <2>9. CASE i = 0
    <3>1. T = placed
      BY <2>0, <2>9
    <3>2. img' \in ImageType /\ SameButToc(img, img') /\ img'.tocent = placed
      BY <1>a, <2>4, <2>7, <3>1, TocChanged
    <3>3. ASSUME NEW t \in 0 .. MaxLines
          PROVE  EntryRead(l, t, img.tocent[t], img'.tocent[t])
                 /\ img'.tocent[t].sec_count = img.tocent[t].sec_count
                 /\ ~(PutsCount(l, t) /\ t >= 0)
      BY <1>18, <2>0, <2>1, <2>e, <2>7, <2>9, <3>2 DEF EntryRead, PutsIsrc, PutsFile, PutsFlags,
         PutsLayout, PutsStart, PutsCount, start
    <3> QED
      BY <1>1, <1>2, <1>3, <1>18, <2>1, <3>2, <3>3 DEF Loading, LineRead, SameButToc
  <2> QED BY <2>2, <2>8, <2>9
<1> QED
  BY <1>4, <1>6, <1>7, <1>8, <1>9, <1>10, <1>11, <1>12, <1>13, <1>14, <1>15, <1>16, <1>17, <1>18
     DEF ParseLine

-----------------------------------------------------------------------------
(* One line of the dry run.                                                *)
LEMMA ProbedLine ==
  ASSUME TypeOK, Positioned, pc = "probe", NEW l \in Lines, ParseLine(l)
  PROVE  /\ sheet' = Append(sheet, l) /\ line' = ThisLine /\ Len(sheet) < MaxLines
         /\ UNCHANGED <<b_first_index_for_track, img, heap>>
         /\ \/ /\ pc' = "probe" /\ Acceptable(l, ThisLine)
               /\ i' = IF l.kw = "TRACK" THEN i + 1 ELSE i
            \/ pc' = "rejected" /\ i' \in Int
<1>1. /\ sheet' = Append(sheet, l) /\ line' = ThisLine /\ Len(sheet) < MaxLines /\ ~Loading
      /\ i \in Int /\ l.kw \in Keywords /\ l.n \in Nat
  BY CueSheetAssumption DEF ParseLine, ReadLine, Loading, TypeOK
<1>2. InGlobalSection <=> TracksBefore(ThisLine) = 0
  <2>1. ThisLine \in Nat \ {0} /\ ThisLine = line + 1
    BY DEF ThisLine, TypeOK
  <2>2. TracksBefore(ThisLine) \in Nat
    BY <2>1, TracksBeforeNext
  <2> QED BY <2>1, <2>2 DEF InGlobalSection, Positioned
<1>3. CASE Rem(l) \/ Title(l) \/ Unrecognized(l)
  BY <1>1, <1>3 DEF Rem, Title, Unrecognized, Take, Reject, Stay, Acceptable
<1>4. CASE Catalog(l)
  BY <1>1, <1>2, <1>4 DEF Catalog, Take, Reject, Stay, StrDup, Acceptable
<1>5. CASE CdtextFile(l)
  BY <1>1, <1>5 DEF CdtextFile, Take, Reject, Stay, Acceptable
<1>6. CASE File(l)
  BY <1>1, <1>6 DEF File, Take, Reject, Stay, StrDup, Acceptable
<1>7. CASE Track(l)
  BY <1>1, <1>7 DEF Track, Take, Reject, Stay, ModeWordRead, Acceptable
<1>8. CASE Flags(l)
  BY <1>1, <1>2, <1>8 DEF Flags, Take, Reject, Stay, Acceptable
<1>9. CASE Isrc(l)
  BY <1>1, <1>2, <1>9 DEF Isrc, Take, Reject, Stay, StrDup, Acceptable
<1>10. CASE PregapLine(l)
  BY <1>1, <1>2, <1>10 DEF PregapLine, Take, Reject, Stay, Acceptable
<1>11. CASE Index(l)
  BY <1>1, <1>2, <1>11 DEF Index, Take, Reject, Acceptable
<1> QED
  BY <1>3, <1>4, <1>5, <1>6, <1>7, <1>8, <1>9, <1>10, <1>11 DEF ParseLine

(* The lines already read stay what they were when the sheet grows.        *)
LEMMA SheetGrows ==
  ASSUME TypeOK, NEW l \in Lines, sheet' = Append(sheet, l), NEW k \in 1 .. Len(sheet) + 1
  PROVE  TracksBefore(k)' = TracksBefore(k) /\ (Acceptable(l, k)' <=> Acceptable(l, k))
<1>1. TrackLines(k - 1)' = TrackLines(k - 1)
  BY DEF TrackLines, LinesOf, TypeOK
<1>2. TracksBefore(k)' = TracksBefore(k)
  BY <1>1 DEF TracksBefore
<1> QED BY <1>2 DEF Acceptable

-----------------------------------------------------------------------------
(* Every set of naturals has a least element, and a bounded one a greatest.*)
LEMMA LeastNatural ==
  ASSUME NEW S \in SUBSET Nat, S # {}
  PROVE  \E m \in S : \A k \in S : m <= k
<1> DEFINE R == {ss \in Nat \X Nat : ss[1] < ss[2]}
<1>1. IsWellFoundedOn(R, Nat)
  BY NatLessThanWellFounded DEF OpToRel
<1>2. \A x \in Nat, y \in Nat : y < x => <<y, x>> \in R
  OBVIOUS
<1> HIDE DEF R
<1>3. PICK x \in S : \A y \in S : ~ (<<y, x>> \in R)
  BY <1>1, WFMin
<1>4. ASSUME NEW k \in S
      PROVE  x <= k
  <2>1. x \in Nat /\ k \in Nat
    BY <1>3
  <2>2. ~ (k < x)
    BY <1>2, <1>3, <2>1
  <2> QED BY <2>1, <2>2
<1> QED BY <1>4

(* A bounded set of naturals has a greatest element.                       *)
LEMMA GreatestBelow ==
  ASSUME NEW n \in Nat, NEW S \in SUBSET (0 .. n), S # {}
  PROVE  \E m \in S : \A k \in S : k <= m
<1> DEFINE T == {x \in 0 .. n : n - x \in S}
<1>1. T \in SUBSET Nat
  OBVIOUS
<1>2. PICK s \in S : TRUE
  OBVIOUS
<1>3. n - s \in T
  <2>1. s \in 0 .. n /\ n - (n - s) = s
    OBVIOUS
  <2> QED BY <1>2, <2>1
<1>4. PICK m \in T : \A k \in T : m <= k
  BY <1>1, <1>3, LeastNatural
<1>5. ASSUME NEW k \in S
      PROVE  k <= n - m
  <2>1. k \in 0 .. n /\ n - (n - k) = k /\ n - k \in 0 .. n
    OBVIOUS
  <2>2. n - k \in T
    BY <2>1
  <2>3. m \in 0 .. n /\ m <= n - k
    BY <1>4, <2>2
  <2> QED BY <2>1, <2>3
<1> QED BY <1>4, <1>5

(* The greatest and the least of a set of lines to which a later one is    *)
(* added.                                                                  *)
LEMMA LastOfAdded ==
  ASSUME NEW S \in SUBSET Nat, NEW n \in Nat, \A k \in S : k < n
  PROVE  LastOf(S \cup {n}) = n
<1>1. \A x \in S \cup {n} : (\A y \in S \cup {n} : x >= y) <=> x = n
  OBVIOUS
<1>2. Max(S \cup {n}) = n
  BY <1>1 DEF Max
<1> QED BY <1>2 DEF LastOf

(* The last line of a set that has some is one of them.                    *)
LEMMA LastOfMember ==
  ASSUME NEW n \in Nat, NEW S \in SUBSET (0 .. n), S # {}
  PROVE  LastOf(S) \in S /\ \A k \in S : k <= LastOf(S)
<1>1. PICK m \in S : \A k \in S : k <= m
  BY GreatestBelow
<1>2. \A k \in S : m >= k
  BY <1>1
<1> QED BY <1>2 DEF LastOf, Max

(* The first line of a set is still its first when a later one is added.   *)
LEMMA MinOfAdded ==
  ASSUME NEW S \in SUBSET Nat, NEW n \in Nat, \A k \in S : k < n
  PROVE  Min(S \cup {n}) = IF S = {} THEN n ELSE Min(S)
<1>1. CASE S = {}
  <2>1. S \cup {n} = {n}
    BY <1>1
  <2> QED BY <1>1, <2>1 DEF Min
<1>2. CASE S # {}
  <2>1. PICK m \in S : \A k \in S : m <= k
    BY <1>2, LeastNatural
  <2>2. \A x \in S : (\A y \in S : x <= y) <=> x = m
    BY <2>1
  <2>3. \A x \in S \cup {n} : (\A y \in S \cup {n} : x <= y) <=> x = m
    BY <2>1
  <2> QED BY <1>2, <2>1, <2>2, <2>3 DEF Min
<1> QED BY <1>1, <1>2

-----------------------------------------------------------------------------
(* The flags of one more FLAGS line are added to those of the ones before. *)
LEMMA UnionOfAdded ==
  ASSUME NEW A, NEW x
  PROVE  UNION (A \cup {x}) = (UNION A) \cup x
<1>1. ASSUME NEW y \in UNION (A \cup {x})
      PROVE  y \in (UNION A) \cup x
  <2>1. PICK z \in A \cup {x} : y \in z
    OBVIOUS
  <2>2. CASE z \in A
    BY <2>1, <2>2
  <2>3. CASE z = x
    BY <2>1, <2>3
  <2> QED BY <2>2, <2>3
<1>2. ASSUME NEW y \in (UNION A) \cup x
      PROVE  y \in UNION (A \cup {x})
  <2>1. PICK z \in A \cup {x} : y \in z
    OBVIOUS
  <2> QED BY <2>1
<1> QED BY <1>1, <1>2

(* The sections of the sheet after one more line.                          *)
LEMMA SectionRead ==
  ASSUME TypeOK, NEW l \in Lines, LineRead(l), NEW b, NEW kw
  PROVE  /\ Section(b, kw) \in SUBSET Nat /\ Section(b, kw) \in SUBSET (0 .. line)
         /\ \A k \in Section(b, kw) : k < ThisLine
         /\ \A k : TracksBefore(k)' = TracksBefore(k)
         /\ Section(b, kw)' = IF TracksBefore(ThisLine) = b /\ l.kw = kw
                              THEN Section(b, kw) \cup {ThisLine} ELSE Section(b, kw)
<1>1. /\ line \in Nat /\ ThisLine = line + 1 /\ line' = line + 1 /\ sheet' = sheet
      /\ l = sheet[ThisLine]
  BY DEF TypeOK, LineRead, ThisLine
<1>2. \A k : TracksBefore(k)' = TracksBefore(k)
  BY <1>1 DEF TracksBefore, TrackLines, LinesOf
<1>3. Section(b, kw)' = {k \in 1 .. line + 1 : TracksBefore(k) = b /\ sheet[k].kw = kw}
  BY <1>1, <1>2 DEF Section
<1> QED BY <1>1, <1>2, <1>3 DEF Section

(* The last line of a keyword in a section, after one more line.           *)
LEMMA LastRead ==
  ASSUME TypeOK, NEW l \in Lines, LineRead(l), NEW b, NEW kw
  PROVE  LastOf(Section(b, kw))' = IF TracksBefore(ThisLine) = b /\ l.kw = kw
                                   THEN ThisLine ELSE LastOf(Section(b, kw))
<1>1. LastOf(Section(b, kw))' = LastOf(Section(b, kw)')
  BY DEF LastOf, Section, Max
<1>2. ThisLine \in Nat
  BY DEF TypeOK, ThisLine
<1> QED BY <1>1, <1>2, SectionRead, LastOfAdded

(* The INDEX 01 lines of a track, after one more line.                     *)
LEMMA PlacingRead ==
  ASSUME TypeOK, NEW l \in Lines, LineRead(l), NEW t
  PROVE  Placing(t)' = IF TracksBefore(ThisLine) = t + 1 /\ l.kw = "INDEX" /\ l.n = 1
                       THEN Placing(t) \cup {ThisLine} ELSE Placing(t)
<1>1. sheet' = sheet /\ l = sheet[ThisLine]
  BY DEF LineRead
<1>2. Placing(t)' = {k \in Section(t + 1, "INDEX")' : sheet[k].n = 1}
  BY <1>1 DEF Placing
<1> QED BY <1>1, <1>2, SectionRead DEF Placing

(* The position after one more line.                                       *)
LEMMA PositionRead ==
  ASSUME TypeOK, Positioned, Loading, NEW l \in Lines, LineRead(l)
  PROVE  /\ TracksBefore(ThisLine) = i + 1 /\ img.i_tracks = i + 1 /\ i \in -1 .. MaxLines - 1
         /\ ThisLine \in 1 .. MaxLines /\ ThisLine = line + 1 /\ line' = line + 1 /\ line \in Nat
         /\ sheet' = sheet /\ l = sheet[ThisLine] /\ Acceptable(l, ThisLine)
         /\ TracksBefore(line + 1)' = i' + 1
         /\ Positioned'
<1>1. /\ line \in Nat /\ ThisLine = line + 1 /\ line' = line + 1 /\ sheet' = sheet /\ pc' = "load"
      /\ l = sheet[ThisLine] /\ line < Len(sheet) /\ Len(sheet) <= MaxLines /\ Len(sheet) \in Nat
      /\ i' = IF l.kw = "TRACK" THEN i + 1 ELSE i
      /\ img'.i_tracks = IF l.kw = "TRACK" THEN img.i_tracks + 1 ELSE img.i_tracks
      /\ i \in Int /\ MaxLines \in Nat /\ Acceptable(l, ThisLine)
  BY CueSheetAssumption DEF TypeOK, LineRead, ThisLine
<1>2. TracksBefore(ThisLine) \in Nat /\ TracksBefore(ThisLine) <= ThisLine - 1
      /\ TracksBefore(ThisLine + 1) = TracksBefore(ThisLine) + (IF l.kw = "TRACK" THEN 1 ELSE 0)
  <2>1. ThisLine \in Nat \ {0}
    BY <1>1
  <2>2. /\ TracksBefore(ThisLine) \in Nat
        /\ TracksBefore(ThisLine + 1) =
             TracksBefore(ThisLine) + (IF sheet[ThisLine].kw = "TRACK" THEN 1 ELSE 0)
    BY <2>1, TracksBeforeNext
  <2>3. TracksBefore(ThisLine) <= ThisLine - 1
    BY <2>1, TracksBeforeGrows
  <2> QED BY <1>1, <2>2, <2>3
<1>3. TracksBefore(ThisLine) = i + 1 /\ img.i_tracks = i + 1
  BY <1>1, <1>2 DEF Positioned, Loading
<1>4. TracksBefore(line + 1)' = TracksBefore(ThisLine + 1)
  BY <1>1 DEF TracksBefore, TrackLines, LinesOf
<1> QED BY <1>1, <1>2, <1>3, <1>4 DEF Positioned

(* The strings agree with the lines read, over one more line of the load:  *)
(* a CATALOG, FILE or ISRC line supersedes the one before it.              *)
LEMMA StringsRead ==
  ASSUME TypeOK, Positioned, Loading, StringsAsRead, NEW l \in Lines, LineRead(l)
  PROVE  StringsAsRead'
<1>1. /\ TracksBefore(ThisLine) = i + 1 /\ i \in Int
      /\ ThisLine \in 1 .. MaxLines /\ ThisLine = line + 1 /\ line' = line + 1
      /\ sheet' = sheet /\ l = sheet[ThisLine] /\ line \in Nat /\ Acceptable(l, ThisLine)
  BY PositionRead DEF TypeOK
<1>2. heap' \subseteq StringLines'
  <2>1. heap' = IF l.kw \in {"CATALOG", "FILE", "ISRC"} THEN heap \cup {ThisLine} ELSE heap
    BY DEF LineRead
  <2>2. StringLines' = {k \in 1 .. line + 1 : sheet[k].kw \in {"CATALOG", "FILE", "ISRC"}}
    BY <1>1 DEF StringLines
  <2>3. heap \subseteq {k \in 1 .. line : sheet[k].kw \in {"CATALOG", "FILE", "ISRC"}}
    BY DEF StringsAsRead, StringLines
  <2>4. \A k \in 1 .. line : k \in 1 .. line + 1
    BY <1>1
  <2>5. l.kw \in {"CATALOG", "FILE", "ISRC"} => ThisLine \in StringLines'
    BY <1>1, <2>2
  <2> QED BY <2>1, <2>2, <2>3, <2>4, <2>5
<1>3. img'.mcn = LastOf(Section(0, "CATALOG"))'
  <2>1. img'.mcn = IF l.kw = "CATALOG" THEN ThisLine ELSE img.mcn
    BY DEF LineRead
  <2>2. l.kw = "CATALOG" => TracksBefore(ThisLine) = 0
    BY <1>1 DEF Acceptable
  <2>3. LastOf(Section(0, "CATALOG"))' = IF TracksBefore(ThisLine) = 0 /\ l.kw = "CATALOG"
                                         THEN ThisLine ELSE LastOf(Section(0, "CATALOG"))
    BY LastRead
  <2> QED BY <2>1, <2>2, <2>3 DEF StringsAsRead
<1>4. ASSUME NEW t \in 0 .. MaxLines
      PROVE  /\ img'.tocent[t].isrc = LastOf(Section(t + 1, "ISRC"))'
             /\ img'.tocent[t].filename = LastOf(Section(t, "FILE"))'
  <2>1. EntryRead(l, t, img.tocent[t], img'.tocent[t])
    BY DEF LineRead
  <2>2. img.tocent[t].isrc = LastOf(Section(t + 1, "ISRC")) /\ img.tocent[t].filename = LastOf(Section(t, "FILE"))
    BY DEF StringsAsRead
  <2>3. LastOf(Section(t + 1, "ISRC"))' = IF TracksBefore(ThisLine) = t + 1 /\ l.kw = "ISRC"
                                          THEN ThisLine ELSE LastOf(Section(t + 1, "ISRC"))
    BY LastRead
  <2>4. LastOf(Section(t, "FILE"))' = IF TracksBefore(ThisLine) = t /\ l.kw = "FILE"
                                      THEN ThisLine ELSE LastOf(Section(t, "FILE"))
    BY LastRead
  <2> QED BY <1>1, <2>1, <2>2, <2>3, <2>4 DEF EntryRead, PutsIsrc, PutsFile
<1> QED BY <1>2, <1>3, <1>4 DEF StringsAsRead

(* So do the start and the flags of each track: only the first INDEX 01 of *)
(* a track is taken, because the flag is cleared by each TRACK line.       *)
LEMMA EntriesRead ==
  ASSUME TypeOK, Positioned, Loading, EntriesAsRead, NEW l \in Lines, LineRead(l)
  PROVE  EntriesAsRead'
<1>1. /\ TracksBefore(ThisLine) = i + 1 /\ i \in Int /\ i >= -1 /\ i < MaxLines /\ MaxLines \in Nat
      /\ ThisLine \in 1 .. MaxLines /\ ThisLine = line + 1 /\ line' = line + 1 /\ ThisLine \in Nat
      /\ sheet' = sheet /\ l = sheet[ThisLine] /\ line \in Nat /\ Acceptable(l, ThisLine)
  BY PositionRead, CueSheetAssumption DEF TypeOK
<1>2. /\ i' = IF l.kw = "TRACK" THEN i + 1 ELSE i
      /\ b_first_index_for_track' = CASE l.kw = "TRACK" -> "no"
                                  [] l.kw = "INDEX" /\ l.n = 1 -> "yes"
                                  [] OTHER -> b_first_index_for_track
  BY DEF LineRead
<1>3. l.kw = "INDEX" => i >= 0
  BY <1>1 DEF Acceptable
<1>p. \A t : /\ Placing(t)' = IF TracksBefore(ThisLine) = t + 1 /\ l.kw = "INDEX" /\ l.n = 1
                              THEN Placing(t) \cup {ThisLine} ELSE Placing(t)
             /\ Placing(t) \in SUBSET Nat
             /\ \A k \in Placing(t) : k < ThisLine
  BY PlacingRead, SectionRead DEF Placing
<1>4. ASSUME NEW t \in 0 .. MaxLines
      PROVE  img'.tocent[t].start_lba =
               IF Placing(t)' = {} THEN 0 ELSE sheet'[Min(Placing(t)')].at + Pregap
  <2>1. EntryRead(l, t, img.tocent[t], img'.tocent[t])
    BY DEF LineRead
  <2>2. img.tocent[t].start_lba = IF Placing(t) = {} THEN 0 ELSE sheet[Min(Placing(t))].at + Pregap
    BY DEF EntriesAsRead
  <2>3. CASE t = i /\ l.kw = "INDEX" /\ l.n = 1
    <3>1. Placing(t)' = Placing(t) \cup {ThisLine}
      BY <1>1, <1>p, <2>3
    <3>2. Min(Placing(t)') = IF Placing(t) = {} THEN ThisLine ELSE Min(Placing(t))
      BY <1>1, <1>p, <3>1, MinOfAdded
    <3>3. b_first_index_for_track = "no" <=> Placing(t) = {}
      BY <1>3, <2>3 DEF EntriesAsRead
    <3> QED BY <1>1, <2>1, <2>2, <2>3, <3>1, <3>2, <3>3 DEF EntryRead, PutsStart
  <2>4. CASE ~(t = i /\ l.kw = "INDEX" /\ l.n = 1)
    <3>1. Placing(t)' = Placing(t)
      BY <1>1, <1>p, <2>4
    <3> QED BY <1>1, <2>1, <2>2, <2>4, <3>1 DEF EntryRead, PutsStart
  <2> QED BY <2>3, <2>4
<1>5. ASSUME NEW t \in 0 .. MaxLines
      PROVE  img'.tocent[t].flags = UNION {sheet'[k].flags : k \in Section(t + 1, "FLAGS")'}
  <2>1. EntryRead(l, t, img.tocent[t], img'.tocent[t])
    BY DEF LineRead
  <2>2. img.tocent[t].flags = UNION {sheet[k].flags : k \in Section(t + 1, "FLAGS")}
    BY DEF EntriesAsRead
  <2>3. Section(t + 1, "FLAGS")' = IF TracksBefore(ThisLine) = t + 1 /\ l.kw = "FLAGS"
                                   THEN Section(t + 1, "FLAGS") \cup {ThisLine} ELSE Section(t + 1, "FLAGS")
    BY SectionRead
  <2>4. CASE t = i /\ l.kw = "FLAGS"
    <3>1. Section(t + 1, "FLAGS")' = Section(t + 1, "FLAGS") \cup {ThisLine}
      BY <1>1, <2>3, <2>4
    <3>2. img'.tocent[t].flags = img.tocent[t].flags \cup l.flags
      BY <2>1, <2>4 DEF EntryRead, PutsFlags
    <3>3. UNION {sheet[k].flags : k \in Section(t + 1, "FLAGS") \cup {ThisLine}} =
            (UNION {sheet[k].flags : k \in Section(t + 1, "FLAGS")}) \cup l.flags
      <4>1. {sheet[k].flags : k \in Section(t + 1, "FLAGS") \cup {ThisLine}} =
              {sheet[k].flags : k \in Section(t + 1, "FLAGS")} \cup {l.flags}
        BY <1>1
      <4> QED BY <4>1, UnionOfAdded
    <3> QED BY <1>1, <2>2, <3>1, <3>2, <3>3
  <2>5. CASE ~(t = i /\ l.kw = "FLAGS")
    <3>1. Section(t + 1, "FLAGS")' = Section(t + 1, "FLAGS")
      BY <1>1, <2>3, <2>5
    <3>2. img'.tocent[t].flags = img.tocent[t].flags
      BY <2>1, <2>5 DEF EntryRead, PutsFlags
    <3> QED BY <1>1, <2>2, <3>1, <3>2
  <2> QED BY <2>4, <2>5
<1>6. \A t : t = i' => Placing(i)' = Placing(t)'
  BY DEF Placing, Section
<1>7. ASSUME i' >= 0
      PROVE  b_first_index_for_track' = "no" <=> Placing(i)' = {}
  <2>1. CASE l.kw = "TRACK"
    <3>1. \A k \in 1 .. line : TracksBefore(k) <= TracksBefore(ThisLine)
      BY <1>1, TracksBeforeGrows
    <3>2. i' = i + 1
      BY <1>2, <2>1
    <3>3. Placing(i + 1) = {}
      BY <1>1, <3>1 DEF Placing, Section
    <3>4. PICK t : t = i + 1
      OBVIOUS
    <3>5. Placing(t)' = Placing(t)
      BY <1>p, <2>1
    <3> QED BY <1>2, <1>6, <2>1, <3>2, <3>3, <3>4, <3>5
  <2>2. CASE l.kw # "TRACK"
    <3>1. i' = i
      BY <1>2, <2>2
    <3>2. b_first_index_for_track = "no" <=> Placing(i) = {}
      BY <1>7, <3>1 DEF EntriesAsRead
    <3>3. PICK t : t = i
      OBVIOUS
    <3>4. Placing(t)' = IF l.kw = "INDEX" /\ l.n = 1 THEN Placing(t) \cup {ThisLine} ELSE Placing(t)
      BY <1>1, <1>p, <3>3
    <3>5. Placing(i)' = Placing(t)'
      BY <1>6, <3>1, <3>3
    <3> QED BY <1>2, <2>2, <3>2, <3>3, <3>4, <3>5
  <2> QED BY <2>1, <2>2
<1> QED BY <1>4, <1>5, <1>7 DEF EntriesAsRead

(* So do the counts of tracks that another one follows.                    *)
LEMMA CountsRead ==
  ASSUME TypeOK, Positioned, Loading, CountsAsRead, NEW l \in Lines, LineRead(l)
  PROVE  CountsAsRead'
<1>1. /\ TracksBefore(ThisLine) = i + 1 /\ i \in Int /\ i >= -1 /\ i < MaxLines /\ MaxLines \in Nat
      /\ img.i_tracks = i + 1
      /\ ThisLine \in 1 .. MaxLines /\ ThisLine = line + 1 /\ line \in Nat /\ Acceptable(l, ThisLine)
  BY PositionRead, CueSheetAssumption DEF TypeOK
<1>2. img'.i_tracks = IF l.kw = "TRACK" THEN img.i_tracks + 1 ELSE img.i_tracks
  BY DEF LineRead
<1>3. \A t : Placing(t)' = IF TracksBefore(ThisLine) = t + 1 /\ l.kw = "INDEX" /\ l.n = 1
                           THEN Placing(t) \cup {ThisLine} ELSE Placing(t)
  BY PlacingRead
<1>4. Placing(i + 1) = {}
  <2>1. \A k \in 1 .. line : TracksBefore(k) <= TracksBefore(ThisLine)
    BY <1>1, TracksBeforeGrows
  <2> QED BY <1>1, <2>1 DEF Placing, Section
<1>5. ASSUME NEW t \in 0 .. img'.i_tracks - 2, Placing(t + 1)' # {}
      PROVE  img'.tocent[t].sec_count =
               PrevSecCount(img'.tocent[t].start_lba, img'.tocent[t + 1].start_lba)
  <2>1. t \in 0 .. MaxLines /\ t + 1 \in 0 .. MaxLines /\ t \in Int /\ t <= i
    BY <1>1, <1>2
  <2>2. /\ EntryRead(l, t, img.tocent[t], img'.tocent[t])
        /\ EntryRead(l, t + 1, img.tocent[t + 1], img'.tocent[t + 1])
        /\ img'.tocent[t].sec_count =
             IF PutsCount(l, t) /\ t >= 0
             THEN PrevSecCount(img'.tocent[t].start_lba, img'.tocent[t + 1].start_lba)
             ELSE img.tocent[t].sec_count
    BY <2>1 DEF LineRead
  <2>3. CASE PutsCount(l, t)
    BY <2>1, <2>2, <2>3
  <2>4. CASE ~PutsCount(l, t)
    <3>1. Placing(t + 1)' = Placing(t + 1)
      BY <1>1, <1>3, <2>1, <2>4 DEF PutsCount
    <3>2. t # i
      BY <1>4, <1>5, <3>1
    <3>3. t \in 0 .. img.i_tracks - 2
      BY <1>1, <2>1, <3>2
    <3>4. ~PutsStart(l, t) /\ ~PutsStart(l, t + 1)
      BY <1>1, <2>1, <2>4, <3>2 DEF PutsStart, PutsCount
    <3>5. img.tocent[t].sec_count = PrevSecCount(img.tocent[t].start_lba, img.tocent[t + 1].start_lba)
      BY <1>5, <3>1, <3>3 DEF CountsAsRead
    <3> QED BY <2>2, <2>4, <3>4, <3>5 DEF EntryRead
  <2> QED BY <2>3, <2>4
<1> QED BY <1>5 DEF CountsAsRead

(* One more track format, and what it makes of the disc mode.              *)
LEMMA SummedUpAfter ==
  ASSUME NEW F \in SUBSET {"AUDIO", "DATA", "XA"}, NEW mode \in Modes, mode # "MODE2/2336"
  PROVE  DiscModeAfter(SummedUp(F), mode) = SummedUp(F \cup {Layout(mode).format})
<1>1. Layout(mode).format = CASE OwnDiscMode(mode) = "CD_DA" -> "AUDIO"
                              [] OwnDiscMode(mode) = "CD_DATA" -> "DATA"
                              [] OwnDiscMode(mode) = "CD_XA" -> "XA"
  BY DEF Layout, OwnDiscMode, Modes
<1>2. OwnDiscMode(mode) \in {"CD_DA", "CD_DATA", "CD_XA"}
  BY DEF OwnDiscMode, Modes
<1>3. CASE F = {}
  BY <1>1, <1>2, <1>3 DEF SummedUp, DiscModeAfter
<1>4. CASE \E f \in {"AUDIO", "DATA", "XA"} : F = {f}
  BY <1>1, <1>2, <1>4 DEF SummedUp, DiscModeAfter
<1>5. CASE F # {} /\ ~\E f \in {"AUDIO", "DATA", "XA"} : F = {f}
  <2>1. SummedUp(F) = "CD_MIXED"
    BY <1>5 DEF SummedUp
  <2>2. \A x : F \cup {x} # {} /\ ~\E f \in {"AUDIO", "DATA", "XA"} : F \cup {x} = {f}
    BY <1>5
  <2>3. SummedUp(F \cup {Layout(mode).format}) = "CD_MIXED"
    BY <2>2 DEF SummedUp
  <2> QED BY <2>1, <2>3 DEF DiscModeAfter
<1> QED BY <1>3, <1>4, <1>5

(* So does the disc mode, with the format of one more track.               *)
LEMMA ModeRead ==
  ASSUME TypeOK, Positioned, Loading, ModeAsRead, NEW l \in Lines, LineRead(l)
  PROVE  ModeAsRead'
<1>1. /\ i \in Int /\ i >= -1 /\ i < MaxLines /\ MaxLines \in Nat
      /\ img.i_tracks = i + 1 /\ Acceptable(l, ThisLine)
  BY PositionRead, CueSheetAssumption DEF TypeOK
<1>2. img'.i_tracks = IF l.kw = "TRACK" THEN img.i_tracks + 1 ELSE img.i_tracks
  BY DEF LineRead
<1>3. img'.disc_mode = IF l.kw = "TRACK" THEN DiscModeAfter(img.disc_mode, l.arg) ELSE img.disc_mode
  BY DEF LineRead
<1>4. \A t \in 0 .. MaxLines :
        img'.tocent[t].layout = IF l.kw = "TRACK" /\ t = i + 1 THEN Layout(l.arg) ELSE img.tocent[t].layout
  BY DEF LineRead, EntryRead, PutsLayout
<1>5. CASE l.kw # "TRACK"
  <2>1. \A t \in 0 .. img.i_tracks - 1 : img'.tocent[t].layout = img.tocent[t].layout
    BY <1>1, <1>4, <1>5
  <2>2. Formats' = Formats /\ (NoMode2336' <=> NoMode2336)
    BY <1>2, <1>5, <2>1 DEF Formats, NoMode2336
  <2>3. ModeAsRead' <=> (NoMode2336' => img'.disc_mode = SummedUp(Formats'))
    BY DEF ModeAsRead, SummedUp
  <2> QED BY <1>3, <1>5, <2>2, <2>3 DEF ModeAsRead
<1>6. CASE l.kw = "TRACK"
  <2> SUFFICES ASSUME NoMode2336'
               PROVE  img'.disc_mode = SummedUp(Formats')
    BY DEF ModeAsRead, SummedUp
  <2>1. \A t \in 0 .. img.i_tracks - 1 : img'.tocent[t].layout = img.tocent[t].layout
    BY <1>1, <1>4, <1>6
  <2>2. img'.tocent[img.i_tracks].layout = Layout(l.arg)
    BY <1>1, <1>4, <1>6
  <2>3. img'.i_tracks = img.i_tracks + 1 /\ img.i_tracks \in Nat
    BY <1>1, <1>2, <1>6
  <2>4. l.arg \in Modes /\ l.arg # "MODE2/2336"
    <3>1. l.arg \in Modes
      BY <1>1, <1>6 DEF Acceptable
    <3>2. Layout(l.arg).blocksize # 2336
      BY <2>2, <2>3 DEF NoMode2336
    <3> QED BY <3>1, <3>2 DEF Layout
  <2>5. Formats' = Formats \cup {Layout(l.arg).format}
    <3>1. 0 .. img'.i_tracks - 1 = (0 .. img.i_tracks - 1) \cup {img.i_tracks}
      BY <2>3
    <3> QED BY <2>1, <2>2, <3>1 DEF Formats
  <2>6. NoMode2336
    BY <2>1, <2>3 DEF NoMode2336
  <2>7. Formats \in SUBSET {"AUDIO", "DATA", "XA"}
    <3>1. \A t \in 0 .. img.i_tracks - 1 : img.tocent[t] \in TrackType
      BY <1>1 DEF TypeOK, ImageType, TocType
    <3>2. \A t \in 0 .. img.i_tracks - 1 : img.tocent[t].layout.format \in {"AUDIO", "DATA", "XA"}
      BY <3>1 DEF TrackType, LayoutType
    <3> QED BY <3>2 DEF Formats
  <2> QED BY <1>3, <1>6, <2>4, <2>5, <2>6, <2>7, SummedUpAfter DEF ModeAsRead
<1> QED BY <1>5, <1>6

(* So do the titles: a second TITLE of a section replaces the first.       *)
LEMMA TitlesRead ==
  ASSUME TypeOK, Positioned, Loading, TitlesAsRead, NEW l \in Lines, LineRead(l)
  PROVE  TitlesAsRead'
<1>1. /\ TracksBefore(ThisLine) = i + 1 /\ i \in Int /\ i >= -1 /\ i < MaxLines /\ MaxLines \in Nat
      /\ ThisLine \in 1 .. MaxLines /\ ThisLine = line + 1 /\ line \in Nat /\ Acceptable(l, ThisLine)
  BY PositionRead, CueSheetAssumption DEF TypeOK
<1>2. /\ img'.i_first_track = IF l.kw = "TRACK" /\ i = -1 THEN l.n ELSE img.i_first_track
      /\ img'.titles = IF l.kw = "TITLE"
                       THEN {t \in img.titles : t.track # TextTrack} \cup {[track |-> TextTrack, text |-> ThisLine]}
                       ELSE img.titles
  BY DEF LineRead
<1>3. \A b : /\ Section(b, "TITLE")' = IF TracksBefore(ThisLine) = b /\ l.kw = "TITLE"
                                    THEN Section(b, "TITLE") \cup {ThisLine} ELSE Section(b, "TITLE")
             /\ LastOf(Section(b, "TITLE"))' = IF TracksBefore(ThisLine) = b /\ l.kw = "TITLE"
                                               THEN ThisLine ELSE LastOf(Section(b, "TITLE"))
  BY SectionRead, LastRead
<1>4. img.i_first_track \in 1 .. 99 /\ img'.i_first_track \in 1 .. 99
  BY DEF TypeOK, ImageType, LineRead
<1>5. TextTrack = TitleTrack(i + 1)
  BY <1>1, <1>4 DEF TextTrack, TitleTrack, InGlobalSection
<1>6. TitlesAsRead' <=>
        img'.titles = {[track |-> TitleTrack(b)', text |-> LastOf(Section(b, "TITLE"))'] : b \in Titled'}
  BY DEF TitlesAsRead, Titled, TitleTrack
<1>7. CASE l.kw # "TITLE"
  <2>1. Titled' = Titled
    BY <1>3, <1>7 DEF Titled
  <2>2. ASSUME NEW b \in Titled
        PROVE  TitleTrack(b)' = TitleTrack(b)
    <3>1. CASE i # -1 \/ l.kw # "TRACK"
      BY <1>2, <3>1 DEF TitleTrack
    <3>2. CASE i = -1
      <4>1. \A k \in 1 .. line : TracksBefore(k) \in Nat /\ TracksBefore(k) <= TracksBefore(ThisLine)
        BY <1>1, TracksBeforeGrows, TracksBeforeNext
      <4>2. b = 0
        BY <1>1, <3>2, <4>1 DEF Titled, Section
      <4> QED BY <4>2 DEF TitleTrack
    <3> QED BY <3>1, <3>2
  <2> QED BY <1>2, <1>3, <1>6, <1>7, <2>1, <2>2 DEF TitlesAsRead
<1>8. CASE l.kw = "TITLE"
  <2>0. PICK c : c = i + 1
    OBVIOUS
  <2>1. \A b : TitleTrack(b)' = TitleTrack(b)
    BY <1>2, <1>8 DEF TitleTrack
  <2>2. Titled' = Titled \cup {c}
    BY <2>0, <1>1, <1>3, <1>8 DEF Titled
  <2>3. \A b \in Titled : TitleTrack(b) = TitleTrack(c) <=> b = c
    BY <2>0, <1>1, <1>4 DEF TitleTrack, Titled
  <2> DEFINE Old(b) == [track |-> TitleTrack(b), text |-> LastOf(Section(b, "TITLE"))]
             New(b) == [track |-> TitleTrack(b)', text |-> LastOf(Section(b, "TITLE"))']
  <2>4. \A b \in Titled \ {c} : New(b) = Old(b)
    BY <2>0, <1>1, <1>3, <1>8, <2>1
  <2>5. New(c) = [track |-> TextTrack, text |-> ThisLine]
    BY <1>1, <1>3, <1>5, <1>8, <2>0, <2>1
  <2>6. {t \in img.titles : t.track # TextTrack} = {Old(b) : b \in Titled \ {c}}
    BY <1>5, <2>0, <2>3 DEF TitlesAsRead
  <2>7. {New(b) : b \in Titled'} = {New(b) : b \in Titled \ {c}} \cup {New(c)}
    BY <2>2
  <2>8. {New(b) : b \in Titled \ {c}} = {Old(b) : b \in Titled \ {c}}
    BY <2>4
  <2> QED BY <1>2, <1>6, <1>8, <2>5, <2>6, <2>7, <2>8
<1> QED BY <1>7, <1>8

-----------------------------------------------------------------------------
(* The second run starts with an image that agrees with no lines at all.   *)
LEMMA LoadStarts ==
  ASSUME TypeOK, ProbeIsDry, ProbeAccepts
  PROVE  /\ TypeOK' /\ Positioned'
         /\ StringsAsRead' /\ EntriesAsRead' /\ TitlesAsRead' /\ CountsAsRead' /\ ModeAsRead'
<1>1. /\ pc = "probe" /\ pc' = "load" /\ line' = 0 /\ i' = -1 /\ b_first_index_for_track' = "no"
      /\ sheet' = sheet /\ img' = img /\ heap' = {}
  BY DEF ProbeAccepts, ProbeIsDry
<1>2. PICK lead \in LeadLsns : img = EmptyImage(lead)
  BY <1>1 DEF ProbeIsDry
<1>3. /\ img.i_tracks = 0 /\ img.mcn = 0 /\ img.titles = {} /\ img.disc_mode = "NO_INFO"
      /\ \A t \in 0 .. MaxLines : img.tocent[t] = EmptyTrack
  BY <1>2 DEF EmptyImage
<1>4. \A b, kw : Section(b, kw)' = {}
  BY <1>1 DEF Section
<1>5. \A b, kw : LastOf(Section(b, kw))' = 0 /\ Placing(b)' = {}
  BY <1>4 DEF LastOf, Placing
<1>6. TypeOK'
  BY <1>1 DEF TypeOK
<1>7. Positioned'
  <2>1. TracksBefore(line + 1)' = Cardinality({})
    BY <1>1 DEF TracksBefore, TrackLines, LinesOf
  <2> QED BY <1>1, <1>3, <2>1, FS_EmptySet DEF Positioned
<1>8. StringsAsRead'
  BY <1>1, <1>3, <1>5 DEF StringsAsRead, EmptyTrack
<1>9. EntriesAsRead'
  <2>1. \A t : UNION {sheet'[k].flags : k \in Section(t, "FLAGS")'} = {}
    BY <1>4
  <2> QED BY <1>1, <1>3, <1>5, <2>1 DEF EntriesAsRead, EmptyTrack
<1>10. TitlesAsRead'
  BY <1>1, <1>3, <1>4 DEF TitlesAsRead, Titled
<1>11. CountsAsRead' /\ ModeAsRead'
  BY <1>1, <1>3 DEF CountsAsRead, ModeAsRead, Formats, SummedUp
<1> QED BY <1>6, <1>7, <1>8, <1>9, <1>10, <1>11

(* A sheet read to its end: its sections are those of the properties.      *)
LEMMA SheetRead ==
  ASSUME TypeOK, line = Len(sheet), NEW t \in Int
  PROVE  /\ \A kw : OwnLines(t, kw) = Section(t + 1, kw)
         /\ Index1Lines(t) = Placing(t)
         /\ {k \in LinesOf("FILE", 1, Len(sheet)) : TracksBefore(k) = t} = Section(t, "FILE")
         /\ \A kw : Section(t, kw) \in SUBSET (0 .. line)
         /\ {TracksBefore(k) : k \in LinesOf("TITLE", 1, Len(sheet))} = Titled
<1>1. \A kw : OwnLines(t, kw) = Section(t + 1, kw)
  BY DEF OwnLines, Own, Section
<1>2. \A k \in 1 .. line : TracksBefore(k) \in 0 .. MaxLines
  <2>1. ASSUME NEW k \in 1 .. line
        PROVE  TracksBefore(k) \in 0 .. MaxLines
    <3>1. k \in Nat \ {0} /\ k <= MaxLines /\ MaxLines \in Nat
      BY CueSheetAssumption DEF TypeOK
    <3>2. TracksBefore(k) \in Nat /\ TracksBefore(k) <= k - 1
      BY <3>1, TracksBeforeNext, TracksBeforeGrows
    <3> QED BY <3>1, <3>2
  <2> QED BY <2>1
<1>3. {TracksBefore(k) : k \in LinesOf("TITLE", 1, Len(sheet))} = Titled
  BY <1>2 DEF Titled, Section, LinesOf
<1>4. Section(t, "FILE") = {k \in LinesOf("FILE", 1, Len(sheet)) : TracksBefore(k) = t}
  BY DEF Section, LinesOf
<1>5. \A kw : Section(t, kw) \in SUBSET (0 .. line)
  BY DEF Section, TypeOK
<1> QED BY <1>1, <1>3, <1>4, <1>5 DEF Index1Lines, Placing

(* As many titles as sections that have some.                              *)
LEMMA TitlesCounted ==
  ASSUME TypeOK, TitlesAsRead
  PROVE  Cardinality(img.titles) = Cardinality(Titled)
<1> DEFINE f == [b \in Titled |-> [track |-> TitleTrack(b), text |-> LastOf(Section(b, "TITLE"))]]
<1>1. IsFiniteSet(Titled)
  <2>1. Titled \subseteq 0 .. MaxLines
    BY DEF Titled
  <2>2. IsFiniteSet(0 .. MaxLines)
    BY CueSheetAssumption, FS_Interval
  <2> QED BY <2>1, <2>2, FS_Subset
<1>2. \A b \in Titled, c \in Titled : TitleTrack(b) = TitleTrack(c) => b = c
  <2>1. img.i_first_track \in 1 .. 99
    BY DEF TypeOK, ImageType
  <2>2. \A b \in Titled : b \in Nat
    BY CueSheetAssumption DEF Titled
  <2> QED BY <2>1, <2>2 DEF TitleTrack
<1>3. f \in Bijection(Titled, img.titles)
  <2>1. f \in Injection(Titled, img.titles)
    BY <1>2 DEF Injection, IsInjective, TitlesAsRead
  <2>2. f \in Surjection(Titled, img.titles)
    BY <2>1 DEF Surjection, Injection, TitlesAsRead
  <2> QED BY <2>1, <2>2 DEF Bijection
<1> QED BY <1>1, <1>3, FS_Bijection DEF ExistsBijection

(* The leadout's entry and the last count, field by field.                 *)
LEMMA LeadoutPlaced ==
  ASSUME TypeOK, Positioned, LoadEnds
  PROVE  /\ img' \in ImageType
         /\ img'.i_tracks = img.i_tracks /\ img'.i_first_track = img.i_first_track
         /\ img'.mcn = img.mcn /\ img'.disc_mode = img.disc_mode /\ img'.titles = img.titles
         /\ img.i_tracks \in 0 .. MaxLines /\ img.lead_lsn \in Nat
         /\ \A t \in 0 .. MaxLines :
              /\ img'.tocent[t].isrc = img.tocent[t].isrc
              /\ img'.tocent[t].filename = img.tocent[t].filename
              /\ img'.tocent[t].flags = img.tocent[t].flags
              /\ img'.tocent[t].layout = img.tocent[t].layout
              /\ img'.tocent[t].start_lba = IF t = img.i_tracks THEN img.lead_lsn + Pregap
                                            ELSE img.tocent[t].start_lba
              /\ img'.tocent[t].sec_count = IF t = LastEntry
                                            THEN img.lead_lsn - img.tocent[t].start_lba + Pregap
                                            ELSE img.tocent[t].sec_count
<1>1. img \in ImageType /\ img.tocent \in TocType /\ \A t \in 0 .. MaxLines : img.tocent[t] \in TrackType
  BY DEF TypeOK, ImageType, TocType
<1>2. /\ img.lead_lsn \in Nat /\ img.i_tracks \in Nat /\ img.i_first_track \in 1 .. 99
      /\ MaxLines \in Nat /\ Pregap \in Nat
  BY <1>1, CueSheetAssumption DEF ImageType
<1>3. img.i_tracks \in 0 .. MaxLines
  <2>1. Loading /\ line + 1 \in Nat /\ line + 1 - 1 <= MaxLines
    BY <1>2 DEF LoadEnds, TypeOK
  <2>2. TracksBefore(line + 1) <= line + 1 - 1
    BY <2>1, TracksBeforeGrows DEF TypeOK
  <2> QED BY <1>2, <2>1, <2>2 DEF Positioned, Loading, TypeOK
<1> DEFINE e == [img.tocent[img.i_tracks] EXCEPT !.start_lba = img.lead_lsn + Pregap]
           placed == [img.tocent EXCEPT ![img.i_tracks].start_lba = img.lead_lsn + Pregap]
           c == img.lead_lsn - placed[LastEntry].start_lba + Pregap
           T == IF LastEntry \in DOMAIN placed
                THEN [placed EXCEPT ![LastEntry].sec_count = c]
                ELSE placed
<1>4. img' = [img EXCEPT !.tocent = T]
  BY DEF LoadEnds, WithLeadout
<1>5. /\ e \in TrackType /\ e.start_lba = img.lead_lsn + Pregap
      /\ e.isrc = img.tocent[img.i_tracks].isrc /\ e.filename = img.tocent[img.i_tracks].filename
      /\ e.flags = img.tocent[img.i_tracks].flags /\ e.layout = img.tocent[img.i_tracks].layout
      /\ e.sec_count = img.tocent[img.i_tracks].sec_count
  BY <1>1, <1>2, <1>3 DEF TrackType
<1>6. placed = [img.tocent EXCEPT ![img.i_tracks] = e]
  OBVIOUS
<1> HIDE DEF e, placed
<1>7. /\ placed \in TocType
      /\ \A t \in 0 .. MaxLines : placed[t] = IF t = img.i_tracks THEN e ELSE img.tocent[t]
  BY <1>1, <1>3, <1>5, <1>6 DEF TocType
<1>8. LastEntry \in Int /\ LastEntry < img.i_tracks
  BY <1>2 DEF LastEntry
<1>9. CASE LastEntry \in 0 .. MaxLines
  <2> DEFINE e2 == [placed[LastEntry] EXCEPT !.sec_count = c]
  <2>1. placed[LastEntry] = img.tocent[LastEntry] /\ placed[LastEntry] \in TrackType
    BY <1>1, <1>7, <1>8, <1>9
  <2>2. c \in Int /\ c = img.lead_lsn - img.tocent[LastEntry].start_lba + Pregap
    BY <1>2, <2>1 DEF TrackType
  <2>3. T = [placed EXCEPT ![LastEntry] = e2]
    BY <1>7, <1>9 DEF TocType
  <2> HIDE DEF c
  <2>4. /\ e2 \in TrackType /\ e2.sec_count = c /\ e2.start_lba = img.tocent[LastEntry].start_lba
        /\ e2.isrc = img.tocent[LastEntry].isrc /\ e2.filename = img.tocent[LastEntry].filename
        /\ e2.flags = img.tocent[LastEntry].flags /\ e2.layout = img.tocent[LastEntry].layout
    BY <2>1, <2>2 DEF TrackType
  <2> HIDE DEF e2, T
  <2>5. /\ T \in TocType
        /\ \A t \in 0 .. MaxLines : T[t] = CASE t = LastEntry -> e2
                                             [] t = img.i_tracks -> e
                                             [] OTHER -> img.tocent[t]
    BY <1>7, <1>8, <1>9, <2>3, <2>4 DEF TocType
  <2>6. img' \in ImageType /\ SameButToc(img, img') /\ img'.tocent = T
    BY <1>1, <1>4, <2>5, TocChanged
  <2> QED BY <1>2, <1>3, <1>5, <1>8, <2>2, <2>4, <2>5, <2>6 DEF SameButToc
<1>10. CASE LastEntry \notin 0 .. MaxLines
  <2>1. T = placed
    BY <1>7, <1>10 DEF TocType
  <2> HIDE DEF T
  <2>2. img' \in ImageType /\ SameButToc(img, img') /\ img'.tocent = placed
    BY <1>1, <1>4, <1>7, <2>1, TocChanged
  <2> QED BY <1>2, <1>3, <1>5, <1>7, <1>10, <2>2 DEF SameButToc
<1> QED BY <1>9, <1>10

(* The end of parse_cuefile: the leadout is placed behind the tracks and   *)
(* closes the last one, and the image is what the properties say of an     *)
(* open one.                                                               *)
LEMMA LoadFinishes ==
  ASSUME TypeOK, Positioned, StringsAsRead, EntriesAsRead, TitlesAsRead, CountsAsRead, ModeAsRead,
         LoadEnds
  PROVE  /\ TypeOK' /\ Positioned' /\ StringsAsRead'
         /\ TracksAsWritten' /\ LastTrackCounted' /\ DiscModeMatchesTracks' /\ TracksDoNotOverlap'
<1>1. /\ Loading /\ line = Len(sheet) /\ pc' = "open" /\ sheet' = sheet /\ line' = line
      /\ i' = i /\ b_first_index_for_track' = b_first_index_for_track /\ heap' = heap
  BY DEF LoadEnds
<1>2. /\ MaxLines \in Nat /\ Pregap \in Nat /\ img.i_tracks \in 0 .. MaxLines
      /\ img.i_first_track \in 1 .. 99 /\ img.lead_lsn \in Nat
      /\ \A t \in 0 .. MaxLines : img.tocent[t].start_lba \in Int
  BY LeadoutPlaced, CueSheetAssumption DEF TypeOK, ImageType, TocType, TrackType
<1>3. /\ \A b, kw : Section(b, kw)' = Section(b, kw)
      /\ \A t : Placing(t)' = Placing(t)
      /\ Titled' = Titled
  BY <1>1 DEF Section, Placing, Titled, TracksBefore, TrackLines, LinesOf
<1>4. TypeOK'
  BY <1>1, LeadoutPlaced DEF TypeOK
<1>5. Positioned'
  <2>1. TracksBefore(line + 1)' = TracksBefore(line + 1)
    BY <1>1 DEF TracksBefore, TrackLines, LinesOf
  <2> QED BY <1>1, <2>1, LeadoutPlaced DEF Positioned, Loading
<1>6. StringsAsRead'
  <2>1. StringLines' = StringLines
    BY <1>1 DEF StringLines
  <2>2. \A b, kw : LastOf(Section(b, kw))' = LastOf(Section(b, kw))
    BY <1>3 DEF LastOf, Section
  <2> QED BY <1>1, <2>1, <2>2, LeadoutPlaced DEF StringsAsRead
<1>7. TracksAsWritten'
  <2>1. \A t \in Int : /\ \A kw : OwnLines(t, kw)' = Section(t + 1, kw)
                       /\ Index1Lines(t)' = Placing(t)
                       /\ {k \in LinesOf("FILE", 1, Len(sheet))' : TracksBefore(k)' = t} = Section(t, "FILE")
    <3>1. \A k : TracksBefore(k)' = TracksBefore(k)
      BY <1>1 DEF TracksBefore, TrackLines, LinesOf
    <3>2. \A t, kw : OwnLines(t, kw)' = OwnLines(t, kw)
      BY <1>1, <3>1 DEF OwnLines, Own
    <3>3. \A t : Index1Lines(t)' = Index1Lines(t)
      BY <1>1, <3>2 DEF Index1Lines
    <3>4. \A t : {k \in LinesOf("FILE", 1, Len(sheet))' : TracksBefore(k)' = t} =
                 {k \in LinesOf("FILE", 1, Len(sheet)) : TracksBefore(k) = t}
      BY <1>1, <3>1 DEF LinesOf
    <3> QED BY <1>1, <3>2, <3>3, <3>4, SheetRead
  <2>2. img'.i_tracks = Cardinality(TrackLines(Len(sheet)))'
    <3>1. img'.i_tracks = TracksBefore(line + 1) /\ line + 1 - 1 = line
      BY <1>1, LeadoutPlaced DEF Positioned, Loading, TypeOK
    <3> QED BY <1>1, <3>1 DEF TracksBefore, TrackLines, LinesOf
  <2>3. ASSUME NEW t \in 0 .. img'.i_tracks - 1
        PROVE  /\ img'.tocent[t].start_lba = IF Index1Lines(t)' = {} THEN 0
                                             ELSE sheet'[Min(Index1Lines(t)')].at + Pregap
               /\ img'.tocent[t].flags = UNION {sheet'[k].flags : k \in OwnLines(t, "FLAGS")'}
               /\ img'.tocent[t].isrc = LastOf(OwnLines(t, "ISRC")')
               /\ img'.tocent[t].filename =
                    LastOf({k \in LinesOf("FILE", 1, Len(sheet))' : TracksBefore(k)' = t})
               /\ \A k \in {LastOf(OwnLines(t, "TITLE")')} \ {0} :
                    [track |-> img'.i_first_track + t, text |-> k] \in img'.titles
    <3>1. t \in 0 .. MaxLines /\ t # img.i_tracks /\ t + 1 \in 0 .. MaxLines /\ t \in Int /\ t + 1 # 0
      BY <1>2, LeadoutPlaced
    <3>2. /\ OwnLines(t, "FLAGS")' = Section(t + 1, "FLAGS") /\ OwnLines(t, "ISRC")' = Section(t + 1, "ISRC")
          /\ OwnLines(t, "TITLE")' = Section(t + 1, "TITLE") /\ Index1Lines(t)' = Placing(t)
          /\ {k \in LinesOf("FILE", 1, Len(sheet))' : TracksBefore(k)' = t} = Section(t, "FILE")
      BY <2>1, <3>1
    <3>3. /\ img'.tocent[t].start_lba = img.tocent[t].start_lba
          /\ img'.tocent[t].flags = img.tocent[t].flags
          /\ img'.tocent[t].isrc = img.tocent[t].isrc
          /\ img'.tocent[t].filename = img.tocent[t].filename
      BY <3>1, LeadoutPlaced
    <3>4. /\ img.tocent[t].start_lba = IF Placing(t) = {} THEN 0 ELSE sheet[Min(Placing(t))].at + Pregap
          /\ img.tocent[t].flags = UNION {sheet[k].flags : k \in Section(t + 1, "FLAGS")}
      BY <3>1 DEF EntriesAsRead
    <3>5. /\ img.tocent[t].isrc = LastOf(Section(t + 1, "ISRC"))
          /\ img.tocent[t].filename = LastOf(Section(t, "FILE"))
      BY <3>1 DEF StringsAsRead
    <3>6. ASSUME NEW k \in {LastOf(OwnLines(t, "TITLE")')} \ {0}
          PROVE  [track |-> img'.i_first_track + t, text |-> k] \in img'.titles
      <4>1. k = LastOf(Section(t + 1, "TITLE")) /\ Section(t + 1, "TITLE") # {}
        BY <3>2 DEF LastOf
      <4>2. t + 1 \in Titled
        BY <3>1, <4>1 DEF Titled
      <4>3. TitleTrack(t + 1) = img.i_first_track + t
        BY <1>2, <3>1 DEF TitleTrack
      <4> QED BY <4>1, <4>2, <4>3, LeadoutPlaced DEF TitlesAsRead
    <3>7. img'.tocent[t].start_lba = IF Index1Lines(t)' = {} THEN 0
                                     ELSE sheet'[Min(Index1Lines(t)')].at + Pregap
      BY <1>1, <3>2, <3>3, <3>4
    <3>8. img'.tocent[t].flags = UNION {sheet'[k].flags : k \in OwnLines(t, "FLAGS")'}
      <4>1. {sheet'[k].flags : k \in OwnLines(t, "FLAGS")'} = {sheet[k].flags : k \in Section(t + 1, "FLAGS")}
        BY <1>1, <3>2
      <4> QED BY <3>3, <3>4, <4>1
    <3>9. /\ img'.tocent[t].isrc = LastOf(OwnLines(t, "ISRC")')
          /\ img'.tocent[t].filename =
               LastOf({k \in LinesOf("FILE", 1, Len(sheet))' : TracksBefore(k)' = t})
      BY <3>2, <3>3, <3>5
    <3> QED BY <3>6, <3>7, <3>8, <3>9
  <2>4. Cardinality(img'.titles) =
          Cardinality({TracksBefore(k)' : k \in LinesOf("TITLE", 1, Len(sheet))'})
    <3>1. {TracksBefore(k)' : k \in LinesOf("TITLE", 1, Len(sheet))'} =
            {TracksBefore(k) : k \in LinesOf("TITLE", 1, Len(sheet))}
      BY <1>1 DEF LinesOf, TracksBefore, TrackLines
    <3>2. {TracksBefore(k) : k \in LinesOf("TITLE", 1, Len(sheet))} = Titled
      BY <1>1, SheetRead
    <3> QED BY <3>1, <3>2, TitlesCounted, LeadoutPlaced
  <2> QED BY <2>2, <2>3, <2>4 DEF TracksAsWritten
<1>8. LastTrackCounted'
  <2> SUFFICES ASSUME img.i_tracks > 0, img.i_first_track = 1
               PROVE  img'.tocent[img.i_tracks - 1].sec_count =
                        img'.tocent[img.i_tracks].start_lba - img'.tocent[img.i_tracks - 1].start_lba
    BY LeadoutPlaced DEF LastTrackCounted
  <2>1. LastEntry = img.i_tracks - 1 /\ LastEntry \in 0 .. MaxLines /\ LastEntry # img.i_tracks
    BY <1>2 DEF LastEntry
  <2> QED BY <1>2, <2>1, LeadoutPlaced
<1>9. DiscModeMatchesTracks'
  <2>1. \A t \in 0 .. img.i_tracks - 1 : img'.tocent[t].layout = img.tocent[t].layout
    BY <1>2, LeadoutPlaced
  <2>2. {img'.tocent[t].layout.format : t \in 0 .. img'.i_tracks - 1} = Formats
    BY <2>1, LeadoutPlaced DEF Formats
  <2>3. (\A t \in 0 .. img'.i_tracks - 1 : img'.tocent[t].layout.blocksize # 2336) => NoMode2336
    BY <2>1, LeadoutPlaced DEF NoMode2336
  <2>4. NoMode2336 => img'.disc_mode = SummedUp(Formats)
    BY LeadoutPlaced DEF ModeAsRead
  <2>5. DiscModeMatchesTracks' <=>
          ((pc' = "open" /\ \A t \in 0 .. img'.i_tracks - 1 : img'.tocent[t].layout.blocksize # 2336) =>
             img'.disc_mode = SummedUp({img'.tocent[t].layout.format : t \in 0 .. img'.i_tracks - 1}))
    BY DEF DiscModeMatchesTracks, SummedUp
  <2> QED BY <2>2, <2>3, <2>4, <2>5
<1>10. TracksDoNotOverlap'
  <2> SUFFICES ASSUME img.i_first_track = 1, NEW t \in 0 .. img.i_tracks - 2, Index1Lines(t + 1)' # {},
                      img'.tocent[t + 1].start_lba - img'.tocent[t].start_lba >= 0
               PROVE  LET room == img'.tocent[t + 1].start_lba - img'.tocent[t].start_lba
                      IN img'.tocent[t].sec_count \in room - Pregap .. room /\ img'.tocent[t].sec_count >= 0
    BY LeadoutPlaced DEF TracksDoNotOverlap
  <2>1. t \in 0 .. MaxLines /\ t + 1 \in 0 .. MaxLines /\ t # LastEntry /\ t # img.i_tracks /\ t + 1 # img.i_tracks
    BY <1>2 DEF LastEntry
  <2>2. Index1Lines(t + 1)' = Index1Lines(t + 1)
    BY <1>1 DEF Index1Lines, OwnLines, Own, TracksBefore, TrackLines, LinesOf
  <2>3. Index1Lines(t + 1) = Placing(t + 1)
    BY <1>1, SheetRead
  <2>4. img.tocent[t].sec_count = PrevSecCount(img.tocent[t].start_lba, img.tocent[t + 1].start_lba)
    BY <2>2, <2>3 DEF CountsAsRead
  <2>5. /\ img'.tocent[t].sec_count = img.tocent[t].sec_count
        /\ img'.tocent[t].start_lba = img.tocent[t].start_lba
        /\ img'.tocent[t + 1].start_lba = img.tocent[t + 1].start_lba
    BY <2>1, LeadoutPlaced
  <2>6. img.tocent[t].start_lba \in Int /\ img.tocent[t + 1].start_lba \in Int
    BY <1>2, <2>1
  <2> QED BY <1>2, <2>4, <2>5, <2>6 DEF PrevSecCount
<1> QED BY <1>4, <1>5, <1>6, <1>7, <1>8, <1>9, <1>10

(* What _free_image leaves behind.                                         *)
LEMMA ImageFreed ==
  ASSUME TypeOK, Positioned, SheetAccepted, StringsAsRead, FreeImage
  PROVE  OnlySupersededStringsLeak'
<1>1. /\ pc \in {"failed", "open"} /\ pc' = "freed" /\ heap' = heap \ Freed
      /\ sheet' = sheet /\ line' = line /\ line \in Nat /\ line <= Len(sheet) /\ MaxLines \in Nat
      /\ Len(sheet) <= MaxLines /\ Len(sheet) \in Nat
  BY CueSheetAssumption DEF FreeImage, TypeOK
<1>2. img.i_tracks = TracksBefore(line + 1) /\ img.i_tracks \in Nat
  BY <1>1 DEF Positioned, TypeOK, ImageType
<1>3. ASSUME NEW k \in heap'
      PROVE  Superseded(k)
  <2>1. k \in heap \ Freed /\ k \in 1 .. line /\ sheet[k].kw \in {"CATALOG", "FILE", "ISRC"}
    BY <1>1 DEF StringsAsRead, StringLines
  <2> DEFINE b == TracksBefore(k)
  <2>2. b \in Nat /\ b <= img.i_tracks /\ b <= MaxLines
    <3>1. k \in Nat \ {0} /\ k <= line + 1 /\ k - 1 <= MaxLines
      BY <1>1, <2>1
    <3>2. b \in Nat /\ b <= k - 1
      BY <3>1, TracksBeforeNext, TracksBeforeGrows
    <3>3. TracksBefore(k) <= TracksBefore(line + 1)
      BY <1>1, <3>1, TracksBeforeGrows
    <3> QED BY <1>1, <1>2, <3>1, <3>2, <3>3
  <2>3. Acceptable(sheet[k], k)
    BY <1>1, <2>1 DEF SheetAccepted
  <2>4. ASSUME NEW kw, kw = sheet[k].kw
        PROVE  LET m == LastOf(Section(b, kw))
               IN m = k \/ \E n \in k + 1 .. line : sheet[n].kw = sheet[k].kw /\ TracksBefore(n) = b
    <3>1. k \in Section(b, kw) /\ Section(b, kw) \in SUBSET (0 .. line)
      BY <1>1, <2>1, <2>4 DEF Section
    <3>2. LastOf(Section(b, kw)) \in Section(b, kw) /\ k <= LastOf(Section(b, kw))
      BY <1>1, <3>1, LastOfMember
    <3> QED BY <2>1, <2>4, <3>2 DEF Section
  <2>5. CASE sheet[k].kw = "CATALOG"
    <3>1. img.mcn = LastOf(Section(b, "CATALOG"))
      BY <2>3, <2>5 DEF StringsAsRead, Acceptable
    <3>2. img.mcn # k
      BY <2>1 DEF Freed
    <3> QED BY <2>4, <2>5, <3>1, <3>2 DEF Superseded
  <2>6. CASE sheet[k].kw = "FILE"
    <3>1. img.tocent[b].filename = LastOf(Section(b, "FILE"))
      BY <1>1, <2>2 DEF StringsAsRead
    <3>2. CASE b = img.i_tracks
      BY <1>2, <2>6, <3>2 DEF Superseded
    <3>3. CASE b # img.i_tracks
      <4>1. b \in 0 .. img.i_tracks - 1
        BY <1>2, <2>2, <3>3
      <4>2. img.tocent[b].filename # k
        BY <2>1, <4>1 DEF Freed
      <4> QED BY <2>4, <2>6, <3>1, <4>2 DEF Superseded
    <3> QED BY <3>2, <3>3
  <2>7. CASE sheet[k].kw = "ISRC"
    <3>1. b - 1 \in 0 .. MaxLines /\ b - 1 \in 0 .. img.i_tracks - 1 /\ b - 1 + 1 = b
      BY <1>1, <1>2, <2>2, <2>3, <2>7 DEF Acceptable
    <3>2. img.tocent[b - 1].isrc = LastOf(Section(b, "ISRC"))
      BY <3>1 DEF StringsAsRead
    <3>3. img.tocent[b - 1].isrc # k
      BY <2>1, <3>1 DEF Freed
    <3> QED BY <2>4, <2>7, <3>2, <3>3 DEF Superseded
  <2> QED BY <2>1, <2>5, <2>6, <2>7
<1>4. ASSUME NEW k, Superseded(k)
      PROVE  Superseded(k)'
  BY <1>1, <1>4 DEF Superseded, TracksBefore, TrackLines, LinesOf
<1> QED BY <1>3, <1>4 DEF OnlySupersededStringsLeak

-----------------------------------------------------------------------------
(* The state cdio_is_cuefile starts from.                                  *)
LEMMA InitIInv == Init => IInv
<1> SUFFICES ASSUME Init PROVE IInv
  OBVIOUS
<1>1. PICK lead \in LeadLsns : img = EmptyImage(lead)
  BY DEF Init
<1>2. img \in ImageType
  <2>1. EmptyTrack \in TrackType
    BY DEF EmptyTrack, TrackType, LayoutType
  <2> QED BY <1>1, <2>1, CueSheetAssumption DEF EmptyImage, ImageType, TocType
<1>3. sheet \in Seq(Lines) /\ Len(sheet) = 0 /\ line = 0 /\ i = -1 /\ pc = "probe" /\ heap = {}
  BY DEF Init
<1>4. TypeOK
  BY <1>2, <1>3, CueSheetAssumption DEF TypeOK, Init
<1>5. Positioned
  <2>1. TracksBefore(line + 1) = Cardinality({})
    BY <1>3 DEF TracksBefore, TrackLines, LinesOf
  <2> QED BY <1>3, <2>1, FS_EmptySet DEF Positioned
<1>6. ProbeIsDry /\ SheetAccepted
  BY <1>1, <1>3 DEF ProbeIsDry, SheetAccepted
<1> QED
  BY <1>3, <1>4, <1>5, <1>6 DEF IInv, Loading, ProbeAgreesWithLoad, TracksAsWritten, LastTrackCounted,
     DiscModeMatchesTracks, TracksDoNotOverlap, OnlySupersededStringsLeak

(* A line of the dry run.                                                  *)
LEMMA ProbeStep ==
  ASSUME IInv, pc = "probe", NEW l \in Lines, ParseLine(l)
  PROVE  IInv'
<1>1. TypeOK /\ Positioned /\ ProbeIsDry /\ SheetAccepted
  BY DEF IInv
<1>2. /\ sheet' = Append(sheet, l) /\ line' = ThisLine /\ Len(sheet) < MaxLines /\ img' = img /\ heap' = heap
      /\ b_first_index_for_track' = b_first_index_for_track
      /\ \/ /\ pc' = "probe" /\ Acceptable(l, ThisLine)
            /\ i' = IF l.kw = "TRACK" THEN i + 1 ELSE i
         \/ pc' = "rejected" /\ i' \in Int
  BY <1>1, ProbedLine
<1>3. /\ sheet \in Seq(Lines) /\ Len(sheet) \in Nat /\ ThisLine = Len(sheet) + 1 /\ line = Len(sheet)
      /\ i \in Int /\ MaxLines \in Nat
  BY <1>1, CueSheetAssumption DEF TypeOK, ThisLine
<1>4. /\ sheet' \in Seq(Lines) /\ Len(sheet') = ThisLine /\ sheet'[ThisLine] = l
      /\ \A k \in 1 .. Len(sheet) : sheet'[k] = sheet[k]
  BY <1>2, <1>3
<1>5. TypeOK'
  BY <1>1, <1>2, <1>3, <1>4 DEF TypeOK
<1>6. Positioned'
  <2>1. PICK n : n = ThisLine /\ n = line + 1
    BY DEF ThisLine
  <2> DEFINE S == {k \in 1 .. n : sheet'[k].kw = "TRACK"}
  <2>2. line' + 1 - 1 = n /\ n - 1 = line /\ n \in Nat \ {0} /\ 1 .. n = (1 .. line) \cup {n}
    BY <1>2, <1>3, <2>1 DEF ThisLine
  <2>3. TracksBefore(line + 1)' = Cardinality(S)
    <3>1. line' = n /\ n \in Int
      BY <1>2, <2>1, <2>2
    <3>2. TracksBefore(line + 1)' = Cardinality({k \in 1 .. (line' + 1) - 1 : sheet'[k].kw = "TRACK"})
      BY Zenon DEF TracksBefore, TrackLines, LinesOf
    <3>3. (line' + 1) - 1 = n
      BY <3>1
    <3> QED BY <3>2, <3>3
  <2>4. TracksBefore(n) = Cardinality(TrackLines(line)) /\ IsFiniteSet(TrackLines(line))
    BY <1>3, <2>2, TracksFinite DEF TracksBefore, TrackLines
  <2>5. S = IF l.kw = "TRACK" THEN TrackLines(line) \cup {n} ELSE TrackLines(line)
    BY <1>3, <1>4, <2>1, <2>2 DEF TrackLines, LinesOf
  <2>6. n \notin TrackLines(line)
    BY <1>3, <2>1 DEF TrackLines, LinesOf
  <2>7. i = TracksBefore(n) - 1 /\ TracksBefore(n) \in Nat
    BY <1>1, <1>3, <2>1, <2>2, TracksBeforeNext DEF Positioned
  <2> HIDE DEF S
  <2>8. CASE pc' = "probe" /\ l.kw = "TRACK"
    <3>1. Cardinality(S) = Cardinality(TrackLines(line)) + 1
      BY <2>4, <2>5, <2>6, <2>8, FS_AddElement
    <3> QED BY <1>2, <2>3, <2>4, <2>7, <2>8, <3>1 DEF Positioned
  <2>9. CASE pc' = "probe" /\ l.kw # "TRACK"
    BY <1>2, <2>3, <2>4, <2>5, <2>7, <2>9 DEF Positioned
  <2>10. CASE pc' = "rejected"
    BY <2>10 DEF Positioned
  <2> QED BY <1>2, <2>8, <2>9, <2>10
<1>7. SheetAccepted'
  <2> SUFFICES ASSUME pc' = "probe", NEW k \in 1 .. Len(sheet')
               PROVE  Acceptable(sheet[k], k)'
    BY <1>2 DEF SheetAccepted
  <2>1. k \in 1 .. Len(sheet) + 1 /\ (k \in 1 .. Len(sheet) \/ k = ThisLine)
    BY <1>3, <1>4
  <2>2. TracksBefore(k)' = TracksBefore(k)
    BY <1>1, <1>2, <2>1, SheetGrows
  <2>3. Acceptable(sheet'[k], k)
    <3>1. CASE k \in 1 .. Len(sheet)
      BY <1>1, <1>4, <3>1 DEF SheetAccepted
    <3>2. CASE k = ThisLine
      BY <1>2, <1>4, <3>2
    <3> QED BY <2>1, <3>1, <3>2
  <2> QED BY <2>2, <2>3 DEF Acceptable
<1>8. ProbeIsDry'
  BY <1>1, <1>2 DEF ProbeIsDry
<1> QED
  BY <1>2, <1>5, <1>6, <1>7, <1>8 DEF IInv, Loading, ProbeAgreesWithLoad, TracksAsWritten, LastTrackCounted,
     DiscModeMatchesTracks, TracksDoNotOverlap, OnlySupersededStringsLeak

(* A line of the second run.                                               *)
LEMMA LoadStep ==
  ASSUME IInv, Loading, NEW l \in Lines, ParseLine(l)
  PROVE  IInv'
<1>1. /\ TypeOK /\ Positioned /\ SheetAccepted /\ pc = "load"
      /\ StringsAsRead /\ EntriesAsRead /\ TitlesAsRead /\ CountsAsRead /\ ModeAsRead
  BY DEF IInv, Loading
<1>2. CASE LineRead(l)
  <2>1. /\ Positioned' /\ StringsAsRead' /\ EntriesAsRead' /\ TitlesAsRead' /\ CountsAsRead' /\ ModeAsRead'
    BY <1>1, <1>2, PositionRead, StringsRead, EntriesRead, TitlesRead, CountsRead, ModeRead DEF Loading
  <2>2. pc' = "load" /\ sheet' = sheet /\ line' = line + 1 /\ line < Len(sheet)
    BY <1>2 DEF LineRead, ThisLine
  <2>3. TypeOK'
    <3>1. heap' \subseteq 1 .. MaxLines
      <4>1. heap' = IF l.kw \in {"CATALOG", "FILE", "ISRC"} THEN heap \cup {ThisLine} ELSE heap
        BY <1>2 DEF LineRead
      <4>2. ThisLine \in 1 .. MaxLines
        BY <1>1, <1>2, PositionRead DEF Loading
      <4> QED BY <1>1, <4>1, <4>2 DEF TypeOK
    <3>2. img' \in ImageType
      BY <1>2 DEF LineRead
    <3>3. i' \in Int /\ b_first_index_for_track' \in {"no", "yes"}
      BY <1>1, <1>2 DEF LineRead, TypeOK
    <3> QED BY <1>1, <2>2, <3>1, <3>2, <3>3 DEF TypeOK
  <2>4. SheetAccepted'
    BY <1>1, <2>2 DEF SheetAccepted, Acceptable, TracksBefore, TrackLines, LinesOf
  <2> QED
    BY <2>1, <2>2, <2>3, <2>4 DEF IInv, Loading, ProbeIsDry, ProbeAgreesWithLoad, TracksAsWritten,
       LastTrackCounted, DiscModeMatchesTracks, TracksDoNotOverlap, OnlySupersededStringsLeak
<1>3. CASE /\ pc' = "failed" /\ l.kw = "CDTEXTFILE" /\ l.arg = "unreadable"
           /\ l = sheet[ThisLine] /\ line < Len(sheet) /\ line' = ThisLine /\ sheet' = sheet
           /\ UNCHANGED <<i, b_first_index_for_track, img, heap>>
  <2>1. /\ line \in Nat /\ ThisLine = line + 1 /\ Len(sheet) \in Nat /\ Len(sheet) <= MaxLines
        /\ ThisLine \in Nat \ {0} /\ line' = line + 1
    BY <1>1, <1>3 DEF TypeOK, ThisLine
  <2>2. TypeOK'
    BY <1>1, <1>3, <2>1 DEF TypeOK
  <2>3. \A k : TracksBefore(k)' = TracksBefore(k)
    BY <1>3 DEF TracksBefore, TrackLines, LinesOf
  <2>4. Positioned'
    <3>1. TracksBefore(ThisLine + 1) = TracksBefore(ThisLine) /\ TracksBefore(ThisLine) \in Nat
      <4>1. /\ TracksBefore(ThisLine) \in Nat
            /\ TracksBefore(ThisLine + 1) =
                 TracksBefore(ThisLine) + (IF sheet[ThisLine].kw = "TRACK" THEN 1 ELSE 0)
        BY <2>1, TracksBeforeNext
      <4> QED BY <1>3, <4>1
    <3>2. TracksBefore(line + 1)' = TracksBefore(ThisLine + 1)
      BY <1>3, <2>1 DEF TracksBefore, TrackLines, LinesOf
    <3> QED BY <1>1, <1>3, <2>1, <3>1, <3>2 DEF Positioned
  <2>5. SheetAccepted'
    BY <1>1, <1>3, <2>3 DEF SheetAccepted, Acceptable
  <2>6. ProbeAgreesWithLoad'
    BY <1>3 DEF ProbeAgreesWithLoad
  <2>7. StringsAsRead'
    <3>1. \A b, kw : kw # "CDTEXTFILE" => Section(b, kw)' = Section(b, kw)
      BY <1>3, <2>1, <2>3 DEF Section
    <3>2. \A b : LastOf(Section(b, "CATALOG"))' = LastOf(Section(b, "CATALOG"))
                 /\ LastOf(Section(b, "ISRC"))' = LastOf(Section(b, "ISRC"))
                 /\ LastOf(Section(b, "FILE"))' = LastOf(Section(b, "FILE"))
      BY <3>1 DEF LastOf
    <3>3. StringLines' = StringLines
      BY <1>3, <2>1 DEF StringLines
    <3> QED BY <1>1, <1>3, <3>2, <3>3 DEF StringsAsRead
  <2> QED
    BY <1>3, <2>2, <2>4, <2>5, <2>6, <2>7 DEF IInv, Loading, ProbeIsDry, TracksAsWritten,
       LastTrackCounted, DiscModeMatchesTracks, TracksDoNotOverlap, OnlySupersededStringsLeak
<1> QED BY <1>1, <1>2, <1>3, LoadedLine

(* Every step keeps the invariant.                                         *)
LEMMA NextIInv == IInv /\ [Next]_vars => IInv'
<1> SUFFICES ASSUME IInv, [Next]_vars PROVE IInv'
  OBVIOUS
<1>1. ASSUME NEW l \in Lines, ParseLine(l)
      PROVE  IInv'
  <2>1. pc = "probe" \/ Loading
    BY <1>1 DEF ParseLine, ReadLine
  <2> QED BY <1>1, <2>1, ProbeStep, LoadStep
<1>2. CASE ProbeAccepts
  <2>1. pc' = "load" /\ sheet' = sheet /\ SheetAccepted
    BY <1>2 DEF ProbeAccepts, IInv
  <2>2. SheetAccepted'
    BY <1>2, <2>1 DEF SheetAccepted, Acceptable, TracksBefore, TrackLines, LinesOf, ProbeAccepts
  <2>3. /\ TypeOK' /\ Positioned'
        /\ StringsAsRead' /\ EntriesAsRead' /\ TitlesAsRead' /\ CountsAsRead' /\ ModeAsRead'
    BY <1>2, LoadStarts DEF IInv
  <2> QED
    BY <2>1, <2>2, <2>3 DEF IInv, Loading, ProbeIsDry, ProbeAgreesWithLoad, TracksAsWritten,
       LastTrackCounted, DiscModeMatchesTracks, TracksDoNotOverlap, OnlySupersededStringsLeak
<1>3. CASE LoadEnds
  <2>1. Loading /\ pc' = "open" /\ sheet' = sheet
    BY <1>3 DEF LoadEnds
  <2>2. SheetAccepted'
    BY <2>1 DEF IInv, SheetAccepted, Acceptable, TracksBefore, TrackLines, LinesOf, Loading
  <2>3. /\ TypeOK' /\ Positioned' /\ StringsAsRead'
        /\ TracksAsWritten' /\ LastTrackCounted' /\ DiscModeMatchesTracks' /\ TracksDoNotOverlap'
    BY <1>3, <2>1, LoadFinishes DEF IInv, Loading
  <2> QED
    BY <2>1, <2>2, <2>3 DEF IInv, Loading, ProbeIsDry, ProbeAgreesWithLoad, OnlySupersededStringsLeak
<1>4. CASE FreeImage
  <2>1. /\ pc \in {"failed", "open"} /\ pc' = "freed" /\ sheet' = sheet /\ line' = line /\ img' = img
        /\ i' = i /\ b_first_index_for_track' = b_first_index_for_track /\ heap' \subseteq heap
    BY <1>4 DEF FreeImage
  <2>2. TypeOK'
    BY <2>1 DEF IInv, TypeOK
  <2>3. SheetAccepted'
    BY <2>1 DEF IInv, SheetAccepted, Acceptable, TracksBefore, TrackLines, LinesOf
  <2>4. OnlySupersededStringsLeak'
    BY <1>4, <2>1, ImageFreed DEF IInv
  <2> QED
    BY <2>1, <2>2, <2>3, <2>4 DEF IInv, Positioned, Loading, ProbeIsDry, ProbeAgreesWithLoad, TracksAsWritten,
       LastTrackCounted, DiscModeMatchesTracks, TracksDoNotOverlap
<1>5. CASE UNCHANGED vars
  <2>1. /\ pc' = pc /\ sheet' = sheet /\ line' = line /\ i' = i /\ img' = img /\ heap' = heap
        /\ b_first_index_for_track' = b_first_index_for_track
    BY <1>5 DEF vars
  <2>2. /\ TypeOK' <=> TypeOK
        /\ ProbeIsDry' <=> ProbeIsDry
        /\ ProbeAgreesWithLoad' <=> ProbeAgreesWithLoad
        /\ LastTrackCounted' <=> LastTrackCounted
        /\ DiscModeMatchesTracks' <=> DiscModeMatchesTracks
    BY <2>1 DEF TypeOK, ProbeIsDry, ProbeAgreesWithLoad, LastTrackCounted, DiscModeMatchesTracks
  <2>3. /\ Positioned' <=> Positioned
        /\ SheetAccepted' <=> SheetAccepted
    BY <2>1 DEF Positioned, SheetAccepted, Acceptable, TracksBefore, TrackLines, LinesOf
  <2>4. /\ StringsAsRead' <=> StringsAsRead
        /\ EntriesAsRead' <=> EntriesAsRead
        /\ TitlesAsRead' <=> TitlesAsRead
        /\ CountsAsRead' <=> CountsAsRead
    BY <2>1 DEF StringsAsRead, StringLines, EntriesAsRead, TitlesAsRead, Titled, TitleTrack, CountsAsRead,
       Section, Placing, LastOf, TracksBefore, TrackLines, LinesOf
  <2>5. ModeAsRead' <=> ModeAsRead
    BY <2>1 DEF ModeAsRead, NoMode2336, Formats, SummedUp
  <2>6. /\ TracksDoNotOverlap' <=> TracksDoNotOverlap
        /\ OnlySupersededStringsLeak' <=> OnlySupersededStringsLeak
    BY <2>1 DEF TracksDoNotOverlap, OnlySupersededStringsLeak, Superseded, Index1Lines, OwnLines,
       Own, TracksBefore, TrackLines, LinesOf
  <2>7. TracksAsWritten' <=> TracksAsWritten
    BY <2>1 DEF TracksAsWritten, Index1Lines, OwnLines, Own, LastOf, TracksBefore, TrackLines, LinesOf
  <2> QED BY <2>1, <2>2, <2>3, <2>4, <2>5, <2>6, <2>7 DEF IInv, Loading
<1> QED BY <1>1, <1>2, <1>3, <1>4, <1>5 DEF Next

(* In every state of a bincue open: the types hold and every conjunct of   *)
(* the inductive invariant.                                                *)
THEOREM CueSheetInvariant == Spec => []IInv
BY InitIInv, NextIInv, PTL DEF Spec

(* The dry run of cdio_is_cuefile and the load of _init_bincue agree.      *)
THEOREM ProbeAgreesWithLoadHolds == Spec => []ProbeAgreesWithLoad
<1>1. IInv => ProbeAgreesWithLoad
  BY DEF IInv
<1> QED BY <1>1, CueSheetInvariant, PTL

(* The tracks of an open image do not overlap.                             *)
THEOREM TracksDoNotOverlapHolds == Spec => []TracksDoNotOverlap
<1>1. IInv => TracksDoNotOverlap
  BY DEF IInv
<1> QED BY <1>1, CueSheetInvariant, PTL

(* _free_image leaves no string but those of superseded lines.             *)
THEOREM OnlySupersededStringsLeakHolds == Spec => []OnlySupersededStringsLeak
<1>1. IInv => OnlySupersededStringsLeak
  BY DEF IInv
<1> QED BY <1>1, CueSheetInvariant, PTL

(* An open image is what the sheet says.                                   *)
THEOREM LoadedAsWrittenHolds == Spec => []LoadedAsWritten
<1>1. IInv => PositionIsTrackCount
  <2> SUFFICES ASSUME IInv, pc \in {"probe", "load"}
               PROVE  i = Cardinality(TrackLines(line)) - 1 /\ (Loading => img.i_tracks = i + 1)
    BY DEF PositionIsTrackCount, Loading
  <2>1. line \in Nat /\ line + 1 - 1 = line
    BY DEF IInv, TypeOK
  <2>2. TracksBefore(line + 1) = Cardinality(TrackLines(line)) /\ Cardinality(TrackLines(line)) \in Nat
    BY <2>1, TracksFinite DEF TracksBefore, TrackLines
  <2> QED BY <2>2 DEF IInv, Positioned, Loading
<1>2. IInv => LoadedAsWritten
  BY <1>1 DEF IInv, LoadedAsWritten
<1> QED BY <1>2, CueSheetInvariant, PTL
=============================================================================
