------------------------- MODULE CdrdaoTocProofs -------------------------
(***************************************************************************)
(* What holds of opening and reading a CDRDAO TOC image, for every TOC and *)
(* every set of files: the load refuses what the dry run accepted only for *)
(* its files, and data sectors come from their own place.                  *)
(*                                                                         *)
(* The dry run accepts a line by what stands in it and by whether a TRACK  *)
(* line comes before; the invariant says so of the lines read so far, and  *)
(* in the load of all of them.                                             *)
(***************************************************************************)
EXTENDS CdrdaoToc, TLAPS

-----------------------------------------------------------------------------
(* The values that the image takes.                                        *)
Entries ==
  [format : {"AUDIO", "DATA", "XA"}, blocksize : {0, Raw}, datastart : Int, datasize : Int,
   endsize : Int, green : BOOLEAN, start_lba : Int, pregap : Int, silence : Int,
   sec_count : Int, offset : Int, source : Here \cup {None}, flags : SUBSET Flags, isrc : Nat]
DiscModes == {"NO_INFO", "CD_DA", "CD_DATA", "CD_XA", "CD_MIXED"}
Images ==
  [tocent : Seq(Entries), disc_mode : DiscModes, mcn : Nat, texts : SUBSET [track : Int, line : Nat],
   nest : Nat, leadout : Int]

TrackSeen(n) == \E j \in 1 .. n : sheet[j].kw = "TRACK"

(* What the dry run looks at in line k.                                    *)
Accepts(k) ==
  LET l == sheet[k]
      sound == l.arg # "malformed"
  IN /\ l.kw \notin {"FIFO", "other"}
     /\ l.kw \in Global => ~TrackSeen(k - 1)
     /\ l.kw \in OfTrack => TrackSeen(k - 1)
     /\ l.kw \in OfTrack \cup {"CATALOG", "TRACK", "NO", "ISRC", "SILENCE", "CD_TEXT", "LANGUAGE"}
          => sound
     /\ l.kw = "FILE" => l.name \in Here
     /\ l.kw = "DATAFILE" => l.name \in Beside

(* Why the load refuses the line it is at.                                 *)
FileRefused ==
  InTrack /\ (\/ Line.kw = "FILE" /\ TooLong(Entry, Line)
              \/ Line.kw = "DATAFILE" /\ Line.name \notin Here)

IInv ==
  /\ sheet \in Sheets
  /\ stage \in {"probe", "rejected", "load", "failed", "open", "undefined"}
  /\ line \in 0 .. Len(sheet)
  /\ i \in Int /\ i >= -1
  /\ img \in Images
  /\ stage \in {"probe", "load"} => (InTrack <=> TrackSeen(line))
  /\ stage = "probe" => img = EmptyImage /\ \A k \in 1 .. line : Accepts(k)
  /\ stage = "load" => Len(Tracks) = i + 1 /\ \A k \in DOMAIN sheet : Accepts(k)
  /\ stage = "open" => Len(Tracks) > 0
  /\ RefusedForItsFiles

(* What one line can do.                                                   *)
Outcome ==
  /\ sheet' = sheet /\ stage \in {"probe", "load"} /\ line < Len(sheet)
  /\ \/ /\ stage' = stage /\ line' = line + 1
        /\ i' = IF Line.kw = "TRACK" THEN i + 1 ELSE i
        /\ stage = "probe" => img' = img /\ Accepts(line + 1)
        /\ stage = "load" => img' \in Images /\ Len(img'.tocent) = i' + 1
     \/ /\ stage' \in {"rejected", "undefined"} /\ UNCHANGED <<line, img>>
        /\ i' \in {i, i + 1}
     \/ /\ stage = "load" /\ stage' = "failed" /\ UNCHANGED <<line, i, img>>
        /\ FileRefused

-----------------------------------------------------------------------------
LEMMA ConstantSizes ==
  /\ Header \in Nat /\ Subheader \in Nat /\ Frame \in Nat /\ M2Raw \in Nat /\ Pregap \in Nat
  /\ Raw \in Nat /\ Form2End \in Nat /\ Header > 0 /\ Subheader > 0 /\ Frame > 0 /\ Raw > 0
  /\ Lsns \subseteq Int /\ Blocks \subseteq Nat
  /\ \A n \in Here \cup Beside : SizeOf[n] \in Nat
BY CdrdaoTocAssumption

LEMMA SheetLines ==
  ASSUME NEW s \in Sheets
  PROVE  /\ Len(s) \in Nat /\ DOMAIN s = 1 .. Len(s) /\ s \in Seq(Range(s))
         /\ \A k \in 1 .. Len(s) : IsLine(s[k])
         /\ \E k \in 1 .. Len(s) : s[k].kw = "TRACK"
         /\ \A k \in 1 .. Len(s) : s[k].kw \in {"NO", "ISRC"} => \E j \in 1 .. k : s[j].kw = "TRACK"
<1>1. IsSheet(s)
  BY CdrdaoTocAssumption
<1>2. s \in Seq(Range(s))
  BY <1>1 DEF IsSheet
<1>3. Len(s) \in Nat /\ DOMAIN s = 1 .. Len(s)
  BY <1>2
<1> QED BY <1>1, <1>2, <1>3 DEF IsSheet

LEMMA LineFacts ==
  ASSUME IInv, Parsing
  PROVE  /\ line + 1 \in 1 .. Len(sheet) /\ line \in Nat /\ i \in Int
         /\ stage \in {"probe", "load"} /\ line < Len(sheet)
         /\ IsLine(Line) /\ Line = sheet[line + 1]
         /\ InTrack <=> TrackSeen(line)
         /\ Line.kw \in {"NO", "ISRC"} => InTrack
         /\ Loading => Accepts(line + 1) /\ img \in Images /\ Tracks \in Seq(Entries) /\ Len(Tracks) = i + 1
         /\ Loading /\ InTrack => i + 1 \in 1 .. Len(Tracks) /\ Entry \in Entries
<1>1. /\ Len(sheet) \in Nat /\ DOMAIN sheet = 1 .. Len(sheet)
      /\ \A k \in 1 .. Len(sheet) : IsLine(sheet[k])
      /\ \A k \in 1 .. Len(sheet) : sheet[k].kw \in {"NO", "ISRC"} => \E j \in 1 .. k : sheet[j].kw = "TRACK"
  BY SheetLines DEF IInv
<1>2. line + 1 \in 1 .. Len(sheet) /\ line \in Nat /\ i \in Int /\ i >= -1
      /\ stage \in {"probe", "load"} /\ line < Len(sheet)
  BY <1>1 DEF IInv, Parsing
<1>3. InTrack <=> TrackSeen(line)
  BY <1>2 DEF IInv
<1>4. Line.kw \in {"NO", "ISRC"} => InTrack
  <2> SUFFICES ASSUME Line.kw \in {"NO", "ISRC"} PROVE TrackSeen(line)
    BY <1>3
  <2>1. PICK j \in 1 .. line + 1 : sheet[j].kw = "TRACK"
    BY <1>1, <1>2 DEF Line
  <2>2. j # line + 1
    BY <2>1 DEF Line
  <2>3. j \in 1 .. line
    BY <1>2, <2>2
  <2> QED BY <2>1, <2>3 DEF TrackSeen
<1>5. Loading => Accepts(line + 1) /\ img \in Images /\ Tracks \in Seq(Entries) /\ Len(Tracks) = i + 1
  BY <1>1, <1>2 DEF IInv, Loading, Images, Tracks
<1>6. Loading /\ InTrack => i + 1 \in 1 .. Len(Tracks) /\ Entry \in Entries
  BY <1>2, <1>5 DEF InTrack, Entry, Tracks
<1> QED BY <1>1, <1>2, <1>3, <1>4, <1>5, <1>6 DEF Line

LEMMA EntryWritten ==
  ASSUME NEW n \in Nat, img \in Images, Len(Tracks) = n, i + 1 \in 1 .. n, i \in Int, NEW t \in Entries
  PROVE  WithEntry(t) \in Images /\ Len(WithEntry(t).tocent) = n
<1>1. Tracks \in Seq(Entries)
  BY DEF Images, Tracks
<1> DEFINE new == [Tracks EXCEPT ![i + 1] = t]
<1>2. new \in Seq(Entries) /\ Len(new) = n
  BY <1>1
<1>3. WithEntry(t) = [img EXCEPT !.tocent = new]
  BY DEF WithEntry, Tracks
<1> HIDE DEF new
<1> QED BY <1>2, <1>3 DEF Images

LEMMA LayoutSet ==
  ASSUME NEW t \in Entries, NEW format \in {"AUDIO", "DATA", "XA"}, NEW start \in Int,
         NEW size \in Int, NEW end \in Int, NEW green \in BOOLEAN, NEW block \in {0, Raw}
  PROVE  [t EXCEPT !.format = format, !.datastart = start, !.datasize = size, !.endsize = end,
                   !.green = green, !.blocksize = block] \in Entries
BY DEF Entries

LEMMA LaidOut == ASSUME NEW t \in Entries, NEW mode \in Modes PROVE Laid(t, mode) \in Entries
<1> DEFINE block == IF mode \in {"MODE2", "MODE2_FORM1", "MODE2_FORM2"} THEN t.blocksize ELSE Raw
           L(format, start, size, end, green) ==
             [t EXCEPT !.format = format, !.datastart = start, !.datasize = size, !.endsize = end,
                       !.green = t.green \/ green, !.blocksize = block]
<1>1. block \in {0, Raw} /\ t.green \in BOOLEAN
  BY DEF Entries
<1>2. Laid(t, mode) =
        CASE mode = "AUDIO" -> L("AUDIO", 0, Raw, 0, FALSE)
          [] mode \in {"MODE1", "MODE1_RAW"} -> L("DATA", Header, Frame, Raw - Header - Frame, FALSE)
          [] mode = "MODE2" -> L("XA", Header, M2Raw, 0, FALSE)
          [] mode = "MODE2_FORM1" -> L("XA", Header, Raw, 0, FALSE)
          [] mode = "MODE2_FORM2" -> L("XA", Header + Subheader, Frame, Form2End, FALSE)
          [] mode = "MODE2_FORM_MIX" -> L("XA", Header + Subheader, M2Raw, 0, TRUE)
          [] mode = "MODE2_RAW" -> L("XA", Header + Subheader, Frame, 0, TRUE)
  BY DEF Laid
<1>3. ASSUME NEW format \in {"AUDIO", "DATA", "XA"}, NEW start \in Int, NEW size \in Int,
             NEW end \in Int, NEW green \in BOOLEAN
      PROVE  L(format, start, size, end, green) \in Entries
  <2>1. (t.green \/ green) \in BOOLEAN
    OBVIOUS
  <2> HIDE DEF block
  <2> QED BY <1>1, <2>1, LayoutSet
<1> HIDE DEF L, block
<1>4. /\ 0 \in Int /\ Raw \in Int /\ Header \in Int /\ Frame \in Int /\ M2Raw \in Int
      /\ Header + Subheader \in Int /\ Raw - Header - Frame \in Int
      /\ Form2End \in Int
  BY ConstantSizes
<1>5. /\ L("AUDIO", 0, Raw, 0, FALSE) \in Entries
      /\ L("DATA", Header, Frame, Raw - Header - Frame, FALSE) \in Entries
      /\ L("XA", Header, M2Raw, 0, FALSE) \in Entries /\ L("XA", Header, Raw, 0, FALSE) \in Entries
      /\ L("XA", Header + Subheader, Frame, Form2End, FALSE) \in Entries
      /\ L("XA", Header + Subheader, M2Raw, 0, TRUE) \in Entries
      /\ L("XA", Header + Subheader, Frame, 0, TRUE) \in Entries
  BY <1>3, <1>4
<1> QED BY <1>2, <1>5 DEF Modes

LEMMA EmptyTrackIsEntry == EmptyTrack \in Entries
BY DEF EmptyTrack, Entries

LEMMA DiscModeKept ==
  ASSUME NEW disc \in DiscModes, NEW mode PROVE DiscModeAfter(disc, mode) \in DiscModes
BY DEF DiscModes, DiscModeAfter, OwnDiscMode

-----------------------------------------------------------------------------
(* A line that is taken, and one that is refused.                          *)
LEMMA Taken ==
  ASSUME IInv, Parsing, NEW image, Take(image), Line.kw # "TRACK", Accepts(line + 1),
         Loading => image \in Images /\ Len(image.tocent) = i + 1
  PROVE  Outcome
BY LineFacts DEF Take, Same, Outcome, Loading

LEMMA Refusal ==
  ASSUME IInv, Parsing, Reject, Loading => FileRefused
  PROVE  Outcome
BY LineFacts DEF Reject, Same, Outcome, Loading

LEMMA GlobalStep == ASSUME IInv, Catalog \/ DiscKind PROVE Outcome
<1>1. Parsing
  BY DEF Catalog, DiscKind, Is
<1>2. Loading => img \in Images /\ Len(img.tocent) = i + 1
  BY <1>1, LineFacts DEF Tracks
<1>3. CASE Catalog
  <2>1. Line.kw = "CATALOG"
    BY <1>3 DEF Catalog, Is
  <2>2. CASE ~InTrack /\ Sound
    <3>1. Take([img EXCEPT !.mcn = line + 1])
      BY <1>3, <2>2 DEF Catalog
    <3>2. Accepts(line + 1)
      BY <1>1, <2>1, <2>2, LineFacts DEF Accepts, Sound, OfTrack
    <3>3. Loading => [img EXCEPT !.mcn = line + 1] \in Images /\ Len([img EXCEPT !.mcn = line + 1].tocent) = i + 1
      BY <1>1, <1>2, LineFacts DEF Images
    <3> QED BY <1>1, <2>1, <3>1, <3>2, <3>3, Taken
  <2>3. CASE ~(~InTrack /\ Sound)
    <3>1. Reject
      BY <1>3, <2>3 DEF Catalog
    <3>2. ~Loading
      BY <1>1, <2>1, <2>3, LineFacts DEF Accepts, Sound, Global
    <3> QED BY <1>1, <3>1, <3>2, Refusal
  <2> QED BY <2>2, <2>3
<1>4. CASE DiscKind
  <2> DEFINE image == [img EXCEPT !.disc_mode = CASE Line.kw = "CD_DA" -> "CD_DA"
                             [] Line.kw = "CD_ROM" -> "CD_DATA" [] OTHER -> "CD_XA"]
  <2>1. Line.kw \in {"CD_DA", "CD_ROM", "CD_ROM_XA"}
    BY <1>4 DEF DiscKind, Is
  <2>2. CASE ~InTrack
    <3>1. Take(image)
      BY <1>4, <2>2 DEF DiscKind
    <3>2. Accepts(line + 1)
      BY <1>1, <2>1, <2>2, LineFacts DEF Accepts, Global, OfTrack
    <3>3. Loading => image \in Images /\ Len(image.tocent) = i + 1
      BY <1>1, <1>2, <2>1, LineFacts DEF Images, DiscModes
    <3> HIDE DEF image
    <3> QED BY <1>1, <2>1, <3>1, <3>2, <3>3, Taken
  <2>3. CASE InTrack
    <3>1. Reject
      BY <1>4, <2>3 DEF DiscKind
    <3>2. ~Loading
      BY <1>1, <2>1, <2>3, LineFacts DEF Accepts, Global
    <3> QED BY <1>1, <3>1, <3>2, Refusal
  <2> QED BY <2>2, <2>3
<1> QED BY <1>3, <1>4

LEMMA TrackStep == ASSUME IInv, Track PROVE Outcome
<1>1. Parsing /\ Line.kw = "TRACK" /\ i' = i + 1 /\ sheet' = sheet
  BY DEF Track, Is, Same
<1>2. CASE Sound
  <2>1. line' = line + 1 /\ stage' = stage
    BY <1>2 DEF Track
  <2>2. stage = "probe" => img' = img /\ Accepts(line + 1)
    BY <1>1, <1>2, LineFacts DEF Track, Loading, Accepts, Sound, Global, OfTrack
  <2>3. stage = "load" => img' \in Images /\ Len(img'.tocent) = i' + 1
    <3> SUFFICES ASSUME stage = "load" PROVE img' \in Images /\ Len(img'.tocent) = i' + 1
      OBVIOUS
    <3>1. Line.arg \in Modes
      BY <1>1, <1>2, LineFacts DEF IsLine, Sound
    <3> DEFINE entry == Laid(EmptyTrack, Line.arg)
               kind == DiscModeAfter(img.disc_mode, Line.arg)
    <3>2. img \in Images /\ Tracks \in Seq(Entries) /\ Len(Tracks) = i + 1 /\ i \in Int
      BY <1>1, LineFacts DEF Loading
    <3>3. entry \in Entries /\ kind \in DiscModes
      BY <3>1, <3>2, LaidOut, EmptyTrackIsEntry, DiscModeKept DEF Images
    <3>4. img' = [img EXCEPT !.tocent = Append(Tracks, entry), !.disc_mode = kind]
      BY <1>2 DEF Track, Loading, Tracks
    <3> HIDE DEF entry, kind
    <3>5. Append(Tracks, entry) \in Seq(Entries) /\ Len(Append(Tracks, entry)) = i + 1 + 1
      BY <3>2, <3>3
    <3> QED BY <1>1, <3>2, <3>3, <3>4, <3>5 DEF Images
  <2> QED BY <1>1, <2>1, <2>2, <2>3, LineFacts DEF Outcome
<1>3. CASE ~Sound
  <2>1. ~Loading
    BY <1>1, <1>3, LineFacts DEF Accepts, Sound
  <2>2. stage' = "rejected" /\ UNCHANGED <<line, img>>
    BY <1>3, <2>1 DEF Track
  <2> QED BY <1>1, <2>2, LineFacts DEF Outcome
<1> QED BY <1>2, <1>3

(* A line that writes to the entry of its track.                           *)
LEMMA EntryTaken ==
  ASSUME IInv, Parsing, NEW t, Take(WithEntry(t)), Line.kw # "TRACK", Accepts(line + 1),
         Loading => InTrack /\ (Entry \in Entries => t \in Entries)
  PROVE  Outcome
<1>1. Loading => WithEntry(t) \in Images /\ Len(WithEntry(t).tocent) = i + 1
  <2> SUFFICES ASSUME Loading PROVE WithEntry(t) \in Images /\ Len(WithEntry(t).tocent) = i + 1
    OBVIOUS
  <2>1. /\ img \in Images /\ Len(Tracks) = i + 1 /\ i + 1 \in 1 .. Len(Tracks)
        /\ t \in Entries /\ i \in Int /\ Len(Tracks) \in Nat
    BY LineFacts
  <2> QED BY <2>1, EntryWritten
<1> HIDE DEF WithEntry
<1> QED BY <1>1, Taken

(* A line that changes nothing that is loaded.                             *)
LEMMA NothingTaken ==
  ASSUME IInv, Parsing, Take(img), Line.kw # "TRACK", Accepts(line + 1)
  PROVE  Outcome
BY LineFacts, Taken DEF Tracks

LEMMA FlagStep == ASSUME IInv, SetFlag \/ ClearFlag \/ Isrc \/ Silence \/ Ignored \/ Refused PROVE Outcome
<1>1. Parsing
  BY DEF SetFlag, ClearFlag, Isrc, Silence, Ignored, Refused, Is
<1>0. line \in Nat
  BY <1>1, LineFacts
<1>2. CASE SetFlag
  <2> DEFINE t == [Entry EXCEPT !.flags = @ \cup {Line.kw}]
  <2>1. Line.kw \in Flags /\ Take(IF InTrack /\ Loading THEN WithEntry(t) ELSE img)
    BY <1>2 DEF SetFlag, Is
  <2>2. Accepts(line + 1) /\ Line.kw # "TRACK"
    BY <1>1, <2>1, LineFacts DEF Accepts, Flags, Global, OfTrack
  <2>3. Entry \in Entries => t \in Entries
    BY <2>1 DEF Entries
  <2> HIDE DEF t
  <2>4. CASE InTrack /\ Loading
    BY <1>1, <2>1, <2>2, <2>3, <2>4, EntryTaken
  <2>5. CASE ~(InTrack /\ Loading)
    BY <1>1, <2>1, <2>2, <2>5, NothingTaken
  <2> QED BY <2>4, <2>5
<1>3. CASE ClearFlag
  <2>1. CASE Line.kw = "TWO_CHANNEL_AUDIO"
    <3> DEFINE t == [Entry EXCEPT !.flags = @ \ {"FOUR_CHANNEL_AUDIO"}]
    <3>1. Take(IF InTrack /\ Loading THEN WithEntry(t) ELSE img)
      BY <1>3, <2>1 DEF ClearFlag, Is
    <3>2. Accepts(line + 1) /\ Line.kw # "TRACK"
      BY <1>1, <2>1, LineFacts DEF Accepts, Global, OfTrack
    <3>3. Entry \in Entries => t \in Entries
      BY DEF Entries
    <3> HIDE DEF t
    <3>4. CASE InTrack /\ Loading
      BY <1>1, <3>1, <3>2, <3>3, <3>4, EntryTaken
    <3>5. CASE ~(InTrack /\ Loading)
      BY <1>1, <3>1, <3>2, <3>5, NothingTaken
    <3> QED BY <3>4, <3>5
  <2>2. CASE Line.kw = "NO"
    <3> DEFINE t == [Entry EXCEPT !.flags = @ \ {Line.arg}]
    <3>1. IF Sound THEN Take(WithEntry(t)) ELSE Reject
      BY <1>3, <2>2 DEF ClearFlag, Is
    <3>2. Sound => Accepts(line + 1) /\ Line.kw # "TRACK"
      BY <1>1, <2>2, LineFacts DEF Accepts, Global, OfTrack, Sound
    <3>3. (Entry \in Entries => t \in Entries) /\ InTrack
      BY <1>1, <2>2, LineFacts DEF Entries
    <3>4. Loading => Sound
      BY <1>1, <2>2, LineFacts DEF Accepts, Sound
    <3> HIDE DEF t
    <3> QED BY <1>1, <3>1, <3>2, <3>3, <3>4, EntryTaken, Refusal
  <2> QED BY <1>3, <2>1, <2>2 DEF ClearFlag, Is
<1>4. CASE Isrc
  <2> DEFINE t == [Entry EXCEPT !.isrc = line + 1]
  <2>1. Line.kw = "ISRC" /\ IF Sound THEN Take(WithEntry(t)) ELSE Reject
    BY <1>4 DEF Isrc, Is
  <2>2. Sound => Accepts(line + 1) /\ Line.kw # "TRACK"
    BY <1>1, <2>1, LineFacts DEF Accepts, Global, OfTrack, Sound
  <2>3. (Entry \in Entries => t \in Entries) /\ InTrack
    <3>1. line + 1 \in Nat
      BY <1>0
    <3>2. InTrack
      BY <1>1, <2>1, LineFacts
    <3> QED BY <3>1, <3>2 DEF Entries
  <2>4. Loading => Sound
    BY <1>1, <2>1, LineFacts DEF Accepts, Sound
  <2> HIDE DEF t
  <2> QED BY <1>1, <2>1, <2>2, <2>3, <2>4, EntryTaken, Refusal
<1>5. CASE Silence
  <2> DEFINE t == [Entry EXCEPT !.silence = Line.n]
  <2>1. Line.kw = "SILENCE" /\ (InTrack \/ ~Sound) /\ IF Sound THEN Take(WithEntry(t)) ELSE Reject
    BY <1>5 DEF Silence, Is
  <2>2. Sound => Accepts(line + 1) /\ Line.kw # "TRACK"
    BY <1>1, <2>1, LineFacts DEF Accepts, Global, OfTrack, Sound
  <2>3. Entry \in Entries => t \in Entries
    BY <1>1, LineFacts DEF Entries, IsLine
  <2>4. Loading => Sound
    BY <1>1, <2>1, LineFacts DEF Accepts, Sound
  <2> HIDE DEF t
  <2> QED BY <1>1, <2>1, <2>2, <2>3, <2>4, EntryTaken, Refusal
<1>6. CASE Ignored
  <2>1. Line.kw \in {"ZERO", "LANGUAGE_MAP"} /\ Take(img)
    BY <1>6 DEF Ignored, Is
  <2>2. Accepts(line + 1) /\ Line.kw # "TRACK"
    BY <1>1, <2>1, LineFacts DEF Accepts, Global, OfTrack
  <2> QED BY <1>1, <2>1, <2>2, NothingTaken
<1>7. CASE Refused
  <2>1. Line.kw \in {"FIFO", "other"} /\ Reject
    BY <1>7 DEF Refused, Is
  <2>2. ~Loading
    BY <1>1, <2>1, LineFacts DEF Accepts
  <2> QED BY <1>1, <2>1, <2>2, Refusal
<1> QED BY <1>2, <1>3, <1>4, <1>5, <1>6, <1>7

LEMMA TimeStep == ASSUME IInv, Start \/ PregapLine \/ Index PROVE Outcome
<1>1. Parsing /\ Line.kw \in {"START", "PREGAP", "INDEX"}
  BY DEF Start, PregapLine, Index, Is
<1>2. InTrack /\ Sound => Accepts(line + 1) /\ Line.kw # "TRACK"
  BY <1>1, LineFacts DEF Accepts, Global, OfTrack, Sound
<1>3. Loading => InTrack /\ Sound
  BY <1>1, LineFacts DEF Accepts, OfTrack, Sound
<1>4. Line.n \in Int
  BY <1>1, LineFacts DEF IsLine
<1>5. CASE Start
  <2> DEFINE t == [Entry EXCEPT !.pregap = Entry.start_lba, !.start_lba = @ + Line.n]
  <2>1. IF InTrack /\ Sound THEN Take(WithEntry(t)) ELSE Reject
    BY <1>5 DEF Start
  <2>2. Entry \in Entries => t \in Entries
    <3> SUFFICES ASSUME Entry \in Entries PROVE t \in Entries
      OBVIOUS
    <3>1. Entry.start_lba \in Int /\ Entry.start_lba + Line.n \in Int
      BY <1>4 DEF Entries
    <3> QED BY <3>1 DEF Entries
  <2> HIDE DEF t
  <2> QED BY <1>1, <1>2, <1>3, <2>1, <2>2, EntryTaken, Refusal
<1>6. CASE PregapLine
  <2> DEFINE t == [Entry EXCEPT !.pregap = Line.n]
  <2>1. IF InTrack /\ Sound THEN Take(WithEntry(t)) ELSE Reject
    BY <1>6 DEF PregapLine
  <2>2. Entry \in Entries => t \in Entries
    BY <1>4 DEF Entries
  <2> HIDE DEF t
  <2> QED BY <1>1, <1>2, <1>3, <2>1, <2>2, EntryTaken, Refusal
<1>7. CASE Index
  BY <1>1, <1>2, <1>3, <1>7, NothingTaken, Refusal DEF Index
<1> QED BY <1>5, <1>6, <1>7

LEMMA TextStep == ASSUME IInv, CdText PROVE Outcome
<1>1. Parsing /\ Line.kw \in {"CD_TEXT", "LANGUAGE", "{", "}", "field"}
  BY DEF CdText, Is
<1>2. Line.kw \notin {"CD_TEXT", "LANGUAGE"} \/ Sound => Accepts(line + 1)
  BY <1>1, LineFacts DEF Accepts, Global, OfTrack, Sound
<1>3. Loading => Accepts(line + 1) /\ img \in Images /\ Len(img.tocent) = i + 1 /\ line \in Nat /\ i \in Int
  BY <1>1, LineFacts DEF Tracks
<1>4. ASSUME NEW nest \in Nat, NEW texts \in SUBSET [track : Int, line : Nat], Accepts(line + 1),
             Take([img EXCEPT !.nest = nest]) \/ Take([img EXCEPT !.texts = texts])
      PROVE  Outcome
  <2>1. Loading => /\ [img EXCEPT !.nest = nest] \in Images /\ Len([img EXCEPT !.nest = nest].tocent) = i + 1
                   /\ [img EXCEPT !.texts = texts] \in Images /\ Len([img EXCEPT !.texts = texts].tocent) = i + 1
    BY <1>3 DEF Images
  <2> QED BY <1>1, <1>4, <2>1, Taken
<1>5. img.nest \in Nat /\ img.texts \in SUBSET [track : Int, line : Nat]
  BY DEF IInv, Images
<1>6. CASE Is({"CD_TEXT", "LANGUAGE"}) /\ IF Sound THEN Take([img EXCEPT !.nest = Nested(@)]) ELSE Reject
  <2>1. Line.kw \in {"CD_TEXT", "LANGUAGE"}
    BY <1>6 DEF Is
  <2>2. Loading => Sound
    BY <1>3, <2>1, LineFacts, <1>1 DEF Accepts, Sound
  <2>3. CASE Sound
    <3>1. img.nest + 1 \in Nat
      BY <1>5
    <3>2. Nested(img.nest) \in Nat
      BY <1>5, <3>1, Zenon DEF Nested
    <3> QED BY <1>2, <1>4, <1>5, <1>6, <2>3, <3>2
  <2> QED BY <1>1, <1>6, <2>2, <2>3, Refusal
<1>7. CASE Is({"{"}) /\ Take([img EXCEPT !.nest = @ + 1])
  <2>1. img.nest + 1 \in Nat
    BY <1>5
  <2>2. Line.kw = "{"
    BY <1>7 DEF Is
  <2> QED BY <1>2, <1>4, <1>5, <1>7, <2>1, <2>2
<1>8. CASE Is({"}"}) /\ Take([img EXCEPT !.nest = IF @ > 0 THEN @ - 1 ELSE @])
  <2>1. (IF img.nest > 0 THEN img.nest - 1 ELSE img.nest) \in Nat
    BY <1>5
  <2>2. Line.kw = "}"
    BY <1>8 DEF Is
  <2> QED BY <1>2, <1>4, <1>5, <1>8, <2>1, <2>2
<1>9. CASE Is({"field"}) /\ Take([img EXCEPT !.texts = @ \cup {[track |-> i + 1, line |-> line + 1]}])
  <2>1. (img.texts \cup {[track |-> i + 1, line |-> line + 1]}) \in SUBSET [track : Int, line : Nat]
    <3>0. i \in Int /\ line \in Nat
      BY <1>1, LineFacts
    <3>1. i + 1 \in Int /\ line + 1 \in Nat
      BY <3>0
    <3> QED BY <1>5, <3>1
  <2>2. Line.kw = "field"
    BY <1>9 DEF Is
  <2> QED BY <1>2, <1>4, <1>5, <1>9, <2>1, <2>2
<1> QED BY <1>6, <1>7, <1>8, <1>9 DEF CdText

LEMMA FileTrackIsEntry ==
  ASSUME NEW t \in Entries, NEW l, {l.start, l.length} \subseteq Int, l.name \in Here,
         ~(l.length = 0 /\ t.blocksize = 0)
  PROVE  FileTrack(t, l) \in Entries
<1>1. t.start_lba \in Int /\ t.sec_count \in Int /\ t.blocksize \in {0, Raw} /\ SizeOf[l.name] \in Nat
  BY ConstantSizes DEF Entries
<1>2. l.start + Pregap \in Int
  BY ConstantSizes
<1>3. l.length = 0 => WholeFile(t, l.name) \in Int
  BY <1>1, ConstantSizes DEF WholeFile
<1> DEFINE started == IF l.start = NotGiven THEN t ELSE [t EXCEPT !.start_lba = l.start + Pregap]
           count == IF l.length = 0 THEN WholeFile(t, l.name) ELSE l.length
<1>4. started \in Entries
  BY <1>2 DEF Entries
<1>5. count \in Int
  BY <1>3
<1>6. FileTrack(t, l) = IF l.length = NotGiven THEN [started EXCEPT !.source = l.name]
                        ELSE [started EXCEPT !.source = l.name, !.sec_count = count]
  BY DEF FileTrack
<1> HIDE DEF started, count
<1>7. [started EXCEPT !.source = l.name] \in Entries
  BY <1>4 DEF Entries
<1>8. [started EXCEPT !.source = l.name, !.sec_count = count] \in Entries
  BY <1>4, <1>5 DEF Entries
<1> QED BY <1>6, <1>7, <1>8

LEMMA Undefined ==
  ASSUME IInv, Parsing, stage' = "undefined", UNCHANGED <<line, i, img>>, Same PROVE Outcome
BY LineFacts DEF Same, Outcome

LEMMA FileStep == ASSUME IInv, File PROVE Outcome
<1>1. Parsing /\ Line.kw = "FILE"
  BY DEF File, Is
<1>2. OpenedFrom("FILE") = Here
  BY DEF OpenedFrom
<1>3. Loading => InTrack /\ Sound /\ Line.name \in Here
  BY <1>1, LineFacts DEF Accepts, OfTrack, Sound
<1>4. InTrack /\ Sound /\ Line.name \in Here => Accepts(line + 1)
  BY <1>1, LineFacts DEF Accepts, Global, Sound
<1>5. CASE InTrack /\ Sound /\ Line.name \in Here /\ (Loading => ~TooLong(Entry, Line))
  <2>1. IF Divides0 THEN stage' = "undefined" /\ UNCHANGED <<line, i, img>> /\ Same
        ELSE Take(WithEntry(FileTrack(Entry, Line)))
    BY <1>2, <1>5 DEF File, FileAllowed
  <2>2. CASE Divides0
    BY <1>1, <2>1, <2>2, Undefined
  <2>3. CASE ~Divides0
    <3>1. Loading /\ Entry \in Entries => FileTrack(Entry, Line) \in Entries
      <4> SUFFICES ASSUME Loading, Entry \in Entries PROVE FileTrack(Entry, Line) \in Entries
        OBVIOUS
      <4>1. {Line.start, Line.length} \subseteq Int
        BY <1>1, LineFacts DEF IsLine
      <4>2. ~(Line.length = 0 /\ Entry.blocksize = 0)
        BY <2>3 DEF Divides0
      <4> QED BY <1>5, <4>1, <4>2, FileTrackIsEntry
    <3>2. Take(WithEntry(FileTrack(Entry, Line)))
      BY <2>1, <2>3
    <3> QED BY <1>1, <1>4, <1>5, <3>1, <3>2, EntryTaken
  <2> QED BY <2>2, <2>3
<1>6. CASE ~(InTrack /\ Sound /\ Line.name \in Here /\ (Loading => ~TooLong(Entry, Line)))
  <2>1. Reject
    BY <1>2, <1>6 DEF File, FileAllowed
  <2>2. Loading => FileRefused
    BY <1>1, <1>3, <1>6 DEF FileRefused
  <2> QED BY <1>1, <2>1, <2>2, Refusal
<1> QED BY <1>5, <1>6

LEMMA DataTrackIsEntry ==
  ASSUME NEW t \in Entries, NEW l, {l.start, l.offset} \subseteq Int, l.name \in Here,
         i \in Int, i = 0 \/ Previous \in Entries,
         ~(l.start = NotGiven /\ i # 0 /\ Previous.blocksize = 0)
  PROVE  DataTrack(t, l) \in Entries
<1> DEFINE named == [t EXCEPT !.source = l.name, !.offset = IF l.offset = NotGiven THEN t.offset ELSE l.offset]
           base == IF i = 0 THEN t.start_lba ELSE Previous.start_lba + PreviousBlocks
<1>1. named \in Entries
  <2>1. (IF l.offset = NotGiven THEN t.offset ELSE l.offset) \in Int
    BY DEF Entries
  <2> QED BY <2>1 DEF Entries
<1>2. l.start = NotGiven => base + Pregap \in Int
  <2> SUFFICES ASSUME l.start = NotGiven PROVE base + Pregap \in Int
    OBVIOUS
  <2>1. CASE i = 0
    BY <2>1, ConstantSizes DEF Entries
  <2>2. CASE i # 0
    <3>1. Previous.start_lba \in Int /\ Previous.blocksize = Raw /\ Previous.source \in Here \cup {None}
      BY <2>2 DEF Entries
    <3>2. PreviousBlocks \in Int
      <4>1. CASE Previous.source = None
        BY <4>1 DEF PreviousBlocks
      <4>2. CASE Previous.source # None
        <5>1. SizeOf[Previous.source] \in Nat
          BY <3>1, <4>2, ConstantSizes
        <5> QED BY <3>1, <4>2, <5>1, ConstantSizes DEF PreviousBlocks
      <4> QED BY <4>1, <4>2
    <3> QED BY <2>2, <3>1, <3>2, ConstantSizes
  <2> QED BY <2>1, <2>2
<1>3. DataTrack(t, l) = IF l.start # NotGiven THEN [named EXCEPT !.start_lba = l.start]
                        ELSE [named EXCEPT !.offset = 0, !.start_lba = base + Pregap]
  BY DEF DataTrack
<1> HIDE DEF named, base
<1>4. [named EXCEPT !.start_lba = l.start] \in Entries
  BY <1>1 DEF Entries
<1>5. l.start = NotGiven => [named EXCEPT !.offset = 0, !.start_lba = base + Pregap] \in Entries
  <2> DEFINE begin == base + Pregap
  <2>1. ASSUME NEW o \in Int, NEW b \in Int PROVE [named EXCEPT !.offset = o, !.start_lba = b] \in Entries
    BY <1>1 DEF Entries
  <2>2. 0 \in Int /\ (l.start = NotGiven => begin \in Int)
    BY <1>2
  <2> HIDE DEF begin
  <2>3. l.start = NotGiven => [named EXCEPT !.offset = 0, !.start_lba = begin] \in Entries
    BY <2>1, <2>2
  <2> QED BY <2>3, Zenon DEF begin
<1> QED BY <1>3, <1>4, <1>5

LEMMA DataFileStep == ASSUME IInv, DataFile PROVE Outcome
<1>1. Parsing /\ Line.kw = "DATAFILE"
  BY DEF DataFile, Is
<1>2. OpenedFrom("DATAFILE") = IF stage = "probe" THEN Beside ELSE Here
  BY DEF OpenedFrom
<1>3. Loading => InTrack /\ Sound /\ Accepts(line + 1)
  BY <1>1, LineFacts DEF Accepts, OfTrack, Sound
<1>4. ~Loading => (InTrack /\ Sound /\ Line.name \in OpenedFrom("DATAFILE") => Accepts(line + 1))
  BY <1>1, <1>2, LineFacts DEF Accepts, Global, Sound, Loading
<1>5. CASE InTrack /\ Sound /\ Line.name \in OpenedFrom("DATAFILE")
  <2>1. IF DividesPrevious THEN stage' = "undefined" /\ UNCHANGED <<line, i, img>> /\ Same
        ELSE Take(WithEntry(DataTrack(Entry, Line)))
    BY <1>5 DEF DataFile
  <2>2. CASE DividesPrevious
    BY <1>1, <2>1, <2>2, Undefined
  <2>3. CASE ~DividesPrevious
    <3>1. Loading /\ Entry \in Entries => DataTrack(Entry, Line) \in Entries
      <4> SUFFICES ASSUME Loading, Entry \in Entries PROVE DataTrack(Entry, Line) \in Entries
        OBVIOUS
      <4>1. {Line.start, Line.offset} \subseteq Int
        BY <1>1, LineFacts DEF IsLine
      <4>2. Line.name \in Here
        BY <1>2, <1>5 DEF Loading
      <4>3. Tracks \in Seq(Entries) /\ Len(Tracks) = i + 1 /\ i \in Int /\ i >= 0
        BY <1>1, <1>5, LineFacts DEF InTrack
      <4>4. i = 0 \/ Previous \in Entries
        BY <4>3 DEF Previous, Tracks
      <4>5. ~(Line.start = NotGiven /\ i # 0 /\ Previous.blocksize = 0)
        BY <2>3, <4>3 DEF DividesPrevious
      <4> QED BY <4>1, <4>2, <4>3, <4>4, <4>5, DataTrackIsEntry
    <3>2. Take(WithEntry(DataTrack(Entry, Line)))
      BY <2>1, <2>3
    <3> QED BY <1>1, <1>3, <1>4, <1>5, <3>1, <3>2, EntryTaken
  <2> QED BY <2>2, <2>3
<1>6. CASE ~(InTrack /\ Sound /\ Line.name \in OpenedFrom("DATAFILE"))
  <2>1. Reject
    BY <1>6 DEF DataFile
  <2>2. Loading => FileRefused
    BY <1>1, <1>2, <1>3, <1>6 DEF FileRefused, Loading
  <2> QED BY <1>1, <2>1, <2>2, Refusal
<1> QED BY <1>5, <1>6

(* A line keeps the invariant.                                             *)
LEMMA OutcomeKeeps == ASSUME IInv, Outcome PROVE IInv'
<1>0. /\ sheet \in Sheets /\ Len(sheet) \in Nat /\ line \in Nat /\ line < Len(sheet) /\ i \in Int /\ i >= -1
      /\ sheet' = sheet /\ DOMAIN sheet = 1 .. Len(sheet) /\ img \in Images
      /\ stage \in {"probe", "load"} /\ (InTrack <=> TrackSeen(line))
  BY SheetLines DEF IInv, Outcome
<1>1. CASE /\ stage' = stage /\ line' = line + 1
           /\ i' = IF Line.kw = "TRACK" THEN i + 1 ELSE i
           /\ stage = "probe" => img' = img /\ Accepts(line + 1)
           /\ stage = "load" => img' \in Images /\ Len(img'.tocent) = i' + 1
  <2>1. line' \in 0 .. Len(sheet) /\ i' \in Int /\ i' >= -1
    BY <1>0, <1>1
  <2>2. InTrack' <=> TrackSeen(line + 1)
    <3>1. TrackSeen(line + 1) <=> TrackSeen(line) \/ Line.kw = "TRACK"
      BY <1>0 DEF TrackSeen, Line
    <3>2. InTrack' <=> InTrack \/ Line.kw = "TRACK"
      BY <1>0, <1>1 DEF InTrack
    <3> QED BY <1>0, <3>1, <3>2
  <2>3. TrackSeen(line)' <=> TrackSeen(line + 1)
    BY <1>0, <1>1 DEF TrackSeen
  <2>4. img' \in Images
    BY <1>0, <1>1
  <2>5. stage' = "probe" => img' = EmptyImage /\ (\A k \in 1 .. line : Accepts(k))'
    <3> SUFFICES ASSUME stage = "probe" PROVE img' = EmptyImage /\ (\A k \in 1 .. line : Accepts(k))'
      BY <1>1
    <3>1. \A k \in 1 .. line + 1 : Accepts(k)
      BY <1>0, <1>1 DEF IInv
    <3>2. \A k : Accepts(k)' = Accepts(k)
      BY <1>0 DEF Accepts, TrackSeen
    <3> QED BY <1>1, <3>1, <3>2 DEF IInv
  <2>6. stage' = "load" => Len(Tracks)' = i' + 1 /\ (\A k \in DOMAIN sheet : Accepts(k))'
    <3> SUFFICES ASSUME stage = "load" PROVE Len(Tracks)' = i' + 1 /\ (\A k \in DOMAIN sheet : Accepts(k))'
      BY <1>1
    <3>1. \A k : Accepts(k)' = Accepts(k)
      BY <1>0 DEF Accepts, TrackSeen
    <3> QED BY <1>0, <1>1, <3>1 DEF IInv, Tracks
  <2>7. stage' \in {"probe", "load"} /\ stage' # "open" /\ stage' # "failed"
    BY <1>0, <1>1
  <2>8. RefusedForItsFiles'
    BY <2>7 DEF RefusedForItsFiles
  <2> QED BY <1>0, <2>1, <2>2, <2>3, <2>4, <2>5, <2>6, <2>7, <2>8 DEF IInv
<1>2. CASE stage' \in {"rejected", "undefined"} /\ UNCHANGED <<line, img>> /\ i' \in {i, i + 1}
  <2>1. i' \in Int /\ i' >= -1
    BY <1>0, <1>2
  <2> QED BY <1>0, <1>2, <2>1 DEF IInv, RefusedForItsFiles
<1>3. CASE stage = "load" /\ stage' = "failed" /\ UNCHANGED <<line, i, img>> /\ FileRefused
  <2>1. RefusedForItsFiles'
    BY <1>0, <1>3 DEF RefusedForItsFiles, FileRefused, InTrack, Line, Entry, TooLong
  <2> QED BY <1>0, <1>3, <2>1 DEF IInv
<1> QED BY <1>1, <1>2, <1>3 DEF Outcome

-----------------------------------------------------------------------------
(* The end of the sheet: the dry run starts the load, the load closes the  *)
(* last track.                                                             *)
LEMMA LastEntry ==
  ASSUME img \in Images, Len(Tracks) > 0
  PROVE  Tracks \in Seq(Entries) /\ Len(Tracks) \in Nat /\ LastTrack = Tracks[Len(Tracks)]
         /\ LastTrack \in Entries
<1>1. Tracks \in Seq(Entries)
  BY DEF Images, Tracks
<1> QED BY <1>1 DEF LastTrack, Last

LEMMA LastLsnIsNumber ==
  ASSUME img \in Images, Len(Tracks) > 0, ~NoEnd, ~NoBlocks PROVE LastLsn \in Int
<1>1. LastTrack \in Entries
  BY LastEntry
<1>2. /\ LastTrack.sec_count \in Int /\ LastTrack.silence \in Int /\ LastTrack.offset \in Int
      /\ LastTrack.start_lba \in Int /\ LastTrack.blocksize \in {0, Raw}
      /\ LastTrack.source \in Here \cup {None}
  BY <1>1 DEF Entries
<1>3. Remaining \in Int
  <2>1. LastTrack.source # None => SizeOf[LastTrack.source] \in Nat
    BY <1>2, ConstantSizes
  <2> QED BY <1>2, <2>1 DEF Remaining
<1>4. ~Overrun => LastLength \in Int
  <2> SUFFICES ASSUME ~Overrun, LastTrack.sec_count = 0 PROVE RoundedUp(Remaining, LastTrack.blocksize) \in Int
    BY <1>2 DEF LastLength
  <2>1. LastTrack.blocksize = Raw
    BY <1>2 DEF NoBlocks
  <2> QED BY <1>3, <2>1, ConstantSizes DEF RoundedUp
<1> QED BY <1>2, <1>3, <1>4, ConstantSizes DEF LastLsn

LEMMA EndStep == ASSUME IInv, EndOfSheet PROVE IInv'
<1>0. /\ sheet \in Sheets /\ sheet' = sheet /\ img \in Images /\ line \in 0 .. Len(sheet)
      /\ stage \in {"probe", "load"} /\ line = Len(sheet) /\ i \in Int /\ i >= -1
      /\ Len(sheet) \in Nat /\ DOMAIN sheet = 1 .. Len(sheet)
  BY SheetLines DEF IInv, EndOfSheet
<1>1. CASE stage = "probe"
  <2>1. stage' = "load" /\ line' = 0 /\ i' = -1 /\ img' = img /\ img = EmptyImage
    BY <1>1 DEF EndOfSheet, IInv
  <2>2. \A k \in DOMAIN sheet : Accepts(k)
    BY <1>0, <1>1 DEF IInv
  <2>3. (\A k \in DOMAIN sheet : Accepts(k))'
    BY <1>0, <2>2 DEF Accepts, TrackSeen
  <2>4. ~InTrack' /\ ~TrackSeen(line)'
    BY <2>1 DEF InTrack, TrackSeen
  <2>5. Len(Tracks)' = i' + 1
    BY <2>1 DEF Tracks, EmptyImage
  <2> QED BY <1>0, <2>1, <2>3, <2>4, <2>5 DEF IInv, RefusedForItsFiles
<1>2. CASE stage = "load"
  <2>1. i' = i /\ line' = line
    BY <1>2 DEF EndOfSheet
  <2>2. Len(Tracks) > 0
    <3>1. TrackSeen(line) /\ Len(Tracks) = i + 1
      BY <1>0, <1>2, SheetLines DEF IInv, TrackSeen
    <3> QED BY <1>0, <1>2, <3>1 DEF IInv, InTrack
  <2>3. /\ Tracks \in Seq(Entries) /\ Len(Tracks) \in Nat
        /\ LastTrack = Tracks[Len(Tracks)] /\ LastTrack \in Entries
    BY <1>0, <2>2, LastEntry
  <2>4. CASE NoEnd
    <3>1. stage' = "failed" /\ img' = img
      BY <1>2, <2>4 DEF EndOfSheet
    <3>2. NoEnd'
      BY <2>4, <3>1 DEF NoEnd, LastTrack, Tracks
    <3> QED BY <1>0, <2>1, <3>1, <3>2 DEF IInv, RefusedForItsFiles
  <2>5. CASE ~NoEnd /\ NoBlocks
    <3>1. stage' = "undefined" /\ img' = img
      BY <1>2, <2>5 DEF EndOfSheet
    <3> QED BY <1>0, <2>1, <3>1 DEF IInv, RefusedForItsFiles
  <2>6. CASE ~NoEnd /\ ~NoBlocks
    <3> DEFINE count == LastLsn + Pregap - LastTrack.start_lba
               closed == [LastTrack EXCEPT !.sec_count = count]
               tracks == [Tracks EXCEPT ![Len(Tracks)] = closed]
    <3>1. stage' = IF LastLsn = -1 THEN "failed" ELSE "open"
      BY <1>2, <2>6 DEF EndOfSheet
    <3>2. img' = [img EXCEPT !.leadout = LastLsn, !.tocent = tracks]
      <4>1. img' = [img EXCEPT !.leadout = LastLsn, !.tocent[Len(Tracks)].sec_count = count]
        BY <1>2, <2>6 DEF EndOfSheet
      <4> QED BY <2>3, <4>1 DEF Tracks
    <3>3. LastLsn \in Int /\ LastTrack.start_lba \in Int /\ LastTrack.sec_count \in Int /\ Pregap \in Int
      <4>1. LastLsn \in Int
        BY <1>0, <2>2, <2>6, LastLsnIsNumber
      <4>2. LastTrack.start_lba \in Int /\ LastTrack.sec_count \in Int
        BY <2>3 DEF Entries
      <4> QED BY <4>1, <4>2, ConstantSizes
    <3>4. count \in Int
      BY <3>3
    <3>c. count = LastLsn + Pregap - LastTrack.start_lba
      OBVIOUS
    <3> HIDE DEF count
    <3>5. closed \in Entries
      BY <2>3, <3>4 DEF Entries
    <3>d. closed.sec_count = count /\ closed.start_lba = LastTrack.start_lba /\ closed.source = LastTrack.source
          /\ (count = LastTrack.sec_count => closed = LastTrack)
      BY <2>3 DEF Entries
    <3> HIDE DEF closed
    <3>6. tracks \in Seq(Entries) /\ Len(tracks) = Len(Tracks) /\ tracks[Len(Tracks)] = closed
      BY <2>2, <2>3, <3>5
    <3> HIDE DEF tracks
    <3>7. img' \in Images /\ Tracks' = tracks
      BY <1>0, <3>2, <3>3, <3>6 DEF Images, Tracks
    <3>8. LastTrack' = closed
      BY <3>6, <3>7, <2>3 DEF LastTrack, Last
    <3>9. LastLsn = -1 => NoEnd' \/ LastLsn' = -1
      <4> SUFFICES ASSUME LastLsn = -1, ~NoEnd' PROVE LastLsn' = -1
        OBVIOUS
      <4>1. CASE count # 0
        <5>1. ~Overrun' /\ LastLength' = count
          BY <3>8, <3>d, <4>1 DEF Overrun, LastLength
        <5>2. LastLsn' = count + LastTrack.start_lba - Pregap
          BY <3>8, <3>d, <5>1 DEF LastLsn
        <5> QED BY <3>3, <3>4, <3>c, <5>2
      <4>2. CASE count = 0 /\ LastTrack.sec_count = 0
        <5>1. LastTrack' = LastTrack
          BY <3>8, <3>d, <4>2
        <5> QED BY <5>1 DEF LastLsn, Overrun, Remaining, LastLength
      <4>3. CASE count = 0 /\ LastTrack.sec_count # 0
        <5>1. LastLsn = LastTrack.sec_count + LastTrack.start_lba - Pregap
          BY <4>3 DEF LastLsn, Overrun, LastLength
        <5>2. FALSE
          BY <3>3, <3>c, <4>3, <5>1
        <5> QED BY <5>2
      <4> QED BY <4>1, <4>2, <4>3
    <3>10. RefusedForItsFiles'
      <4>1. stage' = "failed" => LastLsn = -1
        BY <3>1
      <4>2. ~(line < Len(sheet))'
        BY <1>0, <2>1
      <4> QED BY <3>9, <4>1, <4>2 DEF RefusedForItsFiles
    <3>11. Len(Tracks)' > 0
      BY <2>2, <3>6, <3>7
    <3> QED BY <1>0, <2>1, <3>1, <3>7, <3>10, <3>11 DEF IInv
  <2> QED BY <2>4, <2>5, <2>6
<1> QED BY <1>0, <1>1, <1>2

LEMMA InitEstablishes == Init => IInv
<1> SUFFICES ASSUME Init PROVE IInv
  OBVIOUS
<1>1. sheet \in Sheets /\ Len(sheet) \in Nat
  BY SheetLines DEF Init
<1>2. EmptyImage \in Images
  BY DEF EmptyImage, Images, DiscModes
<1>3. ~InTrack /\ ~TrackSeen(0)
  BY DEF Init, InTrack, TrackSeen
<1> QED BY <1>1, <1>2, <1>3 DEF Init, IInv, RefusedForItsFiles

LEMMA ReadingKeeps ==
  ASSUME IInv, Kept PROVE IInv'
BY DEF IInv, Kept, TrackSeen, Accepts, InTrack, Tracks, RefusedForItsFiles, Line, Entry, TooLong,
       NoEnd, LastLsn, LastTrack, Overrun, Remaining, LastLength

LEMMA NextPreserves == IInv /\ [Next]_vars => IInv'
<1> SUFFICES ASSUME IInv, [Next]_vars PROVE IInv'
  OBVIOUS
<1>1. CASE Parse
  <2>1. CASE EndOfSheet
    BY <2>1, EndStep
  <2>2. CASE ~EndOfSheet
    BY <1>1, <2>2, GlobalStep, TrackStep, FlagStep, FileStep, DataFileStep, TimeStep, TextStep,
       OutcomeKeeps DEF Parse
  <2> QED BY <2>1, <2>2
<1>2. CASE UNCHANGED vars \/ Kept
  <2>1. Kept
    BY <1>2 DEF vars, Kept
  <2> QED BY <2>1, ReadingKeeps
<1>3. CASE ~Parse /\ Next
  <2>1. Kept
    BY <1>3 DEF Next, Lseek, Read, ReadSectors, ReadData
  <2> QED BY <2>1, ReadingKeeps
<1> QED BY <1>1, <1>2, <1>3

(* Whatever the TOC and the files, cdio_open refuses what cdio_is_tocfile  *)
(* accepted only because of a length its file does not have, a data file   *)
(* that is not found from the current directory, or a last track that has  *)
(* no end.                                                                 *)
THEOREM LoadRefusesForFiles == Spec => []RefusedForItsFiles
<1>1. IInv => RefusedForItsFiles
  BY DEF IInv
<1> QED BY <1>1, InitEstablishes, NextPreserves, PTL DEF Spec

-----------------------------------------------------------------------------
(* Which of several sectors a byte of a buffer belongs to: they lie size   *)
(* bytes apart.                                                            *)
LEMMA Multiples ==
  ASSUME NEW size \in Nat, size > 0, NEW d \in Int, d * size < size, -size < d * size
  PROVE  d = 0
<1>1. d >= 1 => d * size >= size
  <2> SUFFICES ASSUME d >= 1 PROVE d * size >= size
    OBVIOUS
  <2>1. (d - 1) * size >= 0
    OBVIOUS
  <2>2. d * size = (d - 1) * size + size
    OBVIOUS
  <2> QED BY <2>1, <2>2
<1>2. d <= -1 => d * size <= -size
  <2> SUFFICES ASSUME d <= -1 PROVE d * size <= -size
    OBVIOUS
  <2>1. (-1 - d) * size >= 0
    OBVIOUS
  <2>2. d * size = -((-1 - d) * size) - size
    OBVIOUS
  <2> QED BY <2>1, <2>2
<1> QED BY <1>1, <1>2

LEMMA BlocksApart ==
  ASSUME NEW size \in Nat, size > 0, NEW b \in Nat, b > 0
  PROVE  LET q == (b - 1) \div size
             r == (b - 1) % size
         IN /\ q \in Int /\ r \in 0 .. size - 1 /\ b = q * size + r + 1
            /\ \A k \in Int : b - (k - 1) * size \in 1 .. size => k = q + 1
<1> DEFINE q == (b - 1) \div size
           r == (b - 1) % size
<1>1. q \in Int /\ r \in 0 .. size - 1 /\ b - 1 = q * size + r
  OBVIOUS
<1> HIDE DEF q, r
<1>2. ASSUME NEW k \in Int, b - (k - 1) * size \in 1 .. size PROVE k = q + 1
  <2> DEFINE d == k - 1 - q
  <2>1. d * size = (k - 1) * size - q * size
    BY <1>1
  <2>2. d \in Int /\ d * size < size /\ -size < d * size
    BY <1>1, <1>2, <2>1
  <2>3. d = 0
    BY <2>2, Multiples
  <2> QED BY <1>1, <2>3
<1> QED BY <1>1, <1>2 DEF q, r

LEMMA SectorBytesAre ==
  ASSUME NEW lsn \in Int, lsn >= 0, FileSize(1) \in Nat
  PROVE  /\ Len(SectorBytes(lsn)) \in Nat
         /\ \A j \in 1 .. Len(SectorBytes(lsn)) : SectorBytes(lsn)[j] = lsn * Raw + j - 1
<1> DEFINE o == lsn * Raw
           m == Smaller(Raw, IF o < FileSize(1) THEN FileSize(1) - o ELSE 0)
<1>1. o \in Int
  BY ConstantSizes
<1> HIDE DEF o
<1>2. m \in Nat
  BY <1>1, ConstantSizes DEF Smaller
<1>3. SectorBytes(lsn) = [k \in 1 .. m |-> o + k - 1]
  BY DEF SectorBytes, Bytes, o
<1> HIDE DEF m
<1>4. Len([k \in 1 .. m |-> o + k - 1]) = m
  BY <1>2
<1> QED BY <1>2, <1>3, <1>4 DEF o

LEMMA DataBufferInPlace ==
  ASSUME NEW op \in {"mode1", "mode2"}, NEW lsn \in Int, lsn >= 0, NEW n \in Int, FileSize(1) \in Nat,
         NEW b \in DOMAIN DataBuffer(op, "no", lsn, n)
  PROVE  LET skip == IF op = "mode1" THEN Header ELSE Header + Subheader
         IN DataBuffer(op, "no", lsn, n)[b]
              \in {Zero, (lsn + (b - 1) \div Frame) * Raw + skip + ((b - 1) % Frame)}
<1> DEFINE skip == IF op = "mode1" THEN Header ELSE Header + Subheader
           q == (b - 1) \div Frame
           r == (b - 1) % Frame
           covers == Copies(lsn, n, Frame, Frame, b)
           k == Max(covers)
           byte == skip + b - (k - 1) * Frame
<1>1. Part(op, "no") = [from |-> skip, size |-> Frame] /\ Stride(op, Part(op, "no")) = Frame
  BY DEF Part, Stride
<1>2. /\ DOMAIN DataBuffer(op, "no", lsn, n) = 1 .. (n - 1) * Frame + Frame
      /\ DataBuffer(op, "no", lsn, n)[b] =
           IF covers = {} \/ byte > Len(SectorBytes(Nth(lsn, k))) THEN Zero
           ELSE SectorBytes(Nth(lsn, k))[byte]
  <2>1. DataBuffer(op, "no", lsn, n) =
          [x \in 1 .. (n - 1) * Frame + Frame |->
             LET xcovers == Copies(lsn, n, Frame, Frame, x)
                 xk == Max(xcovers)
                 xbyte == skip + x - (xk - 1) * Frame
             IN IF xcovers = {} \/ xbyte > Len(SectorBytes(Nth(lsn, xk))) THEN Zero
                ELSE SectorBytes(Nth(lsn, xk))[xbyte]]
    BY <1>1 DEF DataBuffer
  <2> QED BY <2>1, Zenon
<1>3. b \in Nat /\ b > 0 /\ Frame \in Nat /\ Frame > 0 /\ skip \in Nat
  <2>1. (n - 1) * Frame + Frame \in Int
    BY ConstantSizes
  <2> QED BY <1>2, <2>1, ConstantSizes
<1>4. /\ q \in Int /\ q >= 0 /\ r \in 0 .. Frame - 1 /\ b = q * Frame + r + 1
      /\ \A x \in Int : b - (x - 1) * Frame \in 1 .. Frame => x = q + 1
  <2>1. q >= 0
    BY <1>3
  <2> QED BY <1>3, <2>1, BlocksApart
<1> HIDE DEF q, r
<1>5. covers = {} \/ covers = {q + 1}
  <2>1. \A x \in covers : x \in Int /\ b - (x - 1) * Frame \in 1 .. Frame
    BY DEF Copies
  <2>2. covers \subseteq {q + 1}
    BY <1>4, <2>1
  <2> QED BY <2>2
<1> HIDE DEF covers
<1>6. CASE covers = {}
  BY <1>2, <1>6
<1>7. CASE covers = {q + 1}
  <2>1. k = q + 1
    BY <1>4, <1>7 DEF Max
  <2> HIDE DEF k
  <2>2. byte = skip + r + 1
    <3>1. (k - 1) * Frame = q * Frame
      BY <1>4, <2>1
    <3>2. q * Frame \in Int
      BY <1>3, <1>4
    <3> HIDE DEF skip
    <3> QED BY <1>3, <1>4, <3>1, <3>2
  <2>3. Nth(lsn, k) = lsn + q /\ lsn + q \in Int /\ lsn + q >= 0
    BY <1>4, <2>1 DEF Nth
  <2> HIDE DEF skip, byte
  <2>4. byte \in Nat /\ byte >= 1
    BY <1>3, <1>4, <2>2
  <2>5. /\ Len(SectorBytes(lsn + q)) \in Nat
        /\ \A j \in 1 .. Len(SectorBytes(lsn + q)) : SectorBytes(lsn + q)[j] = (lsn + q) * Raw + j - 1
    BY <2>3, SectorBytesAre
  <2>6. CASE byte > Len(SectorBytes(lsn + q))
    BY <1>2, <2>3, <2>6
  <2>7. CASE ~(byte > Len(SectorBytes(lsn + q)))
    <3>1. SectorBytes(lsn + q)[byte] = (lsn + q) * Raw + byte - 1
      BY <2>4, <2>5, <2>7
    <3>2. (lsn + q) * Raw \in Int
      BY <2>3, ConstantSizes
    <3>3. (lsn + q) * Raw + byte - 1 = (lsn + q) * Raw + skip + r
      BY <1>3, <1>4, <2>2, <3>2
    <3>4. DataBuffer(op, "no", lsn, n)[b] = SectorBytes(lsn + q)[byte]
      BY <1>2, <1>7, <2>3, <2>7
    <3> QED BY <3>1, <3>3, <3>4 DEF q, r, skip
  <2> QED BY <2>6, <2>7
<1> QED BY <1>5, <1>6, <1>7

LEMMA ParsingFirst == Parse => stage # "open"
BY DEF Parse, Catalog, DiscKind, Track, SetFlag, ClearFlag, Isrc, Silence, Ignored, Refused,
       File, DataFile, Start, PregapLine, Index, CdText, EndOfSheet, Is, Parsing

(* The data sectors read so far are in place, none before the image opens. *)
ReadInv == IInv /\ (stage # "open" => call.op # "data") /\ SectorsInPlace

LEMMA ReadDataInPlace ==
  ASSUME ReadInv, NEW lsn \in Lsns, NEW n \in Blocks, ReadData(lsn, n) PROVE SectorsInPlace'
<1>0. /\ img \in Images /\ Len(Tracks) > 0 /\ stage = "open" /\ UNCHANGED <<img, stage>>
      /\ lsn \in Int /\ n \in Nat
  BY ConstantSizes DEF ReadInv, IInv, ReadData, Open, Kept
<1>1. Tracks[1] \in Entries /\ img.leadout \in Int
  BY <1>0 DEF Images, Tracks
<1>2. FileSize(1) \in Nat
  <2>1. Tracks[1].source \in Here \cup {None}
    BY <1>1 DEF Entries
  <2> QED BY <2>1, ConstantSizes DEF FileSize
<1>3. Clipped(lsn, n) \in Int
  BY <1>0, <1>1 DEF Clipped
<1>4. TracksAt(lsn)' = TracksAt(lsn) /\ Tracks' = Tracks
  BY <1>0 DEF TracksAt, Tracks, StartLsn
<1>5. SUFFICES ASSUME call'.op = "data", call'.rc = Success
               PROVE  \E t \in TracksAt(call'.at) : \A b \in DOMAIN call'.got :
                        LET skip == IF Tracks[t].format = "DATA" THEN Header ELSE Header + Subheader
                        IN call'.got[b] \in {Zero, (call'.at + (b - 1) \div Frame) * Raw + skip + ((b - 1) % Frame)}
  BY <1>0, <1>4 DEF SectorsInPlace, TracksAt, StartLsn, Tracks
<1>6. CASE call' = Call("data", lsn, n, Error, << >>)
  BY <1>5, <1>6 DEF Call, Error, Success
<1>7. ASSUME NEW t \in TracksAt(lsn), Tracks[t].format # "AUDIO",
             SectorRead("data", IF Tracks[t].format = "DATA" THEN "mode1" ELSE "mode2", "no",
                        lsn, Clipped(lsn, n))
      PROVE  \A b \in DOMAIN call'.got :
               LET skip == IF Tracks[t].format = "DATA" THEN Header ELSE Header + Subheader
               IN call'.got[b] \in {Zero, (call'.at + (b - 1) \div Frame) * Raw + skip + ((b - 1) % Frame)}
  <2> DEFINE op == IF Tracks[t].format = "DATA" THEN "mode1" ELSE "mode2"
  <2>1. op \in {"mode1", "mode2"} /\ (op = "mode1" <=> Tracks[t].format = "DATA")
    OBVIOUS
  <2>2. lsn >= 0 /\ call'.at = lsn /\ call'.got = DataBuffer(op, "no", lsn, Clipped(lsn, n))
    <3>1. op # "audio" /\ SectorRead("data", op, "no", lsn, Clipped(lsn, n))
      BY <1>7
    <3> HIDE DEF op
    <3>2. lsn >= 0
      BY <1>0, <1>5, <3>1 DEF SectorRead, Call, Error, Success
    <3>3. Tracks[1].source # None
      BY <1>5, <3>1 DEF SectorRead, Call, Error, Success
    <3> QED BY <1>0, <3>1, <3>2, <3>3 DEF SectorRead, Call
  <2> HIDE DEF op
  <2>3. \A b \in DOMAIN DataBuffer(op, "no", lsn, Clipped(lsn, n)) :
          LET skip == IF op = "mode1" THEN Header ELSE Header + Subheader
          IN DataBuffer(op, "no", lsn, Clipped(lsn, n))[b]
               \in {Zero, (lsn + (b - 1) \div Frame) * Raw + skip + ((b - 1) % Frame)}
    BY <1>0, <1>2, <1>3, <2>1, <2>2, DataBufferInPlace, Zenon
  <2> QED BY <2>1, <2>2, <2>3, Zenon
<1>8. call' = Call("data", lsn, n, Error, << >>) \/ call'.at = lsn
  <2>1. ASSUME NEW op, SectorRead("data", op, "no", lsn, Clipped(lsn, n)) PROVE call'.at = lsn
    BY <2>1 DEF SectorRead, Call
  <2> QED BY <2>1 DEF ReadData
<1> QED BY <1>6, <1>7, <1>8 DEF ReadData

(* Whatever the image, each data sector is stored one behind the other,    *)
(* from behind the header of its track's mode, out of the sectors asked    *)
(* for.                                                                    *)
THEOREM DataSectorsInPlace == Spec => []SectorsInPlace
<1>1. Init => ReadInv
  BY InitEstablishes DEF Init, ReadInv, SectorsInPlace, Call
<1>2. ReadInv /\ [Next]_vars => ReadInv'
  <2> SUFFICES ASSUME ReadInv, [Next]_vars PROVE ReadInv'
    OBVIOUS
  <2>1. IInv'
    BY NextPreserves DEF ReadInv
  <2>2. CASE Parse \/ UNCHANGED vars
    <3>1. call' = call
      BY <2>2 DEF Parse, Catalog, DiscKind, Track, SetFlag, ClearFlag, Isrc, Silence, Ignored, Refused,
                  File, DataFile, Start, PregapLine, Index, CdText, EndOfSheet, Take, Reject, Same, vars
    <3>2. CASE Parse
      <4>1. stage # "open"
        BY <3>2, ParsingFirst
      <4> QED BY <2>1, <3>1, <4>1 DEF ReadInv, SectorsInPlace
    <3>3. CASE UNCHANGED vars
      BY <2>1, <3>3 DEF vars, ReadInv, SectorsInPlace, TracksAt, StartLsn, Tracks
    <3> QED BY <2>2, <3>2, <3>3
  <2>3. CASE \E lsn \in Lsns, n \in Blocks : ReadData(lsn, n)
    <3>1. stage' = "open"
      BY <2>3 DEF ReadData, Open, Kept
    <3> QED BY <2>1, <2>3, <3>1, ReadDataInPlace DEF ReadInv
  <2>4. CASE \/ \E o \in Offsets : Lseek(o)
             \/ \E n \in Sizes : Read(n)
             \/ \E lsn \in Lsns, n \in Blocks, op \in {"audio", "mode1", "mode2"}, form2 \in {"no", "yes"} :
                  ReadSectors(op, form2, lsn, n)
    <3>1. call'.op # "data"
      <4>1. ASSUME NEW o, Lseek(o) PROVE call'.op # "data"
        BY <4>1 DEF Lseek, Call
      <4>2. ASSUME NEW n, Read(n) PROVE call'.op # "data"
        BY <4>2 DEF Read, Call
      <4>3. ASSUME NEW op \in {"audio", "mode1", "mode2"}, NEW form2, NEW lsn, NEW n, ReadSectors(op, form2, lsn, n)
            PROVE  call'.op # "data"
        <5>1. Name(op, form2) # "data" /\ op # "data"
          BY DEF Name
        <5>2. ASSUME NEW m, SectorRead(Name(op, form2), op, form2, lsn, m) PROVE call'.op = Name(op, form2)
          <6> HIDE DEF Name
          <6> QED BY <5>2 DEF SectorRead, Call
        <5> QED BY <4>3, <5>1, <5>2 DEF ReadSectors, Call
      <4> QED BY <2>4, <4>1, <4>2, <4>3
    <3> QED BY <2>1, <3>1 DEF ReadInv, SectorsInPlace
  <2> QED BY <2>2, <2>3, <2>4 DEF Next
<1>3. ReadInv => SectorsInPlace
  BY DEF ReadInv
<1> QED BY <1>1, <1>2, <1>3, PTL DEF Spec
=============================================================================
