-------------------------------- MODULE CdText --------------------------------
(***************************************************************************)
(* CD-Text, cdtext.c under get_cdtext_generic: the packs of the disc that  *)
(* is in the drive are read once, put together into strings one pack at a  *)
(* time, and kept with the handle, in blocks of one language each.         *)
(*                                                                         *)
(* A character is a model value or one of those below; that a string is    *)
(* recoded to UTF-8 is left out, and so are double-byte characters, which  *)
(* take two places each.                                                   *)
(***************************************************************************)
EXTENDS Integers, Sequences, FiniteSets, TLC, SequencesExt

CONSTANTS
  Albums,         \* what the discs that may be in the drive are written with
  Scratched,      \* those of one block of which a pack may get lost
  OtherAlbums,    \* those it may be changed for
  PackLen,        \* characters in a pack (12)
  BufferLen,      \* the size of the buffer for a string (256)
  MaxTrack        \* CDIO_CD_MAX_TRACKS

NUL == "NUL"
TAB == "TAB"
CODE == "CODE"                                 \* a byte of a genre code
Unprintable(c) == c \in {NUL, TAB, CODE}

UNUSED == "unused"                             \* CDTEXT_LANGUAGE_BLOCK_UNUSED
Blocks == 0..1                                 \* 8 in the code

VARIABLES
  disc,           \* what is in the drive
  cdtext,         \* p_env->cdtext, or NoText
  cdtext_error,   \* p_env->b_cdtext_error
  parse,          \* cdtext_data_init at work, or Idle
  from,           \* the disc the text was last read from
  said            \* what the last getter said
vars == <<disc, cdtext, cdtext_error, parse, from, said>>

NoText == [block_i |-> "none"]
Idle == [packs |-> "none"]
NoDisc == [packs |-> "none"]
Silent == [op |-> "none"]

(* cdtext_init: fields maps a block, a track and a field to a string.      *)
EmptyText == [fields |-> << >>, genre |-> [b \in Blocks |-> FALSE],
              lang |-> [b \in Blocks |-> UNUSED], block_i |-> 0]

-------------------------------------------------------------------------------
(* The block size information: what the last of the packs to come says,    *)
(* of whichever block.                                                     *)
BlockSizePacks(packs, t) == SelectSeq(packs, LAMBDA p : p.type = "BLOCKSIZE" /\ p.i_track = t)

Told(packs, t, default) == LET s == BlockSizePacks(packs, t) IN IF s = << >> THEN default ELSE Last(s).text

BlockSize(packs) ==
  [first |-> Told(packs, 0, 0), count |-> Told(packs, 1, 0), lang |-> Told(packs, 2, [b \in Blocks |-> "unknown"])]

(* cdtext_set.                                                             *)
SetField(p, field, str) ==
  IF p.cur > MaxTrack THEN p
  ELSE [p EXCEPT !.text.fields = (<<p.block, p.cur, field>> :> str) @@ @]

(* The field that a string of a type of pack goes to, of a track.          *)
TitleTypes == {"TITLE", "PERFORMER", "SONGWRITER", "COMPOSER", "ARRANGER", "MESSAGE"}
TextTypes == TitleTypes \cup {"GENRE", "DISCID", "UPC"}

Stored(p, type, str) ==
  CASE str = << >> \/ (type = "DISCID" /\ p.cur # 0) -> p
    [] str # << >> /\ type = "UPC" -> SetField(p, IF p.cur = 0 THEN "UPC_EAN" ELSE "ISRC", str)
    [] OTHER -> SetField(p, type, str)

(* A string that has ended: it is what a Tab repeats, until the next ends. *)
Ended(p, type, str) ==
  [Stored(p, type, str) EXCEPT !.last = str, !.part = << >>, !.cur = @ + 1]

(* One character of a pack.                                                *)
AfterTabCheck(p, c) == IF p.part = << >> /\ c = TAB THEN [p EXCEPT !.tab = p.last] ELSE p

WithChar(p, type, c) ==
  CASE p.ill \/ Len(p.part) + 2 >= BufferLen -> [p EXCEPT !.ill = TRUE]
    [] ~p.ill /\ Len(p.part) + 2 < BufferLen ->
         CASE c # NUL -> [AfterTabCheck(p, c) EXCEPT !.part = Append(@, c)]
           [] c = NUL /\ (p.part = << >> \/ Head(p.part) # TAB) -> Ended(p, type, p.part)
           [] c = NUL /\ p.part # << >> /\ Head(p.part) = TAB ->
                IF p.cur <= p.info.first THEN [p EXCEPT !.ill = TRUE] ELSE Ended(p, type, p.tab)

(* A pack whose genre starts with an unprintable character is taken to     *)
(* start with a genre code.                                                *)
HasCode(pack) == pack.type = "GENRE" /\ Unprintable(pack.text[1])

(* A string goes on in the next pack; the mutant starts it over.           *)
StartsOver(p, pack) ==
  LET chars == SubSeq(pack.text, IF HasCode(pack) THEN 3 ELSE 1, PackLen)
      q == [p EXCEPT !.cur = pack.i_track, !.part = << >>]
  IN  FoldLeft(LAMBDA x, c : WithChar(x, pack.type, c), q, chars)

WithText(p, pack) ==
  LET chars == SubSeq(pack.text, IF HasCode(pack) THEN 3 ELSE 1, PackLen)
      q == [p EXCEPT !.cur = pack.i_track, !.text.genre[p.block] = @ \/ HasCode(pack)]
  IN  FoldLeft(LAMBDA x, c : WithChar(x, pack.type, c), q, chars)

(* A new block, or a gap in the numbers of the packs: the block size is    *)
(* looked for anew, and there must be three packs of it, as one says.      *)
Fresh(p, pack) == p.block # pack.block \/ p.seq # pack.seq

InBlock(p, pack, info) ==
  [p EXCEPT !.block = pack.block, !.seq = 0, !.info = info, !.ill = info.count # 3,
            !.text.lang[pack.block] = info.lang[pack.block]]

Settled(p, pack) == IF Fresh(p, pack) THEN InBlock(p, pack, BlockSize(p.packs)) ELSE p

WithPack(p, pack) ==
  IF p.ill THEN p
  ELSE [(IF pack.type \in TextTypes THEN WithText(p, pack) ELSE p) EXCEPT !.seq = @ + 1, !.packs = Tail(@)]

-------------------------------------------------------------------------------
(* What a disc is written with: blocks of a language each, in which a type *)
(* of pack has a string for the disc and for every track, and a Tab stands *)
(* for the string of the track before.  DiscOf makes the packs of them;    *)
(* lost is the number of a pack that the drive did not deliver, or 0.      *)
StringOf(strs, t) ==
  LET f[k \in 0..(Len(strs) - 1)] == IF strs[k + 1] = <<TAB>> THEN f[k - 1] ELSE strs[k + 1]
  IN  f[t]

Labelled(type, strs) ==
  (IF type = "GENRE" THEN <<[c |-> CODE, t |-> 0], [c |-> CODE, t |-> 0]>> ELSE << >>)
  \o FlattenSeq([i \in DOMAIN strs |-> [j \in 1..(Len(strs[i]) + 1) |->
       [c |-> IF j <= Len(strs[i]) THEN strs[i][j] ELSE NUL, t |-> i - 1]]])

PacksOf(b, type, strs) ==
  LET s == Labelled(type, strs)
      count == (Len(s) + PackLen - 1) \div PackLen
      at(k) == IF k <= Len(s) THEN s[k].c ELSE NUL
  IN  [i \in 1..count |-> [type |-> type, block |-> b, i_track |-> s[(i - 1) * PackLen + 1].t,
                           text |-> [j \in 1..PackLen |-> at((i - 1) * PackLen + j)]]]

LanguageCodes(blocks) == [b \in Blocks |-> IF b < Len(blocks) THEN blocks[b + 1].lang ELSE "unknown"]

BlockPacks(blocks, b) ==
  LET block == blocks[b + 1]
      body == FlattenSeq([i \in DOMAIN block.types |-> PacksOf(b, block.types[i][1], block.types[i][2])])
      size(t, what) == [type |-> "BLOCKSIZE", block |-> b, i_track |-> t, text |-> what]
      all == body \o <<size(0, 1), size(1, 3), size(2, LanguageCodes(blocks))>>
  IN  [i \in DOMAIN all |-> [type |-> all[i].type, block |-> b, i_track |-> all[i].i_track,
                             text |-> all[i].text, seq |-> i - 1]]

DiscOf(blocks, lost) ==
  LET all == FlattenSeq([b \in 1..Len(blocks) |-> BlockPacks(blocks, b - 1)])
  IN  [blocks |-> blocks, lost |-> lost # 0,
       packs |-> IF lost = 0 THEN all ELSE RemoveAt(all, lost)]

Discs ==
  {DiscOf(b, 0) : b \in Albums}
  \cup UNION {{DiscOf(b, k) : k \in 1..(Len(BlockPacks(b, 0)) - 3)} : b \in Scratched}

-------------------------------------------------------------------------------
Init ==
  /\ disc \in Discs
  /\ cdtext = NoText /\ cdtext_error = FALSE /\ parse = Idle /\ from = NoDisc /\ said = Silent

(* get_cdtext_generic, when there is no text and no error yet: the packs   *)
(* are read by two commands, either of which may fail, which is no error   *)
(* that is kept.                                                           *)
Begin ==
  /\ parse = Idle /\ cdtext = NoText /\ ~cdtext_error
  /\ parse' = [packs |-> disc.packs, block |-> -1, seq |-> 0,
               info |-> [first |-> 0, count |-> 0, lang |-> << >>],
               part |-> << >>, last |-> << >>, tab |-> << >>, cur |-> 0, ill |-> FALSE,
               text |-> EmptyText]
  /\ from' = disc
  /\ said' = Silent
  /\ UNCHANGED <<disc, cdtext, cdtext_error>>

(* One round of cdtext_data_init's loop.                                   *)
StepTo(p) ==
  IF p.ill
  THEN /\ parse' = Idle
       /\ cdtext_error' = TRUE
       /\ UNCHANGED cdtext
  ELSE /\ parse' = p
       /\ UNCHANGED <<cdtext, cdtext_error>>

ReadPack ==
  /\ parse # Idle /\ parse.packs # << >>
  /\ StepTo(WithPack(Settled(parse, Head(parse.packs)), Head(parse.packs)))
  /\ UNCHANGED <<disc, from, said>>

AllRead ==
  /\ parse # Idle /\ parse.packs = << >>
  /\ cdtext' = [parse.text EXCEPT !.block_i = 0]
  /\ parse' = Idle
  /\ UNCHANGED <<disc, cdtext_error, from, said>>

(* The disc is changed between two calls; the text is kept.                *)
ChangeDisc ==
  /\ parse = Idle /\ from # NoDisc
  /\ disc' \in {DiscOf(b, 0) : b \in OtherAlbums}
  /\ said' = Silent
  /\ UNCHANGED <<cdtext, cdtext_error, parse, from>>

(* cdtext_select_language or cdtext_set_language_index, and what           *)
(* cdtext_get says of every field of every track in that language.         *)
LanguagesOf(text) == {text.lang[b] : b \in Blocks} \ {UNUSED}

FirstBlockOf(text, l) == CHOOSE b \in Blocks : text.lang[b] = l /\ \A c \in Blocks : text.lang[c] = l => b <= c

BlockFor(text, l) == IF l \in LanguagesOf(text) THEN FirstBlockOf(text, l) ELSE 0

BlockAt(text, i) == IF i \in Blocks /\ text.lang[i] # UNUSED THEN i ELSE 0

FieldsIn(text) ==
  {[track |-> k[2], field |-> k[3], value |-> text.fields[k]] : k \in {x \in DOMAIN text.fields : x[1] = text.block_i}}

Select(b, by) ==
  /\ parse = Idle /\ cdtext # NoText
  /\ cdtext' = [cdtext EXCEPT !.block_i = b]
  /\ said' = [op |-> "get", by |-> by, fields |-> FieldsIn(cdtext')]
  /\ UNCHANGED <<disc, cdtext_error, parse, from>>

SelectLanguage ==
  /\ cdtext # NoText
  /\ \E l \in {"en", "de", "fr", UNUSED} : Select(BlockFor(cdtext, l), [lang |-> l])

SetLanguageIndex ==
  /\ cdtext # NoText
  /\ \E i \in -1..2 : Select(BlockAt(cdtext, i), [lang |-> "by index", index |-> i])

Next == Begin \/ ReadPack \/ AllRead \/ ChangeDisc \/ SelectLanguage \/ SetLanguageIndex

Spec == Init /\ [][Next]_vars

-------------------------------------------------------------------------------
(* The strings that a block is written with, by track and field.           *)
FieldOf(type, t) == CASE type # "UPC" -> type [] type = "UPC" /\ t = 0 -> "UPC_EAN" [] OTHER -> "ISRC"

Written(block) ==
  {x \in UNION {{[track |-> t, field |-> FieldOf(block.types[i][1], t),
                  value |-> StringOf(block.types[i][2], t)] : t \in 0..(Len(block.types[i][2]) - 1)}
                : i \in DOMAIN block.types}
     : x.value # << >>}

WrittenIn(d, l) ==
  LET has == {b \in 1..Len(d.blocks) : d.blocks[b].lang = l}
  IN  Written(d.blocks[IF has = {} THEN 1 ELSE CHOOSE b \in has : \A c \in has : b <= c])

Selected(d, by) ==
  IF by.lang # "by index" THEN WrittenIn(d, by.lang)
  ELSE Written(d.blocks[IF by.index + 1 \in DOMAIN d.blocks THEN by.index + 1 ELSE 1])

TooLong(d) ==
  \E b \in 1..Len(d.blocks) : \E x \in Written(d.blocks[b]) : Len(x.value) + 2 >= BufferLen

(* After a language was selected the getters give, for every track and     *)
(* field, the string that the disc was written with in the first block of  *)
(* that language, or in the block of that number, or if there is none in   *)
(* the first: through the splitting of strings over packs, the padding and *)
(* the Tab that repeats a string, and whatever disc has been put in since. *)
(* A disc of which a pack was lost, or with a string that does not fit the *)
(* buffer, gives no text at all, and any other gives its text.             *)
TextReadAsWritten ==
  /\ said.op = "get" => said.fields = Selected(from, said.by)
  /\ from # NoDisc /\ parse = Idle => (cdtext_error <=> from.lost \/ TooLong(from))
===============================================================================
