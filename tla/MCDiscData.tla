------------------------------ MODULE MCDiscData ------------------------------
(* What is told of a disc: sector addresses, CD-Text, the answers to MMC    *)
(* commands, or its kind.  LSNs lie around the places where the conversions *)
(* change: the ends of the range, the pre-gap, a minute, the last address;  *)
(* the fields of an address have up to three characters.                    *)
EXTENDS MsfAddress, FiniteSets, TLC

CONSTANTS Transports, Drives, MmcDiscs, MAX_CD_READ_BLOCKS, Sizes, Requests,   \* as in MmcDevice
          KindDiscs, Searches                                                  \* as in DiscKinds

MCLsns == (-450150 .. -450060) \cup (-300 .. 100) \cup (4300 .. 4500) \cup (449650 .. 450150)

MCFields == {<< >>, <<0>>, <<5, 9>>, <<6, 0>>, <<7, 4>>, <<7, 5>>, <<NoDigit>>,
             <<3, NoDigit>>, <<1, 2, 3>>}
MCTexts == {<<a>> : a \in MCFields} \cup {<<a, b>> : a, b \in MCFields}
           \cup {<<a, b, c>> : a, b, c \in MCFields} \cup {<<a, <<0>>, <<0>>, <<0>>>> : a \in MCFields}

VARIABLES subject, disc, cdtext, cdtext_error, parse, from, said, transport, drive, valid, happened, call, reply,
          task, cd, buffer, guess, analysis, info, report, search
textVars == <<disc, cdtext, cdtext_error, parse, from, said>>
mmcVars == <<transport, drive, valid, happened, call, reply>>
kindVars == <<task, cd, buffer, guess, analysis, info, report, search>>

-----------------------------------------------------------------------------
(* Packs hold three characters and a string at most four, so that strings  *)
(* end before, at and after the end of a pack and two fit in one.           *)
Strings == {<< >>, <<"a">>, <<"b", "c">>, <<"a", "b", "c", "d">>}
Titles ==
  {<<x, y, z>> : x \in Strings \cup {<<"a", "b", "c", "d", "e">>}, y \in Strings, z \in Strings \cup {<<"TAB">>}}

Block(l, titles) ==
  [lang |-> l, types |-> <<<<"DISCID", <<<<"x">>>>>>, <<"TITLE", titles>>, <<"GENRE", <<<<"g", "e">>>>>>,
                           <<"UPC", <<<<"u">>, <<"i", "s">>, << >>>>>>>>]

Singles == {<<Block("en", t)>> : t \in Titles}
Doubles == {<<Block("en", t), Block("de", <<t[2], t[1], t[1]>>)>> : t \in Titles}

Text == INSTANCE CdText WITH
  Albums <- Singles \cup Doubles, Scratched <- Singles,
  OtherAlbums <- {<<Block("de", <<<<"b">>, <<"b">>, <<"TAB">>>>)>>},
  PackLen <- 3, BufferLen <- 7, MaxTrack <- 3

-----------------------------------------------------------------------------
(* Drives that know the short mode sense, the long one or both, with the    *)
(* page of capabilities first, last, or too far on; two discs.              *)
Page(number, size) == [number |-> number, size |-> size]
Profile(number, active) == [number |-> number, active |-> active]
MCDrives ==
  {[six |-> six, ten |-> ten, interface |-> "atapi", pages |-> pages,
    profiles |-> <<Profile("cd_r", FALSE), Profile("cd_rom", TRUE), Profile("dvd_rom", FALSE)>>] :
     six \in BOOLEAN, ten \in BOOLEAN,
     pages \in {<<Page("capabilities", 20)>>, <<Page("errors", 10), Page("capabilities", 28)>>, <<Page("errors", 10)>>}}

MCMmcDiscs ==
  {[name |-> "first", size |-> 5, mcn |-> "m1", isrc |-> "none", text |-> 2,
    book |-> "none", full_toc |-> "cd_data", status |-> "cd_mixed"],
   [name |-> "second", size |-> 3, mcn |-> "m2", isrc |-> "i2", text |-> 3,
    book |-> "dvd_rom", full_toc |-> "none", status |-> "cd_da"]}

MCTransports == {"linux", "solaris", "cam", "ioctl", "aspi", "win32", "netbsd", "osx"}
MCRequests == {<<0, 0>>, <<0, 5>>, <<1, 2>>, <<2, 3>>}

Mmc == INSTANCE MmcDevice WITH said <- reply

ASSUME DrivesTellCapabilities == Mmc!MmcConstants

-----------------------------------------------------------------------------
(* Discs of one track for each kind and for each block that may be missing,  *)
(* and of several sessions, mixed, with audio in front, behind or alone.     *)
Holding(marks) == [marks |-> marks, value |-> 0, name |-> ""]
Valued(marks, value) == [marks |-> marks, value |-> value, name |-> ""]
Iso(size, name, more) == [marks |-> {"cd001"} \cup more, value |-> size, name |-> name]
KindTrack(f, l, s) == [format |-> f, lsn |-> l, session |-> s]
Disc(tracks, leadout, at, bad) ==
  [first |-> 1, tracks |-> tracks, leadout |-> leadout, at |-> at, bad |-> bad, mode |-> "data", playing |-> FALSE,
   tree |-> ("/" :> <<"/a/", "/c/">>) @@ ("/a/" :> <<"/a/b/">>) @@ ("/a/b/" :> << >>) @@ ("/c/" :> << >>)]
One(len, at, bad) == Disc(<<KindTrack("data", 0, 1)>>, len, at, bad)
Mixed(tracks, leadout, at) == [Disc(tracks, leadout, at, {}) EXCEPT !.mode = "mixed"]
Xa == {"xa", "cd_rtos", "bridge"}
OneTrack ==
  {One(300, (16 :> Iso(250, "A", {})), {}),
   One(300, (16 :> Iso(250, "J", Xa)) @@ (0 :> Holding({"photo"})) @@ (17 :> Valued({"joliet", "el_torito"}, 3)), {}),
   One(300, (16 :> Iso(250, "V", Xa)) @@ (150 :> Holding({"vcd"})), {}),
   One(300, (16 :> Iso(250, "S", Xa)) @@ (150 :> Holding({"svcd"})), {}),
   One(300, (16 :> Iso(250, "C", {"xa"})) @@ (150 :> Holding({"svcd"})), {150}),
   One(300, (16 :> Iso(250, "C", {"xa"})) @@ (150 :> Holding({"svcd"})), {}),
   One(100, (16 :> Iso(90, "short", {"xa"})) @@ (17 :> Holding({"el_torito"})), {}),
   One(300, (16 :> Iso(250, "U", {})) @@ (256 :> Holding({"anchor"})) @@ (35 :> Valued({}, 2)), {}),
   One(300, (16 :> Iso(250, "U", {})) @@ (256 :> Holding({"anchor"})) @@ (35 :> Valued({}, 2)), {35}),
   One(300, (16 :> Holding({"bea01"})) @@ (35 :> Valued({}, 1)) @@ (32 :> [Holding({}) EXCEPT !.name = "udf"]), {}),
   One(300, (16 :> Holding({"bea01"})) @@ (35 :> Valued({}, 1)) @@ (32 :> [Holding({}) EXCEPT !.name = "udf"]), {32}),
   One(33, (16 :> Holding({"bea01"})), {}),
   One(300, (16 :> Holding({"cd_i", "cd_rtos"})), {}),
   One(300, (16 :> Holding({"cdrom"})), {}),
   One(300, (0 :> Holding({"hfs"})), {}),
   One(300, (0 :> Holding({"ext2"})) , {0}),
   One(300, (0 :> Holding({"ext2", "photo"})) , {}),
   One(300, (0 :> Holding({"3do"})) , {}),
   One(300, (4 :> Holding({"ufs"})) , {}),
   One(300, (4 :> Holding({"ufs"})) , {4}),
   One(300, (16 :> Holding({"xbox"})), {}),
   One(300, (16 :> Iso(250, "H", {"cdtv"})) @@ (0 :> Holding({"hfs"})), {}),
   One(300, (16 :> Iso(250, "H", {"cdtv"})) @@ (0 :> Holding({"hfs"})), {0}),
   One(300, (16 :> Iso(250, "A", {})), {16}),
   One(300, (16 :> Iso(250, "A", {})), {17}),
   One(10, (16 :> Iso(250, "A", {})), {})}
Several ==
  {Disc(<<KindTrack("data", 0, 1), KindTrack("data", 200, 1), KindTrack("data", 1000, 2), KindTrack("data", 2000, 3)>>, 2300,
        (16 :> Iso(290, "one", {})) @@ (1016 :> Iso(1300, "two", {})) @@ (2016 :> Iso(2300, "three", {})), {}),
   Mixed(<<KindTrack("audio", 0, 1), KindTrack("audio", 500, 1), KindTrack("data", 1000, 2)>>, 1300,
        (1016 :> Iso(290, "extra", {}))),
   [Disc(<<KindTrack("audio", 0, 1)>>, 1300, << >>, {}) EXCEPT !.mode = "cd_da", !.playing = TRUE],
   Mixed(<<KindTrack("data", 0, 1), KindTrack("audio", 300, 1)>>, 1300, (16 :> Iso(290, "mixed", {}))),
   Mixed(<<KindTrack("audio", 150, 1), KindTrack("data", 600, 2)>>, 1300,
        (16 :> Iso(290, "mixed", {})) @@ (616 :> Iso(290, "late", {}))),
   Mixed(<<KindTrack("data", 150, 1), KindTrack("audio", 600, 1)>>, 1300, (16 :> Iso(500, "mixed", {}))),
   Mixed(<<KindTrack("data", 150, 1), KindTrack("audio", 600, 1)>>, 1300, << >>),
   Disc(<<KindTrack("data", 0, 1), KindTrack("data", 1000, 2)>>, 1300,
        (16 :> Iso(300, "one", {})) @@ (1016 :> Iso(1300, "two", {})), {1016}),
   [Disc(<<KindTrack("data", 0, 1), KindTrack("data", 1000, 2)>>, 1300, (16 :> Iso(300, "one", {})), {}) EXCEPT !.first = 2],
   [One(300, (16 :> Iso(250, "A", {})), {}) EXCEPT !.mode = "dvd"],
   Mixed(<<KindTrack("xa", 0, 1), KindTrack("audio", 300, 1), KindTrack("audio", 700, 1)>>, 1300, (16 :> Iso(290, "xa", {}))),
   Mixed(<<KindTrack("audio", 150, 1)>>, 1300, (16 :> Iso(140, "hidden", {}))),
   [Mixed(<<KindTrack("audio", 150, 1)>>, 1300, << >>) EXCEPT !.bad = {0}],
   [One(300, << >>, {}) EXCEPT !.tracks = << >>]}

(* Discs that leave signatures in several buffers. *)
Rich == {d \in OneTrack : {0, 17, 150, 256} \cap DOMAIN d.at # {} /\ d.bad = {}}

MCSearches ==
  {[need |-> [type |-> n[1], bits |-> n[2]], any |-> any, drives |-> <<d, e>>] :
     n \in {<<"iso", {}>>, <<"none", {"xa", "video_cd"}>>, <<"none", {"photo_cd"}>>, <<"unknown", {"cvd", "bootable"}>>},
     any \in BOOLEAN, d \in Rich \cup Several, e \in OneTrack}

MCKindDiscs == OneTrack \cup Several

Kinds == INSTANCE DiscKinds

ASSUME SearchesOfDiscs == Kinds!KindConstants

-----------------------------------------------------------------------------
DiscDataInit ==
  /\ subject \in {"addresses", "text", "mmc", "kinds"}
  /\ AddressInit
  /\ Text!Init /\ (subject # "text" => disc = CHOOSE d \in Text!Discs : TRUE)
  /\ Mmc!Init
  /\ subject # "mmc" => transport = "linux"
  /\ subject # "mmc" \/ transport # "linux" => drive.kind = CHOOSE k \in Drives : TRUE
  /\ IF subject = "kinds" THEN Kinds!Init ELSE Kinds!InitNone

(* One answer of each: no conversion remembers the one before.              *)
Addresses == subject = "addresses" /\ answer.op = "none" /\ AddressNext /\ UNCHANGED <<subject, textVars, mmcVars, kindVars>>
OfText == subject = "text" /\ Text!Next /\ UNCHANGED <<subject, answer, mmcVars, kindVars>>
OfMmc == subject = "mmc" /\ Mmc!Next /\ UNCHANGED <<subject, answer, textVars, kindVars>>
OfKinds == subject = "kinds" /\ Kinds!Next /\ UNCHANGED <<subject, answer, textVars, mmcVars>>

DiscDataSpec ==
  DiscDataInit /\ [][Addresses \/ OfText \/ OfMmc \/ OfKinds]_<<subject, answer, textVars, mmcVars, kindVars>>

(* After a language was selected, by itself or by the number of its block,  *)
(* CD-Text is what the disc it was read from was written with: through the  *)
(* splitting of strings over packs, padding and the Tab that repeats a      *)
(* string; and a disc of which a pack was lost, or with a string that is    *)
(* too long, gives no text (cdtext_data_init under get_cdtext_generic).     *)
TextReadAsWritten == Text!TextReadAsWritten

(* A call of several MMC commands, between which the disc may be changed    *)
(* and any of which may fail, answers of one disc and to the whole request  *)
(* when it succeeds, and the sense data kept are none of an earlier command *)
(* (mmc_read_cd, mmc_get_mcn_isrc_private, mmc_read_cdtext,                 *)
(* mmc_eject_media, mmc_get_drive_cap, the platforms' run_mmc_cmd).         *)
CommandsOfOneDisc == Mmc!CommandsOfOneDisc

(* What is told of the kind of a disc is on that disc, in the track that    *)
(* was asked about, whatever disc was looked at before; a search finds only *)
(* drives with what was asked for; and cd-info reports every session once,  *)
(* with its own volume, and every directory once (cdio_guess_cd_type,       *)
(* cdio_get_devices_with_cap_ret, main and print_iso9660_recurse of         *)
(* cd-info).                                                                *)
KindsAsOnDisc == Kinds!KindsAsOnDisc
===============================================================================
