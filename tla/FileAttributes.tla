--------------------------- MODULE FileAttributes ---------------------------
(***************************************************************************)
(* What the file system libraries tell of a file beside its name and       *)
(* place: its mode, from XA attributes, Rock Ridge or UDF, and the mode     *)
(* written out (iso9660/xa.c, rock.c, udf/udf.c, filemode.c); the target of *)
(* a Rock Ridge symbolic link and the memory it is put together in; and its *)
(* times, in the forms of ISO 9660 and of UDF (iso9660.c, udf_time.c).      *)
(*                                                                         *)
(* Modes and attribute words are sets of bits.  The build is one with       *)
(* tm_gmtoff, and UTC as the local time of UDF stamps that are written.     *)
(***************************************************************************)
EXTENDS Integers, Sequences, SequencesExt, FiniteSetsExt, Folds

CONSTANTS
  Links,      \* symbolic links: sequences of SL entries
  Zones,      \* zones of ISO 9660 times, minutes east of Greenwich
  StampZones, \* zones of UDF stamps
  TimeYears,  \* years of ISO 9660 times, counted from 1900
  UdfYears,   \* years of UDF stamps
  Seconds     \* times that are made UDF stamps, from the epoch

VARIABLES asked

---------------------------------------------------------------------------
(* Modes: [type, bits], bits being <<whose, what>>, with <<u, set>> the     *)
(* set-user-id bit, <<g, set>> that of groups and <<o, set>> the sticky one. *)

Types == {"regular", "dir", "link", "char", "block", "socket", "fifo", "none"}

Shown(mode, w, p) == IF <<w, p>> \in mode.bits THEN p ELSE "-"
Executable(mode, w, both, only) ==
  IF <<w, "set">> \notin mode.bits THEN Shown(mode, w, "x")
  ELSE IF <<w, "x">> \in mode.bits THEN both ELSE only

TypeLetter(type, regular, unknown) ==
  CASE type = "regular" -> regular [] type = "dir" -> "d" [] type = "link" -> "l"
    [] type = "char" -> "c" [] type = "block" -> "b" [] type = "socket" -> "s"
    [] type = "fifo" -> "p" [] OTHER -> unknown

(* iso9660_get_rock_attr_str *)
RockAttrStr(mode) ==
  <<TypeLetter(mode.type, "-", "-"),
    Shown(mode, "u", "r"), Shown(mode, "u", "w"), Executable(mode, "u", "s", "S"),
    Shown(mode, "g", "r"), Shown(mode, "g", "w"), Executable(mode, "g", "s", "S"),
    Shown(mode, "o", "r"), Shown(mode, "o", "w"), Shown(mode, "o", "x")>>

(* ftypelet, setst and udf_mode_string                                     *)
FileTypeLetter(type) == TypeLetter(type, "-", "?")
SetBits(mode, str) ==
  [str EXCEPT ![4] = Executable(mode, "u", "s", "S"), ![7] = Executable(mode, "g", "s", "S"),
              ![10] = Executable(mode, "o", "t", "T")]
UdfModeString(mode) ==
  SetBits(mode,
    <<FileTypeLetter(mode.type),
      Shown(mode, "u", "r"), Shown(mode, "u", "w"), Shown(mode, "u", "x"),
      Shown(mode, "g", "r"), Shown(mode, "g", "w"), Shown(mode, "g", "x"),
      Shown(mode, "o", "r"), Shown(mode, "o", "w"), Shown(mode, "o", "x")>>)

(* udf_get_posix_filemode: of a file entry's type, permissions and flags;   *)
(* of a FIFO the type is left out.                                         *)
UdfFilemode(fe) ==
  [type |-> IF fe.type = "fifo" THEN "none" ELSE fe.type,
   bits |-> {b \in fe.permissions : b[2] # "set"} \cup {b \in fe.flags : b[2] = "set"}]

(* XA attributes, by bit number.                                           *)
XaBit == [rsys |-> 0, xsys |-> 2, rusr |-> 4, xusr |-> 6, rgrp |-> 8, xgrp |-> 10, roth |-> 12,
          xoth |-> 14, form1 |-> 11, form2 |-> 12, interleaved |-> 13, cdda |-> 14, dir |-> 15]
Swapped(word) == {(b + 8) % 16 : b \in word}       \* uint16_to_be, uint16_from_be

XaInit(attr) == [attributes |-> Swapped(attr)]

XaAttrStr(attributes) ==
  LET shown(name, letter) == IF XaBit[name] \in Swapped(attributes) THEN letter ELSE "-"
  IN <<shown("dir", "d"), shown("cdda", "a"), shown("interleaved", "i"), shown("form2", "2"),
       shown("form1", "1"), shown("xusr", "x"), shown("rusr", "r"), shown("xgrp", "x"),
       shown("rgrp", "r"), shown("xsys", "x"), shown("rsys", "r")>>

(* iso9660_get_posix_filemode_from_xa, whose bits for others are those of   *)
(* the sectors' form and of audio; and iso9660_get_posix_filemode, which   *)
(* hands it the attributes as they are stored.                             *)
FilemodeFromXa(perms) ==
  [type |-> IF XaBit.dir \in perms THEN "dir" ELSE "none",
   bits |-> {t[1] : t \in {t \in {<<<<"u", "r">>, "rusr">>, <<<<"u", "x">>, "xusr">>,
                                  <<<<"g", "r">>, "rgrp">>, <<<<"g", "x">>, "xgrp">>,
                                  <<<<"o", "r">>, "roth">>, <<<<"o", "x">>, "xoth">>} :
                             XaBit[t[2]] \in perms}}]
NoMode == [type |-> "none", bits |-> {}]
PosixFilemode(stat) ==
  IF stat.rock = "yep" THEN stat.mode
  ELSE IF stat.xa THEN FilemodeFromXa(stat.attributes) ELSE NoMode

---------------------------------------------------------------------------
(* Symbolic links.  A part is [kind, text, cont]: cont when the next part   *)
(* goes on with it.  buf: the text so far, the memory it has, and whether   *)
(* it was written past.                                                    *)

(* realloc_symlink *)
Realloc(buf, grow) ==
  LET needed == Len(buf.text) + grow * 2
  IN IF buf.text = << >> THEN [buf EXCEPT !.max = 2 * grow + 1]
     ELSE [buf EXCEPT !.max = IF needed <= @ THEN @ ELSE 2 * needed]

Put(buf, text) ==
  LET with == Realloc(buf, Len(text))
  IN [with EXCEPT !.text = @ \o text, !.past = @ \/ Len(with.text) + Len(text) > with.max]

Component(buf, part) ==
  CASE part.kind = "name" -> Put(buf, part.text)
    [] part.kind = "current" -> Put(buf, <<".">>)
    [] part.kind = "parent" -> Put(Put(buf, <<".">>), <<".">>)
    [] part.kind = "root" -> Put(buf, <<"/">>)
    [] OTHER -> buf

(* One SL entry: its parts with a slash after each but the last; when the   *)
(* link goes on in another entry a byte is left blank there.               *)
AfterPart(buf, sl, i) ==
  IF i < Len(sl.parts)
  THEN IF sl.parts[i].kind = "root" \/ sl.parts[i].cont THEN buf ELSE Put(buf, <<"/">>)
  ELSE IF sl.cont /\ ~sl.parts[i].cont
       THEN [buf EXCEPT !.text = Append(@, "NUL"), !.past = @ \/ Len(buf.text) >= buf.max]
       ELSE buf

SymlinkEntry(buf, sl) ==
  LET written == FoldLeftDomain(LAMBDA b, i : AfterPart(Component(b, sl.parts[i]), sl, i), buf, sl.parts)
      ended   == Realloc(written, 1)
  IN [ended EXCEPT !.past = @ \/ Len(ended.text) + 1 > ended.max]

Symlink(link) == FoldLeft(SymlinkEntry, [text |-> << >>, max |-> 0, past |-> FALSE], link)

---------------------------------------------------------------------------
(* Times of ISO 9660: [year, minute of the year, zone].                    *)

MinutesOfYear == 365 * 24 * 60
Instant(tm) == tm.year * MinutesOfYear + tm.minute - tm.zone
Toward0(n, d) == IF n >= 0 THEN n \div d ELSE -((-n) \div d)
InZoneRange(q) == IF q < -48 THEN -48 ELSE IF q > 52 THEN 52 ELSE q

(* iso9660_set_dtime_with_timezone; the year has 8 bits.                   *)
SetDtime(tm) == [year |-> tm.year % 256, minute |-> tm.minute, gmtoff |-> InZoneRange(Toward0(tm.zone, 15))]
(* iso9660_get_dtime, in GMT                                               *)
GetDtime(d) == [year |-> d.year, minute |-> d.minute - d.gmtoff * 15, zone |-> 0]

(* iso9660_set_ltime_with_timezone counts the zone the other way, and so    *)
(* does iso9660_get_ltime, which leaves the local fields as they are.      *)
SetLtime(tm) == [year |-> tm.year + 1900, minute |-> tm.minute, gmtoff |-> InZoneRange(-Toward0(tm.zone, 15))]
GetLtime(l) == [year |-> l.year - 1900, minute |-> l.minute, zone |-> -l.gmtoff * 15]

(* add_time: where the times of a TF field are, each of the same length.   *)
TimeKinds == <<"create", "modify", "access", "attributes", "backup", "expiration", "effective">>
TimesOf(flags, long) ==
  LET add(acc, kind) ==
        IF kind \notin flags THEN acc
        ELSE [at |-> acc.at + (IF long THEN 17 ELSE 7), times |-> acc.times \cup {<<kind, acc.at>>}]
  IN FoldLeft(add, [at |-> 0, times |-> {}], TimeKinds).times

---------------------------------------------------------------------------
(* Times of UDF: stamps are [year, month, day, hour, minute, second, zone], *)
(* zone in minutes or "unspecified" (-2047).                               *)

Leap(y) == y % 4 = 0 /\ (y % 100 # 0 \/ y % 400 = 0)
DaysBefore == [leap \in BOOLEAN |->
  IF leap THEN <<0, 31, 60, 91, 121, 152, 182, 213, 244, 274, 305, 335, 366>>
  ELSE <<0, 31, 59, 90, 120, 151, 181, 212, 243, 273, 304, 334, 365>>]

(* year_seconds, in days: leap days as the table has them.                 *)
LeapDays(y) == IF y < 1973 THEN 0 ELSE ((y - 1973) \div 4) + 1
YearDays(y) == 365 * (y - 1970) + LeapDays(y)
NoTime == -1

(* udf_stamp_to_time, in minutes                                           *)
StampToTime(s) ==
  IF s.year \notin 1970 .. 2038 THEN NoTime
  ELSE (YearDays(s.year) + DaysBefore[Leap(s.year)][s.month] + (s.day - 1)) * 1440
       + s.hour * 60 + s.minute - (IF s.zone = -2047 THEN 0 ELSE s.zone)

(* udf_timespec_to_stamp: the seconds are put in 16 bits, so that there is  *)
(* never a day to count; a negative rest is put in fields without a sign.  *)
Int16(n) == ((n + 32768) % 65536) - 32768
TimespecToStamp(seconds) ==
  LET rest == Int16(seconds)
      hour == Toward0(rest, 3600)
      left == rest - hour * 3600
  IN [year |-> 1970, month |-> 1, day |-> 1, hour |-> hour % 256,
      minute |-> Toward0(left, 60) % 256, zone |-> 0]

---------------------------------------------------------------------------
(* Each state is one thing asked of the libraries.                         *)

XaWords == {{XaBit[n] : n \in names} :
              names \in SUBSET {"rusr", "xusr", "rgrp", "xsys", "form1", "form2", "cdda", "dir"}}
ModesAsked ==
  {[type |-> t, bits |-> b] : t \in Types, b \in SUBSET {<<"u", "x">>, <<"u", "set">>, <<"g", "set">>}}
  \cup {[type |-> "regular", bits |-> b] : b \in SUBSET {<<"u", "r">>, <<"g", "x">>, <<"o", "w">>, <<"o", "x">>, <<"o", "set">>}}
MonthLength(y, m) == DaysBefore[Leap(y)][m + 1] - DaysBefore[Leap(y)][m]

Ask ==
  \/ \E m \in ModesAsked : asked' = [what |-> "mode", mode |-> m]
  \/ \E w \in XaWords : asked' = [what |-> "xa", word |-> w]
  \/ \E l \in Links : asked' = [what |-> "link", link |-> l]
  \/ \E y \in TimeYears, m \in {0, 700, MinutesOfYear - 1}, z \in Zones :
       asked' = [what |-> "time", tm |-> [year |-> y, minute |-> m, zone |-> z]]
  \/ \E f \in SUBSET Range(TimeKinds) : asked' = [what |-> "times", flags |-> f]
  \/ \E y \in UdfYears, m \in 1 .. 12, z \in StampZones :
       \E d \in {1, 28, MonthLength(y, m)} :
         asked' = [what |-> "stamp", stamp |-> [year |-> y, month |-> m, day |-> d, hour |-> 23,
                                                minute |-> 59, zone |-> z]]
  \/ \E s \in Seconds : asked' = [what |-> "seconds", seconds |-> s]

Nothing == [what |-> "nothing"]
Init == asked = Nothing
Next ==
  \/ asked = Nothing /\ Ask
  \/ asked # Nothing /\ asked' = Nothing
Spec == Init /\ [][Next]_asked

---------------------------------------------------------------------------
(* Properties.                                                             *)

(* The two writers of modes agree but for what one of them cannot say, and  *)
(* the bits can be read out of the letters again; a UDF file's mode has its *)
(* type, FIFOs excepted (udf_mode_string, iso9660_get_rock_attr_str).      *)
ModesShown ==
  asked.what = "mode" =>
    LET udf  == UdfModeString(asked.mode)
        rock == RockAttrStr(asked.mode)
        said(w, at) == <<w, "set">> \in asked.mode.bits <=> udf[at] \in {"s", "S", "t", "T"}
        runs(w, at) == <<w, "x">> \in asked.mode.bits <=> udf[at] \in {"x", "s", "t"}
    IN /\ PosixFilemode([rock |-> "yep", xa |-> TRUE, mode |-> asked.mode, attributes |-> {}]) = asked.mode
       /\ \A i \in 2 .. 9 : udf[i] = rock[i]
       /\ udf[1] # rock[1] => asked.mode.type = "none"
       /\ \A t \in {<<"u", 4>>, <<"g", 7>>, <<"o", 10>>} : said(t[1], t[2]) /\ runs(t[1], t[2])
       /\ UdfFilemode([type |-> asked.mode.type, permissions |-> asked.mode.bits, flags |-> asked.mode.bits])
            = [asked.mode EXCEPT !.type = IF @ = "fifo" THEN "none" ELSE @]

(* The attributes that a program gave are those that are written out, on    *)
(* whatever machine (iso9660_xa_init, iso9660_get_xa_attr_str); of Rock     *)
(* Ridge files the mode is Rock Ridge's (iso9660_get_posix_filemode).      *)
XaShown ==
  asked.what = "xa" =>
    LET str == XaAttrStr(XaInit(asked.word).attributes)
    IN /\ \A t \in {<<1, "dir">>, <<2, "cdda">>, <<4, "form2">>, <<5, "form1">>, <<7, "rusr">>, <<10, "xsys">>} :
            str[t[1]] # "-" <=> XaBit[t[2]] \in asked.word
       /\ <<"u", "r">> \in FilemodeFromXa(asked.word).bits <=> str[7] = "r"
       /\ FilemodeFromXa(asked.word).type = "dir" <=> str[1] = "d"

(* A link's target is never written past the memory it has, and is the      *)
(* link's parts with slashes between them when no entry ends between two    *)
(* parts (get_rock_ridge_filename, realloc_symlink).                       *)
PartText(part) ==
  CASE part.kind = "name" -> part.text [] part.kind = "current" -> <<".">>
    [] part.kind = "parent" -> <<".", ".">> [] part.kind = "root" -> <<"/">> [] OTHER -> << >>
Joined(parts) ==
  FoldLeftDomain(LAMBDA acc, i :
                   acc \o PartText(parts[i])
                   \o (IF i = Len(parts) \/ parts[i].kind = "root" \/ parts[i].cont THEN << >> ELSE <<"/">>),
                 << >>, parts)
EndsBetween(link) == \E i \in DOMAIN link : link[i].cont /\ ~Last(link[i].parts).cont
LinksAsWritten ==
  asked.what = "link" =>
    LET made == Symlink(asked.link)
    IN /\ ~made.past
       /\ ~EndsBetween(asked.link) =>
            made.text = Joined(FoldLeft(LAMBDA acc, sl : acc \o sl.parts, << >>, asked.link))

(* A time is the same instant after it was written and read, in every zone  *)
(* that is in range by whole quarters of an hour and up to the last year    *)
(* that a record can hold, though the two forms count zones in opposite     *)
(* ways, so that the long form loses what is 13 hours east; and the times   *)
(* of a TF field are found one after the other                             *)
(* (iso9660_set_dtime, _get_dtime, _set_ltime, _get_ltime).                *)
TimesKept ==
  /\ asked.what = "time" /\ asked.tm.year < 256 /\ asked.tm.zone \in -720 .. 780 =>
       /\ Instant(GetDtime(SetDtime(asked.tm))) = Instant(asked.tm)
       /\ asked.tm.zone <= 720 => GetLtime(SetLtime(asked.tm)) = asked.tm
  /\ asked.what = "times" =>
       \A long \in BOOLEAN :
         {t[2] : t \in TimesOf(asked.flags, long)}
           = {n * (IF long THEN 17 ELSE 7) : n \in 0 .. Cardinality(asked.flags) - 1}

(* The minute after the last of a day is the first of the next day, over    *)
(* every end of a month and every leap day that a stamp can name; and a     *)
(* stamp made of a time within nine hours of the epoch's start is read back *)
(* as that time (udf_stamp_to_time, udf_timespec_to_stamp).                *)
NextDay(s) ==
  IF s.day < MonthLength(s.year, s.month) THEN [s EXCEPT !.day = @ + 1]
  ELSE IF s.month < 12 THEN [s EXCEPT !.day = 1, !.month = @ + 1]
  ELSE [s EXCEPT !.day = 1, !.month = 1, !.year = @ + 1]
StampsFollow ==
  /\ asked.what = "stamp" /\ asked.stamp.year < 2038 =>
       StampToTime([NextDay(asked.stamp) EXCEPT !.hour = 0, !.minute = 0]) = StampToTime(asked.stamp) + 1
  /\ asked.what = "seconds" /\ asked.seconds \in 0 .. 32767 =>
       StampToTime(TimespecToStamp(asked.seconds)) = asked.seconds \div 60

AttributesAsWritten == ModesShown /\ XaShown /\ LinksAsWritten /\ TimesKept /\ StampsFollow
============================================================================
