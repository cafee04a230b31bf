----------------------------- MODULE MCCueSheet -----------------------------
(* Sheets made of a few lines of each kind.  MCPlacing has the lines that  *)
(* number, place and describe tracks, MCStrings those that allocate        *)
(* strings or end the parse early.                                         *)
EXTENDS CueSheet

Line(kw, arg, n, at) == [kw |-> kw, arg |-> arg, n |-> n, at |-> at, flags |-> {}]
Words(kw, arg) == Line(kw, arg, 0, 0)

MCPlacing ==
  {Line("TRACK", "AUDIO", 1, 0), Line("TRACK", "MODE1/2352", 2, 0),
   Line("TRACK", "MODE2/2352", 2, 0),
   Line("INDEX", "msf", 0, 3), Line("INDEX", "msf", 1, 0), Line("INDEX", "msf", 1, 1),
   Line("INDEX", "msf", 1, 4), Line("INDEX", "msf", 2, 5)}

MCStrings ==
  {Words("REM", "any"), Words("CATALOG", "digits"), Words("CATALOG", "trailing"),
   Words("CATALOG", "malformed"), Words("CDTEXTFILE", "packs"),
   Words("CDTEXTFILE", "unreadable"), Words("CDTEXTFILE", "bare"),
   Words("FILE", "named"), Words("FILE", "bare"),
   Line("TRACK", "AUDIO", 1, 0), Line("TRACK", "unknown", 1, 0),
   Line("TRACK", "none", 1, 0), Line("TRACK", "AUDIO", 100, 0),
   [Words("FLAGS", "known") EXCEPT !.flags = {"DCP"}], Words("FLAGS", "unknown"),
   Words("ISRC", "code"), Words("ISRC", "bare"),
   Line("PREGAP", "msf", 0, 2), Line("PREGAP", "trailing", 0, 2),
   Words("PREGAP", "malformed"),
   Words("INDEX", "malformed"), Words("TITLE", "text"), Words("other", "any")}

MCLines == MCPlacing \cup MCStrings
=============================================================================
