------------------------------- MODULE MCDrives -------------------------------
(* A drive under the driver of the platform the program is built for: under *)
(* GNU/Linux with a disc that may be changed between any two commands, or   *)
(* under one of the other platforms with a disc that stays.  LinuxDevice    *)
(* has two discs whose track numbers overlap but do not begin alike, the    *)
(* others have discs of two and three tracks that start at track 1, 2 or 4. *)
EXTENDS LinuxDevice, TLC

CONSTANTS
  mixed, later,                                  \* LinuxDevice's two discs
  OtherDiscs, OtherLsns,                         \* the discs of the other platforms, sectors to read
  MaxEntry, MaxBlocks, MaxCommands               \* bounds of a table, a request and of what may succeed

MCDiscs == {mixed, later}
MCFirst == (mixed :> 1) @@ (later :> 2)
MCLast == (mixed :> 2) @@ (later :> 2)

VARIABLES platform, inserted, env, said
others == <<platform, inserted, env, said>>

DiscFrom(f, s, k, x, e) ==
  [first |-> f, starts |-> s, kinds |-> k, format |-> x, end |-> e, copy |-> f = 4, book |-> "none"]

MCOtherDiscs ==
  { DiscFrom(1, <<0, 300>>, <<"data", "audio">>, "xa", 900),
    [DiscFrom(1, <<0>>, <<"data">>, "none", 900) EXCEPT !.book = "DVD_PR_DL"],
    DiscFrom(1, <<0, 300, 500>>, <<"audio", "audio", "data">>, "none", 900),
    DiscFrom(2, <<0, 300>>, <<"audio", "data">>, "cdi", 900),
    DiscFrom(4, <<0, 300>>, <<"data", "data">>, "xa", 900) }

Other == INSTANCE PlatformDevice WITH
  disc <- inserted, Discs <- OtherDiscs, Lsns <- OtherLsns,
  Platforms <- {"freebsd", "netbsd", "solaris", "win32", "osx"}

ASSUME DiscsFitTheTable == Other!PlatformConstants

NoOther == platform = "linux" /\ inserted = {} /\ env = {} /\ said = {}

InitLinux == Init /\ NoOther
InitOther == Other!Init /\ Init /\ disc = NoDisc /\ access_mode = "READ_CD"

OnLinux == platform = "linux" /\ Next /\ UNCHANGED others
OnOther == platform # "linux" /\ Other!Next /\ UNCHANGED vars
LinuxCalls == platform = "linux" /\ Calls /\ UNCHANGED others

DrivesSpec ==
  /\ InitLinux \/ InitOther
  /\ [][OnLinux \/ OnOther]_<<vars, others>>
  /\ WF_<<vars, others>>(LinuxCalls)

(* A getter answers what the table that was read says, for the track that   *)
(* was asked about: its start, or that it has none, and its format, under   *)
(* GNU/Linux with whatever disc is in the drive by now (the getters of      *)
(* gnu_linux.c, freebsd.c, netbsd.c, solaris.c, win32.c and osx.c).         *)
TableAnswersForDisc ==
  IF platform = "linux" THEN AnswersFromTable
  ELSE /\ Other!TableAnswersForDisc /\ Other!FormatOfTrack
       /\ Other!ModeOfDisc /\ Other!LastLsnOfDisc /\ Other!GreenOfTrack

(* A read that reports success has filled the buffer with the sectors that  *)
(* were asked for, up to the leadout, in every access mode and whichever    *)
(* modes failed on the way (the read routines of the drivers under read.c's *)
(* checks); under GNU/Linux the mode 2 reads, which fall back.              *)
SectorsAsAsked ==
  IF platform = "linux" THEN Mode2ReadsAskedSectors ELSE Other!SectorsAsAsked
=============================================================================
