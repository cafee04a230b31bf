---------------------------- MODULE MCCdPlayer ----------------------------
(* Playing a CD: the player with a disc of two tracks and the keys that     *)
(* change what plays, or any program that makes the audio calls of the      *)
(* library, on every platform, with discs of two tracks, one of them of two *)
(* sessions.                                                                *)
EXTENDS CdPlayer, TLC

CONSTANT TheDisc
MCDiscs == {TheDisc}
MCTracks == TheDisc :> 2

Op(op, a) == [op |-> op, a |-> a, b |-> 0]
MCKeys == {Op(k, 0) : k \in {"auto", "eject", "stop", "close", "list", "help", "pause",
                             "next", "previous", "skip", "quit"}}
          \cup {Op("jump", 2), Op("skip", 1), Op("quit", 1)}
MCOptions == {Op(o, 0) : o \in {"keys", "whole", "list", "eject", "stop", "close",
                          "subchannel", "volume"}}
             \cup {[op |-> "track", a |-> 1, b |-> 2]}

CONSTANTS
  Platforms, AudioDiscs, NoAudioDisc, Addresses, Pregap, Levels   \* as in AudioControl
MCPlatforms == {"linux", "freebsd", "netbsd", "solaris", "winnt", "win9x", "osx"}
MCAudioDiscs == {[starts |-> <<0, 7, 16>>, last |-> 0], [starts |-> <<0, 2, 16>>, last |-> 2]}
MCNoAudioDisc == [starts |-> <<0>>, last |-> 0]

VARIABLES side, platform, unit, kept, asked, heard
callVars == <<platform, unit, kept, asked, heard>>

Audio == INSTANCE AudioControl WITH
  drive <- unit, toc <- kept, said <- heard, NoDisc <- NoAudioDisc

ASSUME AudioCallsOfDiscs == Audio!AudioConstants

InitPlayer ==
  /\ side = "player" /\ Init
  /\ platform = {} /\ unit = {} /\ kept = {} /\ asked = {} /\ heard = {}
InitCalls ==
  /\ side = "calls" /\ Audio!Init
  /\ Init /\ said.option.op = "keys" /\ ~flags.auto /\ drive = Rest("none", NoDisc, "closed")

OnPlayer == side = "player" /\ Next /\ UNCHANGED <<side, callVars>>
OnCalls == side = "calls" /\ Audio!Next /\ UNCHANGED <<side, vars>>

PlayingSpec ==
  /\ InitPlayer \/ InitCalls
  /\ [][OnPlayer \/ OnCalls]_<<vars, side, callVars>>
  /\ WF_<<vars, side, callVars>>(side = "player" /\ (Calls \/ Main) /\ UNCHANGED <<side, callVars>>)
  /\ WF_<<vars, side, callVars>>(side = "player" /\ PlayOn /\ UNCHANGED <<side, callVars>>)

(* What plays through the library's audio calls is inside of what the last  *)
(* play that succeeded asked for, whatever was paused, refused or failed    *)
(* since, and the subchannel tells where that is: addresses go through BCD  *)
(* both ways (the audio routines of the platforms' drivers).  What plays    *)
(* for the player is whole tracks up to the leadout of the disc that is in  *)
(* the drive (play_track, read_toc).                                        *)
PlayingAsAsked == IF side = "calls" THEN Audio!PlayingAsAsked ELSE PlaysToTheLeadout
=============================================================================
