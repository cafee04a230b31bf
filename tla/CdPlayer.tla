------------------------------ MODULE CdPlayer ------------------------------
(***************************************************************************)
(* The curses CD player, src/cdda-player.c: its main loop, the operations  *)
(* its keys and options call, and the audio commands these give through    *)
(* lib/driver/audio.c, while the drive plays and the user changes discs.   *)
(*                                                                         *)
(* The operations call one another (reading the table may start to play,   *)
(* reading the subchannel may eject), so the program's control is the      *)
(* stack `todo` of what is left to do; each step does the code between two *)
(* commands to the drive.  External: the drive, which plays on meanwhile;  *)
(* any command may fail, MaxFaults of them in a behaviour.  Positions are  *)
(* counted in units of ten seconds, which is what the cursor keys skip;    *)
(* every track is Length units long.  Left out: CD-Text, CDDB, the screen  *)
(* and the volume.                                                         *)
(***************************************************************************)
EXTENDS Integers, Sequences

CONSTANTS
  Discs, NoDisc,
  Tracks,         \* how many tracks each disc has
  Length,         \* how long each track is
  Keys,           \* the keys the user presses; numbers are those of tracks
  Options,        \* the command lines: [op, a, b]
  MaxDepth,       \* bound: the depth of the program's own stack
  MaxKeys, MaxHands, MaxFaults   \* bounds: keys and signals, discs changed, failures

ASSUME CdPlayerAssumption ==
  /\ NoDisc \notin Discs /\ Tracks \in [Discs -> 1 .. 98]
  /\ Length \in Nat \ {0}
  /\ Keys \subseteq [op : STRING, a : Int, b : Int]

InvalidTrack == 255
LeadoutTrack == 170          \* also the last index of the array toc

VARIABLES
  todo,           \* what is left to do: a stack of [op, a, b]
  cdio,           \* p_cdio_global: "null" or "open"
  flags,          \* [cd, record, auto, all, sig, nostop], the b_ variables
  sub,            \* the subchannel last read: [status, track, pos]
  tracks,         \* [first, last, lastAudio]
  toc,            \* the disc whose table the handle keeps, and the array toc
  drive,          \* external: [disc, tray, status, pos, from, end]
  said,           \* history: the option, the key pressed last, and the play
                  \* command given last: [option, key, by, end]
  left            \* what is left of the bounds: [keys, hands, faults]

vars == <<todo, cdio, flags, sub, tracks, toc, drive, said, left>>

NoTracks == [first |-> InvalidTrack, last |-> InvalidTrack, lastAudio |-> InvalidTrack]
Do(op) == [op |-> op, a |-> 0, b |-> 0]
Play(a, b) == [op |-> "play", a |-> a, b |-> b]
Top == todo[1]
Running(op) == todo # << >> /\ Top.op = op
Then(ops) == todo' = ops \o Tail(todo)
Done == Then(<< >>)
If(b, ops) == IF b THEN ops ELSE << >>
Smaller(a, b) == IF a < b THEN a ELSE b
Larger(a, b) == IF a < b THEN b ELSE a

(* An operation that may fail: with what it does if not, and if so.        *)
Faulty == left.faults > 0 /\ left' = [left EXCEPT !.faults = @ - 1]
Faultless == UNCHANGED left

Handles == {"null", "open"}
(* Where it stands is only kept while it plays or is paused.               *)
Rest(status, disc, tray) ==
  [disc |-> disc, tray |-> tray, status |-> status, pos |-> 0, from |-> 0, end |-> 0]
Loaded == drive.tray = "closed" /\ drive.disc # NoDisc

(* Where the array toc says a track starts.  What was not read is zero.    *)
Position(n) == IF toc # NoDisc /\ n \in 1 .. Tracks[toc] + 1
               THEN (n - 1) * Length ELSE 0
End(d) == Tracks[d] * Length
TrackAt(p) == p \div Length + 1

-----------------------------------------------------------------------------
(* The user and the drive.                                                 *)
(* A disc is taken out or put in, the tray opened or closed by hand.       *)
ByHand ==
  /\ left.hands > 0 /\ left' = [left EXCEPT !.hands = @ - 1]
  /\ \E d \in Discs \cup {NoDisc}, t \in {"open", "closed"} :
       /\ <<d, t>> # <<drive.disc, drive.tray>>
       /\ drive' = Rest("none", d, t)
  /\ UNCHANGED <<todo, cdio, flags, sub, tracks, toc, said>>

PlayOn ==
  /\ drive.status = "play"
  /\ drive' = IF drive.pos + 1 >= drive.end
              THEN Rest("completed", drive.disc, drive.tray)
              ELSE [drive EXCEPT !.pos = @ + 1]
  /\ UNCHANGED <<todo, cdio, flags, sub, tracks, toc, said, left>>

-----------------------------------------------------------------------------
(* read_subchannel of the global handle.  The command fails without a disc *)
(* and may fail with one; what was read before is then what counts.        *)
Read == Do("sub")
Seen == [status |-> drive.status, track |-> TrackAt(drive.pos), pos |-> drive.pos]

WithoutEject(s) == FALSE                                  \* mutant of EjectsOn
EjectsOn(s) == flags.auto /\ s.status = "completed"

SubchannelRead ==
  /\ Running("sub") /\ cdio = "open" /\ Loaded
  /\ sub' = Seen
  /\ Then(If(EjectsOn(sub'), <<Do("eject")>>))
  /\ UNCHANGED <<cdio, flags, tracks, toc, drive, said, left>>

SubchannelFails ==
  /\ Running("sub") /\ cdio = "open"
  /\ IF Loaded THEN Faulty ELSE Faultless
  /\ flags' = [flags EXCEPT !.cd = FALSE]
  /\ Then(If(EjectsOn(sub), <<Do("eject")>>))
  /\ UNCHANGED <<cdio, sub, tracks, toc, drive, said>>

NoSubchannel ==
  /\ Running("sub") /\ cdio = "null"
  /\ Done
  /\ UNCHANGED <<cdio, flags, sub, tracks, toc, drive, said, left>>

-----------------------------------------------------------------------------
(* read_toc.  The library reads the table once for a handle.               *)
TocRead ==
  /\ Running("toc") /\ cdio = "open"
  /\ toc # NoDisc \/ Loaded
  /\ toc' = IF toc = NoDisc THEN drive.disc ELSE toc
  /\ tracks' = [first |-> 1, last |-> Tracks[toc'], lastAudio |-> Tracks[toc']]
  /\ flags' = [flags EXCEPT !.cd = TRUE, !.record = TRUE]
  /\ Then(<<Read, Do("toc played")>>)
  /\ UNCHANGED <<cdio, sub, drive, said, left>>

TocFails ==
  /\ Running("toc")
  /\ IF cdio = "open" /\ Loaded THEN toc = NoDisc /\ Faulty
     ELSE (cdio = "open" => toc = NoDisc) /\ Faultless
  /\ tracks' = NoTracks
  /\ flags' = [flags EXCEPT !.cd = FALSE, !.record = FALSE]
  /\ Done
  /\ UNCHANGED <<cdio, sub, toc, drive, said>>

(* An entry of the table is not to be had.                                 *)
TocEntryFails ==
  /\ Running("toc") /\ cdio = "open"
  /\ toc # NoDisc \/ Loaded
  /\ Faulty
  /\ toc' = IF toc = NoDisc THEN drive.disc ELSE toc
  /\ tracks' = [first |-> 1, last |-> Tracks[toc'], lastAudio |-> Tracks[toc']]
  /\ flags' = [flags EXCEPT !.cd = FALSE]
  /\ Done
  /\ UNCHANGED <<cdio, sub, drive, said>>

EvenWhenManual == sub.status # "play"                     \* mutant of PlaysItself
PlaysItself == flags.auto /\ sub.status # "play"

TocPlayed ==
  /\ Running("toc played")
  /\ Then(If(PlaysItself, <<Play(1, LeadoutTrack)>>))
  /\ UNCHANGED <<cdio, flags, sub, tracks, toc, drive, said, left>>

-----------------------------------------------------------------------------
(* play_track.  The end is a track number too: the track that is not       *)
(* played any more, when it is called, and the last one played, clamped,   *)
(* before it is incremented.                                               *)
PlayCall ==
  /\ Running("play") /\ Len(todo) < MaxDepth
  /\ Then(If(~flags.cd, <<Do("toc")>>) \o <<Read, [Top EXCEPT !.op = "clamp"]>>)
  /\ UNCHANGED <<cdio, flags, sub, tracks, toc, drive, said, left>>

(* With the table kept, a disc that does not answer, and auto-mode on, the *)
(* two call each other until the stack is full, which ends the program.    *)
StackOverflow ==
  /\ Running("play") /\ Len(todo) >= MaxDepth
  /\ todo' = << >>
  /\ UNCHANGED <<cdio, flags, sub, tracks, toc, drive, said, left>>

Clamped(n) == Smaller(Larger(n, tracks.first), tracks.lastAudio)
EndTrack(n) == Clamped(n) + 1

Clamp ==
  /\ Running("clamp")
  /\ Then(If(flags.cd,
             If(sub.status = "play", <<Do("pause")>>)
             \o <<[op |-> "command", a |-> Clamped(Top.a), b |-> EndTrack(Top.b)]>>))
  /\ UNCHANGED <<cdio, flags, sub, tracks, toc, drive, said, left>>

(* The drive plays from one position to another, or refuses to when these  *)
(* are not in order on the disc.                                           *)
Starts(from, end) ==
  drive' = [drive EXCEPT !.status = "play", !.pos = from, !.from = from, !.end = end]
Refused(from, end) ==
  \/ ~Loaded /\ Faultless
  \/ Loaded /\ ~(from < end /\ end <= End(drive.disc)) /\ Faultless
  \/ Loaded /\ Faulty

(* Past the array lies what the linker put there: any position.            *)
Ends(n) == IF n > LeadoutTrack THEN 0 .. 1 + End(toc) ELSE {Position(n)}

Command ==
  /\ Running("command") /\ cdio = "open"
  /\ \E end \in Ends(Top.b) :
       \/ /\ Loaded /\ Position(Top.a) < end /\ end <= End(drive.disc)
          /\ Starts(Position(Top.a), end) /\ Faultless
          /\ said' = [said EXCEPT !.by = "play", !.end = Top.b]
       \/ /\ Refused(Position(Top.a), end)
          /\ UNCHANGED <<drive, said>>
  /\ Done
  /\ UNCHANGED <<cdio, flags, sub, tracks, toc>>

(* cd_pause, when the subchannel read last said that it plays; the result  *)
(* is ignored.  toggle_pause pauses, or resumes what was paused.           *)
Becomes(from, to) ==
  \/ /\ drive.status = from /\ drive' = [drive EXCEPT !.status = to] /\ Faultless
  \/ /\ drive.status # from /\ UNCHANGED drive /\ Faultless
  \/ Faulty /\ UNCHANGED drive

Pause ==
  /\ Running("pause")
  /\ Becomes("play", "paused")
  /\ Done
  /\ UNCHANGED <<cdio, flags, sub, tracks, toc, said>>

Resume ==
  /\ Running("resume")
  /\ Becomes("paused", "play")
  /\ Done
  /\ UNCHANGED <<cdio, flags, sub, tracks, toc, said>>

-----------------------------------------------------------------------------
(* skip, forward or back: plays on to the start of the last track.         *)
SkipCall ==
  /\ Running("skip")
  /\ Then(<<Read, [Top EXCEPT !.op = "skip clamp"]>>)
  /\ UNCHANGED <<cdio, flags, sub, tracks, toc, drive, said, left>>

SkipClamp ==
  /\ Running("skip clamp")
  /\ Then(If(flags.cd, If(sub.status = "play", <<Do("pause")>>)
                       \o <<[Top EXCEPT !.op = "skip command"]>>))
  /\ UNCHANGED <<cdio, flags, sub, tracks, toc, drive, said, left>>

SkipCommand ==
  /\ Running("skip command")
  /\ LET from == IF Top.a = 1 THEN sub.pos + 1 ELSE Larger(sub.pos - 1, 0)
     IN \E end \in Ends(tracks.lastAudio) :
          \/ /\ Loaded /\ from < end /\ end <= End(drive.disc)
             /\ Starts(from, end) /\ Faultless
             /\ said' = [said EXCEPT !.by = "skip", !.end = 0]
          \/ Refused(from, end) /\ UNCHANGED <<drive, said>>
  /\ Done
  /\ UNCHANGED <<cdio, flags, sub, tracks, toc>>

-----------------------------------------------------------------------------
(* cd_stop.  What is listed afterwards reads the subchannel once a track,  *)
(* while there is a record of the disc.                                    *)
Lines == If(flags.record, [i \in 1 .. tracks.last - tracks.first + 1 |-> Read])

Stop ==
  /\ Running("stop")
  /\ IF flags.cd /\ cdio = "open"
     THEN /\ tracks' = [tracks EXCEPT !.lastAudio = InvalidTrack]
          /\ \/ /\ Faultless
                /\ drive' = Rest("none", drive.disc, drive.tray)
             \/ Faulty /\ UNCHANGED drive
          /\ Then(If(flags.all, Lines))
     ELSE Done /\ UNCHANGED <<tracks, drive, left>>
  /\ UNCHANGED <<cdio, flags, sub, toc, said>>

(* cd_eject.  Whether the drive ejects the disc or not, the handle goes.   *)
EjectCall ==
  /\ Running("eject")
  /\ Then(If(cdio = "open", <<Do("stop"), Do("let go")>>))
  /\ UNCHANGED <<cdio, flags, sub, tracks, toc, drive, said, left>>

LetGo ==
  /\ Running("let go")
  /\ \/ cdio = "null" /\ Faultless /\ UNCHANGED drive
     \/ /\ cdio = "open" /\ Faultless
        /\ drive' = Rest("none", drive.disc, "open")
     \/ cdio = "open" /\ Faulty /\ UNCHANGED drive
  /\ cdio' = "null"
  /\ flags' = [flags EXCEPT !.cd = FALSE]
  /\ Done
  /\ UNCHANGED <<sub, tracks, toc, said>>

(* cd_close.                                                               *)
CloseTray ==
  /\ Running("close")
  /\ IF flags.cd THEN UNCHANGED <<drive, left>>
     ELSE \/ drive' = [drive EXCEPT !.tray = "closed"] /\ Faultless
          \/ Faulty /\ UNCHANGED drive
  /\ Done
  /\ UNCHANGED <<cdio, flags, sub, tracks, toc, said>>

-----------------------------------------------------------------------------
(* main: the device is opened, a second time once the tray is closed, an   *)
(* option's operation done, and the CD played unless it plays already.     *)
OptionOps == {"track", "whole", "list", "eject", "stop", "subchannel", "volume", "keys"}
NoHandleOps == {"eject", "stop"}     \* done whether or not there is a handle

ASSUME OptionAssumption ==
  Options \subseteq [op : OptionOps \cup {"close"}, a : Int, b : Int]

Open ==
  /\ Running("open")
  /\ \/ cdio' = "open" /\ Faultless /\ Done
     \/ /\ Faulty /\ UNCHANGED cdio
        /\ Then(If(Top.a = 0 /\ said.option.op # "eject",
                   <<Do("close"), [Top EXCEPT !.a = 1]>>))
  /\ UNCHANGED <<flags, sub, tracks, toc, drive, said>>

ReadsTable(o) == If(o.op \in {"track", "list"}, <<Do("toc")>>)
WithHandle(o) ==
  CASE o.op = "track" -> <<Play(o.a, o.b)>>
    [] o.op = "whole" -> <<Play(1, LeadoutTrack)>>
    [] o.op = "subchannel" -> <<Read>>
    [] OTHER -> << >>

Option ==
  /\ todo # << >> /\ Top.op \in OptionOps \ NoHandleOps
  /\ Then(ReadsTable(Top) \o If(cdio = "open", WithHandle(Top)))
  /\ UNCHANGED <<cdio, flags, sub, tracks, toc, drive, said, left>>

(* The option to stop does nothing after it.                               *)
StopOption ==
  /\ Running("stop option")
  /\ flags' = [flags EXCEPT !.cd = TRUE]
  /\ todo' = <<Do("stop"), Do("finish")>>
  /\ UNCHANGED <<cdio, sub, tracks, toc, drive, said, left>>

First ==
  /\ Running("first")
  /\ Then(If(sub.status \notin {"paused", "play"}, <<Play(1, LeadoutTrack)>>))
  /\ UNCHANGED <<cdio, flags, sub, tracks, toc, drive, said, left>>

(* The main loop, up to where it waits for a key.                          *)
Loop ==
  /\ Running("loop")
  /\ todo' = IF flags.sig THEN If(~flags.nostop, <<Do("stop")>>) \o <<Do("finish")>>
             ELSE If(~flags.cd, <<Do("toc")>>) \o <<Read, Do("wait"), Do("loop")>>
  /\ UNCHANGED <<cdio, flags, sub, tracks, toc, drive, said, left>>

Finish ==
  /\ Running("finish")
  /\ cdio' = "null" /\ Done
  /\ UNCHANGED <<flags, sub, tracks, toc, drive, said, left>>

(* select_wait gives up after a second, or five.                           *)
Timeout ==
  /\ Running("wait") /\ Done
  /\ UNCHANGED <<cdio, flags, sub, tracks, toc, drive, said, left>>

Shown == flags.cd /\ sub.status \in {"paused", "play"}

KeyCalls(k) ==
  CASE k.op \in {"eject", "stop", "close"} -> <<Do(k.op)>>
    [] k.op = "list" -> If(~flags.all, Lines)
    [] k.op = "help" -> <<[Do("help") EXCEPT !.a = IF cdio = "open" THEN 1 ELSE 0]>>
    [] k.op = "pause" -> If(flags.cd, <<Do(IF sub.status = "paused" THEN "resume" ELSE "pause")>>)
    [] k.op = "next" -> <<Play(IF Shown THEN sub.track + 1 ELSE 1, LeadoutTrack)>>
    [] k.op = "previous" -> If(Shown, <<Play(sub.track - 1, LeadoutTrack)>>)
    [] k.op = "skip" -> If(flags.cd /\ sub.status = "play", <<k>>)
    [] k.op = "jump" -> <<Play(k.a, LeadoutTrack)>>
    [] OTHER -> << >>

Pressed == left.keys > 0 /\ left' = [left EXCEPT !.keys = @ - 1]

Key ==
  /\ Running("wait") /\ Pressed
  /\ \E k \in Keys :
       /\ Then(KeyCalls(k))
       /\ flags' = CASE k.op = "auto" -> [flags EXCEPT !.auto = ~@]
                     [] k.op = "list" -> [flags EXCEPT !.all = ~@]
                     [] k.op = "quit" -> [flags EXCEPT !.sig = TRUE, !.nostop = @ \/ k.a = 1]
                     [] OTHER -> flags
       /\ said' = [said EXCEPT !.key = k.op]
  /\ UNCHANGED <<cdio, sub, tracks, toc, drive>>

(* keypress_wait, under the list of keys: it reads the subchannel of the   *)
(* handle it was called with, also when that was ejected and freed, which  *)
(* ends the program or fails.                                              *)
Freed == Top.a = 1 /\ cdio = "null"

HelpTimeout ==
  /\ Running("help")
  /\ \/ /\ ~Freed /\ todo' = <<Read>> \o todo /\ UNCHANGED flags
     \/ /\ Freed /\ todo' = << >> /\ UNCHANGED flags
     \/ /\ Freed /\ flags' = [flags EXCEPT !.cd = FALSE] /\ UNCHANGED todo
  /\ UNCHANGED <<cdio, sub, tracks, toc, drive, said, left>>

HelpKey ==
  /\ Running("help") /\ Pressed
  /\ Done
  /\ UNCHANGED <<cdio, flags, sub, tracks, toc, drive, said>>

(* The handler of SIGINT, SIGQUIT, SIGTERM and SIGHUP.                     *)
ctrlc ==
  /\ todo # << >> /\ ~flags.sig /\ Pressed
  /\ flags' = [flags EXCEPT !.sig = TRUE]
  /\ UNCHANGED <<todo, cdio, sub, tracks, toc, drive, said>>

-----------------------------------------------------------------------------
(* The options are followed by what every run does; an option has no keys. *)
Batch(o) == o.op # "keys"
Start(o) == If(o.op # "close", <<Do("open")>>)
            \o <<IF o.op = "stop" THEN Do("stop option") ELSE o,
                 Read, Do("first"), Do("loop")>>

Init ==
  /\ \E o \in Options, auto \in BOOLEAN :
       /\ todo = Start(o)
       /\ flags = [cd |-> FALSE, record |-> FALSE, auto |-> auto, all |-> FALSE,
                   sig |-> Batch(o), nostop |-> Batch(o)]
       /\ said = [option |-> o, key |-> "none", by |-> "none", end |-> 0]
  /\ cdio = "null" /\ toc = NoDisc
  /\ sub = [status |-> "none", track |-> 0, pos |-> 0]
  /\ tracks = [first |-> 0, last |-> 0, lastAudio |-> 0]
  /\ \E d \in Discs \cup {NoDisc}, t \in {"open", "closed"} :
       drive = Rest("none", d, t)
  /\ left = [keys |-> MaxKeys, hands |-> MaxHands, faults |-> MaxFaults]

Calls == SubchannelRead \/ SubchannelFails \/ NoSubchannel \/ TocRead \/ TocFails
  \/ TocEntryFails \/ TocPlayed \/ PlayCall \/ StackOverflow \/ Clamp \/ Command \/ Pause \/ Resume
  \/ SkipCall \/ SkipClamp \/ SkipCommand \/ Stop \/ EjectCall \/ LetGo \/ CloseTray
Main == Open \/ Option \/ StopOption \/ First \/ Loop \/ Finish \/ Timeout \/ HelpTimeout
User == ByHand \/ Key \/ HelpKey \/ ctrlc

Next == Calls \/ Main \/ User \/ PlayOn

(* The program goes on, and its waits time out; the drive plays on.        *)
Spec == Init /\ [][Next]_vars /\ WF_vars(Calls \/ Main) /\ WF_vars(PlayOn)

-----------------------------------------------------------------------------
(* Once the user has stopped the CD and no key was pressed since, and      *)
(* auto-mode is off, nothing starts it again: not the loop that reads the  *)
(* table anew after a failed read, nor a list that was left half way.      *)
QuietOnceStopped ==
  [][said.key = "stop" /\ said'.key = "stop" /\ ~flags.auto /\ drive.status # "play"
     => drive.status' # "play"]_vars

(* What plays, unless the user skipped within it, is whole tracks up to    *)
(* the leadout: the clamped numbers name entries of the table that the     *)
(* disc in the drive has.  The option that plays tracks names an end of    *)
(* its own, and the option to stop plays nothing.  Not after a stop, which *)
(* forgets the last track (cdda-player.c:441).                             *)
EndsOtherwise(o) == o.op \in {"track", "stop"}
PlaysToTheLeadout ==
  drive.status \in {"play", "paused"} /\ said.by = "play" /\ drive.disc = toc
  /\ ~EndsOtherwise(said.option) /\ said.end <= LeadoutTrack
  => /\ drive.from \in {Position(n) : n \in 1 .. Tracks[toc]}
     /\ drive.end = End(toc)

(* "when it is done it ejects the CD": in auto-mode a CD that was played   *)
(* to its end does not stay in the drive like that, whatever fails now and *)
(* then and whatever screen is shown, while the program has the drive open *)
(* and is not told to end.                                                 *)
Over == todo # << >> /\ flags.auto /\ drive.status = "completed" /\ cdio = "open" /\ ~flags.sig
AutoEjects == []<>~Over

=============================================================================
