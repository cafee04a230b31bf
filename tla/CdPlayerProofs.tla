---------------------------- MODULE CdPlayerProofs ----------------------------
(***************************************************************************)
(* Proofs about CdPlayer, with any discs, keys, options and bounds, and    *)
(* about AudioControl, the audio calls of the library.                     *)
(*                                                                         *)
(* Once the user has stopped the CD and auto-mode is off, nothing starts   *)
(* it again until another key is pressed.  What might start it later is on *)
(* the program's stack by then, so the invariant is about the stack: a key *)
(* is only read right above the main loop (WaitsOverLoop), and what the    *)
(* loop calls does not play (QuietOps).                                    *)
(*                                                                         *)
(* What plays for a key is whole tracks up to the leadout: the invariant   *)
(* says of every call on the stack which tracks it asks for (Asked), and   *)
(* of the table what flags.cd vouches for (Vouched).                       *)
(*                                                                         *)
(* What plays by the audio calls is inside of what was asked for:          *)
(* PlaysInside says so also of what is paused, with the type of the drive  *)
(* and of the table that FreeBSD keeps.                                    *)
(***************************************************************************)
EXTENDS MCCdPlayer, TLAPS

-------------------------------------------------------------------------------
(* Stacks.                                                                 *)
IsSeq(s) == \E S : s \in Seq(S) /\ \A x \in S : "op" \in DOMAIN x
Ops(s) == {s[i].op : i \in 1 .. Len(s)}

LEMMA SeqOfNone == IsSeq(<< >>) /\ Ops(<< >>) = {}
<1>1. << >> \in Seq({}) /\ 1 .. Len(<< >>) = {}
  BY SMT
<1> QED BY <1>1 DEF IsSeq, Ops

LEMMA SeqOfOne == ASSUME NEW x, "op" \in DOMAIN x PROVE IsSeq(<<x>>) /\ Ops(<<x>>) = {x.op}
<1>1. <<x>> \in Seq({x}) /\ Len(<<x>>) = 1 /\ <<x>>[1] = x /\ 1 .. 1 = {1}
  BY SMT
<1>2. IsSeq(<<x>>)
  <2> DEFINE S == {x}
  <2>1. <<x>> \in Seq(S) /\ \A z \in S : "op" \in DOMAIN z
    BY <1>1
  <2> HIDE DEF S
  <2> QED BY <2>1 DEF IsSeq
<1>3. Ops(<<x>>) = {<<x>>[i].op : i \in {1}}
  BY <1>1 DEF Ops
<1> QED BY <1>1, <1>2, <1>3

LEMMA SeqOfTwo ==
  ASSUME NEW x, NEW y, "op" \in DOMAIN x, "op" \in DOMAIN y
  PROVE  IsSeq(<<x, y>>) /\ Ops(<<x, y>>) = {x.op, y.op}
<1>1. <<x, y>> \in Seq({x, y}) /\ Len(<<x, y>>) = 2 /\ <<x, y>>[1] = x /\ <<x, y>>[2] = y
  BY SMT
<1>2. 1 .. 2 = {1, 2}
  BY SMT
<1>3. IsSeq(<<x, y>>)
  <2> DEFINE S == {x, y}
  <2>1. <<x, y>> \in Seq(S) /\ \A z \in S : "op" \in DOMAIN z
    BY <1>1
  <2> HIDE DEF S
  <2> QED BY <2>1 DEF IsSeq
<1>4. Ops(<<x, y>>) = {<<x, y>>[i].op : i \in {1, 2}}
  BY <1>1, <1>2 DEF Ops
<1> QED BY <1>1, <1>3, <1>4

LEMMA SeqOfConcat ==
  ASSUME NEW s, NEW t, IsSeq(s), IsSeq(t)
  PROVE  IsSeq(s \o t) /\ Ops(s \o t) = Ops(s) \cup Ops(t)
<1> PICK S : s \in Seq(S) /\ \A x \in S : "op" \in DOMAIN x
  BY DEF IsSeq
<1> PICK T : t \in Seq(T) /\ \A x \in T : "op" \in DOMAIN x
  BY DEF IsSeq
<1>1. s \in Seq(S \cup T) /\ t \in Seq(S \cup T)
  OBVIOUS
<1>2. s \o t \in Seq(S \cup T) /\ Len(s) \in Nat /\ Len(t) \in Nat /\ Len(s \o t) = Len(s) + Len(t)
  BY <1>1
<1>3. \A i \in 1 .. Len(s) + Len(t) : (s \o t)[i] = IF i <= Len(s) THEN s[i] ELSE t[i - Len(s)]
  BY <1>1
<1>4. Ops(s \o t) \subseteq Ops(s) \cup Ops(t)
  BY <1>2, <1>3, SMT DEF Ops
<1>5. Ops(s) \subseteq Ops(s \o t)
  BY <1>2, <1>3, SMT DEF Ops
<1>6. ASSUME NEW i \in 1 .. Len(t) PROVE t[i].op \in Ops(s \o t)
  <2>1. i + Len(s) \in 1 .. Len(s) + Len(t) /\ ~(i + Len(s) <= Len(s)) /\ (i + Len(s)) - Len(s) = i
    BY <1>2, SMT
  <2> QED BY <1>2, <1>3, <2>1 DEF Ops
<1> QED BY <1>2, <1>4, <1>5, <1>6 DEF IsSeq, Ops

LEMMA SeqOfTail ==
  ASSUME NEW t, IsSeq(t), t # << >>
  PROVE  /\ IsSeq(Tail(t)) /\ Ops(Tail(t)) \subseteq Ops(t)
         /\ Len(t) \in Nat \ {0} /\ Len(Tail(t)) = Len(t) - 1
         /\ \A i \in 1 .. Len(t) - 1 : Tail(t)[i] = t[i + 1]
<1> PICK T : t \in Seq(T) /\ \A x \in T : "op" \in DOMAIN x
  BY DEF IsSeq
<1>1. Tail(t) \in Seq(T) /\ Len(t) \in Nat \ {0} /\ Len(Tail(t)) = Len(t) - 1
  BY SMT
<1>2. \A i \in 1 .. Len(t) - 1 : Tail(t)[i] = t[i + 1] /\ i + 1 \in 1 .. Len(t)
  BY <1>1, SMT
<1> QED BY <1>1, <1>2 DEF IsSeq, Ops

(* Nothing but the main loop is below where a key is waited for.           *)
WaitsOverLoop(s) ==
  \A i, j \in 1 .. Len(s) : s[i].op = "wait" /\ i < j => s[j].op = "loop"

LEMMA TailWaits ==
  ASSUME NEW t, IsSeq(t), t # << >>, WaitsOverLoop(t)
  PROVE  WaitsOverLoop(Tail(t)) /\ (t[1].op = "wait" => Ops(Tail(t)) \subseteq {"loop"})
<1>1. /\ Len(t) \in Nat \ {0} /\ Len(Tail(t)) = Len(t) - 1
      /\ \A i \in 1 .. Len(t) - 1 : Tail(t)[i] = t[i + 1]
  BY SeqOfTail
<1>2. \A i \in 1 .. Len(t) - 1 : i + 1 \in 1 .. Len(t) /\ 1 < i + 1 /\ 1 \in 1 .. Len(t)
  BY <1>1, SMT
<1>3. WaitsOverLoop(Tail(t))
  BY <1>1, <1>2, SMT DEF WaitsOverLoop
<1>4. t[1].op = "wait" => Ops(Tail(t)) \subseteq {"loop"}
  BY <1>1, <1>2 DEF WaitsOverLoop, Ops
<1> QED BY <1>3, <1>4

LEMMA ConcatWaits ==
  ASSUME NEW s, NEW t, IsSeq(s), IsSeq(t), "wait" \notin Ops(s), WaitsOverLoop(t)
  PROVE  WaitsOverLoop(s \o t)
<1> PICK S : s \in Seq(S) /\ \A x \in S : "op" \in DOMAIN x
  BY DEF IsSeq
<1> PICK T : t \in Seq(T) /\ \A x \in T : "op" \in DOMAIN x
  BY DEF IsSeq
<1>1. s \in Seq(S \cup T) /\ t \in Seq(S \cup T)
  OBVIOUS
<1>2. Len(s) \in Nat /\ Len(t) \in Nat /\ Len(s \o t) = Len(s) + Len(t)
  BY <1>1
<1>3. \A i \in 1 .. Len(s) + Len(t) : (s \o t)[i] = IF i <= Len(s) THEN s[i] ELSE t[i - Len(s)]
  BY <1>1
<1> SUFFICES ASSUME NEW i \in 1 .. Len(s) + Len(t), NEW j \in 1 .. Len(s) + Len(t),
                    (s \o t)[i].op = "wait", i < j
             PROVE  (s \o t)[j].op = "loop"
  BY <1>2 DEF WaitsOverLoop
<1>4. ~(i <= Len(s))
  <2>1. i <= Len(s) => i \in 1 .. Len(s)
    BY <1>2, SMT
  <2> QED BY <1>3, <2>1 DEF Ops
<1>5. /\ ~(j <= Len(s)) /\ i - Len(s) \in 1 .. Len(t) /\ j - Len(s) \in 1 .. Len(t)
      /\ i - Len(s) < j - Len(s)
  BY <1>2, <1>4, SMT
<1> QED BY <1>3, <1>4, <1>5 DEF WaitsOverLoop

LEMMA SeqOfIf ==
  ASSUME NEW b, NEW s, IsSeq(s)
  PROVE  IsSeq(If(b, s)) /\ Ops(If(b, s)) \subseteq Ops(s) /\ (~b => Ops(If(b, s)) = {})
BY SeqOfNone DEF If

LEMMA NoWait == ASSUME NEW s, "wait" \notin Ops(s) PROVE WaitsOverLoop(s)
BY DEF WaitsOverLoop, Ops

LEMMA TopOfSeq ==
  ASSUME NEW t, IsSeq(t), t # << >>
  PROVE  t[1].op \in Ops(t) /\ "op" \in DOMAIN t[1]
<1> PICK T : t \in Seq(T) /\ \A x \in T : "op" \in DOMAIN x
  BY DEF IsSeq
<1>1. 1 \in 1 .. Len(t) /\ t[1] \in T
  BY SMT
<1> QED BY <1>1 DEF Ops

-------------------------------------------------------------------------------
(* The state the stacks are about.                                         *)
Kept ==
  /\ "auto" \in DOMAIN flags /\ "key" \in DOMAIN said
  /\ {"status", "disc"} \subseteq DOMAIN drive
  /\ drive.disc \in Discs \cup {NoDisc} /\ toc \in Discs \cup {NoDisc}
  /\ tracks \in [first : Nat, last : Nat, lastAudio : Nat] /\ tracks.first <= tracks.last

LEMMA InitKept == Init => Kept
BY SMT DEF Init, Kept, Rest

LEMMA TocKept ==
  ASSUME Kept, TocRead \/ TocEntryFails
  PROVE  toc' \in Discs /\ tracks' \in [first : Nat, last : Nat, lastAudio : Nat]
         /\ tracks'.first <= tracks'.last
<1>1. /\ toc # NoDisc \/ Loaded
      /\ toc' = IF toc = NoDisc THEN drive.disc ELSE toc
      /\ tracks' = [first |-> 1, last |-> Tracks[toc'], lastAudio |-> Tracks[toc']]
  BY Zenon DEF TocRead, TocEntryFails
<1>2. toc' \in Discs
  BY <1>1 DEF Kept, Loaded
<1>3. Tracks[toc'] \in 1 .. 98
  BY <1>2, CdPlayerAssumption
<1> QED BY <1>1, <1>2, <1>3

(* Only a key changes auto-mode and which key was pressed last.            *)
LEMMA OnlyKeys ==
  ASSUME Kept, Calls \/ Main \/ ByHand \/ HelpKey \/ ctrlc \/ PlayOn
  PROVE  said'.key = said.key /\ flags'.auto = flags.auto
<1>1. said'.key = said.key
  <2>1. said' = said \/ \E by, end : said' = [said EXCEPT !.by = by, !.end = end]
    BY Zenon DEF Calls, Main, ByHand, PlayOn, SubchannelRead, SubchannelFails,
      NoSubchannel, TocRead, TocFails, TocEntryFails, TocPlayed, PlayCall, StackOverflow, Clamp,
      Command, Pause, Resume, SkipCall, SkipClamp, SkipCommand, Stop, EjectCall, LetGo, CloseTray,
      Open, Option, StopOption, First, Loop, Finish, Timeout, HelpTimeout, HelpKey, ctrlc
  <2>2. ASSUME NEW by, NEW end, said' = [said EXCEPT !.by = by, !.end = end]
        PROVE  said'.key = said.key
    BY <2>2, SMT DEF Kept
  <2> QED BY <2>1, <2>2
<1>2. flags'.auto = flags.auto
  <2>1. \/ flags' = flags
        \/ \E b : flags' = [flags EXCEPT !.cd = b] \/ flags' = [flags EXCEPT !.sig = b]
        \/ flags' = [flags EXCEPT !.cd = TRUE, !.record = TRUE]
        \/ flags' = [flags EXCEPT !.cd = FALSE, !.record = FALSE]
    BY Zenon DEF Calls, Main, ByHand, PlayOn, SubchannelRead, SubchannelFails,
      NoSubchannel, TocRead, TocFails, TocEntryFails, TocPlayed, PlayCall, StackOverflow, Clamp,
      Command, Pause, Resume, SkipCall, SkipClamp, SkipCommand, Stop, EjectCall, LetGo, CloseTray,
      Open, Option, StopOption, First, Loop, Finish, Timeout, HelpTimeout, HelpKey, ctrlc
  <2>2. ASSUME NEW b, flags' = [flags EXCEPT !.cd = b] \/ flags' = [flags EXCEPT !.sig = b]
        PROVE  flags'.auto = flags.auto
    BY <2>2, SMT DEF Kept
  <2>3. ASSUME NEW b, flags' = [flags EXCEPT !.cd = b, !.record = b]
        PROVE  flags'.auto = flags.auto
    BY <2>3, SMT DEF Kept
  <2> QED BY <2>1, <2>2, <2>3, Zenon
<1> QED BY <1>1, <1>2

LEMMA NextKept == ASSUME Kept, Next PROVE Kept'
<1> USE DEF Kept
<1>1. CASE ByHand
  BY <1>1, SMT DEF ByHand, Rest
<1>2. CASE PlayOn
  BY <1>2, SMT DEF PlayOn, Rest
<1>3. CASE SubchannelRead \/ SubchannelFails \/ NoSubchannel
  BY <1>3, SMT DEF SubchannelRead, SubchannelFails, NoSubchannel
<1>4. CASE TocRead \/ TocEntryFails
  <2>1. /\ \/ flags' = [flags EXCEPT !.cd = TRUE, !.record = TRUE]
           \/ flags' = [flags EXCEPT !.cd = FALSE]
        /\ UNCHANGED <<drive, said>>
    BY <1>4, Zenon DEF TocRead, TocEntryFails
  <2> QED BY <1>4, <2>1, TocKept
<1>5. CASE TocFails
  BY <1>5, SMT DEF TocFails, NoTracks, InvalidTrack
<1>6. CASE TocPlayed \/ PlayCall \/ StackOverflow \/ Clamp \/ SkipCall \/ SkipClamp \/ EjectCall
  <2>1. UNCHANGED <<flags, said, drive, toc, tracks>>
    BY <1>6, Zenon DEF TocPlayed, PlayCall, StackOverflow, Clamp, SkipCall, SkipClamp, EjectCall
  <2> QED BY <2>1
<1>7. CASE Command \/ SkipCommand
  <2>1. /\ drive' = drive \/ \E from, end : Starts(from, end)
        /\ said' = said \/ \E by, end : said' = [said EXCEPT !.by = by, !.end = end]
    BY <1>7, Zenon DEF Command, SkipCommand
  <2>2. UNCHANGED <<flags, toc, tracks>>
    BY <1>7, Zenon DEF Command, SkipCommand
  <2>3. {"status", "disc"} \subseteq DOMAIN drive' /\ drive'.disc = drive.disc
    <3>1. ASSUME NEW from, NEW end, Starts(from, end) PROVE {"status", "disc"} \subseteq DOMAIN drive' /\ drive'.disc = drive.disc
      BY <3>1, SMT DEF Starts
    <3> QED BY <2>1, <3>1
  <2>4. "key" \in DOMAIN said'
    <3>1. ASSUME NEW by, NEW end, said' = [said EXCEPT !.by = by, !.end = end]
          PROVE  "key" \in DOMAIN said'
      BY <3>1, SMT
    <3> QED BY <2>1, <3>1
  <2> QED BY <2>2, <2>3, <2>4
<1>8. CASE Pause \/ Resume
  BY <1>8, SMT DEF Pause, Resume, Becomes
<1>10. CASE Stop
  BY <1>10, SMT DEF Stop, InvalidTrack, Rest
<1>11. CASE LetGo
  <2>1. /\ drive' = drive \/ drive' = Rest("none", drive.disc, "open")
        /\ flags' = [flags EXCEPT !.cd = FALSE] /\ UNCHANGED <<toc, tracks, said>>
    BY <1>11, Zenon DEF LetGo
  <2>2. {"status", "disc"} \subseteq DOMAIN drive' /\ drive'.disc = drive.disc
    BY <2>1, SMT DEF Rest
  <2> QED BY <2>1, <2>2, SMT
<1>12. CASE CloseTray
  BY <1>12, SMT DEF CloseTray
<1>13. CASE Main
  <2>1. UNCHANGED <<said, drive, toc, tracks>>
    BY <1>13, Zenon DEF Main, Open, Option, StopOption, First, Loop, Finish, Timeout, HelpTimeout
  <2>2. flags' = flags \/ \E b : flags' = [flags EXCEPT !.cd = b]
    BY <1>13, Zenon DEF Main, Open, Option, StopOption, First, Loop, Finish, Timeout, HelpTimeout
  <2> QED BY <2>1, <2>2, SMT
<1>14. CASE Key
  BY <1>14, SMT DEF Key
<1>15. CASE HelpKey \/ ctrlc
  BY <1>15, SMT DEF HelpKey, ctrlc
<1> QED
  BY <1>1, <1>2, <1>3, <1>4, <1>5, <1>6, <1>7, <1>8, <1>10, <1>11, <1>12, <1>13, <1>14, <1>15
  DEF Next, Calls, User

-------------------------------------------------------------------------------
(* The stack.  Nothing that plays is among what is left to do once the     *)
(* program is stopped.                                                     *)
Quiet == said.key = "stop" /\ ~flags.auto
QuietOps == {"stop", "loop", "toc", "toc played", "sub", "wait", "finish"}

StackQuiet ==
  /\ IsSeq(todo) /\ WaitsOverLoop(todo)
  /\ Quiet => Ops(todo) \subseteq QuietOps

LEMMA ThenQuiet ==
  ASSUME StackQuiet, todo # << >>, NEW ops, IsSeq(ops), "wait" \notin Ops(ops), Then(ops),
         Quiet' => Quiet /\ Ops(ops) \subseteq QuietOps
  PROVE  StackQuiet'
<1>1. IsSeq(Tail(todo)) /\ Ops(Tail(todo)) \subseteq Ops(todo) /\ WaitsOverLoop(Tail(todo))
  BY SeqOfTail, TailWaits DEF StackQuiet
<1>2. todo' = ops \o Tail(todo)
  BY DEF Then
<1>3. IsSeq(todo') /\ Ops(todo') = Ops(ops) \cup Ops(Tail(todo)) /\ WaitsOverLoop(todo')
  BY <1>1, <1>2, SeqOfConcat, ConcatWaits
<1> QED BY <1>1, <1>3 DEF StackQuiet

LEMMA RunningOp ==
  ASSUME StackQuiet, NEW op, Running(op)
  PROVE  todo # << >> /\ Top.op = op /\ op \in Ops(todo) /\ "op" \in DOMAIN Top
         /\ (Quiet => op \in QuietOps)
BY TopOfSeq DEF StackQuiet, Running, Top

LEMMA DoSeq ==
  ASSUME NEW op
  PROVE  IsSeq(<<Do(op)>>) /\ Ops(<<Do(op)>>) = {op} /\ "op" \in DOMAIN Do(op) /\ Do(op).op = op
<1>1. "op" \in DOMAIN Do(op) /\ Do(op).op = op
  BY SMT DEF Do
<1> QED BY <1>1, SeqOfOne

LEMMA DoTwo ==
  ASSUME NEW a, NEW b
  PROVE  IsSeq(<<Do(a), Do(b)>>) /\ Ops(<<Do(a), Do(b)>>) = {a, b}
<1> DEFINE x == Do(a)
           y == Do(b)
<1>1. "op" \in DOMAIN x /\ x.op = a /\ "op" \in DOMAIN y /\ y.op = b
  BY DoSeq
<1> HIDE DEF x, y
<1>2. IsSeq(<<x, y>>) /\ Ops(<<x, y>>) = {a, b}
  BY <1>1, SeqOfTwo
<1> QED BY <1>2 DEF x, y

LEMMA PlaySeq ==
  ASSUME NEW a, NEW b
  PROVE  IsSeq(<<Play(a, b)>>) /\ Ops(<<Play(a, b)>>) = {"play"}
<1>1. "op" \in DOMAIN Play(a, b) /\ Play(a, b).op = "play"
  BY SMT DEF Play
<1> QED BY <1>1, SeqOfOne

LEMMA ReadSeq == IsSeq(<<Read>>) /\ Ops(<<Read>>) = {"sub"} /\ "op" \in DOMAIN Read /\ Read.op = "sub"
BY DoSeq DEF Read

(* What is listed is as many readings of the subchannel as there are tracks *)
LEMMA LinesSeq == ASSUME Kept PROVE IsSeq(Lines) /\ Ops(Lines) \subseteq {"sub"}
<1> DEFINE n == tracks.last - tracks.first + 1
           s == [i \in 1 .. n |-> Read]
           S == {Read}
<1>1. n \in Nat
  BY SMT DEF Kept
<1> HIDE DEF n
<1>2. s \in Seq(S) /\ Len(s) = n /\ \A i \in 1 .. n : s[i] = Read
  BY <1>1, SMT
<1>3. \A x \in S : "op" \in DOMAIN x
  BY ReadSeq
<1> HIDE DEF S
<1>4. IsSeq(s) /\ Ops(s) \subseteq {"sub"}
  BY <1>2, <1>3, ReadSeq, Zenon DEF IsSeq, Ops
<1> QED BY <1>4, SeqOfIf DEF Lines, n

LEMMA DoneQuiet ==
  ASSUME StackQuiet, todo # << >>, Done, Quiet' => Quiet
  PROVE  StackQuiet'
BY SeqOfNone, ThenQuiet, Zenon DEF Done

LEMMA UsualQuiet ==
  ASSUME Kept, Calls \/ Main \/ ByHand \/ HelpKey \/ ctrlc \/ PlayOn
  PROVE  Quiet' <=> Quiet
BY OnlyKeys DEF Quiet

(* A step whose call is none of those of the stopped program.              *)
LEMMA BusyThen ==
  ASSUME StackQuiet, NEW op, Running(op), op \notin QuietOps, Quiet' => Quiet,
         NEW ops, IsSeq(ops), "wait" \notin Ops(ops), Then(ops)
  PROVE  StackQuiet'
BY RunningOp, ThenQuiet

(* The same call with another name.                                        *)
LEMMA AsSeq ==
  ASSUME NEW x, "op" \in DOMAIN x, NEW op
  PROVE  /\ "op" \in DOMAIN [x EXCEPT !.op = op] /\ [x EXCEPT !.op = op].op = op
         /\ IsSeq(<<[x EXCEPT !.op = op]>>) /\ Ops(<<[x EXCEPT !.op = op]>>) = {op}
         /\ IsSeq(<<Read, [x EXCEPT !.op = op]>>)
         /\ Ops(<<Read, [x EXCEPT !.op = op]>>) = {"sub", op}
<1>1. "op" \in DOMAIN [x EXCEPT !.op = op] /\ [x EXCEPT !.op = op].op = op
  BY SMT
<1> DEFINE y == [x EXCEPT !.op = op]
<1> HIDE DEF y
<1>2. "op" \in DOMAIN y /\ y.op = op
  BY <1>1 DEF y
<1>3. IsSeq(<<y>>) /\ Ops(<<y>>) = {op} /\ IsSeq(<<Read, y>>) /\ Ops(<<Read, y>>) = {"sub", op}
  BY <1>2, SeqOfOne, SeqOfTwo, ReadSeq
<1> QED BY <1>1, <1>3 DEF y

LEMMA CallsQuiet == ASSUME Kept, StackQuiet, Calls PROVE StackQuiet'
<1>1. Quiet' <=> Quiet
  BY UsualQuiet
<1>2. CASE SubchannelRead \/ SubchannelFails
  <2>1. Running("sub") /\ \E s : Then(If(EjectsOn(s), <<Do("eject")>>))
    BY <1>2, Zenon DEF SubchannelRead, SubchannelFails
  <2> PICK s : Then(If(EjectsOn(s), <<Do("eject")>>))
    BY <2>1
  <2>2. Quiet => ~EjectsOn(s)
    BY DEF Quiet, EjectsOn
  <2> QED BY <1>1, <2>1, <2>2, RunningOp, DoSeq, SeqOfIf, ThenQuiet
<1>3. CASE TocRead
  <2>1. Running("toc") /\ Then(<<Read, Do("toc played")>>)
    BY <1>3, Zenon DEF TocRead
  <2>2. /\ IsSeq(<<Read, Do("toc played")>>)
        /\ Ops(<<Read, Do("toc played")>>) = {"sub", "toc played"}
    BY DoTwo DEF Read
  <2> QED BY <1>1, <2>1, <2>2, RunningOp, ThenQuiet DEF QuietOps
<1>4. CASE TocPlayed
  <2>1. Running("toc played") /\ Then(If(PlaysItself, <<Play(1, LeadoutTrack)>>))
    BY <1>4, Zenon DEF TocPlayed
  <2> DEFINE ops == <<Play(1, LeadoutTrack)>>
  <2>2. Quiet => ~PlaysItself
    BY DEF Quiet, PlaysItself
  <2>3. IsSeq(ops) /\ Ops(ops) = {"play"}
    BY PlaySeq
  <2> HIDE DEF ops
  <2>4. /\ IsSeq(If(PlaysItself, ops)) /\ "wait" \notin Ops(If(PlaysItself, ops))
        /\ Quiet => Ops(If(PlaysItself, ops)) \subseteq QuietOps
    BY <2>2, <2>3, SeqOfIf
  <2>5. Then(If(PlaysItself, ops))
    BY <2>1 DEF ops
  <2>6. todo # << >>
    BY <2>1, RunningOp
  <2> QED BY <1>1, <2>4, <2>5, <2>6, ThenQuiet
<1>5. CASE PlayCall
  <2> DEFINE after == <<Read, [Top EXCEPT !.op = "clamp"]>>
             ops == If(~flags.cd, <<Do("toc")>>) \o after
  <2>1. Running("play") /\ Then(ops)
    BY <1>5, Zenon DEF PlayCall
  <2>2. IsSeq(ops) /\ "wait" \notin Ops(ops)
    <3>1. "op" \in DOMAIN Top
      BY <2>1, RunningOp
    <3>2. IsSeq(after) /\ Ops(after) = {"sub", "clamp"}
      BY <3>1, AsSeq
    <3> HIDE DEF after
    <3> QED BY <3>2, DoSeq, SeqOfIf, SeqOfConcat
  <2> QED BY <1>1, <2>1, <2>2, BusyThen DEF QuietOps
<1>6. CASE StackOverflow
  BY <1>6, SeqOfNone, NoWait DEF StackOverflow, StackQuiet
<1>7. CASE Clamp
  <2> DEFINE command == [op |-> "command", a |-> Clamped(Top.a), b |-> EndTrack(Top.b)]
             ops == If(flags.cd, If(sub.status = "play", <<Do("pause")>>) \o <<command>>)
  <2>1. Running("clamp") /\ Then(ops)
    BY <1>7, Zenon DEF Clamp
  <2>2. "op" \in DOMAIN command /\ command.op = "command"
    BY SMT
  <2> HIDE DEF command
  <2>3. IsSeq(ops) /\ "wait" \notin Ops(ops)
    BY <2>2, DoSeq, SeqOfOne, SeqOfIf, SeqOfConcat
  <2> QED BY <1>1, <2>1, <2>3, BusyThen DEF QuietOps
<1>8. CASE SkipCall
  <2>1. Running("skip") /\ Then(<<Read, [Top EXCEPT !.op = "skip clamp"]>>)
    BY <1>8, Zenon DEF SkipCall
  <2>2. "op" \in DOMAIN Top
    BY <2>1, RunningOp
  <2>3. /\ IsSeq(<<Read, [Top EXCEPT !.op = "skip clamp"]>>)
        /\ Ops(<<Read, [Top EXCEPT !.op = "skip clamp"]>>) = {"sub", "skip clamp"}
    BY <2>2, AsSeq
  <2>4. "wait" \notin {"sub", "skip clamp"} /\ "skip" \notin QuietOps
    BY DEF QuietOps
  <2> QED BY <1>1, <2>1, <2>3, <2>4, BusyThen
<1>9. CASE SkipClamp
  <2> DEFINE after == <<[Top EXCEPT !.op = "skip command"]>>
             pausing == If(sub.status = "play", <<Do("pause")>>)
             ops == If(flags.cd, pausing \o after)
  <2>1. Running("skip clamp") /\ Then(ops)
    BY <1>9, Zenon DEF SkipClamp
  <2>2. IsSeq(ops) /\ "wait" \notin Ops(ops)
    <3>1. "op" \in DOMAIN Top
      BY <2>1, RunningOp
    <3>2. IsSeq(after) /\ Ops(after) = {"skip command"}
      BY <3>1, AsSeq
    <3>3. IsSeq(pausing) /\ Ops(pausing) \subseteq {"pause"}
      BY DoSeq, SeqOfNone DEF If
    <3> HIDE DEF after, pausing
    <3>4. IsSeq(pausing \o after) /\ Ops(pausing \o after) = Ops(pausing) \cup Ops(after)
      BY <3>2, <3>3, SeqOfConcat
    <3>5. "wait" \notin Ops(pausing \o after)
      BY <3>2, <3>3, <3>4
    <3> QED BY <3>4, <3>5, SeqOfNone DEF If
  <2> QED BY <1>1, <2>1, <2>2, BusyThen DEF QuietOps
<1>10. CASE Stop
  <2>1. Running("stop") /\ (Then(If(flags.all, Lines)) \/ Done)
    BY <1>10, Zenon DEF Stop
  <2>2. IsSeq(If(flags.all, Lines)) /\ Ops(If(flags.all, Lines)) \subseteq {"sub"}
    BY LinesSeq, SeqOfIf
  <2> QED BY <1>1, <2>1, <2>2, RunningOp, ThenQuiet, DoneQuiet DEF QuietOps
<1>11. CASE EjectCall
  <2>1. Running("eject") /\ Then(If(cdio = "open", <<Do("stop"), Do("let go")>>))
    BY <1>11, Zenon DEF EjectCall
  <2>2. /\ IsSeq(<<Do("stop"), Do("let go")>>)
        /\ Ops(<<Do("stop"), Do("let go")>>) = {"stop", "let go"}
    BY DoTwo
  <2>3. /\ IsSeq(If(cdio = "open", <<Do("stop"), Do("let go")>>))
        /\ "wait" \notin Ops(If(cdio = "open", <<Do("stop"), Do("let go")>>))
    BY <2>2, SeqOfNone DEF If
  <2> QED BY <1>1, <2>1, <2>3, BusyThen DEF QuietOps
<1>12. CASE NoSubchannel \/ TocFails \/ TocEntryFails \/ Command \/ Pause \/ Resume
            \/ SkipCommand \/ LetGo \/ CloseTray
  <2>1. Done /\ \E op : Running(op)
    BY <1>12, Zenon DEF NoSubchannel, TocFails, TocEntryFails, Command, Pause, Resume,
      SkipCommand, LetGo, CloseTray
  <2> QED BY <1>1, <2>1, DoneQuiet DEF Running
<1> QED
  BY <1>2, <1>3, <1>4, <1>5, <1>6, <1>7, <1>8, <1>9, <1>10, <1>11, <1>12 DEF Calls

LEMMA MainQuiet == ASSUME Kept, StackQuiet, Main PROVE StackQuiet'
<1>1. Quiet' <=> Quiet
  BY UsualQuiet
<1>2. CASE Open
  <2> DEFINE again == [Top EXCEPT !.a = 1]
             ops == If(Top.a = 0 /\ said.option.op # "eject", <<Do("close"), again>>)
  <2>1. Running("open") /\ (Done \/ Then(ops))
    BY <1>2, Zenon DEF Open
  <2>2. "op" \in DOMAIN Top /\ Top.op = "open" /\ todo # << >>
    BY <2>1, RunningOp
  <2>3. "op" \in DOMAIN again /\ again.op = "open"
    BY <2>2, SMT
  <2> HIDE DEF again
  <2>4. IsSeq(<<Do("close"), again>>) /\ Ops(<<Do("close"), again>>) = {"close", "open"}
    <3> DEFINE closes == Do("close")
    <3>1. "op" \in DOMAIN closes /\ closes.op = "close"
      BY DoSeq
    <3> HIDE DEF closes
    <3>2. IsSeq(<<closes, again>>) /\ Ops(<<closes, again>>) = {"close", "open"}
      BY <2>3, <3>1, SeqOfTwo
    <3> QED BY <3>2 DEF closes
  <2>5. IsSeq(ops) /\ "wait" \notin Ops(ops)
    BY <2>4, SeqOfNone DEF If
  <2> QED BY <1>1, <2>1, <2>2, <2>5, DoneQuiet, BusyThen DEF QuietOps
<1>3. CASE Option
  <2> DEFINE reads == ReadsTable(Top)
             acts == If(cdio = "open", WithHandle(Top))
  <2>1. todo # << >> /\ Top.op \in OptionOps \ NoHandleOps /\ Then(reads \o acts)
    BY <1>3, Zenon DEF Option
  <2>2. IsSeq(reads) /\ Ops(reads) \subseteq {"toc"}
    BY DoSeq, SeqOfNone DEF ReadsTable, If
  <2>3. IsSeq(acts) /\ Ops(acts) \subseteq {"play", "sub"}
    BY PlaySeq, ReadSeq, SeqOfNone DEF WithHandle, If
  <2> HIDE DEF reads, acts
  <2>4. IsSeq(reads \o acts) /\ "wait" \notin Ops(reads \o acts)
    BY <2>2, <2>3, SeqOfConcat
  <2>5. Running(Top.op) /\ Top.op \notin QuietOps
    BY <2>1 DEF Running, OptionOps, NoHandleOps, QuietOps
  <2> QED BY <1>1, <2>1, <2>4, <2>5, BusyThen
<1>4. CASE StopOption
  <2>1. todo' = <<Do("stop"), Do("finish")>>
    BY <1>4, Zenon DEF StopOption
  <2>2. IsSeq(todo') /\ Ops(todo') = {"stop", "finish"}
    BY <2>1, DoTwo
  <2>3. WaitsOverLoop(todo')
    BY <2>2, NoWait
  <2> QED BY <2>2, <2>3, Zenon DEF StackQuiet, QuietOps
<1>5. CASE First
  <2> DEFINE plays == <<Play(1, LeadoutTrack)>>
             ops == If(sub.status \notin {"paused", "play"}, plays)
  <2>1. Running("first") /\ Then(ops)
    BY <1>5, Zenon DEF First
  <2>2. IsSeq(plays) /\ Ops(plays) = {"play"}
    BY PlaySeq
  <2> HIDE DEF plays
  <2>3. IsSeq(ops) /\ "wait" \notin Ops(ops)
    BY <2>2, SeqOfNone DEF If
  <2> QED BY <1>1, <2>1, <2>3, BusyThen DEF QuietOps
<1>6. CASE Loop
  <2> DEFINE stops == If(~flags.nostop, <<Do("stop")>>)
             reads == If(~flags.cd, <<Do("toc")>>)
             over == <<Do("wait"), Do("loop")>>
             rest == <<Read, Do("wait"), Do("loop")>>
  <2>1. todo' = stops \o <<Do("finish")>> \/ todo' = reads \o rest
    BY <1>6, Zenon DEF Loop
  <2>2. IsSeq(stops) /\ Ops(stops) \subseteq {"stop"} /\ IsSeq(reads) /\ Ops(reads) \subseteq {"toc"}
    BY DoSeq, SeqOfNone DEF If
  <2>3. IsSeq(over) /\ Ops(over) = {"wait", "loop"} /\ Len(over) = 2
        /\ over[1] = Do("wait") /\ over[2] = Do("loop")
    BY DoTwo
  <2>4. WaitsOverLoop(over)
    <3>1. Do("loop").op = "loop"
      BY DoSeq
    <3>2. \A i, j \in 1 .. 2 : i < j => j = 2
      BY SMT
    <3> HIDE DEF over
    <3> QED BY <2>3, <3>1, <3>2 DEF WaitsOverLoop
  <2>5. rest = <<Read>> \o over
    BY SMT
  <2> HIDE DEF stops, reads, over, rest
  <2>6. IsSeq(rest) /\ Ops(rest) = {"sub", "wait", "loop"} /\ WaitsOverLoop(rest)
    BY <2>3, <2>4, <2>5, ReadSeq, SeqOfConcat, ConcatWaits
  <2>7. /\ IsSeq(reads \o rest) /\ Ops(reads \o rest) \subseteq {"toc", "sub", "wait", "loop"}
        /\ WaitsOverLoop(reads \o rest)
    BY <2>2, <2>6, SeqOfConcat, ConcatWaits
  <2>8. /\ IsSeq(stops \o <<Do("finish")>>)
        /\ Ops(stops \o <<Do("finish")>>) \subseteq {"stop", "finish"}
    BY <2>2, DoSeq, SeqOfConcat
  <2>9. WaitsOverLoop(stops \o <<Do("finish")>>)
    BY <2>8, NoWait
  <2> QED BY <2>1, <2>7, <2>8, <2>9, Zenon DEF StackQuiet, QuietOps
<1>7. CASE Finish \/ Timeout
  <2>1. Done /\ \E op : Running(op)
    BY <1>7, Zenon DEF Finish, Timeout
  <2> QED BY <1>1, <2>1, DoneQuiet DEF Running
<1>8. CASE HelpTimeout
  <2>1. Running("help") /\ (todo' = <<Read>> \o todo \/ todo' = << >> \/ todo' = todo)
    BY <1>8, Zenon DEF HelpTimeout
  <2>2. ~Quiet
    <3>1. "help" \notin QuietOps
      BY DEF QuietOps
    <3> QED BY <2>1, <3>1, RunningOp
  <2>3. IsSeq(<<Read>> \o todo) /\ WaitsOverLoop(<<Read>> \o todo)
    BY ReadSeq, SeqOfConcat, ConcatWaits DEF StackQuiet
  <2> QED BY <1>1, <2>1, <2>2, <2>3, SeqOfNone, NoWait DEF StackQuiet
<1> QED BY <1>2, <1>3, <1>4, <1>5, <1>6, <1>7, <1>8 DEF Main

(* A key: what is left to do below it is the loop.  The key that stops     *)
(* calls cd_stop alone.                                                    *)
LEMMA KeySeq ==
  ASSUME Kept, NEW k \in Keys
  PROVE  /\ IsSeq(KeyCalls(k)) /\ "wait" \notin Ops(KeyCalls(k))
         /\ k.op = "stop" => Ops(KeyCalls(k)) = {"stop"}
<1>1. "op" \in DOMAIN k /\ k.op \in STRING
  BY CdPlayerAssumption, SMT
<1>2. CASE k.op \in {"eject", "stop", "close"}
  <2>1. KeyCalls(k) = <<Do(k.op)>>
    BY <1>2 DEF KeyCalls
  <2> QED BY <1>2, <2>1, DoSeq
<1>3. CASE k.op = "list"
  <2>1. KeyCalls(k) = If(~flags.all, Lines)
    BY <1>3 DEF KeyCalls
  <2> QED BY <1>3, <2>1, LinesSeq, SeqOfNone DEF If
<1>4. CASE k.op = "help"
  <2> DEFINE x == [Do("help") EXCEPT !.a = IF cdio = "open" THEN 1 ELSE 0]
  <2>1. KeyCalls(k) = <<x>>
    BY <1>4 DEF KeyCalls
  <2>2. "op" \in DOMAIN x /\ x.op = "help"
    BY SMT DEF Do
  <2> HIDE DEF x
  <2>3. IsSeq(<<x>>) /\ Ops(<<x>>) = {"help"}
    BY <2>2, SeqOfOne
  <2> QED BY <1>4, <2>1, <2>3
<1>5. CASE k.op = "pause"
  <2>1. \E op \in {"resume", "pause"} : KeyCalls(k) = If(flags.cd, <<Do(op)>>)
    BY <1>5 DEF KeyCalls
  <2> QED BY <1>5, <2>1, DoSeq, SeqOfNone DEF If
<1>6. CASE k.op \in {"next", "previous", "jump"}
  <2>1. KeyCalls(k) = << >> \/ \E a : KeyCalls(k) = <<Play(a, LeadoutTrack)>>
    BY <1>6 DEF KeyCalls, If
  <2> QED BY <1>6, <2>1, PlaySeq, SeqOfNone
<1>7. CASE k.op = "skip"
  <2>1. KeyCalls(k) = << >> \/ KeyCalls(k) = <<k>>
    BY <1>7 DEF KeyCalls, If
  <2> QED BY <1>1, <1>7, <2>1, SeqOfOne, SeqOfNone
<1>8. CASE k.op \notin {"eject", "stop", "close", "list", "help", "pause", "next", "previous",
                       "skip", "jump"}
  <2>1. KeyCalls(k) = << >>
    BY <1>8 DEF KeyCalls
  <2> QED BY <1>8, <2>1, SeqOfNone
<1> QED BY <1>2, <1>3, <1>4, <1>5, <1>6, <1>7, <1>8

LEMMA KeyQuiet == ASSUME Kept, StackQuiet, Key PROVE StackQuiet'
<1> PICK k \in Keys : Then(KeyCalls(k)) /\ said' = [said EXCEPT !.key = k.op]
  BY Zenon DEF Key
<1>1. said'.key = k.op
  BY SMT DEF Kept
<1>2. Running("wait")
  BY Zenon DEF Key
<1>3. todo # << >> /\ todo[1].op = "wait"
  BY <1>2 DEF Running, Top
<1>4. /\ IsSeq(Tail(todo)) /\ WaitsOverLoop(Tail(todo)) /\ Ops(Tail(todo)) \subseteq {"loop"}
  BY <1>3, SeqOfTail, TailWaits DEF StackQuiet
<1> DEFINE calls == KeyCalls(k)
<1>5. IsSeq(calls) /\ "wait" \notin Ops(calls) /\ (k.op = "stop" => Ops(calls) = {"stop"})
  BY KeySeq
<1>6. todo' = calls \o Tail(todo)
  BY DEF Then
<1> HIDE DEF calls
<1>7. IsSeq(todo') /\ WaitsOverLoop(todo') /\ Ops(todo') = Ops(calls) \cup Ops(Tail(todo))
  BY <1>4, <1>5, <1>6, SeqOfConcat, ConcatWaits
<1>8. Quiet' => Ops(calls) = {"stop"}
  BY <1>1, <1>5 DEF Quiet
<1> QED BY <1>4, <1>7, <1>8 DEF StackQuiet, QuietOps

LEMMA NextQuiet == ASSUME Kept, StackQuiet, Next PROVE StackQuiet'
<1>1. CASE HelpKey
  <2>1. Done /\ todo # << >>
    BY <1>1, Zenon DEF HelpKey, Running
  <2> QED BY <1>1, <2>1, UsualQuiet, DoneQuiet
<1>2. CASE ByHand \/ ctrlc \/ PlayOn
  <2>1. todo' = todo
    BY <1>2, Zenon DEF ByHand, ctrlc, PlayOn
  <2> QED BY <1>2, <2>1, UsualQuiet DEF StackQuiet
<1> QED BY <1>1, <1>2, CallsQuiet, MainQuiet, KeyQuiet DEF Next, User

LEMMA InitQuiet == Init => StackQuiet
<1> SUFFICES ASSUME Init PROVE StackQuiet
  OBVIOUS
<1> PICK o \in Options : todo = Start(o) /\ said = [option |-> o, key |-> "none", by |-> "none", end |-> 0]
  BY Zenon DEF Init
<1>1. ~Quiet
  BY SMT DEF Quiet
<1> DEFINE opens == If(o.op # "close", <<Do("open")>>)
           option == IF o.op = "stop" THEN Do("stop option") ELSE o
           rest == <<Do("first"), Do("loop")>>
<1>2. IsSeq(opens) /\ Ops(opens) \subseteq {"open"}
  BY DoSeq, SeqOfNone DEF If
<1>3. "op" \in DOMAIN option /\ option.op # "wait"
  BY OptionAssumption, DoSeq DEF OptionOps
<1>4. IsSeq(rest) /\ Ops(rest) = {"first", "loop"}
  BY DoTwo
<1>5. todo = opens \o (<<option, Read>> \o rest)
  <2>1. todo = opens \o <<option, Read, Do("first"), Do("loop")>>
    BY Zenon DEF Start
  <2> DEFINE reads == Read
             first == Do("first")
             loop == Do("loop")
  <2> HIDE DEF opens, option, reads, first, loop
  <2>2. <<option, reads, first, loop>> = <<option, reads>> \o <<first, loop>>
    BY SMT
  <2> QED BY <2>1, <2>2 DEF reads, first, loop
<1> HIDE DEF opens, option, rest
<1>6. IsSeq(<<option, Read>>) /\ "wait" \notin Ops(<<option, Read>>)
  BY <1>3, ReadSeq, SeqOfTwo
<1> DEFINE after == <<option, Read>> \o rest
<1>7. IsSeq(after) /\ "wait" \notin Ops(after)
  BY <1>4, <1>6, SeqOfConcat
<1>8. todo = opens \o after
  BY <1>5
<1> HIDE DEF after
<1>9. IsSeq(todo) /\ Ops(todo) = Ops(opens) \cup Ops(after)
  BY <1>2, <1>7, <1>8, SeqOfConcat
<1> QED BY <1>1, <1>2, <1>7, <1>9, NoWait DEF StackQuiet

-------------------------------------------------------------------------------
(* What starts the drive is not among the calls of the stopped program.    *)
LEMMA QuietStep ==
  ASSUME Kept, StackQuiet, Next, Quiet, drive.status # "play"
  PROVE  drive'.status # "play"
<1>1. ~(Command \/ SkipCommand \/ Resume)
  <2>1. ASSUME NEW op \in {"command", "skip command", "resume"} PROVE ~Running(op)
    BY RunningOp DEF QuietOps
  <2> QED BY <2>1 DEF Command, SkipCommand, Resume
<1>2. CASE drive' = drive
  BY <1>2
<1>3. CASE \E disc, tray : drive' = Rest("none", disc, tray) \/ drive' = Rest("completed", disc, tray)
  BY <1>3, SMT DEF Rest
<1>4. CASE Pause \/ CloseTray
  BY <1>4, SMT DEF Pause, CloseTray, Becomes, Kept
<1>5. \/ drive' = drive \/ Pause \/ CloseTray
      \/ \E disc, tray : drive' = Rest("none", disc, tray) \/ drive' = Rest("completed", disc, tray)
  BY <1>1, Zenon DEF Next, Calls, Main, User, ByHand, PlayOn, SubchannelRead, SubchannelFails,
    NoSubchannel, TocRead, TocFails, TocEntryFails, TocPlayed, PlayCall, StackOverflow, Clamp,
    SkipCall, SkipClamp, Stop, EjectCall, LetGo, Open, Option, StopOption, First, Loop,
    Finish, Timeout, HelpTimeout, Key, HelpKey, ctrlc
<1> QED BY <1>2, <1>3, <1>4, <1>5

(* Once the user has stopped the CD and no key was pressed since, and      *)
(* auto-mode is off, nothing starts it again (the operations that main's   *)
(* loop calls): with any discs, any keys and any number of failures.       *)
THEOREM StaysStopped == Spec => QuietOnceStopped
<1>1. Init => Kept /\ StackQuiet
  BY InitKept, InitQuiet
<1>2. Kept /\ StackQuiet /\ [Next]_vars => (Kept /\ StackQuiet)'
  <2>1. Kept /\ StackQuiet /\ UNCHANGED vars => (Kept /\ StackQuiet)'
    BY DEF Kept, StackQuiet, Quiet, vars
  <2> QED BY <2>1, NextKept, NextQuiet
<1>3. /\ Kept /\ StackQuiet /\ [Next]_vars
      => [said.key = "stop" /\ said'.key = "stop" /\ ~flags.auto /\ drive.status # "play"
          => drive.status' # "play"]_vars
  BY QuietStep DEF Quiet
<1> QED BY <1>1, <1>2, <1>3, PTL DEF Spec, QuietOnceStopped

-------------------------------------------------------------------------------
(* What plays, plays to the leadout.  The numbers a play command is given  *)
(* wait on the stack while the table is read, so the invariant is about    *)
(* the stack once more (Asked): a play goes to the array's last entry, and *)
(* a command that was clamped names entries of the table, or one past the  *)
(* array after a stop.  They are clamped by what flags.cd vouches for      *)
(* (Vouched).                                                              *)
Asked(e, d) ==
  /\ e.op \notin {"track", "stop option"}
  /\ e.op \in {"play", "clamp"} => /\ {"a", "b"} \subseteq DOMAIN e
                                   /\ e.a \in Int /\ e.b = LeadoutTrack
  /\ e.op = "command"
     => /\ d # NoDisc
        /\ \/ e.b \in Int /\ e.b > LeadoutTrack
           \/ e.a \in 1 .. Tracks[d] /\ e.b = Tracks[d] + 1
AllAsked(s, d) == \A i \in 1 .. Len(s) : Asked(s[i], d)

Vouched ==
  flags.cd => /\ toc # NoDisc /\ tracks.first = 1
              /\ tracks.lastAudio \in {Tracks[toc], InvalidTrack}

Placed ==
  /\ "cd" \in DOMAIN flags /\ {"by", "end", "option"} \subseteq DOMAIN said
  /\ {"pos", "from", "end"} \subseteq DOMAIN drive /\ drive.pos \in Int
  /\ sub.pos \in Int /\ sub.track \in Int

ToTheLeadout ==
  ~EndsOtherwise(said.option)
  => /\ Vouched /\ AllAsked(todo, toc)
     /\ said.by = "play" => toc # NoDisc
     /\ PlaysToTheLeadout

LEMMA PositionIsInt == ASSUME Kept, NEW n PROVE Position(n) \in Int
<1>1. CASE toc # NoDisc /\ n \in 1 .. Tracks[toc] + 1
  <2>1. toc \in Discs /\ Tracks[toc] \in 1 .. 98 /\ Length \in Nat
    BY <1>1, CdPlayerAssumption DEF Kept
  <2>2. n \in Int
    BY <1>1, <2>1, SMT
  <2> QED BY <1>1, <2>1, <2>2, SMT DEF Position
<1>2. CASE ~(toc # NoDisc /\ n \in 1 .. Tracks[toc] + 1)
  BY <1>2, SMT DEF Position
<1> QED BY <1>1, <1>2

(* What stays as it is.                                                    *)
LEMMA SaidKept ==
  ASSUME Kept, Placed, Next
  PROVE  /\ {"by", "end", "option"} \subseteq DOMAIN said' /\ said'.option = said.option
         /\ ~(Command \/ SkipCommand) => said'.by = said.by /\ said'.end = said.end
<1>1. \/ said' = said
      \/ \E k : said' = [said EXCEPT !.key = k]
      \/ (Command \/ SkipCommand) /\ \E by, end : said' = [said EXCEPT !.by = by, !.end = end]
  BY Zenon DEF Next, Calls, Main, User, ByHand, PlayOn, SubchannelRead, SubchannelFails,
    NoSubchannel, TocRead, TocFails, TocEntryFails, TocPlayed, PlayCall, StackOverflow, Clamp,
    Command, Pause, Resume, SkipCall, SkipClamp, SkipCommand, Stop, EjectCall, LetGo, CloseTray,
    Open, Option, StopOption, First, Loop, Finish, Timeout, HelpTimeout, Key, HelpKey, ctrlc
<1>2. ASSUME NEW k, said' = [said EXCEPT !.key = k]
      PROVE  {"by", "end", "option"} \subseteq DOMAIN said' /\ said'.option = said.option
             /\ said'.by = said.by /\ said'.end = said.end
  BY <1>2, SMT DEF Placed
<1>3. ASSUME NEW by, NEW end, said' = [said EXCEPT !.by = by, !.end = end]
      PROVE  {"by", "end", "option"} \subseteq DOMAIN said' /\ said'.option = said.option
  BY <1>3, SMT DEF Placed
<1> QED BY <1>1, <1>2, <1>3, Zenon DEF Placed

LEMMA TableKept == ASSUME Next, toc # NoDisc PROVE toc' = toc
BY Zenon DEF Next, Calls, Main, User, ByHand, PlayOn, SubchannelRead, SubchannelFails,
  NoSubchannel, TocRead, TocFails, TocEntryFails, TocPlayed, PlayCall, StackOverflow, Clamp,
  Command, Pause, Resume, SkipCall, SkipClamp, SkipCommand, Stop, EjectCall, LetGo, CloseTray,
  Open, Option, StopOption, First, Loop, Finish, Timeout, HelpTimeout, Key, HelpKey, ctrlc

(* The ways the drive changes, with what that leaves of where it plays.    *)
LEMMA DriveSteps ==
  ASSUME Kept, Placed, Next
  PROVE  \/ drive' = drive /\ (Command \/ SkipCommand => said' = said)
         \/ PlayOn \/ Pause \/ Resume \/ CloseTray
         \/ \E disc, tray : drive' = Rest("none", disc, tray)
         \/ Command /\ \E end \in Ends(Top.b) :
              /\ Starts(Position(Top.a), end)
              /\ said' = [said EXCEPT !.by = "play", !.end = Top.b]
         \/ SkipCommand /\ \E end, from :
              /\ from = sub.pos + 1 \/ from = Larger(sub.pos - 1, 0)
              /\ Starts(from, end) /\ said' = [said EXCEPT !.by = "skip", !.end = 0]
<1>1. CASE Command
  BY <1>1, Zenon DEF Command
<1>2. CASE SkipCommand
  BY <1>2, Zenon DEF SkipCommand
<1>3. CASE ~Command /\ ~SkipCommand
  BY <1>3, Zenon DEF Next, Calls, Main, User, ByHand, SubchannelRead, SubchannelFails,
    NoSubchannel, TocRead, TocFails, TocEntryFails, TocPlayed, PlayCall, StackOverflow, Clamp,
    SkipCall, SkipClamp, Stop, EjectCall, LetGo,
    Open, Option, StopOption, First, Loop, Finish, Timeout, HelpTimeout, Key, HelpKey, ctrlc
<1> QED BY <1>1, <1>2, <1>3

LEMMA NextPlaced == ASSUME Kept, Placed, Next PROVE Placed'
<1>1. "cd" \in DOMAIN flags'
  <2>1. \/ flags' = flags
        \/ \E b, c : \/ flags' = [flags EXCEPT !.cd = b] \/ flags' = [flags EXCEPT !.sig = b]
                     \/ flags' = [flags EXCEPT !.cd = b, !.record = b]
                     \/ flags' = [flags EXCEPT !.auto = b] \/ flags' = [flags EXCEPT !.all = b]
                     \/ flags' = [flags EXCEPT !.sig = b, !.nostop = c]
    <3>1. CASE Key
      <4> PICK k \in Keys :
            flags' = CASE k.op = "auto" -> [flags EXCEPT !.auto = ~@]
                       [] k.op = "list" -> [flags EXCEPT !.all = ~@]
                       [] k.op = "quit" -> [flags EXCEPT !.sig = TRUE, !.nostop = @ \/ k.a = 1]
                       [] OTHER -> flags
        BY <3>1, Zenon DEF Key
      <4>1. CASE k.op = "auto"
        BY <4>1, Zenon
      <4>2. CASE k.op = "list"
        BY <4>2, Zenon
      <4>3. CASE k.op = "quit"
        BY <4>3, Zenon
      <4>4. CASE k.op \notin {"auto", "list", "quit"}
        BY <4>4, Zenon
      <4> QED BY <4>1, <4>2, <4>3, <4>4, Zenon
    <3>2. CASE TocRead \/ TocFails
      BY <3>2, Zenon DEF TocRead, TocFails
    <3>3. CASE ~(Key \/ TocRead \/ TocFails)
      BY <3>3, Zenon DEF Next, Calls, Main, User, ByHand, PlayOn, SubchannelRead, SubchannelFails,
        NoSubchannel, TocEntryFails, TocPlayed, PlayCall, StackOverflow, Clamp,
        Command, Pause, Resume, SkipCall, SkipClamp, SkipCommand, Stop, EjectCall, LetGo, CloseTray,
        Open, Option, StopOption, First, Loop, Finish, Timeout, HelpTimeout, HelpKey, ctrlc
    <3> QED BY <3>1, <3>2, <3>3, Zenon
  <2>2. ASSUME NEW b, NEW c,
               \/ flags' = [flags EXCEPT !.cd = b] \/ flags' = [flags EXCEPT !.sig = b]
               \/ flags' = [flags EXCEPT !.cd = b, !.record = b]
               \/ flags' = [flags EXCEPT !.auto = b] \/ flags' = [flags EXCEPT !.all = b]
               \/ flags' = [flags EXCEPT !.sig = b, !.nostop = c]
        PROVE  "cd" \in DOMAIN flags'
    BY <2>2, Zenon DEF Placed
  <2> QED BY <2>1, <2>2, Zenon DEF Placed
<1>2. {"pos", "from", "end"} \subseteq DOMAIN drive' /\ drive'.pos \in Int
  <2>1. ASSUME NEW from \in Int, NEW end, Starts(from, end)
        PROVE  {"pos", "from", "end"} \subseteq DOMAIN drive' /\ drive'.pos \in Int
    BY <2>1, SMT DEF Starts, Placed
  <2>2. CASE PlayOn \/ Pause \/ Resume \/ CloseTray
    BY <2>2, SMT DEF PlayOn, Pause, Resume, CloseTray, Becomes, Rest, Placed
  <2>3. CASE \E disc, tray : drive' = Rest("none", disc, tray)
    BY <2>3, SMT DEF Rest
  <2>4. sub.pos + 1 \in Int /\ Larger(sub.pos - 1, 0) \in Int
    BY SMT DEF Larger, Placed
  <2> QED BY <2>1, <2>2, <2>3, <2>4, DriveSteps, PositionIsInt DEF Placed
<1>3. sub'.pos \in Int /\ sub'.track \in Int
  <2>1. sub' = sub \/ sub' = Seen
    BY Zenon DEF Next, Calls, Main, User, ByHand, PlayOn, SubchannelRead, SubchannelFails,
      NoSubchannel, TocRead, TocFails, TocEntryFails, TocPlayed, PlayCall, StackOverflow, Clamp,
      Command, Pause, Resume, SkipCall, SkipClamp, SkipCommand, Stop, EjectCall, LetGo, CloseTray,
      Open, Option, StopOption, First, Loop, Finish, Timeout, HelpTimeout, Key, HelpKey, ctrlc
  <2>2. Seen.pos \in Int /\ Seen.track \in Int
    <3>1. Length \in Nat \ {0} /\ drive.pos \in Int
      BY CdPlayerAssumption DEF Placed
    <3>2. drive.pos \div Length \in Int
      BY <3>1, SMT
    <3> QED BY <3>1, <3>2, SMT DEF Seen, TrackAt
  <2> QED BY <2>1, <2>2 DEF Placed
<1> QED BY <1>1, <1>2, <1>3, SaidKept DEF Placed

(* Stacks of calls that ask for that.                                      *)
PlayingOps == {"track", "stop option", "play", "clamp", "command"}

LEMMA PlainAsked ==
  ASSUME NEW s, NEW d, Ops(s) \cap PlayingOps = {}
  PROVE  AllAsked(s, d)
<1> SUFFICES ASSUME NEW i \in 1 .. Len(s) PROVE Asked(s[i], d)
  BY DEF AllAsked
<1>1. s[i].op \notin PlayingOps
  BY DEF Ops
<1> QED BY <1>1 DEF Asked, PlayingOps

LEMMA OneAsked == ASSUME NEW x, NEW d, Asked(x, d) PROVE AllAsked(<<x>>, d)
<1>1. Len(<<x>>) = 1 /\ <<x>>[1] = x /\ 1 .. 1 = {1}
  BY SMT
<1> QED BY <1>1 DEF AllAsked

LEMMA ConcatAsked ==
  ASSUME NEW s, NEW t, NEW d, IsSeq(s), IsSeq(t), AllAsked(s, d), AllAsked(t, d)
  PROVE  AllAsked(s \o t, d)
<1> PICK S : s \in Seq(S) /\ \A x \in S : "op" \in DOMAIN x
  BY DEF IsSeq
<1> PICK T : t \in Seq(T) /\ \A x \in T : "op" \in DOMAIN x
  BY DEF IsSeq
<1>1. s \in Seq(S \cup T) /\ t \in Seq(S \cup T)
  OBVIOUS
<1>2. Len(s) \in Nat /\ Len(t) \in Nat /\ Len(s \o t) = Len(s) + Len(t)
  BY <1>1
<1>3. \A i \in 1 .. Len(s) + Len(t) : (s \o t)[i] = IF i <= Len(s) THEN s[i] ELSE t[i - Len(s)]
  BY <1>1
<1> SUFFICES ASSUME NEW i \in 1 .. Len(s) + Len(t) PROVE Asked((s \o t)[i], d)
  BY <1>2 DEF AllAsked
<1>4. CASE i <= Len(s)
  <2>1. i \in 1 .. Len(s)
    BY <1>2, <1>4, SMT
  <2> QED BY <1>3, <1>4, <2>1 DEF AllAsked
<1>5. CASE ~(i <= Len(s))
  <2>1. i - Len(s) \in 1 .. Len(t)
    BY <1>2, <1>5, SMT
  <2> QED BY <1>3, <1>5, <2>1 DEF AllAsked
<1> QED BY <1>4, <1>5

LEMMA TailAsked ==
  ASSUME NEW t, NEW d, IsSeq(t), t # << >>, AllAsked(t, d)
  PROVE  AllAsked(Tail(t), d) /\ Asked(t[1], d)
<1>1. /\ Len(t) \in Nat \ {0} /\ Len(Tail(t)) = Len(t) - 1
      /\ \A i \in 1 .. Len(t) - 1 : Tail(t)[i] = t[i + 1]
  BY SeqOfTail
<1>2. 1 \in 1 .. Len(t) /\ \A i \in 1 .. Len(t) - 1 : i + 1 \in 1 .. Len(t)
  BY <1>1, SMT
<1> QED BY <1>1, <1>2 DEF AllAsked

LEMMA IfAsked ==
  ASSUME NEW b, NEW s, NEW d, b => AllAsked(s, d)
  PROVE  AllAsked(If(b, s), d)
<1>1. AllAsked(<< >>, d)
  BY SeqOfNone, PlainAsked
<1> QED BY <1>1 DEF If

(* The disc whose table is kept is not changed for another one.            *)
LEMMA LaterAsked ==
  ASSUME NEW s, NEW d, NEW e, AllAsked(s, d), d # NoDisc => e = d
  PROVE  AllAsked(s, e)
<1>1. CASE d # NoDisc
  BY <1>1
<1>2. CASE d = NoDisc
  BY <1>2 DEF AllAsked, Asked
<1> QED BY <1>1, <1>2

LEMMA ThenAsked ==
  ASSUME IsSeq(todo), todo # << >>, AllAsked(todo, toc), toc # NoDisc => toc' = toc,
         NEW ops, IsSeq(ops), AllAsked(ops, toc'), Then(ops)
  PROVE  AllAsked(todo', toc')
<1>1. IsSeq(Tail(todo)) /\ AllAsked(Tail(todo), toc)
  BY SeqOfTail, TailAsked
<1>2. AllAsked(Tail(todo), toc')
  BY <1>1, LaterAsked
<1> QED BY <1>1, <1>2, ConcatAsked DEF Then

LEMMA PlainThen ==
  ASSUME IsSeq(todo), todo # << >>, AllAsked(todo, toc), toc # NoDisc => toc' = toc,
         NEW ops, IsSeq(ops), Ops(ops) \cap PlayingOps = {}, Then(ops)
  PROVE  AllAsked(todo', toc')
BY PlainAsked, ThenAsked

LEMMA PlayAsked ==
  ASSUME NEW a \in Int, NEW d
  PROVE  IsSeq(<<Play(a, LeadoutTrack)>>) /\ AllAsked(<<Play(a, LeadoutTrack)>>, d)
<1> DEFINE x == Play(a, LeadoutTrack)
<1>1. x.op = "play" /\ {"op", "a", "b"} \subseteq DOMAIN x /\ x.a = a /\ x.b = LeadoutTrack
  BY SMT DEF Play
<1> HIDE DEF x
<1>2. Asked(x, d)
  BY <1>1 DEF Asked
<1>3. IsSeq(<<x>>)
  BY <1>1, SeqOfOne
<1> QED BY <1>2, <1>3, OneAsked DEF x

(* What the clamp makes of a play to the array's last entry.               *)
LEMMA ClampAsked ==
  ASSUME Kept, Vouched, flags.cd, NEW a \in Int
  PROVE  Asked([op |-> "command", a |-> Clamped(a), b |-> EndTrack(LeadoutTrack)], toc)
<1> DEFINE n == Tracks[toc]
           last == tracks.lastAudio
<1>1. toc # NoDisc /\ n \in 1 .. 98 /\ tracks.first = 1 /\ last \in {n, 255}
  BY CdPlayerAssumption DEF Kept, Vouched, InvalidTrack
<1>2. CASE last = n
  <2>1. Clamped(a) \in 1 .. n /\ EndTrack(LeadoutTrack) = n + 1
    <3> HIDE DEF n
    <3> QED BY <1>1, <1>2, SMT DEF Clamped, EndTrack, Smaller, Larger, LeadoutTrack
  <2> HIDE DEF n
  <2> DEFINE e == [op |-> "command", a |-> Clamped(a), b |-> EndTrack(LeadoutTrack)]
  <2>2. e.op = "command" /\ e.a = Clamped(a) /\ e.b = EndTrack(LeadoutTrack)
    BY SMT
  <2> HIDE DEF e
  <2>3. Asked(e, toc)
    BY <1>1, <2>1, <2>2 DEF Asked, n
  <2> QED BY <2>3 DEF e
<1>3. CASE last = 255
  <2>1. EndTrack(LeadoutTrack) \in Int /\ EndTrack(LeadoutTrack) > LeadoutTrack
    BY <1>1, <1>3, SMT DEF Clamped, EndTrack, Smaller, Larger, LeadoutTrack
  <2> DEFINE e == [op |-> "command", a |-> Clamped(a), b |-> EndTrack(LeadoutTrack)]
  <2>2. e.op = "command" /\ e.b = EndTrack(LeadoutTrack)
    BY SMT
  <2> HIDE DEF e
  <2>3. Asked(e, toc)
    BY <1>1, <2>1, <2>2 DEF Asked
  <2> QED BY <2>3 DEF e
<1> QED BY <1>1, <1>2, <1>3

LEMMA DoAsked ==
  ASSUME NEW op, op \notin PlayingOps, NEW b, NEW d
  PROVE  /\ IsSeq(<<Do(op)>>) /\ AllAsked(<<Do(op)>>, d)
         /\ IsSeq(If(b, <<Do(op)>>)) /\ AllAsked(If(b, <<Do(op)>>), d)
<1> DEFINE s == <<Do(op)>>
<1>1. IsSeq(s) /\ Ops(s) = {op}
  BY DoSeq
<1> HIDE DEF s
<1>2. AllAsked(s, d)
  BY <1>1, PlainAsked
<1>3. IsSeq(If(b, s)) /\ AllAsked(If(b, s), d)
  BY <1>1, <1>2, SeqOfIf, IfAsked
<1> QED BY <1>1, <1>2, <1>3 DEF s

LEMMA CallsAsked ==
  ASSUME Kept, StackQuiet, Placed, Vouched, AllAsked(todo, toc), Calls
  PROVE  AllAsked(todo', toc')
<1>1. IsSeq(todo) /\ (toc # NoDisc => toc' = toc)
  BY TableKept DEF StackQuiet, Next
<1>2. CASE SubchannelRead \/ SubchannelFails
  <2> PICK s : Then(If(EjectsOn(s), <<Do("eject")>>))
    BY <1>2, Zenon DEF SubchannelRead, SubchannelFails
  <2>1. todo # << >>
    BY <1>2, Zenon DEF SubchannelRead, SubchannelFails, Running
  <2> DEFINE ops == If(EjectsOn(s), <<Do("eject")>>)
  <2>2. IsSeq(ops) /\ Ops(ops) \cap PlayingOps = {} /\ Then(ops)
    BY DoSeq, SeqOfIf DEF PlayingOps
  <2> HIDE DEF ops
  <2> QED BY <1>1, <2>1, <2>2, PlainThen
<1>3. CASE TocRead
  <2> DEFINE ops == <<Read, Do("toc played")>>
  <2>1. todo # << >> /\ Then(ops)
    BY <1>3, Zenon DEF TocRead, Running
  <2>2. IsSeq(ops) /\ Ops(ops) = {"sub", "toc played"}
    BY DoTwo DEF Read
  <2> HIDE DEF ops
  <2>3. Ops(ops) \cap PlayingOps = {}
    BY <2>2 DEF PlayingOps
  <2> QED BY <1>1, <2>1, <2>2, <2>3, PlainThen
<1>4. CASE TocPlayed
  <2> DEFINE plays == <<Play(1, LeadoutTrack)>>
             ops == If(PlaysItself, plays)
  <2>1. todo # << >> /\ Then(ops)
    BY <1>4, Zenon DEF TocPlayed, Running
  <2>2. IsSeq(plays) /\ AllAsked(plays, toc')
    BY PlayAsked
  <2> HIDE DEF plays
  <2>3. IsSeq(ops) /\ AllAsked(ops, toc')
    BY <2>2, SeqOfIf, IfAsked
  <2> HIDE DEF ops
  <2> QED BY <1>1, <2>1, <2>3, ThenAsked
<1>5. CASE PlayCall
  <2> DEFINE clamp == [Top EXCEPT !.op = "clamp"]
             reads == If(~flags.cd, <<Do("toc")>>)
             ops == reads \o <<Read, clamp>>
  <2>1. Running("play") /\ Then(ops)
    BY <1>5, Zenon DEF PlayCall
  <2>2. todo # << >> /\ Top.op = "play" /\ "op" \in DOMAIN Top
    BY <2>1, RunningOp
  <2>3. {"op", "a", "b"} \subseteq DOMAIN Top /\ Top.a \in Int /\ Top.b = LeadoutTrack
    BY <1>1, <2>2, TailAsked DEF Top, Asked
  <2>4. clamp.op = "clamp" /\ {"op", "a", "b"} \subseteq DOMAIN clamp /\ clamp.a \in Int
        /\ clamp.b = LeadoutTrack
    BY <2>3, SMT
  <2>5. IsSeq(reads) /\ AllAsked(reads, toc')
    BY DoAsked DEF PlayingOps
  <2>6. AllAsked(<<Read>>, toc') /\ IsSeq(<<Read>>)
    BY ReadSeq, PlainAsked DEF PlayingOps
  <2>7. <<Read, clamp>> = <<Read>> \o <<clamp>>
    BY SMT
  <2> HIDE DEF clamp, reads
  <2>8. IsSeq(<<clamp>>) /\ AllAsked(<<clamp>>, toc')
    <3>1. Asked(clamp, toc')
      BY <2>4 DEF Asked
    <3> QED BY <2>4, <3>1, SeqOfOne, OneAsked
  <2>9. IsSeq(ops) /\ AllAsked(ops, toc')
    BY <2>5, <2>6, <2>7, <2>8, SeqOfConcat, ConcatAsked
  <2> QED BY <1>1, <2>1, <2>2, <2>9, ThenAsked
<1>6. CASE StackOverflow
  <2>1. todo' = << >>
    BY <1>6, Zenon DEF StackOverflow
  <2> QED BY <2>1, SeqOfNone, PlainAsked
<1>7. CASE Clamp
  <2> DEFINE command == [op |-> "command", a |-> Clamped(Top.a), b |-> EndTrack(Top.b)]
             pausing == If(sub.status = "play", <<Do("pause")>>)
             ops == If(flags.cd, pausing \o <<command>>)
  <2>1. Running("clamp") /\ Then(ops) /\ toc' = toc
    BY <1>7, Zenon DEF Clamp
  <2>2. todo # << >> /\ Top.op = "clamp"
    BY <2>1, RunningOp
  <2>3. Top.a \in Int /\ Top.b = LeadoutTrack
    BY <1>1, <2>2, TailAsked DEF Top, Asked
  <2>4. flags.cd => Asked(command, toc')
    BY <2>1, <2>3, ClampAsked
  <2>5. "op" \in DOMAIN command
    BY SMT
  <2>6. IsSeq(pausing) /\ AllAsked(pausing, toc')
    BY DoAsked DEF PlayingOps
  <2> HIDE DEF command, pausing
  <2>7. IsSeq(<<command>>) /\ (flags.cd => AllAsked(<<command>>, toc'))
    BY <2>4, <2>5, SeqOfOne, OneAsked
  <2>8. /\ IsSeq(pausing \o <<command>>)
        /\ flags.cd => AllAsked(pausing \o <<command>>, toc')
    BY <2>6, <2>7, SeqOfConcat, ConcatAsked
  <2>9. IsSeq(ops) /\ AllAsked(ops, toc')
    BY <2>8, SeqOfIf, IfAsked
  <2> HIDE DEF ops
  <2> QED BY <1>1, <2>1, <2>2, <2>9, ThenAsked
<1>8. CASE SkipCall
  <2> DEFINE ops == <<Read, [Top EXCEPT !.op = "skip clamp"]>>
  <2>1. Running("skip") /\ Then(ops)
    BY <1>8, Zenon DEF SkipCall
  <2>2. todo # << >> /\ "op" \in DOMAIN Top
    BY <2>1, RunningOp
  <2>3. IsSeq(ops) /\ Ops(ops) = {"sub", "skip clamp"}
    BY <2>2, AsSeq
  <2> HIDE DEF ops
  <2>4. Ops(ops) \cap PlayingOps = {}
    BY <2>3 DEF PlayingOps
  <2> QED BY <1>1, <2>1, <2>2, <2>3, <2>4, PlainThen
<1>9. CASE SkipClamp
  <2> DEFINE after == <<[Top EXCEPT !.op = "skip command"]>>
             pausing == If(sub.status = "play", <<Do("pause")>>)
             ops == If(flags.cd, pausing \o after)
  <2>1. Running("skip clamp") /\ Then(ops)
    BY <1>9, Zenon DEF SkipClamp
  <2>2. todo # << >> /\ "op" \in DOMAIN Top
    BY <2>1, RunningOp
  <2>3. IsSeq(after) /\ Ops(after) = {"skip command"}
    BY <2>2, AsSeq
  <2>4. IsSeq(pausing) /\ Ops(pausing) \subseteq {"pause"}
    BY DoSeq, SeqOfNone DEF If
  <2> HIDE DEF after, pausing
  <2>5. IsSeq(pausing \o after) /\ Ops(pausing \o after) \subseteq {"pause", "skip command"}
    BY <2>3, <2>4, SeqOfConcat
  <2>6. IsSeq(ops) /\ Ops(ops) \subseteq {"pause", "skip command"}
    BY <2>5, SeqOfNone DEF If
  <2> HIDE DEF ops
  <2>7. Ops(ops) \cap PlayingOps = {}
    BY <2>6 DEF PlayingOps
  <2> QED BY <1>1, <2>1, <2>2, <2>6, <2>7, PlainThen
<1>10. CASE Stop
  <2> DEFINE ops == If(flags.all, Lines)
  <2>1. todo # << >> /\ (Then(ops) \/ Then(<< >>))
    BY <1>10, Zenon DEF Stop, Running, Done
  <2>2. IsSeq(ops) /\ Ops(ops) \subseteq {"sub"}
    BY LinesSeq, SeqOfIf
  <2> HIDE DEF ops
  <2>3. Ops(ops) \cap PlayingOps = {} /\ Ops(<< >>) \cap PlayingOps = {} /\ IsSeq(<< >>)
    BY <2>2, SeqOfNone DEF PlayingOps
  <2> QED BY <1>1, <2>1, <2>2, <2>3, PlainThen
<1>11. CASE EjectCall
  <2> DEFINE ops == If(cdio = "open", <<Do("stop"), Do("let go")>>)
  <2>1. todo # << >> /\ Then(ops)
    BY <1>11, Zenon DEF EjectCall, Running
  <2>2. /\ IsSeq(<<Do("stop"), Do("let go")>>)
        /\ Ops(<<Do("stop"), Do("let go")>>) = {"stop", "let go"}
    BY DoTwo
  <2>3. IsSeq(ops) /\ Ops(ops) \subseteq {"stop", "let go"}
    BY <2>2, SeqOfNone DEF If
  <2> HIDE DEF ops
  <2>4. Ops(ops) \cap PlayingOps = {}
    BY <2>3 DEF PlayingOps
  <2> QED BY <1>1, <2>1, <2>3, <2>4, PlainThen
<1>12. CASE NoSubchannel \/ TocFails \/ TocEntryFails \/ Command \/ Pause \/ Resume
            \/ SkipCommand \/ LetGo \/ CloseTray
  <2>1. Then(<< >>) /\ todo # << >>
    BY <1>12, Zenon DEF NoSubchannel, TocFails, TocEntryFails, Command, Pause, Resume,
      SkipCommand, LetGo, CloseTray, Done, Running
  <2>2. Ops(<< >>) \cap PlayingOps = {} /\ IsSeq(<< >>)
    BY SeqOfNone
  <2> QED BY <1>1, <2>1, <2>2, PlainThen
<1> QED
  BY <1>2, <1>3, <1>4, <1>5, <1>6, <1>7, <1>8, <1>9, <1>10, <1>11, <1>12 DEF Calls

LEMMA MainAsked ==
  ASSUME Kept, StackQuiet, AllAsked(todo, toc), Main
  PROVE  AllAsked(todo', toc')
<1>1. IsSeq(todo) /\ toc' = toc
  <2>1. toc' = toc
    BY Zenon DEF Main, Open, Option, StopOption, First, Loop, Finish, Timeout, HelpTimeout
  <2> QED BY <2>1 DEF StackQuiet
<1>2. CASE Open
  <2> DEFINE again == [Top EXCEPT !.a = 1]
             both == <<Do("close"), again>>
             ops == If(Top.a = 0 /\ said.option.op # "eject", both)
  <2>1. Running("open") /\ (Then(<< >>) \/ Then(ops))
    BY <1>2, Zenon DEF Open, Done
  <2>2. "op" \in DOMAIN Top /\ Top.op = "open" /\ todo # << >>
    BY <2>1, RunningOp
  <2>3. "op" \in DOMAIN again /\ again.op = "open"
    BY <2>2, SMT
  <2> HIDE DEF again
  <2>4. IsSeq(both) /\ Ops(both) = {"close", "open"}
    <3> DEFINE closes == Do("close")
    <3>1. "op" \in DOMAIN closes /\ closes.op = "close"
      BY DoSeq
    <3> HIDE DEF closes
    <3>2. IsSeq(<<closes, again>>) /\ Ops(<<closes, again>>) = {"close", "open"}
      BY <2>3, <3>1, SeqOfTwo
    <3> QED BY <3>2 DEF closes
  <2> HIDE DEF both
  <2>5. IsSeq(ops) /\ Ops(ops) \subseteq {"close", "open"}
    BY <2>4, SeqOfIf
  <2> HIDE DEF ops
  <2>6. /\ Ops(ops) \cap PlayingOps = {}
        /\ IsSeq(<< >>) /\ Ops(<< >>) \cap PlayingOps = {}
    BY <2>5, SeqOfNone DEF PlayingOps
  <2> QED BY <1>1, <2>1, <2>2, <2>5, <2>6, PlainThen
<1>3. CASE Option
  <2> DEFINE reads == ReadsTable(Top)
             calls == WithHandle(Top)
             acts == If(cdio = "open", calls)
             ops == reads \o acts
  <2>1. todo # << >> /\ Then(ops)
    BY <1>3, Zenon DEF Option
  <2>2. Top.op # "track"
    BY <1>1, <2>1, TailAsked DEF Top, Asked
  <2>3. IsSeq(reads) /\ AllAsked(reads, toc')
    BY DoAsked DEF ReadsTable, PlayingOps
  <2>4. IsSeq(calls) /\ AllAsked(calls, toc')
    <3>1. calls \in {<< >>, <<Play(1, LeadoutTrack)>>, <<Read>>}
      BY <2>2 DEF WithHandle
    <3>2. AllAsked(<< >>, toc') /\ IsSeq(<< >>) /\ AllAsked(<<Read>>, toc') /\ IsSeq(<<Read>>)
      BY SeqOfNone, ReadSeq, PlainAsked DEF PlayingOps
    <3> QED BY <3>1, <3>2, PlayAsked
  <2> HIDE DEF reads, calls
  <2>5. IsSeq(ops) /\ AllAsked(ops, toc')
    BY <2>3, <2>4, SeqOfIf, IfAsked, SeqOfConcat, ConcatAsked
  <2> QED BY <1>1, <2>1, <2>5, ThenAsked
<1>4. CASE StopOption
  <2>1. todo # << >> /\ Top.op = "stop option"
    BY <1>4, Zenon DEF StopOption, Running
  <2> QED BY <1>1, <2>1, TailAsked DEF Top, Asked
<1>5. CASE First
  <2> DEFINE plays == <<Play(1, LeadoutTrack)>>
             ops == If(sub.status \notin {"paused", "play"}, plays)
  <2>1. todo # << >> /\ Then(ops)
    BY <1>5, Zenon DEF First, Running
  <2>2. IsSeq(plays) /\ AllAsked(plays, toc')
    BY PlayAsked
  <2> HIDE DEF plays
  <2>3. IsSeq(ops) /\ AllAsked(ops, toc')
    BY <2>2, SeqOfIf, IfAsked
  <2> HIDE DEF ops
  <2> QED BY <1>1, <2>1, <2>3, ThenAsked
<1>6. CASE Loop
  <2> DEFINE stops == If(~flags.nostop, <<Do("stop")>>)
             reads == If(~flags.cd, <<Do("toc")>>)
             over == <<Do("wait"), Do("loop")>>
             rest == <<Read, Do("wait"), Do("loop")>>
  <2>1. todo' = stops \o <<Do("finish")>> \/ todo' = reads \o rest
    BY <1>6, Zenon DEF Loop
  <2>2. IsSeq(stops) /\ AllAsked(stops, toc') /\ IsSeq(reads) /\ AllAsked(reads, toc')
    BY DoAsked DEF PlayingOps
  <2>3. IsSeq(over) /\ Ops(over) = {"wait", "loop"}
    BY DoTwo
  <2>4. rest = <<Read>> \o over
    BY SMT
  <2>5. IsSeq(<<Do("finish")>>) /\ AllAsked(<<Do("finish")>>, toc')
    BY DoAsked DEF PlayingOps
  <2> HIDE DEF stops, reads, over, rest
  <2>6. IsSeq(rest) /\ Ops(rest) = {"sub", "wait", "loop"}
    BY <2>3, <2>4, ReadSeq, SeqOfConcat
  <2>7. AllAsked(rest, toc')
    BY <2>6, PlainAsked DEF PlayingOps
  <2> QED BY <2>1, <2>2, <2>5, <2>6, <2>7, ConcatAsked
<1>7. CASE Finish \/ Timeout
  <2>1. Then(<< >>) /\ todo # << >>
    BY <1>7, Zenon DEF Finish, Timeout, Done, Running
  <2>2. Ops(<< >>) \cap PlayingOps = {} /\ IsSeq(<< >>)
    BY SeqOfNone
  <2> QED BY <1>1, <2>1, <2>2, PlainThen
<1>8. CASE HelpTimeout
  <2>1. todo' = <<Read>> \o todo \/ todo' = << >> \/ todo' = todo
    BY <1>8, Zenon DEF HelpTimeout
  <2>2. /\ IsSeq(<<Read>>) /\ AllAsked(<<Read>>, toc)
        /\ IsSeq(<< >>) /\ AllAsked(<< >>, toc)
    BY ReadSeq, SeqOfNone, PlainAsked DEF PlayingOps
  <2> QED BY <1>1, <2>1, <2>2, ConcatAsked
<1> QED BY <1>2, <1>3, <1>4, <1>5, <1>6, <1>7, <1>8 DEF Main

(* What a key calls that does not move where the CD plays.                 *)
LEMMA KeyOps ==
  ASSUME Kept, NEW k \in Keys, k.op \notin {"next", "previous", "jump", "skip"}
  PROVE  Ops(KeyCalls(k)) \subseteq {"eject", "stop", "close", "sub", "help", "resume", "pause"}
<1>1. CASE k.op \in {"eject", "stop", "close"}
  <2>1. KeyCalls(k) = <<Do(k.op)>>
    BY <1>1 DEF KeyCalls
  <2> QED BY <1>1, <2>1, DoSeq
<1>2. CASE k.op = "list"
  <2>1. KeyCalls(k) = If(~flags.all, Lines)
    BY <1>2 DEF KeyCalls
  <2> QED BY <2>1, LinesSeq, SeqOfIf
<1>3. CASE k.op = "help"
  <2> DEFINE x == [Do("help") EXCEPT !.a = IF cdio = "open" THEN 1 ELSE 0]
  <2>1. KeyCalls(k) = <<x>>
    BY <1>3 DEF KeyCalls
  <2>2. "op" \in DOMAIN x /\ x.op = "help"
    BY SMT DEF Do
  <2> HIDE DEF x
  <2>3. Ops(<<x>>) = {"help"}
    BY <2>2, SeqOfOne
  <2> QED BY <2>1, <2>3
<1>4. CASE k.op = "pause"
  <2>1. \E op \in {"resume", "pause"} : KeyCalls(k) = If(flags.cd, <<Do(op)>>)
    BY <1>4 DEF KeyCalls
  <2> QED BY <2>1, DoSeq, SeqOfNone DEF If
<1>5. CASE k.op \notin {"eject", "stop", "close", "list", "help", "pause"}
  <2>1. KeyCalls(k) = << >>
    BY <1>5 DEF KeyCalls
  <2> QED BY <2>1, SeqOfNone
<1> QED BY <1>1, <1>2, <1>3, <1>4, <1>5

(* A key that plays starts at the track that is shown, or at the number    *)
(* that was typed, and names the array's last entry as the end.            *)
LEMMA KeyAsked ==
  ASSUME Kept, Placed, NEW k \in Keys, NEW d
  PROVE  AllAsked(KeyCalls(k), d)
<1>1. k.op \in STRING /\ k.a \in Int
  BY CdPlayerAssumption, SMT
<1>2. CASE k.op \in {"next", "previous", "jump"}
  <2>1. sub.track + 1 \in Int /\ sub.track - 1 \in Int /\ 1 \in Int
    BY SMT DEF Placed
  <2>2. \/ KeyCalls(k) = << >>
        \/ \E a \in {sub.track + 1, sub.track - 1, 1, k.a} : KeyCalls(k) = <<Play(a, LeadoutTrack)>>
    BY <1>2, Zenon DEF KeyCalls, If
  <2> QED BY <1>1, <2>1, <2>2, PlayAsked, SeqOfNone, PlainAsked
<1>3. CASE k.op = "skip"
  <2>1. KeyCalls(k) = << >> \/ KeyCalls(k) = <<k>>
    BY <1>3 DEF KeyCalls, If
  <2>2. Asked(k, d)
    BY <1>3 DEF Asked
  <2> QED BY <2>1, <2>2, OneAsked, SeqOfNone, PlainAsked
<1>4. CASE k.op \notin {"next", "previous", "jump", "skip"}
  <2>1. Ops(KeyCalls(k)) \subseteq {"eject", "stop", "close", "sub", "help", "resume", "pause"}
    BY <1>4, KeyOps
  <2> QED BY <2>1, PlainAsked DEF PlayingOps
<1> QED BY <1>2, <1>3, <1>4

LEMMA NextAsked ==
  ASSUME Kept, StackQuiet, Placed, Vouched, AllAsked(todo, toc), Next
  PROVE  AllAsked(todo', toc')
<1>1. CASE Key
  <2> PICK k \in Keys : Then(KeyCalls(k))
    BY <1>1, Zenon DEF Key
  <2> DEFINE ops == KeyCalls(k)
  <2>1. todo # << >> /\ Then(ops)
    BY <1>1, Zenon DEF Key, Running
  <2>2. IsSeq(ops) /\ AllAsked(ops, toc')
    BY KeySeq, KeyAsked
  <2> HIDE DEF ops
  <2> QED BY <2>1, <2>2, ThenAsked, TableKept DEF StackQuiet
<1>2. CASE HelpKey
  <2>1. Then(<< >>) /\ todo # << >>
    BY <1>2, Zenon DEF HelpKey, Done, Running
  <2>2. Ops(<< >>) \cap PlayingOps = {} /\ IsSeq(<< >>)
    BY SeqOfNone
  <2> QED BY <2>1, <2>2, PlainThen, TableKept DEF StackQuiet
<1>3. CASE ByHand \/ ctrlc \/ PlayOn
  <2>1. todo' = todo
    BY <1>3, Zenon DEF ByHand, ctrlc, PlayOn
  <2> QED BY <2>1, LaterAsked, TableKept
<1> QED BY <1>1, <1>2, <1>3, CallsAsked, MainAsked DEF Next, User

(* Only reading the whole table makes flags.cd true, and only cd_stop      *)
(* forgets the last track.                                                 *)
LEMMA NextVouched ==
  ASSUME Kept, StackQuiet, Placed, Vouched, AllAsked(todo, toc), Next
  PROVE  Vouched'
<1>1. CASE TocRead
  <2>1. toc' \in Discs
    BY <1>1, TocKept
  <2>2. tracks' = [first |-> 1, last |-> Tracks[toc'], lastAudio |-> Tracks[toc']]
    BY <1>1, Zenon DEF TocRead
  <2>3. tracks'.first = 1 /\ tracks'.lastAudio = Tracks[toc']
    BY <2>2
  <2> QED BY <2>1, <2>3, CdPlayerAssumption DEF Vouched
<1>2. CASE SubchannelFails \/ TocFails \/ TocEntryFails \/ LetGo
  <2>1. \/ flags' = [flags EXCEPT !.cd = FALSE]
        \/ flags' = [flags EXCEPT !.cd = FALSE, !.record = FALSE]
    BY <1>2, Zenon DEF SubchannelFails, TocFails, TocEntryFails, LetGo
  <2>2. flags'.cd = FALSE
    <3>1. CASE flags' = [flags EXCEPT !.cd = FALSE]
      BY <3>1, SMT DEF Placed
    <3>2. CASE flags' = [flags EXCEPT !.cd = FALSE, !.record = FALSE]
      BY <3>2, SMT DEF Placed
    <3> QED BY <2>1, <3>1, <3>2
  <2> QED BY <2>2 DEF Vouched
<1>3. CASE Stop
  <2>1. flags' = flags /\ toc' = toc
        /\ (tracks' = tracks \/ tracks' = [tracks EXCEPT !.lastAudio = InvalidTrack])
    BY <1>3, Zenon DEF Stop
  <2>2. /\ tracks' = [tracks EXCEPT !.lastAudio = InvalidTrack]
           => tracks'.first = tracks.first /\ tracks'.lastAudio = InvalidTrack
    BY SMT DEF Kept
  <2> QED BY <2>1, <2>2 DEF Vouched
<1>4. CASE StopOption
  <2>1. todo # << >> /\ Top.op = "stop option"
    BY <1>4, Zenon DEF StopOption, Running
  <2> QED BY <2>1, TailAsked DEF Top, Asked, StackQuiet
<1>5. CASE HelpTimeout
  <2>1. UNCHANGED <<toc, tracks>> /\ (flags' = flags \/ flags' = [flags EXCEPT !.cd = FALSE])
    BY <1>5, Zenon DEF HelpTimeout
  <2>2. flags' = [flags EXCEPT !.cd = FALSE] => flags'.cd = FALSE
    BY SMT DEF Placed
  <2> QED BY <2>1, <2>2 DEF Vouched
<1>6. CASE Key \/ ctrlc
  <2>1. UNCHANGED <<toc, tracks>>
    BY <1>6, Zenon DEF Key, ctrlc
  <2>2. flags'.cd = flags.cd
    <3>1. CASE Key
      <4> PICK k \in Keys :
            flags' = CASE k.op = "auto" -> [flags EXCEPT !.auto = ~@]
                       [] k.op = "list" -> [flags EXCEPT !.all = ~@]
                       [] k.op = "quit" -> [flags EXCEPT !.sig = TRUE, !.nostop = @ \/ k.a = 1]
                       [] OTHER -> flags
        BY <3>1, Zenon DEF Key
      <4>1. CASE k.op = "auto"
        BY <4>1, Zenon DEF Placed
      <4>2. CASE k.op = "list"
        BY <4>2, Zenon DEF Placed
      <4>3. CASE k.op = "quit"
        BY <4>3, Zenon DEF Placed
      <4>4. CASE k.op \notin {"auto", "list", "quit"}
        BY <4>4, Zenon
      <4> QED BY <4>1, <4>2, <4>3, <4>4, Zenon
    <3>2. CASE ctrlc
      BY <3>2, SMT DEF ctrlc, Placed
    <3> QED BY <1>6, <3>1, <3>2
  <2> QED BY <2>1, <2>2 DEF Vouched
<1>7. CASE UNCHANGED <<flags, toc, tracks>>
  BY <1>7 DEF Vouched
<1>8. \/ TocRead \/ SubchannelFails \/ TocFails \/ TocEntryFails \/ LetGo \/ Stop \/ StopOption
      \/ HelpTimeout \/ Key \/ ctrlc \/ UNCHANGED <<flags, toc, tracks>>
  BY Zenon DEF Next, Calls, Main, User, ByHand, PlayOn, SubchannelRead,
    NoSubchannel, TocPlayed, PlayCall, StackOverflow, Clamp,
    Command, Pause, Resume, SkipCall, SkipClamp, SkipCommand, EjectCall, CloseTray,
    Open, Option, First, Loop, Finish, Timeout, HelpKey
<1> QED BY <1>1, <1>2, <1>3, <1>4, <1>5, <1>6, <1>7, <1>8, Zenon

(* Where it plays stays, while the drive goes on, pauses and resumes.      *)
LEMMA PlaysOnThere ==
  ASSUME PlaysToTheLeadout, said.by = "play" => toc # NoDisc, Next,
         said'.by = said.by, said'.end = said.end, said'.option = said.option,
         drive'.status \in {"play", "paused"}
         => /\ drive.status \in {"play", "paused"}
            /\ drive'.from = drive.from /\ drive'.end = drive.end /\ drive'.disc = drive.disc
  PROVE  PlaysToTheLeadout'
<1> SUFFICES ASSUME drive'.status \in {"play", "paused"}, said'.by = "play", drive'.disc = toc',
                    ~EndsOtherwise(said'.option), said'.end <= LeadoutTrack
             PROVE  /\ drive'.from \in {Position(n)' : n \in 1 .. Tracks[toc']}
                    /\ drive'.end = End(toc')
  BY DEF PlaysToTheLeadout
<1>1. toc' = toc
  BY TableKept
<1>2. \A n : Position(n)' = Position(n)
  BY <1>1 DEF Position
<1> QED BY <1>1, <1>2 DEF PlaysToTheLeadout

(* A play command that is given goes to the leadout.                       *)
LEMMA CommandPlays ==
  ASSUME Kept, StackQuiet, Placed, AllAsked(todo, toc), Command,
         NEW end \in Ends(Top.b), Starts(Position(Top.a), end),
         said' = [said EXCEPT !.by = "play", !.end = Top.b]
  PROVE  PlaysToTheLeadout' /\ toc' # NoDisc
<1>1. todo # << >> /\ Top.op = "command" /\ toc' = toc
  BY Zenon DEF Command, Running
<1>2. /\ toc # NoDisc
      /\ (Top.b \in Int /\ Top.b > LeadoutTrack) \/ (Top.a \in 1 .. Tracks[toc] /\ Top.b = Tracks[toc] + 1)
  BY <1>1, TailAsked DEF Top, Asked, StackQuiet
<1>3. said'.end = Top.b
  BY SMT DEF Placed
<1>4. CASE Top.b \in Int /\ Top.b > LeadoutTrack
  <2>1. ASSUME said'.end <= LeadoutTrack PROVE FALSE
    BY <1>3, <1>4, <2>1, SMT DEF LeadoutTrack
  <2> QED BY <1>1, <1>2, <2>1, Zenon DEF PlaysToTheLeadout
<1>5. CASE Top.a \in 1 .. Tracks[toc] /\ Top.b = Tracks[toc] + 1
  <2>1. Tracks[toc] \in 1 .. 98 /\ Length \in Nat
    BY <1>2, CdPlayerAssumption DEF Kept
  <2>2. ~(Top.b > LeadoutTrack) /\ Top.b \in 1 .. Tracks[toc] + 1 /\ (Top.b - 1) * Length = Tracks[toc] * Length
    <3> DEFINE n == Tracks[toc]
    <3> HIDE DEF n
    <3>1. n \in 1 .. 98 /\ Top.b = n + 1
      BY <1>5, <2>1 DEF n
    <3>2. ~(Top.b > LeadoutTrack) /\ Top.b \in 1 .. n + 1 /\ Top.b - 1 = n
      BY <3>1, SMT DEF LeadoutTrack
    <3> QED BY <3>2 DEF n
  <2>3. end = End(toc)
    BY <1>2, <2>2 DEF Ends, Position, End
  <2>4. drive'.from = Position(Top.a) /\ drive'.end = end
    BY SMT DEF Starts, Placed
  <2>5. \A n : Position(n)' = Position(n)
    BY <1>1 DEF Position
  <2> QED BY <1>1, <1>2, <1>5, <2>3, <2>4, <2>5 DEF PlaysToTheLeadout
<1> QED BY <1>2, <1>4, <1>5

LEMMA NextPlays ==
  ASSUME Kept, StackQuiet, Placed, AllAsked(todo, toc), PlaysToTheLeadout,
         said.by = "play" => toc # NoDisc, Next
  PROVE  PlaysToTheLeadout' /\ (said'.by = "play" => toc' # NoDisc)
<1> DEFINE Same == said'.by = said.by /\ said'.end = said.end /\ said'.option = said.option
           Goal == PlaysToTheLeadout' /\ (said'.by = "play" => toc' # NoDisc)
<1>1. ASSUME Same,
             drive'.status \in {"play", "paused"}
             => /\ drive.status \in {"play", "paused"}
                /\ drive'.from = drive.from /\ drive'.end = drive.end /\ drive'.disc = drive.disc
      PROVE  Goal
  <2>1. PlaysToTheLeadout'
    BY <1>1, PlaysOnThere
  <2> QED BY <1>1, <2>1, TableKept
<1>2. ~(Command \/ SkipCommand) \/ said' = said => Same
  BY SaidKept
<1>3. CASE drive' = drive /\ (Command \/ SkipCommand => said' = said)
  BY <1>1, <1>2, <1>3
<1>4. CASE PlayOn \/ Pause \/ Resume \/ CloseTray
  <2>1. said' = said
    BY <1>4, Zenon DEF PlayOn, Pause, Resume, CloseTray
  <2>2. drive'.status \in {"play", "paused"}
        => /\ drive.status \in {"play", "paused"}
           /\ drive'.from = drive.from /\ drive'.end = drive.end /\ drive'.disc = drive.disc
    <3>1. CASE PlayOn
      BY <3>1, SMT DEF PlayOn, Rest, Placed, Kept
    <3>2. CASE Pause
      BY <3>2, SMT DEF Pause, Becomes, Placed, Kept
    <3>3. CASE Resume
      BY <3>3, SMT DEF Resume, Becomes, Placed, Kept
    <3>4. CASE CloseTray
      BY <3>4, SMT DEF CloseTray, Placed, Kept
    <3> QED BY <1>4, <3>1, <3>2, <3>3, <3>4
  <2> QED BY <1>1, <1>2, <2>1, <2>2
<1>5. CASE \E disc, tray : drive' = Rest("none", disc, tray)
  <2>1. drive'.status = "none"
    BY <1>5, SMT DEF Rest
  <2>2. (~Command /\ ~SkipCommand) \/ said' = said
    <3>1. ASSUME NEW from, NEW end, Starts(from, end) PROVE drive'.status = "play"
      BY <3>1, SMT DEF Starts, Kept
    <3>2. Command \/ SkipCommand => said' = said \/ \E from, end : Starts(from, end)
      BY Zenon DEF Command, SkipCommand
    <3> QED BY <2>1, <3>1, <3>2
  <2> QED BY <1>1, <1>2, <2>1, <2>2
<1>6. CASE Command /\ \E end \in Ends(Top.b) :
             /\ Starts(Position(Top.a), end)
             /\ said' = [said EXCEPT !.by = "play", !.end = Top.b]
  BY <1>6, CommandPlays
<1>7. CASE SkipCommand /\ \E end, from :
             /\ from = sub.pos + 1 \/ from = Larger(sub.pos - 1, 0)
             /\ Starts(from, end) /\ said' = [said EXCEPT !.by = "skip", !.end = 0]
  <2>1. said' = [said EXCEPT !.by = "skip", !.end = 0]
    BY <1>7
  <2>2. said'.by = "skip"
    BY <2>1, SMT DEF Placed
  <2> QED BY <2>2 DEF PlaysToTheLeadout
<1> QED BY <1>3, <1>4, <1>5, <1>6, <1>7, DriveSteps, Zenon

LEMMA InitToTheLeadout == Init => Placed /\ ToTheLeadout
<1> SUFFICES ASSUME Init PROVE Placed /\ ToTheLeadout
  OBVIOUS
<1> PICK o \in Options, auto \in BOOLEAN :
      /\ todo = Start(o)
      /\ flags = [cd |-> FALSE, record |-> FALSE, auto |-> auto, all |-> FALSE,
                  sig |-> Batch(o), nostop |-> Batch(o)]
      /\ said = [option |-> o, key |-> "none", by |-> "none", end |-> 0]
  BY Zenon DEF Init
<1>1. Placed
  <2>1. \E d, t : drive = Rest("none", d, t)
    BY Zenon DEF Init
  <2>2. sub = [status |-> "none", track |-> 0, pos |-> 0]
    BY Zenon DEF Init
  <2> QED BY <2>1, <2>2, SMT DEF Placed, Rest
<1>2. flags.cd = FALSE /\ said.option = o /\ said.by = "none"
  BY SMT
<1>3. ASSUME o.op \notin {"track", "stop"} PROVE AllAsked(todo, toc)
  <2> DEFINE opens == If(o.op # "close", <<Do("open")>>)
             reads == Read
             rest == <<Do("first"), Do("loop")>>
  <2>1. IsSeq(opens) /\ AllAsked(opens, toc)
    BY DoAsked DEF PlayingOps
  <2>2. IsSeq(rest) /\ Ops(rest) = {"first", "loop"}
    BY DoTwo
  <2>3. "op" \in DOMAIN o /\ "op" \in DOMAIN reads /\ reads.op = "sub"
    BY OptionAssumption, ReadSeq
  <2>4. todo = opens \o (<<o, reads>> \o rest)
    <3>1. todo = opens \o <<o, Read, Do("first"), Do("loop")>>
      BY <1>3, Zenon DEF Start
    <3> DEFINE first == Do("first")
               loop == Do("loop")
    <3> HIDE DEF opens, reads, first, loop
    <3>2. <<o, reads, first, loop>> = <<o, reads>> \o <<first, loop>>
      BY SMT
    <3> QED BY <3>1, <3>2 DEF reads, first, loop
  <2> HIDE DEF opens, reads, rest
  <2>5. IsSeq(<<o, reads>>) /\ Ops(<<o, reads>>) = {o.op, "sub"}
    BY <2>3, SeqOfTwo
  <2>6. /\ IsSeq(<<o, reads>> \o rest)
        /\ Ops(<<o, reads>> \o rest) = {o.op, "sub", "first", "loop"}
    BY <2>2, <2>5, SeqOfConcat
  <2>7. o.op \notin PlayingOps
    BY <1>3, OptionAssumption DEF OptionOps, PlayingOps
  <2>8. AllAsked(<<o, reads>> \o rest, toc)
    BY <2>6, <2>7, PlainAsked DEF PlayingOps
  <2> QED BY <2>1, <2>4, <2>6, <2>8, ConcatAsked
<1> QED BY <1>1, <1>2, <1>3 DEF ToTheLeadout, Vouched, PlaysToTheLeadout, EndsOtherwise

PlayerInv == Kept /\ StackQuiet /\ Placed /\ ToTheLeadout

LEMMA PlayerStarts == Init => PlayerInv
BY InitKept, InitQuiet, InitToTheLeadout DEF PlayerInv

LEMMA PlayerGoesOn == PlayerInv /\ [Next]_vars => PlayerInv'
<1>1. ASSUME PlayerInv, Next PROVE ToTheLeadout'
  <2>1. said'.option = said.option
    BY <1>1, SaidKept DEF PlayerInv
  <2>2. ASSUME ~EndsOtherwise(said.option)
        PROVE  /\ Vouched' /\ AllAsked(todo', toc') /\ PlaysToTheLeadout'
               /\ said'.by = "play" => toc' # NoDisc
    BY <1>1, <2>2, NextVouched, NextAsked, NextPlays DEF PlayerInv, ToTheLeadout
  <2> QED BY <2>1, <2>2 DEF ToTheLeadout
<1>2. PlayerInv /\ UNCHANGED vars => PlayerInv'
  <2>1. ASSUME UNCHANGED vars PROVE \A n : Position(n)' = Position(n)
    BY <2>1 DEF vars, Position
  <2> QED BY <2>1 DEF PlayerInv, Kept, StackQuiet, Quiet, Placed, ToTheLeadout, Vouched,
                      PlaysToTheLeadout, vars
<1> QED BY <1>1, <1>2, NextKept, NextQuiet, NextPlaced DEF PlayerInv

LEMMA PlayerInvHolds == PlayerInv => PlaysToTheLeadout
BY DEF PlayerInv, ToTheLeadout, PlaysToTheLeadout

(* What plays, for the user's keys or for an option that names no end, is  *)
(* whole tracks up to the leadout of the disc in the drive (play_track and *)
(* read_toc of cdda-player.c), with any discs, any keys, and any number of *)
(* failures and of discs changed.                                          *)
THEOREM PlaysWholeTracks == Spec => []PlaysToTheLeadout
BY PlayerStarts, PlayerGoesOn, PlayerInvHolds, PTL DEF Spec

-----------------------------------------------------------------------------
(* The audio calls of the library, which any program may make.             *)
(* What plays, or is paused, is inside of what was asked for.              *)
Units == [disc : AudioDiscs \cup {NoAudioDisc}, open : BOOLEAN,
          status : {"none", "play", "paused", "completed"}, pos : Nat, end : Int, level : Levels]

PlaysInside ==
  /\ unit \in Units
  /\ kept \in AudioDiscs \cup {NoAudioDisc}
  /\ asked.from \in Int /\ asked.to \in Int
  /\ unit.status \in {"play", "paused"} =>
       /\ unit.pos < unit.end
       /\ ~Audio!ByTracksOnFreeBsd => asked.from <= unit.pos /\ unit.end <= asked.to

LEMMA ThereAndBack ==
  ASSUME NEW n \in Nat
  PROVE  Audio!cdio_to_bcd8(n) \in Int /\ Audio!cdio_from_bcd8(Audio!cdio_to_bcd8(n)) = n
<1>1. PICK q \in Nat, r \in 0 .. 9 : n = 10 * q + r
  BY n = 10 * (n \div 10) + (n % 10), SMT
<1>2. n \div 10 = q /\ n % 10 = r
  BY <1>1
<1>3. (q * 16 + r) \div 16 = q /\ (q * 16 + r) % 16 = r
  BY <1>1
<1> QED BY <1>1, <1>2, <1>3 DEF Audio!cdio_to_bcd8, Audio!cdio_from_bcd8

LEMMA InitPlaysInside == ASSUME Audio!AudioConstants PROVE Audio!Init => PlaysInside
<1> SUFFICES ASSUME Audio!Init PROVE PlaysInside
  OBVIOUS
<1> DEFINE v == CHOOSE l \in Levels : TRUE
<1>1. v \in Levels
  BY DEF Audio!AudioConstants
<1>2. /\ unit \in [disc : AudioDiscs, open : {FALSE}, status : {"none"}, pos : {0}, end : {0}, level : {v}]
      /\ kept = NoAudioDisc /\ asked.from = 0 /\ asked.to = 0
  BY DEF Audio!Init
<1> HIDE DEF v
<1>3. /\ unit.disc \in AudioDiscs /\ unit.open \in BOOLEAN /\ unit.status = "none"
      /\ unit.pos = 0 /\ unit.end = 0 /\ unit.level = v
      /\ DOMAIN unit = {"disc", "open", "status", "pos", "end", "level"}
      /\ unit = [x \in DOMAIN unit |-> unit[x]]
  BY <1>2
<1>4. unit \in Units
  BY <1>1, <1>3 DEF Units
<1> QED BY <1>2, <1>3, <1>4 DEF PlaysInside

(* What a drive that plays nothing, or something else, comes from.         *)
LEMMA RestPlaysInside ==
  ASSUME NEW d, d \in Units, NEW s \in {"none", "completed"}
  PROVE  Audio!Rest(d, s) \in Units /\ Audio!Rest(d, s).status = s
<1> DEFINE r == Audio!Rest(d, s)
<1>1. DOMAIN r = {"disc", "open", "status", "pos", "end", "level"}
  BY DEF Audio!Rest, Units
<1>2. /\ r.disc = d.disc /\ r.status = s
      /\ r.pos = 0 /\ r.end = 0 /\ r.level = d.level
  BY DEF Audio!Rest, Units
<1>3. r.open = d.open
  BY DEF Audio!Rest, Units
<1>4. r = [x \in DOMAIN r |-> r[x]]
  BY DEF Audio!Rest
<1> HIDE DEF r
<1>5. r \in Units
  BY <1>1, <1>2, <1>3, <1>4 DEF Units
<1> QED BY <1>2, <1>5 DEF r

(* A play, in sectors from start to end, that asks for from to to.         *)
LEMMA PlayPlaysInside ==
  ASSUME Audio!AudioConstants, PlaysInside, NEW op, NEW start \in Int, NEW end \in Int, NEW from \in Int, NEW to \in Int,
         Audio!PlayFrom(op, start, end, from, to),
         (op = "play_tracks" /\ platform = "freebsd") \/ (from = start /\ to = end),
         kept' \in AudioDiscs \cup {NoAudioDisc}
  PROVE  PlaysInside'
<1>1. 0 <= start /\ start < end
  BY DEF Audio!PlayFrom, Audio!CanPlay
<1>2. unit' \in Units /\ unit'.pos = start /\ unit'.end = end
  <2>1. unit \in Units /\ unit' = [unit EXCEPT !.status = "play", !.pos = start, !.end = end]
    BY DEF Audio!PlayFrom, Audio!Playing, PlaysInside
  <2>2. unit' = [disc |-> unit.disc, open |-> unit.open, status |-> "play", pos |-> start, end |-> end,
                 level |-> unit.level]
    BY <2>1 DEF Units
  <2> QED BY <1>1, <2>1, <2>2 DEF Units
<1>3. asked'.op = op /\ asked'.from = from /\ asked'.to = to /\ platform' = platform
  BY DEF Audio!PlayFrom
<1> QED BY <1>1, <1>2, <1>3 DEF PlaysInside, Units, Audio!ByTracksOnFreeBsd

LEMMA StartsAreSectors ==
  ASSUME Audio!AudioConstants, NEW d \in AudioDiscs \cup {NoAudioDisc}, NEW t \in Audio!TracksOf(d)
  PROVE  d.starts[t] \in Nat /\ d.starts[t + 1] \in Nat
<1>1. d.starts \in Seq(Nat) /\ t \in 1 .. Len(d.starts) /\ t + 1 \in 1 .. Len(d.starts)
  BY DEF Audio!AudioConstants, Audio!TracksOf
<1> QED BY <1>1

LEMMA Unmoved ==
  ASSUME PlaysInside, UNCHANGED <<platform, asked>>,
         unit' \in Units, kept' = kept, unit'.status \in {"play", "paused"} => 
            unit.status \in {"play", "paused"} /\ unit'.pos = unit.pos /\ unit'.end = unit.end
  PROVE  PlaysInside'
BY DEF PlaysInside, Units, Audio!ByTracksOnFreeBsd

LEMMA RestedPlaysInside ==
  ASSUME PlaysInside, UNCHANGED <<platform, asked>>, unit' \in Units, kept' = kept,
         unit'.status \in {"none", "completed"}
  PROVE  PlaysInside'
BY DEF PlaysInside, Units

LEMMA NextPlaysInside == ASSUME Audio!AudioConstants, PlaysInside, [Audio!Next]_(Audio!vars) PROVE PlaysInside'
<1>a. unit \in Units
  BY DEF PlaysInside
<1>k. kept \in AudioDiscs \cup {NoAudioDisc}
  BY DEF PlaysInside
<1>b. ASSUME kept' \in AudioDiscs \cup {NoAudioDisc}, UNCHANGED <<platform, unit, asked>> PROVE PlaysInside'
  BY <1>b DEF PlaysInside, Units, Audio!ByTracksOnFreeBsd
<1>c. ASSUME NEW op, Audio!Fails(op) PROVE PlaysInside'
  BY <1>k, <1>b, <1>c DEF Audio!Fails, Audio!RoutineFails
<1>1. CASE Audio!PlayMsf
  <2>1. ASSUME kept' = kept, NEW from \in Addresses, NEW to \in Addresses,
               Audio!PlayFrom("play_msf", Audio!Binary(Audio!Msf(from)) - Pregap,
                              Audio!Binary(Audio!Msf(to)) - Pregap, from, to)
        PROVE  PlaysInside'
    <3>1. \A n \in Addresses : n \in Nat /\ Audio!Binary(Audio!Msf(n)) = n + Pregap
      BY ThereAndBack DEF Audio!AudioConstants, Audio!Binary, Audio!Msf
    <3>2. /\ Audio!Binary(Audio!Msf(from)) - Pregap = from
          /\ Audio!Binary(Audio!Msf(to)) - Pregap = to
      BY <3>1 DEF Audio!AudioConstants
    <3>3. from \in Int /\ to \in Int
      BY <3>1
    <3>4. Audio!PlayFrom("play_msf", from, to, from, to)
      BY <2>1, <3>2
    <3> QED BY <3>3, <3>4, <2>1, <1>k, PlayPlaysInside
  <2> QED BY <1>1, <1>c, <2>1 DEF Audio!PlayMsf
<1>2. CASE Audio!PlayTracks
  <2>1. ASSUME Audio!Loaded(unit), kept' = kept,
               NEW f \in Audio!TracksOf(unit.disc), NEW l \in Audio!TracksOf(unit.disc),
               Audio!PlayFrom("play_tracks", unit.disc.starts[f], unit.disc.starts[l + 1],
                              unit.disc.starts[f], unit.disc.starts[l + 1])
        PROVE  PlaysInside'
    <3>1. unit.disc \in AudioDiscs \cup {NoAudioDisc}
      BY <1>a DEF Units
    <3>2. unit.disc.starts[f] \in Int /\ unit.disc.starts[l + 1] \in Int
      BY <3>1, StartsAreSectors
    <3> QED BY <1>k, <2>1, <3>2, PlayPlaysInside
  <2>2. ASSUME platform = "freebsd", kept' \in AudioDiscs \cup {NoAudioDisc},
               NEW f \in Audio!TracksOf(kept'), NEW l \in Audio!TracksOf(kept'),
               Audio!PlayFrom("play_tracks", Audio!Msf(Audio!LsnOfTrack(kept', f)) - Pregap,
                              Audio!Msf(Audio!LsnOfTrack(kept', l)) - Pregap,
                              kept'.starts[f], kept'.starts[l + 1])
        PROVE  PlaysInside'
    <3>0. \A d \in AudioDiscs \cup {NoAudioDisc} : \A t \in Audio!TracksOf(d) : d.starts[t] \in Nat /\ d.starts[t + 1] \in Nat
      BY StartsAreSectors
    <3>p. Pregap \in Nat
      BY DEF Audio!AudioConstants
    <3>1. Audio!LsnOfTrack(kept', f) \in Nat /\ Audio!LsnOfTrack(kept', l) \in Nat
      BY <2>2, <3>0, <3>p DEF Audio!LsnOfTrack
    <3>2. \A n \in Nat : Audio!Msf(n) - Pregap \in Int
      BY ThereAndBack DEF Audio!Msf, Audio!AudioConstants
    <3>3. kept'.starts[f] \in Int /\ kept'.starts[l + 1] \in Int
      BY <2>2, <3>0
    <3> QED BY <2>2, <3>1, <3>2, <3>3, PlayPlaysInside
  <2>3. ASSUME platform = "freebsd",
               kept # NoAudioDisc \/ Audio!Loaded(unit),
               kept' = IF kept = NoAudioDisc THEN unit.disc ELSE kept
        PROVE  kept' \in AudioDiscs \cup {NoAudioDisc}
    BY <1>a, <1>k, <2>3 DEF Units
  <2>4. CASE Audio!Fails("play_tracks")
    BY <2>4, <1>c
  <2>5. CASE ~Audio!Fails("play_tracks") /\ platform = "freebsd"
    BY <1>2, <1>b, <2>5, <2>2, <2>3 DEF Audio!PlayTracks
  <2>6. CASE ~Audio!Fails("play_tracks") /\ platform # "freebsd"
    BY <1>2, <2>6, <2>1 DEF Audio!PlayTracks
  <2> QED BY <2>4, <2>5, <2>6
<1>3. CASE Audio!Pause
  BY <1>3, <1>a, <1>c, Unmoved DEF Audio!Pause, Audio!Control, Units
<1>4. CASE Audio!Resume
  BY <1>4, <1>a, <1>c, Unmoved DEF Audio!Resume, Audio!Control, Units
<1>5. CASE Audio!Stop
  BY <1>5, <1>a, <1>c, RestPlaysInside, RestedPlaysInside DEF Audio!Stop, Audio!Control
<1>6. CASE Audio!ReadSubchannel \/ Audio!GetVolume \/ Audio!LastSession
  BY <1>6, <1>k, <1>b, <1>c DEF Audio!ReadSubchannel, Audio!GetVolume, Audio!LastSession
<1>7. CASE Audio!SetVolume
  BY <1>7, <1>a, <1>c, Unmoved DEF Audio!SetVolume, Units
<1>8. CASE Audio!CloseTray
  <2>1. ASSUME Audio!Closed PROVE PlaysInside'
    <3>1. CASE unit.open
      <4>1. Audio!Rest(unit, "none") \in Units /\ Audio!Rest(unit, "none").status = "none"
        BY <1>a, RestPlaysInside
      <4>2. unit' = [Audio!Rest(unit, "none") EXCEPT !.open = FALSE]
        BY <2>1, <3>1 DEF Audio!Closed
      <4>3. unit' \in Units /\ unit'.status = "none"
        BY <4>1, <4>2 DEF Units
      <4> QED BY <2>1, <4>3, RestedPlaysInside DEF Audio!Closed
    <3>2. CASE ~unit.open
      BY <2>1, <3>2, <1>k, <1>b DEF Audio!Closed
    <3> QED BY <3>1, <3>2
  <2>2. ASSUME NEW op, NEW rc, Audio!RoutineFails(op, rc) PROVE PlaysInside'
    BY <2>2, <1>k, <1>b DEF Audio!RoutineFails
  <2>3. ASSUME Audio!AlreadyClosed PROVE PlaysInside'
    BY <2>3, <1>k, <1>b DEF Audio!AlreadyClosed
  <2> QED BY <1>8, <1>c, <2>1, <2>2, <2>3 DEF Audio!CloseTray, Audio!FailsToClose
<1>9. CASE Audio!PlayOn
  <2>1. unit.status = "play" /\ UNCHANGED <<platform, kept, asked>>
    BY <1>9 DEF Audio!PlayOn
  <2>2. CASE unit.pos + 1 = unit.end
    <3>1. unit' = Audio!Rest(unit, "completed")
      BY <1>9, <2>2 DEF Audio!PlayOn
    <3> QED BY <2>1, <3>1, <1>a, RestPlaysInside, RestedPlaysInside
  <2>3. CASE unit.pos + 1 # unit.end
    <3>1. unit' = [unit EXCEPT !.pos = @ + 1]
      BY <1>9, <2>3 DEF Audio!PlayOn
    <3>2. unit' \in Units /\ unit'.pos = unit.pos + 1 /\ unit'.end = unit.end /\ unit'.status = "play"
      BY <1>a, <2>1, <3>1 DEF Units
    <3>3. unit.pos \in Nat /\ unit.end \in Int /\ unit.pos + 1 < unit.end
      BY <1>a, <2>1, <2>3 DEF PlaysInside, Units
    <3>4. Audio!ByTracksOnFreeBsd' = Audio!ByTracksOnFreeBsd
      BY <2>1 DEF Audio!ByTracksOnFreeBsd
    <3>5. /\ asked.from \in Int /\ asked.to \in Int
          /\ ~Audio!ByTracksOnFreeBsd => asked.from <= unit.pos /\ unit.end <= asked.to
      BY <2>1 DEF PlaysInside
    <3>6. /\ asked'.from \in Int /\ asked'.to \in Int
          /\ ~Audio!ByTracksOnFreeBsd => asked'.from <= unit'.pos /\ unit'.end <= asked'.to
      BY <2>1, <3>2, <3>3, <3>5
    <3> QED BY <1>k, <2>1, <3>2, <3>3, <3>4, <3>6 DEF PlaysInside
  <2> QED BY <2>2, <2>3
<1>10. CASE Audio!ByHand
  <2>1. PICK d \in AudioDiscs \cup {NoAudioDisc}, o \in BOOLEAN :
          unit' = [Audio!Rest(unit, "none") EXCEPT !.disc = d, !.open = o]
    BY <1>10 DEF Audio!ByHand
  <2>2. unit' \in Units /\ unit'.status = "none"
    BY <2>1, <1>a, RestPlaysInside DEF Units
  <2> QED BY <1>10, <2>2, RestedPlaysInside DEF Audio!ByHand
<1> QED BY <1>k, <1>b, <1>1, <1>2, <1>3, <1>4, <1>5, <1>6, <1>7, <1>8, <1>9, <1>10 DEF Audio!Next, Audio!vars

(* What was told of the subchannel.                                        *)
Told ==
  heard.op = "subchannel" /\ heard.rc = "success" /\ platform # "solaris" =>
    heard.at \in Nat /\ heard.abs = Audio!Msf(heard.at)

LEMMA NextTold == ASSUME PlaysInside, Told, [Audio!Next]_(Audio!vars) PROVE Told'
<1>1. CASE Audio!ReadSubchannel
  <2>1. unit.pos \in Nat
    BY DEF PlaysInside, Units
  <2>2. CASE Audio!Fails("subchannel")
    BY <2>2 DEF Audio!Fails, Audio!RoutineFails, Audio!Answer, Told
  <2>3. ASSUME NEW abs, platform # "solaris" => abs = Audio!Told(unit.pos),
               heard' = [op |-> "subchannel", rc |-> "success", status |-> unit.status,
                         track |-> Audio!TrackAt(unit.disc, unit.pos), abs |-> abs, at |-> unit.pos],
               UNCHANGED platform
        PROVE  Told'
    BY <2>1, <2>3 DEF Told, Audio!Told, Audio!MsfTold
  <2> QED BY <1>1, <2>2, <2>3 DEF Audio!ReadSubchannel
<1>2. ASSUME NEW op, op # "subchannel", heard'.op = op PROVE Told'
  BY <1>2 DEF Told
<1>f. ASSUME NEW op, NEW rc, op # "subchannel", Audio!RoutineFails(op, rc) PROVE Told'
  BY <1>f, <1>2 DEF Audio!RoutineFails, Audio!Answer
<1>3. CASE Audio!PlayMsf \/ Audio!PlayTracks
  BY <1>3, <1>2, <1>f DEF Audio!PlayMsf, Audio!PlayTracks, Audio!Fails, Audio!PlayFrom, Audio!Answer
<1>4. CASE Audio!Pause \/ Audio!Resume \/ Audio!Stop
  BY <1>4, <1>2, <1>f DEF Audio!Pause, Audio!Resume, Audio!Stop, Audio!Control, Audio!Fails, Audio!Answer
<1>5. CASE Audio!GetVolume \/ Audio!SetVolume \/ Audio!LastSession
  BY <1>5, <1>2, <1>f DEF Audio!GetVolume, Audio!SetVolume, Audio!LastSession, Audio!Fails, Audio!Answer
<1>6. CASE Audio!CloseTray
  BY <1>6, <1>2, <1>f DEF Audio!CloseTray, Audio!FailsToClose, Audio!AlreadyClosed, Audio!Closed, Audio!Fails, Audio!Answer
<1>7. CASE Audio!PlayOn \/ Audio!ByHand
  <2>1. heard' = Audio!Silent
    BY <1>7 DEF Audio!PlayOn, Audio!ByHand
  <2>2. heard'.op = "none"
    BY <2>1 DEF Audio!Silent
  <2> QED BY <2>2, <1>2
<1>8. CASE UNCHANGED Audio!vars
  BY <1>8 DEF Audio!vars, Told
<1> QED BY <1>1, <1>3, <1>4, <1>5, <1>6, <1>7, <1>8 DEF Audio!Next

LEMMA CallsStart == ASSUME Audio!AudioConstants PROVE Audio!Init => PlaysInside /\ Told
<1>1. Audio!Init => heard = Audio!Silent
  BY DEF Audio!Init
<1>2. Audio!Silent.op # "subchannel"
  BY DEF Audio!Silent
<1> QED BY <1>1, <1>2, InitPlaysInside DEF Told

LEMMA CallsInvHolds ==
  ASSUME Audio!AudioConstants, PlaysInside, Told
  PROVE  Audio!PlayingAsAsked
<1>1. ASSUME heard.op = "subchannel", heard.rc = "success", platform # "solaris"
      PROVE  Audio!cdio_from_bcd8(heard.abs) = heard.at + Pregap
  <2>1. heard.at + Pregap \in Nat
    BY <1>1 DEF Told, Audio!AudioConstants
  <2> QED BY <1>1, <2>1, ThereAndBack DEF Told, Audio!Msf
<1>2. ASSUME unit.status \in {"play", "paused"}, ~Audio!ByTracksOnFreeBsd
      PROVE  asked.from <= unit.pos /\ unit.pos < asked.to
  BY <1>2 DEF PlaysInside, Units
<1> QED BY <1>1, <1>2 DEF Audio!PlayingAsAsked

(* Whatever is paused, refused or failed since, whatever disc is put in by *)
(* hand, and on every platform, what plays through the audio calls of the  *)
(* library lies inside of what the last play that succeeded asked for, and *)
(* the subchannel tells where it plays: the addresses go through BCD both  *)
(* ways (audio.c and the audio routines of the drivers).                   *)
THEOREM CallsPlayAsAsked ==
  ASSUME Audio!AudioConstants
  PROVE  Audio!Spec => []Audio!PlayingAsAsked
BY CallsStart, NextPlaysInside, NextTold, CallsInvHolds, PTL DEF Audio!Spec

-------------------------------------------------------------------------------
(* The system of the model check (PlayingSpec of MCCdPlayer): the player,  *)
(* or any program that makes the audio calls.                              *)
SideInv ==
  /\ side \in {"player", "calls"}
  /\ side = "player" => PlayerInv
  /\ side = "calls" => PlaysInside /\ Told

LEMMA SideSteps ==
  [OnPlayer \/ OnCalls]_<<vars, side, callVars>> =>
    /\ side' = side
    /\ side = "player" => [Next]_vars
    /\ side = "calls" => [Audio!Next]_(Audio!vars)
BY DEF OnPlayer, OnCalls, callVars, Audio!vars

(* Whoever plays the CD, the player or calls of the library in any order,  *)
(* what plays is what was asked for, and the subchannel tells where.       *)
THEOREM PlaysAsAsked == PlayingSpec => []PlayingAsAsked
<1>1. InitPlayer \/ InitCalls => SideInv
  BY PlayerStarts, CallsStart, AudioCallsOfDiscs DEF InitPlayer, InitCalls, SideInv
<1>2. SideInv /\ [OnPlayer \/ OnCalls]_<<vars, side, callVars>> => SideInv'
  BY SideSteps, PlayerGoesOn, NextPlaysInside, NextTold, AudioCallsOfDiscs DEF SideInv
<1>3. SideInv => PlayingAsAsked
  BY PlayerInvHolds, CallsInvHolds, AudioCallsOfDiscs DEF SideInv, PlayingAsAsked
<1> QED BY <1>1, <1>2, <1>3, PTL DEF PlayingSpec
=============================================================================
