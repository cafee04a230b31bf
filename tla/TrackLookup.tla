----------------------------- MODULE TrackLookup -----------------------------
(***************************************************************************)
(* Which track an LSN belongs to: lib/driver/track.c over the table of     *)
(* contents an image driver keeps (image_common.c, bincue.c).              *)
(*                                                                         *)
(* cdio_get_track is a binary search over track numbers of type track_t,   *)
(* eight bits wide, between the first track and the leadout; the model     *)
(* takes one step for each probe.  The other track queries that a reader   *)
(* combines with it (first and last LSN, sector count, MSF) are single     *)
(* steps, over the addresses of MsfAddress.                                *)
(* The lookup decides by which track's sector layout a sector is read.     *)
(***************************************************************************)
EXTENDS MsfAddress

CONSTANT Tocs    \* tables of contents: [first, tracks, start], start in LSNs

(* What a driver's table can be: tocent[] has an entry for each track and  *)
(* one for the leadout, and track numbers end at 99 (CDIO_CD_MAX_TRACKS).  *)
IsToc(t) ==
  /\ t.first \in 1 .. 99
  /\ t.tracks \in Nat
  /\ t.first + t.tracks <= 100
  /\ t.start \in [t.first .. t.first + t.tracks -> Int]

ASSUME TrackLookupAssumption == \A t \in Tocs : IsToc(t)

VARIABLES
  toc,    \* the table of contents of the open image
  pc,     \* "idle", or where cdio_get_track is: "probe", "found"
  lsn,    \* its argument
  low,    \* i_low_track
  high    \* i_high_track

vars == <<toc, pc, lsn, low, high, answer>>

InvalidTrack == 255   \* CDIO_INVALID_TRACK
LeadoutTrack == 170   \* CDIO_CDROM_LEADOUT_TRACK
U8(n) == n % 256

lead == toc.first + toc.tracks

TypeOK ==
  /\ IsToc(toc)
  /\ pc \in {"idle", "probe", "found"}
  /\ lsn \in Int
  /\ low \in 0 .. 101
  /\ high \in 0 .. 100
  /\ answer.op \in {"none", "get_track", "last_lsn", "sec_count", "track_msf"}

-----------------------------------------------------------------------------
(* _get_num_tracks_image, _get_first_track_num_image and, over them,       *)
(* cdio_get_last_track_num.                                                *)
OnePastLast == U8(toc.first + toc.tracks)                  \* mutant of LastTrackNum
LastTrackNum == U8(toc.first + toc.tracks - 1)

(* cdio_get_track_lsn over _get_lba_track_bincue: the leadout has a number *)
(* of its own, and numbers outside the table have no LSN.                  *)
TrackLsn(track) ==
  LET t == IF track = LeadoutTrack THEN lead ELSE track
  IN IF t \in toc.first .. lead THEN toc.start[t] ELSE InvalidLba

(* cdio_get_track before its loop.                                         *)
GetTrack(l) ==
  /\ pc = "idle"
  /\ lsn' = l
  /\ \/ /\ l < TrackLsn(toc.first)
        /\ answer' = Answer("get_track", l, 0)
        /\ UNCHANGED <<pc, low, high>>
     \/ /\ l >= TrackLsn(toc.first)
        /\ l > TrackLsn(LeadoutTrack)
        /\ answer' = Answer("get_track", l, InvalidTrack)
        /\ UNCHANGED <<pc, low, high>>
     \/ /\ l \in TrackLsn(toc.first) .. TrackLsn(LeadoutTrack)
        /\ pc' = "probe"
        /\ low' = toc.first
        /\ high' = U8(LastTrackNum + 1)
        /\ answer' = Answer("none", 0, 0)
  /\ UNCHANGED toc

(* One turn of the loop.  A track that starts at lsn moves both bounds.    *)
Mid == (low + high) \div 2
LowAtMid == IF lsn >= TrackLsn(Mid) THEN U8(Mid) ELSE low        \* mutant of LowAfter
LowAfter == IF lsn >= TrackLsn(Mid) THEN U8(Mid + 1) ELSE low
HighAfter == IF lsn <= TrackLsn(Mid) THEN U8(Mid - 1) ELSE high

Probe ==
  /\ pc = "probe"
  /\ low' = LowAfter
  /\ high' = HighAfter
  /\ pc' = IF low' <= high' THEN "probe" ELSE "found"
  /\ UNCHANGED <<toc, lsn, answer>>

(* After the loop: an exact hit left the bounds two apart.                 *)
HighKept == high                              \* mutant of HighOnceFound
HighOnceFound == IF low > high + 1 THEN high + 1 ELSE high

Found ==
  /\ pc = "found"
  /\ pc' = "idle"
  /\ answer' = Answer("get_track", lsn,
                 IF HighOnceFound = lead THEN LeadoutTrack ELSE HighOnceFound)
  /\ UNCHANGED <<toc, lsn, low, high>>

-----------------------------------------------------------------------------
(* cdio_get_track_last_lsn: the sector before the next track.              *)
TrackLastLsn(track) ==
  LET next == TrackLsn(U8(track + 1))
  IN IF next = InvalidLba THEN InvalidLba ELSE next - 1

GetTrackLastLsn(track) ==
  /\ pc = "idle"
  /\ answer' = Answer("last_lsn", track, TrackLastLsn(track))
  /\ UNCHANGED <<toc, pc, lsn, low, high>>

(* cdio_get_track_lba, and cdio_get_track_sec_count over it: the track     *)
(* number is compared with the number of tracks.                           *)
TrackLba(track) == LsnToLba(TrackLsn(track))
TrackSecCount(track) ==
  IF track \in 1 .. toc.tracks THEN TrackLba(U8(track + 1)) - TrackLba(track) ELSE 0

GetTrackSecCount(track) ==
  /\ pc = "idle"
  /\ answer' = Answer("sec_count", track, TrackSecCount(track))
  /\ UNCHANGED <<toc, pc, lsn, low, high>>

(* cdio_get_track_msf over _get_track_msf_image: the MSF that the image's  *)
(* driver made of the start.                                               *)
StartMsf(track) == LsnToMsf(TrackLsn(track))
GetTrackMsf(track) ==
  /\ pc = "idle"
  /\ answer' = Answer("track_msf", track, StartMsf(track))
  /\ UNCHANGED <<toc, pc, lsn, low, high>>

-----------------------------------------------------------------------------
Init ==
  /\ toc \in Tocs
  /\ pc = "idle"
  /\ lsn = 0
  /\ low = 0
  /\ high = 0
  /\ answer = Answer("none", 0, 0)

Query ==
  \/ \E l \in Lsns : GetTrack(l)
  \/ \E track \in toc.first .. lead :
       GetTrackLastLsn(track) \/ GetTrackSecCount(track) \/ GetTrackMsf(track)

Next == Query \/ Probe \/ Found

(* The caller's thread runs the loop to its end.                           *)
Spec == Init /\ [][Next]_vars /\ WF_vars(Probe \/ Found)

-----------------------------------------------------------------------------
(* Every track is at least a sector long.                                  *)
Increasing(t) ==
  \A a, b \in t.first .. t.first + t.tracks : a < b => t.start[a] < t.start[b]

(* track a of the current disc, the leadout excluded, spans l.             *)
Spans(a, l) == toc.start[a] <= l /\ l < toc.start[a + 1]

(* cdio_get_track answers with the one track that spans the LSN, 0 before  *)
(* the first track, the leadout's number at the leadout and                *)
(* CDIO_INVALID_TRACK beyond it.                                           *)
AnswersSpanningTrack ==
  answer.op = "get_track" =>
    /\ answer.arg < toc.start[toc.first] => answer.value = 0
    /\ answer.arg \in toc.start[toc.first] .. toc.start[lead] - 1 =>
         answer.value \in toc.first .. lead - 1 /\ Spans(answer.value, answer.arg)
    /\ answer.arg = toc.start[lead] => answer.value = LeadoutTrack
    /\ answer.arg > toc.start[lead] => answer.value = InvalidTrack

(* The eight-bit bounds stay within the table, one past either end, so no  *)
(* probe asks for a track that is not there.                               *)
ProbesInsideTable ==
  pc = "probe" => low \in toc.first .. lead /\ high \in toc.first .. lead /\ low <= high

(* The LSN the search is for stays between the bounds.                     *)
SearchInv ==
  pc # "idle" =>
    /\ lsn \in toc.start[toc.first] .. toc.start[lead]
    /\ low \in toc.first .. lead + 1
    /\ high \in toc.first - 1 .. lead
    /\ \A a \in toc.first .. lead : a < low => toc.start[a] <= lsn
    /\ \A a \in toc.first .. lead : a > high => toc.start[a] >= lsn
    /\ pc = "probe" => low <= high
    /\ pc = "found" => low > high
    /\ \/ low <= high + 1 /\ \A a \in toc.first .. lead :
            /\ a < low => toc.start[a] < lsn
            /\ a > high => toc.start[a] > lsn
       \/ low = high + 2 /\ toc.start[high + 1] = lsn

(* A sector that cdio_get_track_last_lsn says is the last of a track is    *)
(* spanned by that track.                                                  *)
LastLsnInTrack ==
  (answer.op = "last_lsn" /\ answer.arg < lead) => Spans(answer.arg, answer.value)

(* The MSF that cdio_get_track_msf gives for a track, or for the leadout,  *)
(* names the LSN at which cdio_get_track finds it to start.                *)
MsfNamesTrack ==
  (answer.op = "track_msf" /\ OnDisc(toc.start[answer.arg])) =>
    MsfToLsn(answer.value) = toc.start[answer.arg]

(* The search ends: each probe brings the bounds together.                 *)
LookupTerminates == pc = "probe" ~> pc = "idle"
=============================================================================
