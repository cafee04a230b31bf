------------------------- MODULE LinuxDeviceProofs -------------------------
(***************************************************************************)
(* Proofs about the drivers.  LinuxDevice: for every set of discs, with    *)
(* track numbers up to any limit, the table of contents that ends up in    *)
(* the environment was read whole, and is then kept.  The other platforms  *)
(* follow from OTHER PLATFORMS on.                                         *)
(*                                                                         *)
(* TableOfOneReading is about a table that is complete, so it is not       *)
(* inductive: Reading says of each step of read_toc_linux what has been    *)
(* read until then, and that no reading starts with a table.               *)
(***************************************************************************)
EXTENDS MCDrives, TLAPS, FiniteSetTheorems

Reading ==
  /\ pc \in TocSteps => toc_init = "no"
  /\ pc \in {"entry", "leadout"} =>
       /\ disc \in seen
       /\ i_first_track \in 1 .. i_last_track
       /\ i_tracks = i_last_track - i_first_track + 1
  /\ pc = "entry" => EntriesRead(at - i_first_track)
  /\ pc = "leadout" => EntriesRead(i_tracks)

IInv == TypeOK /\ Reading /\ TableOfOneReading

(* The steps that leave the table and its reader alone.                    *)
TableKept == UNCHANGED <<seen, toc>>

LEMMA InitInv == Init => IInv
BY LinuxDeviceAssumption, SMT
   DEF Init, IInv, TypeOK, Reading, TableOfOneReading, EntriesRead, Blank, Entries, Query,
       TocSteps, Mode2Steps

(* What was read stays read while nothing that it speaks of changes.       *)
LEMMA KeptInv ==
  ASSUME Reading, TableOfOneReading, TableKept, pc' \notin TocSteps
  PROVE  Reading' /\ TableOfOneReading'
BY SMT DEF Reading, TableOfOneReading, EntriesRead, TableKept, toc, TocSteps

LEMMA SwapInv ==
  ASSUME IInv, NEW d \in Discs \cup {NoDisc}, Swap(d)
  PROVE  IInv'
<1>1. TypeOK'
  BY SMT DEF IInv, TypeOK, Swap, toc, reader, Sectors, TocSteps, Mode2Steps, Entries
<1>2. ASSUME NEW n, EntriesRead(n) PROVE EntriesRead(n)'
  BY <1>2 DEF EntriesRead, Swap, toc
<1>3. Reading' /\ TableOfOneReading'
  <2>1. Reading'
    BY <1>2, SMT DEF IInv, Reading, Swap, toc, TocSteps
  <2>2. TableOfOneReading'
    BY <1>2, SMT DEF IInv, Reading, TableOfOneReading, Swap, toc, TocSteps
  <2> QED BY <2>1, <2>2
<1> QED BY <1>1, <1>3 DEF IInv

LEMMA CallInv ==
  ASSUME IInv, NEW op, NEW n \in Nat, NEW count \in Nat, Call(op, n, count)
  PROVE  IInv'
<1>1. TypeOK'
  BY SMT DEF IInv, TypeOK, Call, Query, MustRead, AfterToc, toc, Sectors, TocSteps, Mode2Steps, Entries
<1>2. Reading'
  BY SMT DEF IInv, Reading, Call, MustRead, AfterToc, toc, TocSteps
<1>3. TableOfOneReading'
  BY SMT DEF IInv, TableOfOneReading, EntriesRead, Call, toc
<1> QED BY <1>1, <1>2, <1>3 DEF IInv

LEMMA GiveUpInv == IInv /\ GiveUp => IInv'
<1> SUFFICES ASSUME IInv, GiveUp PROVE IInv'
  OBVIOUS
<1>1. TypeOK'
  BY SMT DEF IInv, TypeOK, GiveUp, AfterToc, toc, reader, Sectors, TocSteps, Mode2Steps, Entries
<1>2. TableKept /\ pc' \notin TocSteps
  BY DEF GiveUp, AfterToc, TableKept, TocSteps
<1> QED BY <1>1, <1>2, KeptInv DEF IInv

LEMMA HeaderInv == IInv /\ ReadHeader => IInv'
<1> SUFFICES ASSUME IInv, ReadHeader PROVE IInv'
  OBVIOUS
<1>1. /\ First[disc] \in 1 .. MaxTracks /\ Last[disc] \in 1 .. MaxTracks
      /\ First[disc] <= Last[disc] /\ MaxTracks \in Nat
  BY LinuxDeviceAssumption, SMT DEF ReadHeader
<1>2. TypeOK'
  <2>1. /\ i_first_track' \in 0 .. MaxTracks /\ i_last_track' \in 0 .. MaxTracks
        /\ i_tracks' \in 0 .. MaxTracks
        /\ at' \in Nat /\ at' \in i_first_track' .. i_last_track'
    BY <1>1, SMT DEF ReadHeader
  <2>2. seen' \subseteq Discs \cup {NoDisc} /\ pc' = "entry"
    BY DEF ReadHeader
  <2>3. UNCHANGED <<disc, toc_init, tocent, track_flags, query, access_mode, blocksize, buf, stored>>
    BY DEF ReadHeader, reader
  <2> QED BY <2>1, <2>2, <2>3 DEF IInv, TypeOK, Sectors, TocSteps, Mode2Steps
<1>3. toc_init = "no" /\ toc_init' = "no" /\ pc' = "entry"
  BY DEF IInv, Reading, ReadHeader, TocSteps
<1>4. EntriesRead(at - i_first_track)'
  BY <1>1, SMT DEF EntriesRead, ReadHeader
<1>5. Reading'
  BY <1>1, <1>3, <1>4, SMT DEF Reading, ReadHeader, TocSteps
<1> QED BY <1>2, <1>3, <1>5 DEF IInv, TableOfOneReading

LEMMA EntryInv == IInv /\ ReadEntry => IInv'
<1> SUFFICES ASSUME IInv, ReadEntry PROVE IInv'
  OBVIOUS
<1> DEFINE k == at - i_first_track
<1>1. /\ disc \in Discs /\ disc \in seen /\ disc # NoDisc
      /\ at \in i_first_track .. i_last_track
      /\ i_first_track \in 1 .. i_last_track /\ i_last_track \in 0 .. MaxTracks
      /\ i_tracks = i_last_track - i_first_track + 1 /\ MaxTracks \in 1 .. 99
  BY LinuxDeviceAssumption, SMT DEF IInv, TypeOK, Reading, ReadEntry
<1>2. k \in 0 .. MaxTracks /\ at \in 0 .. MaxTracks /\ at \in 0 .. 255
  BY <1>1, SMT
<1>3. /\ tocent' = [tocent EXCEPT ![k] = <<disc, at>>]
      /\ track_flags' = [track_flags EXCEPT ![at] = <<disc, at>>]
  BY DEF ReadEntry, FlagsIndex
<1>4. <<disc, at>> \in Entries
  BY <1>1, <1>2 DEF Entries
<1>5. tocent' \in [0 .. MaxTracks -> Entries] /\ track_flags' \in [0 .. MaxTracks -> Entries]
  BY <1>2, <1>3, <1>4 DEF IInv, TypeOK
<1>6. TypeOK'
  BY <1>1, <1>5, SMT DEF IInv, TypeOK, ReadEntry, MoreTracks, reader, Sectors, TocSteps, Mode2Steps
<1>7. ASSUME NEW j \in 0 .. k
      PROVE  /\ tocent'[j][1] \in seen \ {NoDisc}
             /\ tocent'[j][2] = i_first_track + j
             /\ track_flags'[i_first_track + j] = tocent'[j]
  <2>1. CASE j = k
    <3>1. tocent'[j] = <<disc, at>> /\ i_first_track + j = at
      BY <1>1, <1>2, <1>3, <2>1, SMT DEF IInv, TypeOK
    <3>2. track_flags'[at] = <<disc, at>>
      BY <1>2, <1>3 DEF IInv, TypeOK
    <3> QED BY <1>1, <3>1, <3>2
  <2>2. CASE j # k
    <3>1. /\ j \in 0 .. k - 1 /\ j \in 0 .. MaxTracks
          /\ i_first_track + j # at /\ i_first_track + j \in 0 .. MaxTracks
      BY <1>1, <1>2, <2>2, SMT
    <3>2. /\ tocent'[j] = tocent[j]
          /\ track_flags'[i_first_track + j] = track_flags[i_first_track + j]
      BY <1>2, <1>3, <2>2, <3>1 DEF IInv, TypeOK
    <3>3. EntriesRead(k)
      BY DEF IInv, Reading, ReadEntry
    <3> QED BY <3>1, <3>2, <3>3 DEF EntriesRead
  <2> QED BY <2>1, <2>2
<1>8. toc_init = "no" /\ toc_init' = "no"
  BY DEF IInv, Reading, ReadEntry, TocSteps
<1>9. Reading'
  <2>1. (at' - i_first_track') - 1 = k /\ (~ MoreTracks(at) => i_tracks' - 1 = k)
    BY <1>1, SMT DEF ReadEntry, MoreTracks
  <2>2. seen' = seen /\ i_first_track' = i_first_track
    BY DEF ReadEntry
  <2>3. EntriesRead(at - i_first_track)'
    BY <1>7, <2>1, <2>2 DEF EntriesRead
  <2>4. ~ MoreTracks(at) => EntriesRead(i_tracks)'
    BY <1>7, <2>1, <2>2 DEF EntriesRead
  <2>5. pc' = "leadout" => ~ MoreTracks(at)
    BY DEF ReadEntry
  <2> QED BY <1>1, <1>8, <2>3, <2>4, <2>5 DEF Reading, ReadEntry, TocSteps
<1> QED BY <1>6, <1>8, <1>9 DEF IInv, TableOfOneReading

LEMMA LeadoutInv == IInv /\ ReadLeadout => IInv'
<1> SUFFICES ASSUME IInv, ReadLeadout PROVE IInv'
  OBVIOUS
<1>1. /\ disc \in Discs /\ disc \in seen /\ disc # NoDisc /\ EntriesRead(i_tracks)
      /\ i_tracks \in 0 .. MaxTracks /\ MaxTracks \in 1 .. 99
  BY LinuxDeviceAssumption, SMT DEF IInv, TypeOK, Reading, ReadLeadout
<1>2. tocent' = [tocent EXCEPT ![i_tracks] = <<disc, LeadoutTrack>>]
  BY DEF ReadLeadout
<1>3. <<disc, LeadoutTrack>> \in Entries
  BY <1>1, SMT DEF Entries, LeadoutTrack
<1>4. tocent' \in [0 .. MaxTracks -> Entries]
  BY <1>1, <1>2, <1>3 DEF IInv, TypeOK
<1>5. TypeOK'
  BY <1>4, SMT DEF IInv, TypeOK, ReadLeadout, AfterToc, reader, Sectors, TocSteps, Mode2Steps
<1>6. tocent'[i_tracks] = <<disc, LeadoutTrack>>
  BY <1>1, <1>2 DEF IInv, TypeOK
<1>7. ASSUME NEW j \in 0 .. i_tracks - 1
      PROVE  /\ tocent'[j][1] \in seen \ {NoDisc}
             /\ tocent'[j][2] = i_first_track + j
             /\ track_flags[i_first_track + j] = tocent'[j]
  <2>1. j \in 0 .. MaxTracks /\ j # i_tracks
    BY <1>1, SMT
  <2>2. tocent'[j] = tocent[j]
    BY <1>2, <2>1 DEF IInv, TypeOK
  <2> QED BY <1>1, <2>2 DEF EntriesRead
<1>8. EntriesRead(i_tracks)'
  BY <1>7 DEF EntriesRead, ReadLeadout
<1>9. TableOfOneReading'
  BY <1>1, <1>6, <1>8 DEF TableOfOneReading, ReadLeadout
<1>10. Reading'
  BY DEF Reading, ReadLeadout, AfterToc, TocSteps
<1> QED BY <1>5, <1>9, <1>10 DEF IInv

LEMMA AnswerInv == IInv /\ Answer => IInv'
<1> SUFFICES ASSUME IInv, Answer PROVE IInv'
  OBVIOUS
<1>1. TypeOK'
  BY SMT DEF IInv, TypeOK, Answer, toc, reader, Sectors, TocSteps, Mode2Steps, Entries
<1>2. TableKept /\ pc' \notin TocSteps
  BY DEF Answer, TableKept, TocSteps
<1> QED BY <1>1, <1>2, KeptInv DEF IInv

LEMMA CheckLsnInv == IInv /\ CheckLsn => IInv'
<1> SUFFICES ASSUME IInv, CheckLsn PROVE IInv'
  OBVIOUS
<1>1. query'.n \in Nat /\ query'.count \in Nat /\ pc' \in {"idle"} \cup Sectors
  <2>1. CASE Return(Failed) /\ UNCHANGED <<query, at, buf>>
    BY <2>1 DEF IInv, TypeOK, Return
  <2>2. CASE pc' = query.op /\ \E n \in 1 .. query.count : query' = Query(query.op, query.n, n)
    BY <2>2, SMT DEF IInv, TypeOK, CheckLsn, Query
  <2> QED BY <2>1, <2>2 DEF CheckLsn
<1>2. at' \in Nat /\ buf' \in Int
  BY SMT DEF IInv, TypeOK, CheckLsn, AddressOf, Query
<1>3. TypeOK'
  <2>1. UNCHANGED <<disc, seen, toc, access_mode, blocksize, stored>>
    BY SMT DEF CheckLsn
  <2>2. pc' # "check" /\ pc' # "entry"
    BY <1>1 DEF Sectors
  <2> QED BY <1>1, <1>2, <2>1, <2>2 DEF IInv, TypeOK, toc, Sectors, TocSteps, Mode2Steps
<1>4. TableKept /\ pc' \notin TocSteps
  BY <1>1, SMT DEF CheckLsn, TableKept, TocSteps, Sectors
<1> QED BY <1>3, <1>4, KeptInv DEF IInv

LEMMA Mode1Inv == IInv /\ Mode1Sector => IInv'
<1> SUFFICES ASSUME IInv, Mode1Sector PROVE IInv'
  OBVIOUS
<1>1. at' \in Nat /\ stored' \in Seq(Int) /\ pc' \in {"idle", "mode1"}
  <2>0. at \in Nat /\ stored \in Seq(Int) /\ AddressOf(at) \in Int
    BY SMT DEF IInv, TypeOK, AddressOf
  <2>1. at' \in Nat
    BY <2>0, SMT DEF Mode1Sector
  <2>2. stored' \in Seq(Int)
    BY <2>0, SMT DEF Mode1Sector
  <2>3. pc' \in {"idle", "mode1"}
    BY SMT DEF Mode1Sector, Return
  <2> QED BY <2>1, <2>2, <2>3
<1>2. TypeOK'
  BY <1>1, SMT DEF IInv, TypeOK, Mode1Sector, toc, Sectors, TocSteps, Mode2Steps, Entries
<1>3. TableKept /\ pc' \notin TocSteps
  BY <1>1, SMT DEF Mode1Sector, TableKept, TocSteps
<1> QED BY <1>2, <1>3, KeptInv DEF IInv

LEMMA Mode2Inv == IInv /\ Mode2Sector => IInv'
<1> SUFFICES ASSUME IInv, Mode2Sector PROVE IInv'
  OBVIOUS
<1>1. ASSUME NEW sector \in Int, SectorDone(sector)
      PROVE  at' \in Nat /\ buf' \in Int /\ stored' \in Seq(Int) /\ pc' \in {"idle", "mode2"}
  BY <1>1, SMT DEF IInv, TypeOK, SectorDone, Return, AddressOf
<1>2. AddressOf(at) \in Int /\ buf \in Int
  BY SMT DEF IInv, TypeOK, AddressOf
<1>3. /\ at' \in Nat /\ buf' \in Int /\ stored' \in Seq(Int)
      /\ pc' \in {"idle"} \cup Mode2Steps
      /\ access_mode' \in {"IOCTL", "READ_CD", "READ_10"} /\ blocksize' \in {2048, 2336}
      /\ UNCHANGED <<disc, seen, toc, query>>
  <2>0. /\ at \in Nat /\ stored \in Seq(Int) /\ access_mode \in {"IOCTL", "READ_CD", "READ_10"}
        /\ blocksize \in {2048, 2336}
    BY DEF IInv, TypeOK
  <2>1. CASE Mode2Ioctl
    BY <1>1, <1>2, <2>0, <2>1, SMT DEF Mode2Ioctl, SectorFails, Return, Mode2Steps
  <2>2. CASE Mode2ReadCd
    BY <1>1, <1>2, <2>0, <2>2, SMT DEF Mode2ReadCd, FallBack, NextMode, Mode2Steps
  <2>3. CASE SelectBlocksize
    BY <1>2, <2>0, <2>3, SMT DEF SelectBlocksize, FallBack, NextMode, Mode2Steps
  <2>4. CASE Read10
    BY <1>2, <2>0, <2>4, SMT DEF Read10, Elsewhere, Mode2Steps
  <2>5. CASE Undo
    BY <1>2, <2>0, <2>5, SMT DEF Undo, Restored, FallBack, NextMode, Mode2Steps
  <2>6. CASE Restore
    BY <1>1, <1>2, <2>0, <2>6, SMT DEF Restore, Restored, FallBack, NextMode, Mode2Steps
  <2> QED BY <2>1, <2>2, <2>3, <2>4, <2>5, <2>6 DEF Mode2Sector
<1>4. TypeOK'
  BY <1>3, SMT DEF IInv, TypeOK, toc, Sectors, TocSteps, Mode2Steps, Entries
<1>5. TableKept /\ pc' \notin TocSteps
  BY <1>3, SMT DEF TableKept, TocSteps, Mode2Steps
<1> QED BY <1>4, <1>5, KeptInv DEF IInv

LEMMA SetInv == IInv /\ SetAccessMode => IInv'
<1> SUFFICES ASSUME IInv, SetAccessMode PROVE IInv'
  OBVIOUS
<1>1. TypeOK'
  BY SMT DEF IInv, TypeOK, SetAccessMode, Query, toc, Sectors, TocSteps, Mode2Steps, Entries
<1>2. TableKept /\ pc' \notin TocSteps
  BY DEF SetAccessMode, TableKept, TocSteps
<1> QED BY <1>1, <1>2, KeptInv DEF IInv

LEMMA StepInv == IInv /\ [Next]_vars => IInv'
<1> SUFFICES ASSUME IInv, [Next]_vars PROVE IInv'
  OBVIOUS
<1>1. CASE \E d \in Discs \cup {NoDisc} : Swap(d)
  BY <1>1, SwapInv
<1>2. CASE \E op, n, count : n \in Nat /\ count \in Nat /\ Call(op, n, count)
  BY <1>2, CallInv
<1>3. CASE Calls
  BY <1>3, GiveUpInv, HeaderInv, EntryInv, LeadoutInv, AnswerInv, CheckLsnInv, Mode1Inv, Mode2Inv
     DEF Calls, ReadToc
<1>4. CASE SetAccessMode
  BY <1>4, SetInv
<1>5. CASE UNCHANGED vars
  <2>1. TypeOK'
    BY <1>5, SMT DEF IInv, TypeOK, vars, toc, reader, Sectors, TocSteps, Mode2Steps, Entries
  <2>2. Reading' /\ TableOfOneReading'
    BY <1>5 DEF IInv, Reading, TableOfOneReading, EntriesRead, vars, toc
  <2> QED BY <2>1, <2>2 DEF IInv
<1> QED
  <2>1. /\ Tracks \subseteq Nat /\ Lsns \subseteq Nat /\ Blocks \subseteq Nat
        /\ LeadoutTrack \in Nat /\ 0 \in Nat
    BY LinuxDeviceAssumption, SMT DEF LeadoutTrack
  <2> QED BY <1>1, <1>2, <1>3, <1>4, <1>5, <2>1 DEF Next

(* The environment and the reading of its table keep their types, for any  *)
(* discs with track numbers up to the limit.                               *)
THEOREM TypeCorrect == Spec => []TypeOK
<1>1. IInv => TypeOK
  BY DEF IInv
<1> QED BY InitInv, StepInv, <1>1, PTL DEF Spec

(* Whatever discs are put in while the table is read, and however many     *)
(* readings were given up before, a table that counts as read has every    *)
(* track's entry, flags and the leadout, all of one reading                *)
(* (read_toc_linux).                                                       *)
THEOREM TableIsWhole == Spec => []TableOfOneReading
<1>1. IInv => TableOfOneReading
  BY DEF IInv
<1> QED BY InitInv, StepInv, <1>1, PTL DEF Spec

(* A table that counts as read never changes again (the toc_init tests of  *)
(* gnu_linux.c and _cdio_generic.c).                                       *)
THEOREM TableIsKept == Spec => TableNeverChanges
<1>1. IInv /\ [Next]_vars => [toc_init = "yes" => UNCHANGED toc]_vars
  <2> SUFFICES ASSUME IInv, Next, toc_init = "yes" PROVE UNCHANGED toc
    OBVIOUS
  <2>1. pc \notin TocSteps
    BY DEF IInv, Reading
  <2> QED
    BY <2>1 DEF Next, Swap, Call, SetAccessMode, Calls, ReadToc, GiveUp, ReadHeader, ReadEntry, ReadLeadout,
       TocSteps, Answer, CheckLsn, Mode1Sector, Mode2Sector, Mode2Ioctl, Mode2ReadCd,
       SelectBlocksize, Read10, Undo, Restore
<1> QED BY InitInv, StepInv, <1>1, PTL DEF Spec, TableNeverChanges

-----------------------------------------------------------------------------
(* Between MODE SELECT and the restore READ_10 runs, which a restore that  *)
(* failed replaces with the ioctl for good.                                *)
Selecting == {"read10", "restore", "undo"}
SelectInv ==
  /\ pc \in Selecting => access_mode = "READ_10"
  /\ pc \notin Selecting /\ blocksize # 2048 => access_mode = "IOCTL"

LEMMA SelectStep == IInv /\ SelectInv /\ [Next]_vars => SelectInv'
<1> SUFFICES ASSUME IInv, SelectInv, [Next]_vars PROVE SelectInv'
  OBVIOUS
<1>1. CASE pc' \notin Selecting /\ pc \notin Selecting /\ UNCHANGED <<access_mode, blocksize>>
  BY <1>1 DEF SelectInv
<1>2. CASE \E d \in Discs \cup {NoDisc} : Swap(d)
  BY <1>2 DEF Swap, SelectInv, reader
<1>3. CASE \E op, n, count : Call(op, n, count)
  BY <1>1, <1>3 DEF Call, AfterToc, Selecting
<1>4. CASE ReadToc \/ Answer
  BY <1>1, <1>4, SMT
     DEF ReadToc, GiveUp, ReadHeader, ReadEntry, ReadLeadout, Answer, AfterToc, reader,
         TocSteps, Selecting
<1>5. CASE CheckLsn
  <2>1. pc = "check" /\ UNCHANGED <<access_mode, blocksize>>
    BY <1>5 DEF CheckLsn
  <2>2. pc' \in {"idle"} \cup Sectors
    BY <1>5 DEF CheckLsn, Return, IInv, TypeOK
  <2> QED BY <1>1, <2>1, <2>2 DEF Selecting, Sectors
<1>6. CASE Mode1Sector
  BY <1>1, <1>6, SMT DEF Mode1Sector, Return, Selecting
<1>7. CASE Mode2Sector
  <2>1. CASE Mode2Ioctl \/ Mode2ReadCd
    BY <2>1, SMT
       DEF Mode2Ioctl, Mode2ReadCd, SectorDone, SectorFails, FallBack, NextMode, Return,
           SelectInv, Selecting
  <2>2. CASE SelectBlocksize \/ Read10
    BY <2>2, SMT DEF SelectBlocksize, Read10, FallBack, NextMode, SelectInv, Selecting
  <2>3. CASE Undo \/ Restore
    BY <2>3, SMT
       DEF Undo, Restore, Restored, SectorDone, FallBack, NextMode, Return, SelectInv, Selecting
  <2> QED BY <1>7, <2>1, <2>2, <2>3 DEF Mode2Sector
<1>8. CASE SetAccessMode
  BY <1>8, SMT DEF SetAccessMode, SelectInv, Selecting
<1>9. CASE UNCHANGED vars
  BY <1>9 DEF vars, reader, SelectInv
<1> QED BY <1>2, <1>3, <1>4, <1>5, <1>6, <1>7, <1>8, <1>9 DEF Next, Calls

(* A drive that is left with another block size than the 2048 bytes that   *)
(* plain reads rely on is never read with the commands that set it again   *)
(* (_read_mode2_sectors_mmc), whichever commands fail.                     *)
THEOREM BlockSizeIsKnown == Spec => []BlockSizeKnown
<1>1. Init => SelectInv
  BY DEF Init, SelectInv, Selecting
<1>2. SelectInv => BlockSizeKnown
  BY DEF SelectInv, BlockSizeKnown, Selecting
<1> QED BY <1>1, <1>2, InitInv, StepInv, SelectStep, PTL DEF Spec
-----------------------------------------------------------------------------
(* A call that runs has answered nothing yet, and is a getter or a sector  *)
(* read, whose steps are not those of the other.                           *)
Getters == {"first_track", "num_tracks", "format", "green", "msf", "channels", "permit", "last_lsn"}
AskedInv ==
  /\ pc # "idle" => answer = NoAnswer /\ query.op \in Getters \cup Sectors
  /\ pc = "answer" => query.op \notin Sectors
  /\ pc \in {"check", "mode1"} \cup Mode2Steps => query.op \in Sectors

(* Until the table is read no getter has answered from it, and what is     *)
(* known of a table that is kept stays known.                              *)
LEMMA AnswerKept ==
  ASSUME AnswersFromTable, UNCHANGED <<seen, toc, answer>>
  PROVE  AnswersFromTable'
BY DEF AnswersFromTable, Lead, toc

LEMMA OtherAnswer ==
  ASSUME answer'.op \notin {"msf", "format", "green", "channels"}
  PROVE  AnswersFromTable'
BY DEF AnswersFromTable

(* What an entry of a table that was read whole says.                      *)
LEMMA WholeEntry ==
  ASSUME IInv, toc_init = "yes", NEW t \in Nat, HasEntry(t)
  PROVE  /\ tocent[t - i_first_track][1] \in seen \ {NoDisc}
         /\ tocent[t - i_first_track][2] = IF t = Lead THEN LeadoutTrack ELSE t
         /\ t # Lead => track_flags[t][2] = t
<1>1. i_first_track \in Nat /\ i_tracks \in Nat
  BY LinuxDeviceAssumption, SMT DEF IInv, TypeOK
<1>2. CASE t = Lead
  <2>1. t - i_first_track = i_tracks
    BY <1>1, <1>2, SMT DEF Lead
  <2> QED BY <1>2, <2>1 DEF IInv, TableOfOneReading
<1>3. CASE t # Lead
  <2>1. t - i_first_track \in 0 .. i_tracks - 1 /\ i_first_track + (t - i_first_track) = t
    BY <1>1, <1>3, SMT DEF Lead, HasEntry
  <2> QED BY <1>3, <2>1 DEF IInv, TableOfOneReading, EntriesRead
<1> QED BY <1>2, <1>3

LEMMA AnswerStep ==
  ASSUME IInv, AskedInv, Answer
  PROVE  AnswersFromTable'
<1> SUFFICES ASSUME toc_init = "yes", answer'.rc = Ok PROVE AnswersFromTable'
  BY DEF AnswersFromTable, Answer, toc
<1>1. answer' \in Answers /\ query.op \in Getters /\ query.n \in Nat
  BY DEF Answer, AskedInv, IInv, TypeOK
<1>2. UNCHANGED <<seen, toc>>
  BY DEF Answer
<1>3. i_first_track \in Nat /\ i_tracks \in Nat /\ Lead \in Nat /\ HasEntry(Lead)
  BY LinuxDeviceAssumption, SMT DEF IInv, TypeOK, Lead, HasEntry
<1>4. ASSUME NEW t \in Nat, answer' = EntryOf(t)
      PROVE  HasEntry(t) /\ answer' = Result(Ok, tocent[t - i_first_track])
  BY <1>4, SMT DEF EntryOf, Result, Ok, Failed
<1>5. ASSUME NEW t \in Nat, answer' = EntryOf(t), t = query.n \/ (t = Lead /\ query.n = LeadoutTrack),
             query.op # "channels"
      PROVE  AnswersFromTable'
  <2>1. /\ answer'.op = query.op /\ answer'.n = query.n
        /\ answer'.from = tocent[t - i_first_track]
    BY <1>4, <1>5 DEF Result
  <2>2. /\ answer'.from[1] \in seen \ {NoDisc}
        /\ answer'.from[2] = IF t = Lead THEN LeadoutTrack ELSE t
    BY <1>4, <1>5, <2>1, WholeEntry
  <2>3. (IF t = Lead THEN LeadoutTrack ELSE t)
          = IF query.n \in {Lead, LeadoutTrack} THEN LeadoutTrack ELSE query.n
    BY <1>5
  <2> QED BY <1>2, <1>5, <2>1, <2>2, <2>3 DEF AnswersFromTable, Lead, toc
<1>6. CASE query.op \in {"format", "green"}
  <2>1. answer' = EntryOf(query.n)
    BY <1>1, <1>6, SMT DEF Answers, Result, Ok, Failed
  <2> QED BY <1>1, <1>5, <1>6, <2>1
<1>7. CASE query.op = "msf"
  <2>1. answer' = EntryOf(IF query.n = LeadoutTrack THEN Lead ELSE query.n)
    BY <1>1, <1>7 DEF Answers
  <2> QED BY <1>1, <1>3, <1>5, <1>7, <2>1
<1>8. CASE query.op = "channels"
  <2>1. answer' = Result(Ok, track_flags[query.n]) /\ query.n <= LastTrackNum
    BY <1>1, <1>3, <1>8, SMT DEF Answers, Result, Ok, Failed, LastTrackNum
  <2>2. answer'.op = "channels" /\ answer'.n = query.n /\ answer'.from = track_flags[query.n]
    BY <1>8, <2>1 DEF Result
  <2>3. query.n >= i_first_track => HasEntry(query.n) /\ query.n # Lead
    BY <1>1, <1>3, <2>1, SMT DEF LastTrackNum, HasEntry, Lead
  <2>4. query.n < i_first_track \/ track_flags[query.n][2] = query.n
    BY <1>1, <1>3, <2>3, WholeEntry, SMT
  <2> QED BY <1>2, <2>2, <2>4 DEF AnswersFromTable, toc
<1>9. CASE query.op \in {"first_track", "num_tracks", "permit", "last_lsn"}
  <2>1. answer'.op = query.op
    BY <1>1, <1>9 DEF Answers, Result
  <2> QED BY <1>9, <2>1, OtherAnswer
<1> QED BY <1>1, <1>6, <1>7, <1>8, <1>9 DEF Getters

LEMMA AskedStep ==
  ASSUME IInv, AskedInv, [Next]_vars
  PROVE  AskedInv'
<1>1. CASE UNCHANGED <<pc, answer, query>>
  BY <1>1 DEF AskedInv
<1>2. CASE \E d \in Discs \cup {NoDisc} : Swap(d)
  BY <1>1, <1>2 DEF Swap
<1>3. CASE \E op, n, count : op \in Getters \cup Sectors /\ Call(op, n, count)
  <2> PICK op, n, count : op \in Getters \cup Sectors /\ Call(op, n, count)
    BY <1>3
  <2>1. answer' = NoAnswer /\ query'.op = op /\ pc' \in {"header", AfterToc(op)}
    BY DEF Call, Query
  <2> QED BY <2>1 DEF AskedInv, AfterToc, Getters, Sectors, Mode2Steps
<1>4. CASE ReadToc
  <2>1. UNCHANGED <<answer, query>> /\ pc \in TocSteps /\ pc' \in {"entry", "leadout", AfterToc(query.op)}
    BY <1>4 DEF ReadToc, GiveUp, ReadHeader, ReadEntry, ReadLeadout, TocSteps
  <2> QED BY <2>1 DEF AskedInv, AfterToc, TocSteps, Getters, Sectors, Mode2Steps
<1>5. CASE pc' = "idle"
  BY <1>5 DEF AskedInv, Mode2Steps
<1>6. CASE CheckLsn
  <2>1. pc = "check" /\ query.op \in Sectors /\ answer = NoAnswer
    BY <1>6 DEF CheckLsn, AskedInv
  <2>2. CASE \E n \in 1 .. query.count : query' = Query(query.op, query.n, n) /\ pc' = query.op /\ UNCHANGED answer
    <3>1. query'.op = query.op
      BY <2>2 DEF Query
    <3> QED BY <2>1, <2>2, <3>1 DEF AskedInv, Sectors, Mode2Steps
  <2> QED BY <1>5, <1>6, <2>2 DEF CheckLsn, Return
<1>7. CASE Mode1Sector
  <2>1. pc' = "idle" \/ UNCHANGED <<pc, answer, query>>
    BY <1>7 DEF Mode1Sector, Return
  <2> QED BY <1>1, <1>5, <2>1
<1>8. CASE Mode2Sector
  <2>1. pc \in Mode2Steps /\ UNCHANGED query
    BY <1>8 DEF Mode2Sector, Mode2Ioctl, Mode2ReadCd, SelectBlocksize, Read10, Undo, Restore, Mode2Steps
  <2>2. pc' = "idle" \/ (pc' \in Mode2Steps /\ UNCHANGED answer)
    BY <1>8 DEF Mode2Sector, Mode2Ioctl, Mode2ReadCd, SelectBlocksize, Read10, Undo, Restore,
                SectorDone, SectorFails, FallBack, Return, Mode2Steps
  <2>3. pc # "idle" /\ query.op \in Sectors /\ answer = NoAnswer
    BY <2>1 DEF AskedInv, Mode2Steps
  <2> QED BY <1>5, <2>1, <2>2, <2>3 DEF AskedInv, Mode2Steps, Sectors
<1>9. CASE Answer \/ SetAccessMode
  BY <1>5, <1>9 DEF Answer, SetAccessMode
<1>10. CASE UNCHANGED vars
  BY <1>1, <1>10 DEF vars
<1> QED
  BY <1>2, <1>3, <1>4, <1>6, <1>7, <1>8, <1>9, <1>10 DEF Next, Calls, Getters, Sectors

LEMMA FromTableStep ==
  ASSUME IInv, AskedInv, AnswersFromTable, [Next]_vars
  PROVE  AnswersFromTable'
<1>1. CASE UNCHANGED <<seen, toc, answer>>
  BY <1>1, AnswerKept
<1>2. CASE answer'.op \notin {"msf", "format", "green", "channels"}
  BY <1>2, OtherAnswer
<1>3. CASE answer' = NoAnswer
  BY <1>2, <1>3 DEF NoAnswer
<1>4. CASE \E d \in Discs \cup {NoDisc} : Swap(d)
  <2>1. CASE pc \in TocSteps
    BY <1>3, <1>4, <2>1 DEF Swap, AskedInv, TocSteps
  <2>2. CASE pc \notin TocSteps
    BY <1>1, <1>4, <2>2 DEF Swap, TocSteps
  <2> QED BY <2>1, <2>2
<1>5. CASE \E op, n, count : Call(op, n, count)
  BY <1>3, <1>5 DEF Call
<1>6. CASE ReadToc
  BY <1>3, <1>6 DEF ReadToc, GiveUp, ReadHeader, ReadEntry, ReadLeadout, AskedInv, TocSteps
<1>7. CASE Answer
  BY <1>7, AnswerStep
<1>8. CASE CheckLsn \/ Mode1Sector \/ Mode2Sector
  <2>1. query.op \in Sectors /\ UNCHANGED <<seen, toc>>
    BY <1>8 DEF AskedInv, CheckLsn, Mode1Sector, Mode2Sector, Mode2Ioctl, Mode2ReadCd,
                SelectBlocksize, Read10, Undo, Restore, Mode2Steps
  <2>2. UNCHANGED answer \/ \E rc : answer' = Result(rc, Blank)
    BY <1>8 DEF CheckLsn, Mode1Sector, Mode2Sector, Mode2Ioctl, Mode2ReadCd, SelectBlocksize,
                Read10, Undo, Restore, SectorDone, SectorFails, FallBack, Return
  <2>3. (\E rc : answer' = Result(rc, Blank)) => answer'.op \in Sectors
    BY <2>1 DEF Result
  <2> QED BY <1>1, <1>2, <2>1, <2>2, <2>3 DEF Sectors
<1>9. CASE SetAccessMode
  <2>1. answer'.op = "set_arg"
    BY <1>9 DEF SetAccessMode, NoAnswer
  <2> QED BY <1>2, <2>1
<1>10. CASE UNCHANGED vars
  BY <1>1, <1>10 DEF vars, toc
<1> QED
  BY <1>4, <1>5, <1>6, <1>7, <1>8, <1>9, <1>10 DEF Next, Calls

(* With a table that was read, a getter that succeeds answers with the     *)
(* entry of the track that it was asked about, the leadout under both its  *)
(* numbers, whatever disc is in the drive by now (the range checks of      *)
(* gnu_linux.c and track.c).                                               *)
THEOREM TableAnswers == Spec => []AnswersFromTable
<1>1. Init => AskedInv /\ AnswersFromTable
  BY DEF Init, AskedInv, AnswersFromTable, NoAnswer, Mode2Steps
<1>2. IInv /\ AskedInv /\ AnswersFromTable /\ [Next]_vars => AskedInv' /\ AnswersFromTable'
  BY AskedStep, FromTableStep
<1> QED BY <1>1, <1>2, InitInv, StepInv, PTL DEF Spec

-----------------------------------------------------------------------------
(* A mode 2 read has stored the sectors before the one it is at, and the   *)
(* buffer holds the address of that one for the ioctl, until READ_10 has   *)
(* read over it.  A restore that fails then leaves the ioctl, which reads  *)
(* from elsewhere, but with the block size that shows it.                  *)
SectorsFrom(n, count) == [i \in 1 .. count |-> n + i - 1]
InPlace == access_mode = "IOCTL" => blocksize = 2048
RetryInv ==
  /\ pc \in TocSteps \cup {"check"} => stored = << >>
  /\ pc = "mode1" => query.op = "mode1"
  /\ pc \in {"read10", "restore"} => blocksize # 2048
  /\ pc \in Mode2Steps /\ InPlace => stored = SectorsFrom(query.n, at)
  /\ pc \in {"mode2", "read10", "undo"} /\ InPlace => buf = AddressOf(at)
  /\ Mode2ReadsAskedSectors

LEMMA OneMoreSector ==
  ASSUME NEW n \in Int, NEW count \in Nat
  PROVE  Append(SectorsFrom(n, count), n + count) = SectorsFrom(n, count + 1)
<1> DEFINE s == SectorsFrom(n, count)
<1>1. s \in Seq(Int) /\ Len(s) = count
  BY SMT DEF SectorsFrom
<1>2. Append(s, n + count) = [i \in 1 .. count + 1 |-> IF i = count + 1 THEN n + count ELSE s[i]]
  BY <1>1, SMT
<1>3. \A i \in 1 .. count + 1 : (IF i = count + 1 THEN n + count ELSE s[i]) = n + i - 1
  BY SMT DEF SectorsFrom
<1> QED BY <1>2, <1>3 DEF SectorsFrom

(* The steps of a read that is answered, or not yet.                       *)
LEMMA SectorDoneRetry ==
  ASSUME IInv, AskedInv, RetryInv, pc \in Mode2Steps, NEW sector, SectorDone(sector),
         InPlace' => InPlace /\ sector = AddressOf(at), UNCHANGED query,
         blocksize' = 2048 => InPlace'
  PROVE  RetryInv'
<1>1. at \in Nat /\ query.n \in Nat /\ query.count \in Nat
  BY DEF IInv, TypeOK
<1>2. at' = at + 1 /\ stored' = Append(stored, sector)
  BY DEF SectorDone
<1>3. ASSUME InPlace' PROVE stored' = SectorsFrom(query.n, at + 1)
  <2>1. stored = SectorsFrom(query.n, at) /\ sector = query.n + at
    BY <1>3 DEF RetryInv, AddressOf
  <2>2. query.n \in Int
    BY <1>1, SMT
  <2> QED BY <1>1, <1>2, <2>1, <2>2, OneMoreSector
<1>4. CASE at + 1 = query.count
  <2>1. pc' = "idle" /\ answer' = Result(0, Blank)
    BY <1>4 DEF SectorDone, Return
  <2>2. Mode2ReadsAskedSectors'
    BY <1>3, <1>4 DEF Mode2ReadsAskedSectors, SectorsFrom
  <2> QED BY <2>1, <2>2 DEF RetryInv, TocSteps, Mode2Steps
<1>5. CASE at + 1 # query.count
  <2>1. pc' = "mode2" /\ buf' = AddressOf(at + 1) /\ UNCHANGED answer
    BY <1>5 DEF SectorDone
  <2>2. Mode2ReadsAskedSectors'
    BY <2>1 DEF AskedInv, NoAnswer, Mode2ReadsAskedSectors, Mode2Steps
  <2>3. buf' = AddressOf(at)'
    BY <1>2, <2>1 DEF AddressOf
  <2> QED BY <1>2, <1>3, <2>1, <2>2, <2>3 DEF RetryInv, TocSteps, Mode2Steps
<1> QED BY <1>4, <1>5

LEMMA FailureRetry ==
  ASSUME RetryInv, pc' = "idle", NEW rc \in Int \ {0}, answer' = Result(rc, Blank)
  PROVE  RetryInv'
BY DEF RetryInv, Mode2ReadsAskedSectors, Result, TocSteps, Mode2Steps

LEMMA StillReading ==
  ASSUME AskedInv, RetryInv, pc \in {"mode2", "read10", "undo"}, pc' \in Mode2Steps,
         UNCHANGED <<at, stored, query, answer>>, InPlace' => InPlace,
         pc' = "restore" \/ UNCHANGED buf, pc' \in {"read10", "restore"} => blocksize' # 2048
  PROVE  RetryInv'
<1>1. answer' = NoAnswer
  BY DEF AskedInv, Mode2Steps
<1>2. Mode2ReadsAskedSectors'
  BY <1>1 DEF Mode2ReadsAskedSectors, NoAnswer
<1> QED BY <1>2 DEF RetryInv, AddressOf, TocSteps, Mode2Steps

LEMMA Mode2Retry ==
  ASSUME IInv, AskedInv, SelectInv, RetryInv, Mode2Sector
  PROVE  RetryInv'
<1> USE DEF InPlace
<1>1. CASE Mode2Ioctl
  <2>1. CASE SectorDone(buf)
    BY <1>1, <2>1, SectorDoneRetry DEF Mode2Ioctl, RetryInv, Mode2Steps
  <2> QED BY <1>1, <2>1, FailureRetry DEF Mode2Ioctl, SectorFails, Return
<1>2. CASE Mode2ReadCd
  <2>1. CASE SectorDone(AddressOf(at)) /\ UNCHANGED access_mode
    BY <1>2, <2>1, SectorDoneRetry DEF Mode2ReadCd, Mode2Steps
  <2> QED BY <1>2, <2>1, StillReading DEF Mode2ReadCd, FallBack, Mode2Steps
<1>3. CASE SelectBlocksize
  BY <1>3, StillReading DEF SelectBlocksize, FallBack, Mode2Steps
<1>4. CASE Read10
  BY <1>4, StillReading DEF Read10, RetryInv, Mode2Steps
<1>5. CASE Undo
  BY <1>5, StillReading DEF Undo, FallBack, SelectInv, Selecting, Mode2Steps
<1>6. CASE Restore
  <2>1. CASE SectorDone(AddressOf(at)) /\ UNCHANGED access_mode
    BY <1>6, <2>1, SectorDoneRetry DEF Restore, SelectInv, Selecting, Mode2Steps
  <2>2. CASE FallBack /\ UNCHANGED <<blocksize, buf>>
    <3>1. access_mode' = "IOCTL" /\ blocksize' # 2048
      BY <1>6, <2>2 DEF Restore, FallBack, NextMode, SelectInv, Selecting, RetryInv
    <3>2. pc' = "mode2" /\ answer' = NoAnswer
      BY <1>6, <2>2 DEF Restore, FallBack, AskedInv, Mode2Steps
    <3> QED BY <3>1, <3>2 DEF RetryInv, Mode2ReadsAskedSectors, NoAnswer, TocSteps, Mode2Steps
  <2> QED BY <1>6, <2>1, <2>2 DEF Restore
<1> QED BY <1>1, <1>2, <1>3, <1>4, <1>5, <1>6 DEF Mode2Sector

LEMMA RetryStep ==
  ASSUME IInv, AskedInv, SelectInv, RetryInv, [Next]_vars
  PROVE  RetryInv'
<1> USE DEF InPlace
<1>1. CASE UNCHANGED <<pc, at, query, answer, reader>>
  BY <1>1 DEF RetryInv, Mode2ReadsAskedSectors, SectorsFrom, AddressOf, reader
<1>2. CASE pc' = "idle" /\ answer'.op # "mode2"
  BY <1>2 DEF RetryInv, Mode2ReadsAskedSectors, TocSteps, Mode2Steps
<1>3. CASE \E op, n, count : Call(op, n, count)
  <2> PICK op, n, count : Call(op, n, count)
    BY <1>3
  <2>1. /\ pc' \in {"header", "check", "answer"} /\ stored' = << >> /\ answer' = NoAnswer
    BY DEF Call, AfterToc
  <2> QED BY <2>1 DEF RetryInv, Mode2ReadsAskedSectors, NoAnswer, TocSteps, Mode2Steps
<1>4. CASE ReadToc
  <2>1. /\ pc \in TocSteps /\ pc' \in {"entry", "leadout", "check", "answer"}
        /\ UNCHANGED <<answer, stored>>
    BY <1>4 DEF ReadToc, GiveUp, ReadHeader, ReadEntry, ReadLeadout, AfterToc, reader, TocSteps
  <2>2. answer' = NoAnswer /\ stored' = << >>
    BY <2>1 DEF AskedInv, RetryInv, TocSteps
  <2> QED BY <2>1, <2>2 DEF RetryInv, Mode2ReadsAskedSectors, NoAnswer, TocSteps, Mode2Steps
<1>5. CASE Answer
  <2>1. pc' = "idle" /\ UNCHANGED <<query, reader>> /\ query.op \in Getters /\ answer' \in Answers
    BY <1>5 DEF Answer, AskedInv
  <2>2. answer'.op = query.op
    BY <2>1, SMT DEF Answers, Getters, EntryOf, Result
  <2> QED BY <1>2, <2>1, <2>2 DEF Getters
<1>6. CASE CheckLsn
  <2>1. CASE Return(Failed)
    BY <2>1, FailureRetry DEF Return, Failed
  <2>2. CASE /\ pc' = query.op /\ at' = 0 /\ UNCHANGED answer
             /\ buf' = IF query.op = "mode2" THEN AddressOf(0) ELSE buf
    <3>1. pc = "check" /\ query.op \in Sectors /\ stored' = << >> /\ answer' = NoAnswer
      BY <1>6, <2>2 DEF CheckLsn, AskedInv, RetryInv
    <3>2. query'.n = query.n /\ query'.op = query.op
      BY <1>6, <2>2, <3>1 DEF CheckLsn, Return, Query, Sectors
    <3>3. stored' = SectorsFrom(query.n, 0)
      BY <3>1, SMT DEF SectorsFrom
    <3>4. Mode2ReadsAskedSectors'
      BY <3>1 DEF Mode2ReadsAskedSectors, NoAnswer
    <3> QED BY <2>2, <3>1, <3>2, <3>3, <3>4
            DEF RetryInv, AddressOf, SectorsFrom, Sectors, TocSteps, Mode2Steps
  <2> QED BY <1>6, <2>1, <2>2 DEF CheckLsn
<1>7. CASE Mode1Sector
  <2>1. pc = "mode1" /\ query.op = "mode1" /\ UNCHANGED query
    BY <1>7 DEF Mode1Sector, RetryInv
  <2>2. CASE \E rc : Return(rc)
    BY <1>2, <2>1, <2>2 DEF Return, Result
  <2>3. CASE UNCHANGED <<pc, answer>>
    BY <2>1, <2>3 DEF RetryInv, AskedInv, Mode2ReadsAskedSectors, NoAnswer, TocSteps, Mode2Steps
  <2> QED BY <1>7, <2>2, <2>3 DEF Mode1Sector
<1>8. CASE Mode2Sector
  BY <1>8, Mode2Retry
<1>9. CASE SetAccessMode
  BY <1>2, <1>9 DEF SetAccessMode, NoAnswer
<1>10. CASE \E d \in Discs \cup {NoDisc} : Swap(d)
  BY <1>1, <1>10 DEF Swap
<1>11. CASE UNCHANGED vars
  BY <1>1, <1>11 DEF vars
<1> QED
  BY <1>3, <1>4, <1>5, <1>6, <1>7, <1>8, <1>9, <1>10, <1>11 DEF Next, Calls

LEMMA RetriesStart == Init => AskedInv /\ SelectInv /\ RetryInv
BY DEF Init, AskedInv, SelectInv, RetryInv, Mode2ReadsAskedSectors, NoAnswer, Selecting,
       TocSteps, Mode2Steps

(* A mode 2 read that succeeds stores the sectors that were asked for, in  *)
(* order, whichever access modes failed on the way, unless the block size  *)
(* could not be set back (_read_mode2_sector_linux's retry from the buffer *)
(* that holds the address).                                                *)
THEOREM RetriesReadInPlace == Spec => []Mode2ReadsAskedSectors
<1>1. Init => AskedInv /\ SelectInv /\ RetryInv
  BY RetriesStart
<1>2. IInv /\ AskedInv /\ SelectInv /\ RetryInv /\ [Next]_vars => AskedInv' /\ SelectInv' /\ RetryInv'
  BY AskedStep, SelectStep, RetryStep
<1>3. RetryInv => Mode2ReadsAskedSectors
  BY DEF RetryInv
<1> QED BY <1>1, <1>2, <1>3, InitInv, StepInv, PTL DEF Spec

DrivesInit == InitLinux \/ InitOther
DrivesNext == OnLinux \/ OnOther
drivesVars == <<vars, others>>

(***************************************************************************)
(* OTHER PLATFORMS.  For every set of discs whose numbers fit the table, a *)
(* table that counts as read has each track's entry in its place, so the   *)
(* getters answer of the disc, and a request to read is cut at its leadout *)
(* and filled with the sectors asked for.                                  *)
(***************************************************************************)
EnvFields == {"fd", "mode", "cam", "toc", "first", "count", "hdr", "ent", "session"}
IsEnv(e) ==
  /\ DOMAIN e = EnvFields /\ e = [x \in DOMAIN e |-> e[x]]
  /\ DOMAIN e.ent = 0 .. MaxEntry /\ e.ent = [k \in DOMAIN e.ent |-> e.ent[k]]

IsEntry(x, lba, kind, copy) == x.lba = lba /\ x.kind = kind /\ x.copy = copy

(* The tracks in order from the first entry on, and then the leadout.      *)
TableOf(e, d) ==
  /\ e.first = d.first /\ e.count = Other!CountOf(d)
  /\ platform = "freebsd" => e.hdr = <<d.first, Other!LastOf(d)>>
  /\ \A t \in Other!TracksOf(d) : IsEntry(e.ent[t - d.first], Other!StartOf(d, t), Other!KindOf(d, t), d.copy)
  /\ IsEntry(e.ent[Other!CountOf(d)], Other!EndOf(d), Other!KindOf(d, Other!LastOf(d)), d.copy)

Whole(e) == e.toc /\ e.count # 0 /\ Other!Indexed => TableOf(e, inserted)

IsDisc(d) ==
  /\ d.first \in Nat \ {0} /\ d.starts \in Seq(Nat) /\ d.starts # << >> /\ d.end \in Nat
  /\ Other!LastOf(d) <= MaxEntry /\ Other!LastOf(d) < 170

OtherPlatforms == {"freebsd", "netbsd", "solaris", "win32", "osx"}
EnvInv ==
  platform # "linux" =>
    platform \in OtherPlatforms /\ IsDisc(inserted) /\ IsEnv(env) /\ Whole(env)

(* The drivers' names for what they share.                                 *)
LEMMA DiscNumbers ==
  ASSUME NEW d, IsDisc(d)
  PROVE  /\ Other!CountOf(d) \in Nat \ {0} /\ Other!LastOf(d) = d.first + Other!CountOf(d) - 1
         /\ Other!LastOf(d) \in Nat /\ Other!TracksOf(d) = d.first .. Other!LastOf(d)
         /\ Other!CountOf(d) <= Other!LastOf(d) /\ MaxEntry \in Nat /\ d.first \in Nat \ {0}
         /\ Other!LastOf(d) <= MaxEntry /\ Other!LastOf(d) < 170
<1>1. Len(d.starts) \in Nat \ {0}
  BY DEF IsDisc
<1>2. MaxEntry \in Nat
  BY DiscsFitTheTable DEF Other!PlatformConstants
<1> QED BY <1>1, <1>2 DEF IsDisc, Other!CountOf, Other!LastOf, Other!TracksOf

LEMMA SharedByFreeBSD ==
  /\ \A d : Other!FreeBSD!CountOf(d) = Other!CountOf(d) /\ Other!FreeBSD!LastOf(d) = Other!LastOf(d)
  /\ \A d : Other!FreeBSD!TracksOf(d) = Other!TracksOf(d)
  /\ \A d, t : LET x == Other!FreeBSD!TrackEntry(d, t) IN IsEntry(x, Other!StartOf(d, t), Other!KindOf(d, t), d.copy)
  /\ \A d : LET x == Other!FreeBSD!LeadoutEntry(d)
            IN  IsEntry(x, Other!EndOf(d), Other!KindOf(d, Other!LastOf(d)), d.copy)
  /\ \A e : \A k \in 0 .. MaxEntry : Other!FreeBSD!Entry(e, k) = e.ent[k]
BY DEF Other!FreeBSD!CountOf, Other!CountOf, Other!FreeBSD!LastOf, Other!LastOf, Other!FreeBSD!TracksOf, Other!TracksOf,
       Other!FreeBSD!TrackEntry, Other!FreeBSD!EntryOf, Other!FreeBSD!StartOf, Other!StartOf, Other!FreeBSD!KindOf,
       Other!KindOf, Other!FreeBSD!LeadoutEntry, Other!FreeBSD!EndOf, Other!EndOf, Other!FreeBSD!Entry, IsEntry,
       Other!FreeBSD!CDIO_PREGAP_SECTORS, Other!CDIO_PREGAP_SECTORS

LEMMA SharedByNetBSD ==
  /\ \A d : Other!NetBSD!CountOf(d) = Other!CountOf(d) /\ Other!NetBSD!LastOf(d) = Other!LastOf(d)
  /\ \A d : Other!NetBSD!TracksOf(d) = Other!TracksOf(d)
  /\ \A d, t : LET x == Other!NetBSD!TrackEntry(d, t) IN IsEntry(x, Other!StartOf(d, t), Other!KindOf(d, t), d.copy)
  /\ \A d : LET x == Other!NetBSD!LeadoutEntry(d)
            IN  IsEntry(x, Other!EndOf(d), Other!KindOf(d, Other!LastOf(d)), d.copy)
  /\ \A e : \A k \in 0 .. MaxEntry : Other!NetBSD!Entry(e, k) = e.ent[k]
BY DEF Other!NetBSD!CountOf, Other!CountOf, Other!NetBSD!LastOf, Other!LastOf, Other!NetBSD!TracksOf, Other!TracksOf,
       Other!NetBSD!TrackEntry, Other!NetBSD!EntryOf, Other!NetBSD!StartOf, Other!StartOf, Other!NetBSD!KindOf,
       Other!KindOf, Other!NetBSD!LeadoutEntry, Other!NetBSD!EndOf, Other!EndOf, Other!NetBSD!Entry, IsEntry,
       Other!NetBSD!CDIO_PREGAP_SECTORS, Other!CDIO_PREGAP_SECTORS

LEMMA SharedBySolaris ==
  /\ \A d : Other!Solaris!CountOf(d) = Other!CountOf(d) /\ Other!Solaris!LastOf(d) = Other!LastOf(d)
  /\ \A d : Other!Solaris!TracksOf(d) = Other!TracksOf(d)
  /\ \A d, t : LET x == Other!Solaris!TrackEntry(d, t) IN IsEntry(x, Other!StartOf(d, t), Other!KindOf(d, t), d.copy)
  /\ \A d : LET x == Other!Solaris!LeadoutEntry(d)
            IN  IsEntry(x, Other!EndOf(d), Other!KindOf(d, Other!LastOf(d)), d.copy)
  /\ \A e : \A k \in 0 .. MaxEntry : Other!Solaris!Entry(e, k) = e.ent[k]
BY DEF Other!Solaris!CountOf, Other!CountOf, Other!Solaris!LastOf, Other!LastOf, Other!Solaris!TracksOf, Other!TracksOf,
       Other!Solaris!TrackEntry, Other!Solaris!EntryOf, Other!Solaris!StartOf, Other!StartOf, Other!Solaris!KindOf,
       Other!KindOf, Other!Solaris!LeadoutEntry, Other!Solaris!EndOf, Other!EndOf, Other!Solaris!Entry, IsEntry,
       Other!Solaris!CDIO_PREGAP_SECTORS, Other!CDIO_PREGAP_SECTORS

LEMMA SharedByWin32 ==
  /\ \A d : Other!Win32!CountOf(d) = Other!CountOf(d) /\ Other!Win32!LastOf(d) = Other!LastOf(d)
  /\ \A d : Other!Win32!TracksOf(d) = Other!TracksOf(d)
  /\ \A d, t : LET x == Other!Win32!TrackEntry(d, t) IN IsEntry(x, Other!StartOf(d, t), Other!KindOf(d, t), d.copy)
  /\ \A d : LET x == Other!Win32!LeadoutEntry(d)
            IN  IsEntry(x, Other!EndOf(d), Other!KindOf(d, Other!LastOf(d)), d.copy)
  /\ \A e : \A k \in 0 .. MaxEntry : Other!Win32!Entry(e, k) = e.ent[k]
BY DEF Other!Win32!CountOf, Other!CountOf, Other!Win32!LastOf, Other!LastOf, Other!Win32!TracksOf, Other!TracksOf,
       Other!Win32!TrackEntry, Other!Win32!EntryOf, Other!Win32!StartOf, Other!StartOf, Other!Win32!KindOf,
       Other!KindOf, Other!Win32!LeadoutEntry, Other!Win32!EndOf, Other!EndOf, Other!Win32!Entry, IsEntry,
       Other!Win32!CDIO_PREGAP_SECTORS, Other!CDIO_PREGAP_SECTORS

LEMMA SharedByOSX ==
  /\ \A d : Other!OSX!CountOf(d) = Other!CountOf(d) /\ Other!OSX!LastOf(d) = Other!LastOf(d)
  /\ \A d : Other!OSX!TracksOf(d) = Other!TracksOf(d)
  /\ \A d, t : LET x == Other!OSX!TrackEntry(d, t) IN IsEntry(x, Other!StartOf(d, t), Other!KindOf(d, t), d.copy)
  /\ \A d : LET x == Other!OSX!LeadoutEntry(d)
            IN  IsEntry(x, Other!EndOf(d), Other!KindOf(d, Other!LastOf(d)), d.copy)
  /\ \A e : \A k \in 0 .. MaxEntry : Other!OSX!Entry(e, k) = e.ent[k]
BY DEF Other!OSX!CountOf, Other!CountOf, Other!OSX!LastOf, Other!LastOf, Other!OSX!TracksOf, Other!TracksOf,
       Other!OSX!TrackEntry, Other!OSX!EntryOf, Other!OSX!StartOf, Other!StartOf, Other!OSX!KindOf,
       Other!KindOf, Other!OSX!LeadoutEntry, Other!OSX!EndOf, Other!EndOf, Other!OSX!Entry, IsEntry,
       Other!OSX!CDIO_PREGAP_SECTORS, Other!CDIO_PREGAP_SECTORS

(* A table is stored from the first entry on.                              *)
LEMMA FromFirst ==
  ASSUME NEW e, NEW f, NEW d, IsDisc(d), IsEnv(e), IsEnv(f), f.first = d.first, f.count = Other!CountOf(d),
         platform # "freebsd",
         \A k \in 0 .. MaxEntry :
           /\ k < Other!CountOf(d) =>
                IsEntry(f.ent[k], Other!StartOf(d, k + d.first), Other!KindOf(d, k + d.first), d.copy)
           /\ k = Other!CountOf(d) => IsEntry(f.ent[k], Other!EndOf(d), Other!KindOf(d, Other!LastOf(d)), d.copy)
  PROVE  TableOf(f, d)
<1>1. ASSUME NEW t \in Other!TracksOf(d)
      PROVE  IsEntry(f.ent[t - d.first], Other!StartOf(d, t), Other!KindOf(d, t), d.copy)
  <2>1. t - d.first \in 0 .. MaxEntry /\ t - d.first < Other!CountOf(d) /\ (t - d.first) + d.first = t
    BY DiscNumbers
  <2> QED BY <2>1
<1>2. IsEntry(f.ent[Other!CountOf(d)], Other!EndOf(d), Other!KindOf(d, Other!LastOf(d)), d.copy)
  <2>1. Other!CountOf(d) \in 0 .. MaxEntry
    BY DiscNumbers
  <2> QED BY <2>1
<1> QED BY <1>1, <1>2 DEF TableOf

LEMMA NetBSDToc ==
  ASSUME platform = "netbsd", IsDisc(inserted), NEW e, IsEnv(e), ~e.toc, NEW n
  PROVE  LET f == Other!NetBSD!ReadToc(e, inserted, n) IN IsEnv(f) /\ Whole(f)
<1> DEFINE d == inserted
           f == Other!NetBSD!ReadToc(e, d, n)
           hdr == <<d.first, Other!NetBSD!LastOf(d)>>
           headed == [e EXCEPT !.hdr = hdr]
           ent == [k \in DOMAIN e.ent |-> IF k < Other!NetBSD!CountOf(d) THEN Other!NetBSD!TrackEntry(d, k + d.first)
                                          ELSE IF k = Other!NetBSD!CountOf(d) THEN Other!NetBSD!LeadoutEntry(d)
                                          ELSE e.ent[k]]
           full == [headed EXCEPT !.first = d.first, !.count = Other!NetBSD!CountOf(d), !.toc = TRUE, !.ent = ent]
<1>1. f = IF n = 0 THEN e ELSE IF n = 1 THEN headed ELSE full
  BY DEF Other!NetBSD!ReadToc, IsEnv, EnvFields
<1>2. IsEnv(headed) /\ ~headed.toc
  BY DEF IsEnv, EnvFields
<1>3. DOMAIN ent = 0 .. MaxEntry /\ ent = [k \in DOMAIN ent |-> ent[k]]
  BY DEF IsEnv
<1>4. \A k \in 0 .. MaxEntry :
        ent[k] = IF k < Other!NetBSD!CountOf(d) THEN Other!NetBSD!TrackEntry(d, k + d.first)
                 ELSE IF k = Other!NetBSD!CountOf(d) THEN Other!NetBSD!LeadoutEntry(d) ELSE e.ent[k]
  BY DEF IsEnv
<1> HIDE DEF ent, headed
<1>5. IsEnv(full) /\ full.first = d.first /\ full.count = Other!CountOf(d) /\ full.ent = ent
  BY <1>2, <1>3, SharedByNetBSD DEF IsEnv, EnvFields
<1> HIDE DEF full
<1>6. TableOf(full, d)
  BY <1>4, <1>5, SharedByNetBSD, FromFirst, DiscNumbers
<1> QED BY <1>1, <1>2, <1>5, <1>6 DEF Whole

LEMMA OSXToc ==
  ASSUME platform = "osx", IsDisc(inserted), NEW e, IsEnv(e), ~e.toc, NEW n
  PROVE  LET f == Other!OSX!ReadToc(e, inserted, n) IN IsEnv(f) /\ Whole(f)
<1> DEFINE d == inserted
           f == Other!OSX!ReadToc(e, d, n)
           ent == Other!OSX!TableFromFirst(e.ent, d)
           full == [e EXCEPT !.first = d.first, !.count = Other!OSX!CountOf(d), !.ent = ent, !.toc = TRUE]
<1>1. f = IF n = 0 THEN e ELSE full
  BY DEF Other!OSX!ReadToc, IsEnv, EnvFields
<1>2. ent = [k \in 0 .. MaxEntry |-> IF k < Other!OSX!CountOf(d) THEN Other!OSX!TrackEntry(d, k + d.first)
                                    ELSE IF k = Other!OSX!CountOf(d) THEN Other!OSX!LeadoutEntry(d) ELSE e.ent[k]]
  BY DEF IsEnv, Other!OSX!TableFromFirst
<1> HIDE DEF ent
<1>3. DOMAIN ent = 0 .. MaxEntry /\ ent = [k \in DOMAIN ent |-> ent[k]]
  BY <1>2
<1>4. \A k \in 0 .. MaxEntry :
        ent[k] = IF k < Other!OSX!CountOf(d) THEN Other!OSX!TrackEntry(d, k + d.first)
                 ELSE IF k = Other!OSX!CountOf(d) THEN Other!OSX!LeadoutEntry(d) ELSE e.ent[k]
  BY <1>2
<1>5. IsEnv(full) /\ full.first = d.first /\ full.count = Other!CountOf(d) /\ full.ent = ent
  BY <1>3, SharedByOSX DEF IsEnv, EnvFields
<1> HIDE DEF full
<1>6. TableOf(full, d)
  BY <1>4, <1>5, SharedByOSX, FromFirst, DiscNumbers
<1> QED BY <1>1, <1>5, <1>6 DEF Whole

(* FreeBSD's and Solaris' entries of a disc that starts at track 1.         *)
LEMMA FreeBSDToc ==
  ASSUME platform = "freebsd", IsDisc(inserted), NEW e, IsEnv(e), ~e.toc, NEW n \in Nat
  PROVE  LET f == Other!FreeBSD!ReadToc(e, inserted, n) IN IsEnv(f) /\ Whole(f)
<1> DEFINE d == inserted
           f == Other!FreeBSD!ReadToc(e, d, n)
           asked == d.first .. Other!FreeBSD!LastAsked(d)
           turns == Other!FreeBSD!Turns(d)
           hdr == <<d.first, Other!FreeBSD!LastOf(d)>>
           kept == n > turns + 1
           ent == Other!FreeBSD!EntriesRead(e.ent, d, n)
           full == [e EXCEPT !.hdr = hdr, !.first = d.first, !.count = Other!FreeBSD!CountOf(d), !.ent = ent, !.toc = kept]
<1>1. f = IF n = 0 THEN e ELSE full
  BY DEF Other!FreeBSD!ReadToc, IsEnv, EnvFields
<1>2. ent = [k \in 0 .. MaxEntry |->
               IF k + d.first \in asked /\ k + 1 < n THEN Other!FreeBSD!TrackEntry(d, k + d.first)
               ELSE IF k = turns /\ kept THEN Other!FreeBSD!LeadoutEntry(d) ELSE e.ent[k]]
  BY DEF IsEnv, Other!FreeBSD!EntriesRead
<1>3. asked = d.first .. Other!CountOf(d)
  BY SharedByFreeBSD DEF Other!FreeBSD!LastAsked
<1>4. d.first = 1 => turns = Other!CountOf(d)
  <2>1. turns = Cardinality(d.first .. Other!CountOf(d))
    BY <1>3 DEF Other!FreeBSD!Turns, Other!FreeBSD!Cardinality, Cardinality
  <2>2. d.first \in Int /\ Other!CountOf(d) \in Int /\ Other!CountOf(d) >= 1
    BY DiscNumbers
  <2> HIDE DEF turns
  <2> QED BY <2>1, <2>2, FS_Interval
<1> HIDE DEF ent, turns, asked
<1>5. IsEnv(full) /\ full.first = d.first /\ full.count = Other!CountOf(d) /\ full.ent = ent /\ full.toc = kept
      /\ full.hdr = <<d.first, Other!LastOf(d)>>
  BY <1>2, SharedByFreeBSD DEF IsEnv, EnvFields
<1> HIDE DEF full
<1>6. ASSUME d.first = 1, kept PROVE TableOf(full, d)
  <2>1. \A k \in 0 .. MaxEntry : k < Other!CountOf(d) => k + d.first \in asked /\ k + 1 < n
    BY <1>3, <1>4, <1>6, DiscNumbers
  <2>2. \A t \in Other!TracksOf(d) : t - d.first \in 0 .. MaxEntry /\ t - d.first < Other!CountOf(d)
                                   /\ (t - d.first) + d.first = t
    BY DiscNumbers
  <2>3. ASSUME NEW t \in Other!TracksOf(d)
        PROVE  IsEntry(full.ent[t - d.first], Other!StartOf(d, t), Other!KindOf(d, t), d.copy)
    <3>1. full.ent[t - d.first] = Other!FreeBSD!TrackEntry(d, t)
      BY <1>2, <1>5, <2>1, <2>2
    <3> QED BY <3>1, SharedByFreeBSD
  <2>4. IsEntry(full.ent[Other!CountOf(d)], Other!EndOf(d), Other!KindOf(d, Other!LastOf(d)), d.copy)
    <3>1. Other!CountOf(d) \in 0 .. MaxEntry /\ Other!CountOf(d) + d.first \notin asked
      BY <1>3, DiscNumbers
    <3>2. full.ent[Other!CountOf(d)] = Other!FreeBSD!LeadoutEntry(d)
      BY <1>2, <1>4, <1>5, <1>6, <3>1
    <3> QED BY <3>2, SharedByFreeBSD
  <2> QED BY <1>5, <2>3, <2>4 DEF TableOf
<1>7. Other!Indexed => d.first = 1
  BY DEF Other!Indexed
<1> QED BY <1>1, <1>5, <1>6, <1>7 DEF Whole

LEMMA SolarisToc ==
  ASSUME platform = "solaris", IsDisc(inserted), NEW e, IsEnv(e), ~e.toc, NEW n \in Nat
  PROVE  LET f == Other!Solaris!ReadToc(e, inserted, n) IN IsEnv(f) /\ Whole(f)
<1> DEFINE d == inserted
           f == Other!Solaris!ReadToc(e, d, n)
           kept == n > Other!Solaris!CountOf(d) + 1
           ent == [k \in DOMAIN e.ent |->
                     IF k = Other!Solaris!LastOf(d) /\ n > Other!Solaris!CountOf(d) + 1 THEN Other!Solaris!LeadoutEntry(d)
                     ELSE IF k + d.first \in Other!Solaris!TracksOf(d) /\ k + 1 < n
                     THEN Other!Solaris!TrackEntry(d, k + d.first) ELSE e.ent[k]]
           full == [e EXCEPT !.first = d.first, !.count = Other!Solaris!LastOf(d), !.ent = ent, !.toc = kept]
<1>1. f = IF n = 0 \/ e.fd # "open" THEN e ELSE full
  BY DEF Other!Solaris!ReadToc, IsEnv, EnvFields
<1>2. ent = [k \in 0 .. MaxEntry |->
               IF k = Other!LastOf(d) /\ kept THEN Other!Solaris!LeadoutEntry(d)
               ELSE IF k + d.first \in Other!TracksOf(d) /\ k + 1 < n
               THEN Other!Solaris!TrackEntry(d, k + d.first) ELSE e.ent[k]]
  BY SharedBySolaris DEF IsEnv
<1> HIDE DEF ent
<1>5. IsEnv(full) /\ full.first = d.first /\ full.count = Other!LastOf(d) /\ full.ent = ent /\ full.toc = kept
  BY <1>2, SharedBySolaris DEF IsEnv, EnvFields
<1>3. kept => n > Other!CountOf(d) + 1
  BY SharedBySolaris
<1> HIDE DEF full, kept
<1>6. ASSUME d.first = 1, kept PROVE TableOf(full, d)
  <2>1. Other!LastOf(d) = Other!CountOf(d)
    BY <1>6, DiscNumbers
  <2>2. \A t \in Other!TracksOf(d) :
          /\ t - d.first \in 0 .. MaxEntry /\ t - d.first # Other!LastOf(d)
          /\ (t - d.first) + d.first = t /\ (t - d.first) + 1 < n
    <3>1. Other!CountOf(d) \in Nat \ {0} /\ Other!LastOf(d) <= MaxEntry /\ MaxEntry \in Nat
          /\ Other!TracksOf(d) = 1 .. Other!CountOf(d) /\ n > Other!CountOf(d) + 1
      BY <1>3, <1>6, <2>1, DiscNumbers
    <3> HIDE DEF f
    <3> QED BY <1>6, <2>1, <3>1
  <2>3. ASSUME NEW t \in Other!TracksOf(d)
        PROVE  IsEntry(full.ent[t - d.first], Other!StartOf(d, t), Other!KindOf(d, t), d.copy)
    <3>1. full.ent[t - d.first] = Other!Solaris!TrackEntry(d, t)
      BY <1>2, <1>5, <2>2
    <3> QED BY <3>1, SharedBySolaris
  <2>4. IsEntry(full.ent[Other!CountOf(d)], Other!EndOf(d), Other!KindOf(d, Other!LastOf(d)), d.copy)
    <3>1. Other!LastOf(d) \in 0 .. MaxEntry
      BY DiscNumbers
    <3>2. full.ent[Other!CountOf(d)] = Other!Solaris!LeadoutEntry(d)
      BY <1>2, <1>5, <1>6, <2>1, <3>1
    <3> QED BY <3>2, SharedBySolaris
  <2> QED BY <1>5, <2>1, <2>3, <2>4 DEF TableOf
<1>7. Other!Indexed => d.first = 1
  BY DEF Other!Indexed
<1> QED BY <1>1, <1>5, <1>6, <1>7 DEF Whole

(* Windows: a table by the full TOC, by the ioctl or by ASPI.              *)
LEMMA Win32Table ==
  ASSUME platform = "win32", IsDisc(inserted), NEW e, IsEnv(e)
  PROVE  LET f == [e EXCEPT !.first = inserted.first, !.count = Other!Win32!CountOf(inserted),
                            !.ent = Other!Win32!TableFromFirst(@, inserted), !.toc = TRUE]
         IN  IsEnv(f) /\ Whole(f)
<1> DEFINE d == inserted
           ent == Other!Win32!TableFromFirst(e.ent, d)
           full == [e EXCEPT !.first = d.first, !.count = Other!Win32!CountOf(d), !.ent = ent, !.toc = TRUE]
<1>1. ent = [k \in 0 .. MaxEntry |-> IF k < Other!Win32!CountOf(d) THEN Other!Win32!TrackEntry(d, k + d.first)
                                    ELSE IF k = Other!Win32!CountOf(d) THEN Other!Win32!LeadoutEntry(d) ELSE e.ent[k]]
  BY DEF IsEnv, Other!Win32!TableFromFirst
<1> HIDE DEF ent
<1>2. DOMAIN ent = 0 .. MaxEntry /\ ent = [k \in DOMAIN ent |-> ent[k]]
  BY <1>1
<1>3. \A k \in 0 .. MaxEntry :
        ent[k] = IF k < Other!Win32!CountOf(d) THEN Other!Win32!TrackEntry(d, k + d.first)
                 ELSE IF k = Other!Win32!CountOf(d) THEN Other!Win32!LeadoutEntry(d) ELSE e.ent[k]
  BY <1>1
<1>4. IsEnv(full) /\ full.first = d.first /\ full.count = Other!CountOf(d) /\ full.ent = ent
  BY <1>2, SharedByWin32 DEF IsEnv, EnvFields
<1>5. [e EXCEPT !.first = d.first, !.count = Other!Win32!CountOf(d),
                !.ent = Other!Win32!TableFromFirst(@, d), !.toc = TRUE] = full
  BY DEF IsEnv, EnvFields, ent
<1> HIDE DEF full
<1>6. TableOf(full, d)
  BY <1>3, <1>4, SharedByWin32, FromFirst, DiscNumbers
<1> QED BY <1>4, <1>5, <1>6 DEF Whole

(* The full TOC has an entry for each track in its place when the number   *)
(* of tracks is the number of one of them and the table counts as read.    *)
LEMMA FullTable ==
  ASSUME platform = "win32", IsDisc(inserted), NEW e, IsEnv(e)
  PROVE  LET f == Other!Win32!FullToc(e, inserted) IN IsEnv(f) /\ Whole(f)
<1> DEFINE d == inserted
           f == Other!Win32!FullToc(e, d)
           entry(x) == [x EXCEPT !.format = d.format]
           ent == [k \in DOMAIN e.ent |->
                     IF k = Other!Win32!CountOf(d) THEN entry(Other!Win32!LeadoutEntry(d))
                     ELSE IF k + 1 \in Other!Win32!TracksOf(d) /\ k + 1 <= Other!Win32!CountOf(d)
                     THEN entry(Other!Win32!TrackEntry(d, k + 1)) ELSE e.ent[k]]
           kept == Other!Win32!SawLastTrack(d)
           full == [e EXCEPT !.first = d.first, !.count = Other!Win32!CountOf(d), !.ent = ent, !.toc = kept]
<1>1. f = full
  BY DEF Other!Win32!FullToc, IsEnv, EnvFields
<1>2. ent = [k \in 0 .. MaxEntry |->
               IF k = Other!CountOf(d) THEN entry(Other!Win32!LeadoutEntry(d))
               ELSE IF k + 1 \in Other!TracksOf(d) /\ k + 1 <= Other!CountOf(d)
               THEN entry(Other!Win32!TrackEntry(d, k + 1)) ELSE e.ent[k]]
  BY SharedByWin32 DEF IsEnv
<1> HIDE DEF ent
<1>3. IsEnv(full) /\ full.first = d.first /\ full.count = Other!CountOf(d) /\ full.ent = ent /\ full.toc = kept
  BY <1>2, SharedByWin32 DEF IsEnv, EnvFields
<1>4. kept <=> Other!CountOf(d) \in Other!TracksOf(d)
  BY SharedByWin32 DEF Other!Win32!SawLastTrack
<1>5. \A t : LET x == entry(Other!Win32!TrackEntry(d, t)) IN
               IsEntry(x, Other!StartOf(d, t), Other!KindOf(d, t), d.copy)
  BY SharedByWin32 DEF Other!Win32!TrackEntry, Other!Win32!EntryOf, IsEntry
<1>6. LET x == entry(Other!Win32!LeadoutEntry(d)) IN
        IsEntry(x, Other!EndOf(d), Other!KindOf(d, Other!LastOf(d)), d.copy)
  BY SharedByWin32 DEF Other!Win32!LeadoutEntry, Other!Win32!EntryOf, IsEntry
<1> HIDE DEF full, kept, entry
<1>7. ASSUME d.first = 1 PROVE TableOf(full, d)
  <2>1. \A t \in Other!TracksOf(d) :
          /\ t - d.first \in 0 .. MaxEntry /\ t - d.first # Other!CountOf(d)
          /\ (t - d.first) + 1 = t /\ t <= Other!CountOf(d)
    BY <1>7, DiscNumbers
  <2>2. ASSUME NEW t \in Other!TracksOf(d)
        PROVE  IsEntry(full.ent[t - d.first], Other!StartOf(d, t), Other!KindOf(d, t), d.copy)
    <3>1. full.ent[t - d.first] = entry(Other!Win32!TrackEntry(d, t))
      BY <1>2, <1>3, <2>1
    <3> QED BY <1>5, <3>1
  <2>3. IsEntry(full.ent[Other!CountOf(d)], Other!EndOf(d), Other!KindOf(d, Other!LastOf(d)), d.copy)
    <3>1. Other!CountOf(d) \in 0 .. MaxEntry
      BY DiscNumbers
    <3>2. full.ent[Other!CountOf(d)] = entry(Other!Win32!LeadoutEntry(d))
      BY <1>2, <1>3, <3>1
    <3> QED BY <1>6, <3>2
  <2> QED BY <1>3, <2>2, <2>3 DEF TableOf
<1>8. Other!Indexed /\ kept => d.first = 1
  BY <1>4, DiscNumbers DEF Other!Indexed
<1> QED BY <1>1, <1>3, <1>7, <1>8 DEF Whole

LEMMA Win32Toc ==
  ASSUME platform = "win32", IsDisc(inserted), NEW e, IsEnv(e), ~e.toc, NEW n \in Nat
  PROVE  LET f == Other!Win32!ReadToc(e, inserted, n) IN IsEnv(f) /\ Whole(f)
<1> DEFINE d == inserted
           f == Other!Win32!ReadToc(e, d, n)
           table(x) == [x EXCEPT !.first = inserted.first, !.count = Other!Win32!CountOf(inserted),
                                 !.ent = Other!Win32!TableFromFirst(@, inserted), !.toc = TRUE]
           empty == [e EXCEPT !.first = d.first, !.count = 0, !.ent[0] = Other!Win32!UnreadEntry, !.toc = TRUE]
           full == Other!Win32!FullToc(e, d)
<1>1. Whole(e)
  BY DEF Whole
<1>2. IsEnv(empty) /\ Whole(empty)
  BY DEF IsEnv, EnvFields, Whole
<1>3. IsEnv(full) /\ Whole(full)
  BY FullTable
<1>4. \A x : IsEnv(x) => IsEnv(table(x)) /\ Whole(table(x))
  BY Win32Table
<1>5. CASE e.cam
  <2>1. f = Other!Win32!AspiReadToc(e, d, n)
    BY <1>5 DEF Other!Win32!ReadToc
  <2>2. CASE n = 0
    BY <1>1, <2>1, <2>2 DEF Other!Win32!AspiReadToc
  <2>3. CASE n = 1
    <3>1. f = empty
      BY <2>1, <2>3 DEF Other!Win32!AspiReadToc
    <3> HIDE DEF empty
    <3> QED BY <1>2, <3>1
  <2>4. CASE n > 1
    <3>1. f = table(e)
      BY <2>1, <2>4 DEF Other!Win32!AspiReadToc
    <3> HIDE DEF table
    <3> QED BY <1>4, <3>1
  <2> QED BY <2>2, <2>3, <2>4
<1>6. CASE ~e.cam
  <2>1. f = Other!Win32!IoctlReadToc(e, d, n)
    BY <1>6 DEF Other!Win32!ReadToc
  <2>2. f \in {e, full, table(e), table(full)}
    BY <2>1 DEF Other!Win32!IoctlReadToc, Other!Win32!IoctlToc
  <2> HIDE DEF full, table
  <2> QED BY <1>1, <1>3, <1>4, <2>2
<1> QED BY <1>5, <1>6

(* A reading of the table, by any number of commands that succeed.         *)
LEMMA TocStep ==
  ASSUME platform \in OtherPlatforms, IsDisc(inserted), IsEnv(env), Whole(env), NEW e \in Other!Tables
  PROVE  IsEnv(e) /\ Whole(e)
<1>1. CASE env.toc
  BY <1>1 DEF Other!Tables
<1>2. CASE ~env.toc
  <2>1. PICK n \in 0 .. MaxCommands : e = Other!TocRead(n)
    BY <1>2 DEF Other!Tables
  <2>2. n \in Nat
    OBVIOUS
  <2>3. CASE platform = "freebsd"
    BY <1>2, <2>1, <2>2, <2>3, FreeBSDToc DEF Other!TocRead
  <2>4. CASE platform = "netbsd"
    BY <1>2, <2>1, <2>2, <2>4, NetBSDToc DEF Other!TocRead
  <2>5. CASE platform = "solaris"
    BY <1>2, <2>1, <2>2, <2>5, SolarisToc DEF Other!TocRead
  <2>6. CASE platform = "win32"
    BY <1>2, <2>1, <2>2, <2>6, Win32Toc DEF Other!TocRead
  <2>7. CASE platform = "osx"
    BY <1>2, <2>1, <2>2, <2>7, OSXToc DEF Other!TocRead
  <2> QED BY <2>3, <2>4, <2>5, <2>6, <2>7 DEF OtherPlatforms
<1> QED BY <1>1, <1>2

(* Calls that leave the table as it is, or give up the drive.              *)
LEMMA TableLeft ==
  ASSUME NEW e, IsEnv(e), Whole(e), NEW mode, NEW cam, NEW session, NEW fd, NEW f,
         \/ f = [e EXCEPT !.mode = mode] \/ f = [e EXCEPT !.mode = mode, !.cam = cam]
         \/ f = [e EXCEPT !.session = session] \/ f = [e EXCEPT !.fd = fd] \/ f = e
  PROVE  IsEnv(f) /\ Whole(f)
<1>1. IsEnv(f)
  BY DEF IsEnv, EnvFields
<1>2. f.toc = e.toc /\ f.first = e.first /\ f.count = e.count /\ f.hdr = e.hdr /\ f.ent = e.ent
  BY DEF IsEnv, EnvFields
<1> QED BY <1>1, <1>2 DEF Whole, TableOf

LEMMA NewEnvs ==
  ASSUME NEW mode, NEW blank, NEW fd, NEW cam,
         NEW e \in {Other!NewEnv(mode, blank), Other!FreeBSD!NewEnv(mode, blank), Other!NetBSD!NewEnv(mode, blank),
                    Other!Solaris!NewEnv(mode, blank), Other!Win32!NewEnv(mode, blank), Other!OSX!NewEnv(mode, blank)},
         NEW f \in {[e EXCEPT !.fd = fd], [e EXCEPT !.cam = cam], [e EXCEPT !.fd = fd, !.cam = cam]}
  PROVE  IsEnv(f) /\ Whole(f)
<1>1. PICK ent, hdr, session :
        /\ e = [fd |-> "closed", mode |-> mode, cam |-> FALSE, toc |-> FALSE, first |-> 0, count |-> 0, hdr |-> hdr,
                ent |-> ent, session |-> session]
        /\ DOMAIN ent = 0 .. MaxEntry /\ ent = [k \in DOMAIN ent |-> ent[k]]
  <2>1. PICK x : e = [fd |-> "closed", mode |-> mode, cam |-> FALSE, toc |-> FALSE, first |-> 0, count |-> 0,
                      hdr |-> <<0, 0>>, ent |-> [k \in 0 .. MaxEntry |-> x],
                      session |-> [k \in 0 .. MaxEntry |-> "unread"]]
    BY DEF Other!NewEnv, Other!FreeBSD!NewEnv, Other!NetBSD!NewEnv, Other!Solaris!NewEnv, Other!Win32!NewEnv, Other!OSX!NewEnv
  <2> DEFINE ent == [k \in 0 .. MaxEntry |-> x]
             session == [k \in 0 .. MaxEntry |-> "unread"]
  <2>2. DOMAIN ent = 0 .. MaxEntry /\ ent = [k \in DOMAIN ent |-> ent[k]]
    OBVIOUS
  <2>3. e = [fd |-> "closed", mode |-> mode, cam |-> FALSE, toc |-> FALSE, first |-> 0, count |-> 0, hdr |-> <<0, 0>>,
             ent |-> ent, session |-> session]
    BY <2>1
  <2> HIDE DEF ent, session
  <2> QED BY <2>2, <2>3
<1>2. IsEnv(f) /\ ~f.toc
  BY <1>1 DEF IsEnv, EnvFields
<1> QED BY <1>2 DEF Whole

LEMMA ClosedEnv == IsEnv(Other!Closed) /\ Whole(Other!Closed)
BY NewEnvs DEF Other!Closed

LEMMA OpenEnv ==
  ASSUME platform \in OtherPlatforms, NEW am, NEW f, NEW c, NEW e \in Other!OpenedBy(am, f, c)
  PROVE  IsEnv(e) /\ Whole(e)
<1>1. CASE platform = "freebsd"
  <2>1. e = [Other!FreeBSD!NewEnv(am, Other!FreeBSD!CDIO_PREGAP_SECTORS) EXCEPT !.fd = "open", !.cam = am # "ioctl"]
    BY <1>1 DEF Other!OpenedBy, Other!FreeBSD!Opened
  <2> QED BY <2>1, NewEnvs
<1>2. CASE platform = "netbsd"
  <2>1. e = [Other!NetBSD!NewEnv("none", 0) EXCEPT !.fd = "open"]
    BY <1>2 DEF Other!OpenedBy, Other!NetBSD!Opened
  <2> QED BY <2>1, NewEnvs
<1>3. CASE platform = "solaris"
  <2>1. e = [Other!Solaris!NewEnv(am, 0) EXCEPT !.fd = "open"]
    BY <1>3 DEF Other!OpenedBy, Other!Solaris!Opened
  <2> QED BY <2>1, NewEnvs
<1>4. CASE platform = "win32"
  <2>1. e \in {[Other!Win32!NewEnv(am, Other!Win32!CDIO_PREGAP_SECTORS) EXCEPT !.cam = TRUE],
               [Other!Win32!NewEnv(am, Other!Win32!CDIO_PREGAP_SECTORS) EXCEPT !.fd = IF f THEN "open" ELSE "closed"]}
    BY <1>4 DEF Other!OpenedBy, Other!Win32!Opened, Other!Win32!AspiOpened, Other!Win32!IoctlOpened
  <2> DEFINE new == Other!Win32!NewEnv(am, Other!Win32!CDIO_PREGAP_SECTORS)
  <2>2. CASE e = [new EXCEPT !.cam = TRUE]
    BY <2>2, NewEnvs
  <2>3. CASE e = [new EXCEPT !.fd = IF f THEN "open" ELSE "closed"]
    BY <2>3, NewEnvs
  <2> QED BY <2>1, <2>2, <2>3
<1>5. CASE platform = "osx"
  <2>1. e = [Other!OSX!NewEnv(am, 0) EXCEPT !.fd = "open"]
    BY <1>5 DEF Other!OpenedBy, Other!OSX!Opened
  <2> QED BY <2>1, NewEnvs
<1> QED BY <1>1, <1>2, <1>3, <1>4, <1>5 DEF OtherPlatforms

LEMMA ModeEnv ==
  ASSUME platform \in OtherPlatforms, IsEnv(env), Whole(env), NEW am, NEW c
  PROVE  IsEnv(Other!ModeSet(am, c)) /\ Whole(Other!ModeSet(am, c))
<1>1. CASE platform = "freebsd"
  BY <1>1, TableLeft DEF Other!ModeSet, Other!FreeBSD!WithMode
<1>2. CASE platform = "netbsd"
  BY <1>2, TableLeft DEF Other!ModeSet, Other!NetBSD!WithMode
<1>3. CASE platform = "solaris"
  BY <1>3, TableLeft DEF Other!ModeSet, Other!Solaris!WithMode
<1>4. CASE platform = "win32"
  BY <1>4, TableLeft DEF Other!ModeSet, Other!Win32!WithMode
<1>5. CASE platform = "osx"
  BY <1>5, TableLeft DEF Other!ModeSet, Other!OSX!WithMode
<1> QED BY <1>1, <1>2, <1>3, <1>4, <1>5 DEF OtherPlatforms

LEMMA EjectEnv ==
  ASSUME platform \in OtherPlatforms, IsEnv(env), Whole(env), NEW k
  PROVE  IsEnv(Other!AfterEject(k)) /\ Whole(Other!AfterEject(k))
<1>1. CASE platform = "solaris"
  BY <1>1, TableLeft DEF Other!AfterEject, Other!Solaris!EjectAttempt
<1>2. CASE platform = "osx"
  BY <1>2, TableLeft DEF Other!AfterEject, Other!OSX!EjectAttempt
<1>3. CASE platform \notin {"solaris", "osx"}
  BY <1>3 DEF Other!AfterEject
<1> QED BY <1>1, <1>2, <1>3

LEMMA FormatsEnv ==
  ASSUME IsEnv(env), Whole(env), NEW e, IsEnv(e), Whole(e), NEW ts, NEW x \in Other!WithFormats(e, ts)
  PROVE  IsEnv(x) /\ Whole(x)
<1>1. x = e \/ x = Other!NetBSD!ReadDiscInfo(e, inserted)
  BY DEF Other!WithFormats
<1> QED BY <1>1, TableLeft DEF Other!NetBSD!ReadDiscInfo

(* The getter of a start under each driver.                                *)
LEMMA LbaRight ==
  ASSUME platform \in OtherPlatforms, IsDisc(inserted), NEW e, IsEnv(e), Whole(e), Other!Indexed, e.toc, e.count # 0,
         NEW t \in Other!Asked, t # 0
  PROVE  Other!LbaBy(e, t) = Other!RightLba(t)
<1> DEFINE d == inserted
           u == IF t = 170 THEN Other!LastOf(d) + 1 ELSE t
<1>1. TableOf(e, d)
  BY DEF Whole
<1>2. t \in Other!TracksOf(d) \cup {Other!LastOf(d) + 1, 170}
  BY DEF Other!Asked, Other!CDIO_CDROM_LEADOUT_TRACK
<1>3. /\ Other!CountOf(d) \in Nat \ {0} /\ d.first \in Nat \ {0} /\ Other!LastOf(d) = d.first + Other!CountOf(d) - 1
      /\ Other!TracksOf(d) = d.first .. Other!LastOf(d) /\ Other!LastOf(d) <= MaxEntry /\ Other!LastOf(d) < 170
      /\ MaxEntry \in Nat /\ Other!LastOf(d) \in Nat
  BY DiscNumbers
<1>4. u \in d.first .. Other!LastOf(d) + 1 /\ u - d.first \in 0 .. MaxEntry /\ u # 0
  BY <1>2, <1>3
<1>5. e.ent[u - d.first].lba = Other!RightLba(t)
  <2>1. CASE t \in Other!TracksOf(d)
    <3>1. u = t
      BY <1>3, <2>1
    <3> QED BY <1>1, <2>1, <3>1 DEF TableOf, IsEntry, Other!RightLba
  <2>2. CASE t \notin Other!TracksOf(d)
    <3>1. u - d.first = Other!CountOf(d)
      BY <1>2, <1>3, <2>2
    <3> QED BY <1>1, <2>2, <3>1 DEF TableOf, IsEntry, Other!RightLba
  <2> QED BY <2>1, <2>2
<1>6. e.first = d.first /\ e.count = Other!CountOf(d) /\ e.count + e.first = Other!LastOf(d) + 1
  BY <1>1, <1>3 DEF TableOf
<1> HIDE DEF u
<1>7. CASE platform = "netbsd"
  <2>1. Other!NetBSD!TrackLba(e, t) = Other!NetBSD!Entry(e, u - e.first).lba
    BY <1>3, <1>4, <1>6, SMTT(30) DEF Other!NetBSD!TrackLba, Other!NetBSD!CDIO_CDROM_LEADOUT_TRACK, u
  <2> QED BY <1>4, <1>5, <1>6, <1>7, <2>1, SharedByNetBSD DEF Other!LbaBy
<1>8. CASE platform = "osx"
  <2>1. Other!OSX!TrackLba(e, t) = Other!OSX!Entry(e, u - e.first).lba
    BY <1>3, <1>4, <1>6, SMTT(30) DEF Other!OSX!TrackLba, Other!OSX!CDIO_CDROM_LEADOUT_TRACK, u
  <2> QED BY <1>4, <1>5, <1>6, <1>8, <2>1, SharedByOSX DEF Other!LbaBy
<1>9. CASE platform = "win32"
  <2>1. Other!Win32!TrackLba(e, t) = Other!Win32!Entry(e, u - e.first).lba
    BY <1>3, <1>4, <1>6, SMTT(30) DEF Other!Win32!TrackLba, Other!Win32!CDIO_CDROM_LEADOUT_TRACK, u
  <2> QED BY <1>4, <1>5, <1>6, <1>9, <2>1, SharedByWin32 DEF Other!LbaBy
<1>10. CASE platform = "solaris"
  <2>1. d.first = 1
    BY <1>10 DEF Other!Indexed
  <2>2. Other!Solaris!TrackLba(e, t) = Other!Solaris!Entry(e, u - 1).lba
    <3>1. (IF t = 170 THEN e.count + e.first ELSE t) = u /\ ~(u > e.count + e.first) /\ ~(u < e.first)
      BY <1>3, <1>4, <1>6 DEF u
    <3> QED BY <3>1 DEF Other!Solaris!TrackLba, Other!Solaris!CDIO_CDROM_LEADOUT_TRACK
  <2> QED BY <1>4, <1>5, <1>6, <1>10, <2>1, <2>2, SharedBySolaris DEF Other!LbaBy
<1>11. CASE platform = "freebsd"
  <2>1. d.first = 1 /\ e.hdr[1] = 1 /\ e.hdr[2] = Other!LastOf(d)
    BY <1>1, <1>11 DEF Other!Indexed, TableOf
  <2>2. Other!FreeBSD!TOTAL_TRACKS(e) = Other!LastOf(d) /\ Other!FreeBSD!FIRST_TRACK_NUM(e) = 1
    BY <1>3, <2>1 DEF Other!FreeBSD!TOTAL_TRACKS, Other!FreeBSD!FIRST_TRACK_NUM
  <2>3. Other!FreeBSD!TrackLba(e, t) = Other!FreeBSD!Entry(e, u - 1).lba
    BY <1>3, <1>4, <2>1, <2>2 DEF Other!FreeBSD!TrackLba, Other!FreeBSD!CDIO_CDROM_LEADOUT_TRACK, u
  <2> QED BY <1>4, <1>5, <1>11, <2>1, <2>3, SharedByFreeBSD DEF Other!LbaBy
<1> QED BY <1>7, <1>8, <1>9, <1>10, <1>11 DEF OtherPlatforms

LEMMA NoLba ==
  ASSUME platform \in OtherPlatforms \ {"solaris"}, NEW e, ~e.toc, NEW t
  PROVE  Other!LbaBy(e, t) = Other!INVALID
<1>1. CASE platform = "freebsd"
  BY <1>1 DEF Other!LbaBy, Other!FreeBSD!TrackLba, Other!FreeBSD!INVALID, Other!INVALID
<1>2. CASE platform = "netbsd"
  BY <1>2 DEF Other!LbaBy, Other!NetBSD!TrackLba, Other!NetBSD!INVALID, Other!INVALID
<1>3. CASE platform = "win32"
  BY <1>3 DEF Other!LbaBy, Other!Win32!TrackLba, Other!Win32!INVALID, Other!INVALID
<1>4. CASE platform = "osx"
  BY <1>4 DEF Other!LbaBy, Other!OSX!TrackLba, Other!OSX!INVALID, Other!INVALID
<1> QED BY <1>1, <1>2, <1>3, <1>4 DEF OtherPlatforms

(* The environment keeps its table through every call.                     *)
LEMMA OthersStart == DrivesInit => EnvInv
<1> SUFFICES ASSUME DrivesInit, platform # "linux" PROVE EnvInv
  BY DEF EnvInv
<1>1. platform \in OtherPlatforms /\ inserted \in OtherDiscs /\ env = Other!Closed
  BY DEF DrivesInit, InitLinux, NoOther, InitOther, Other!Init, OtherPlatforms
<1>2. IsDisc(inserted)
  BY <1>1, DiscsFitTheTable DEF Other!PlatformConstants, IsDisc, Other!CDIO_CDROM_LEADOUT_TRACK
<1> QED BY <1>1, <1>2, ClosedEnv DEF EnvInv

OtherEnv == IsEnv(env) /\ Whole(env)

LEMMA OthersCall ==
  ASSUME platform \in OtherPlatforms, IsDisc(inserted), OtherEnv, Other!Next
  PROVE  UNCHANGED <<platform, inserted>> /\ IsEnv(env') /\ Whole(env')
<1> USE DEF OtherEnv
<1>1. CASE Other!Open
  BY <1>1, OpenEnv DEF Other!Open
<1>2. CASE Other!AskTrack
  BY <1>2, TocStep DEF Other!AskTrack
<1>3. CASE Other!AskFormat
  <2>1. PICK e \in Other!Tables, t \in Other!TracksOf(inserted) : env' \in Other!WithFormats(e, {t})
    BY <1>3 DEF Other!AskFormat
  <2>2. UNCHANGED <<platform, inserted>>
    BY <1>3 DEF Other!AskFormat
  <2> QED BY <2>1, <2>2, TocStep, FormatsEnv
<1>4. CASE Other!AskGreen
  <2>1. PICK e \in Other!Tables \cup {env}, t \in Other!TracksOf(inserted) : env' \in Other!WithFormats(e, {t})
    BY <1>4 DEF Other!AskGreen
  <2>2. UNCHANGED <<platform, inserted>>
    BY <1>4 DEF Other!AskGreen
  <2>3. IsEnv(e) /\ Whole(e)
    BY <2>1, TocStep
  <2> QED BY <2>1, <2>2, <2>3, FormatsEnv
<1>5. CASE Other!AskDiscMode
  <2>1. env' = env \/ \E e \in Other!Tables : env' = e \/ \E ts : env' \in Other!WithFormats(e, ts)
    BY <1>5 DEF Other!AskDiscMode
  <2>2. UNCHANGED <<platform, inserted>>
    BY <1>5 DEF Other!AskDiscMode
  <2> QED BY <2>1, <2>2, TocStep, FormatsEnv
<1>6. CASE Other!AskLastLsn
  <2>1. env' = Other!Closed \/ env' \in Other!Tables \cup {env}
    BY <1>6 DEF Other!AskLastLsn
  <2>2. UNCHANGED <<platform, inserted>>
    BY <1>6 DEF Other!AskLastLsn
  <2> QED BY <2>1, <2>2, TocStep, ClosedEnv
<1>7. CASE Other!AskArg
  BY <1>7 DEF Other!AskArg
<1>8. CASE Other!Read
  <2>1. env' \in Other!Tables /\ UNCHANGED <<platform, inserted>>
    BY <1>8 DEF Other!Read
  <2> QED BY <2>1, TocStep
<1>9. CASE Other!SetAccessMode
  BY <1>9, ModeEnv DEF Other!SetAccessMode
<1>10. CASE Other!Eject
  BY <1>10, EjectEnv, ClosedEnv DEF Other!Eject
<1>11. CASE Other!Destroy
  BY <1>11, ClosedEnv DEF Other!Destroy
<1> QED BY <1>1, <1>2, <1>3, <1>4, <1>5, <1>6, <1>7, <1>8, <1>9, <1>10, <1>11 DEF Other!Next, Other!Ask

LEMMA OthersStep == EnvInv /\ [DrivesNext]_drivesVars => EnvInv'
<1> SUFFICES ASSUME EnvInv, [DrivesNext]_drivesVars, platform' # "linux" PROVE EnvInv'
  BY DEF EnvInv
<1>1. CASE UNCHANGED others
  BY <1>1 DEF EnvInv, others, Whole, TableOf, Other!Indexed
<1>2. CASE platform # "linux" /\ Other!Next
  <2>1. platform \in OtherPlatforms /\ IsDisc(inserted) /\ OtherEnv
    BY <1>2 DEF EnvInv, OtherEnv
  <2>2. UNCHANGED <<platform, inserted>> /\ IsEnv(env') /\ Whole(env')
    BY <1>2, <2>1, OthersCall
  <2>3. Whole(env)'
    BY <2>2 DEF Whole, TableOf, Other!Indexed
  <2> QED BY <2>1, <2>2, <2>3 DEF EnvInv
<1> QED BY <1>1, <1>2 DEF DrivesNext, OnLinux, OnOther, drivesVars, others

(* The sectors of a request, and what each way to read gives when it       *)
(* reports success.                                                        *)
InSectors(part, lsn, n) == [i \in 1 .. n |-> Other!Cell(lsn + i - 1, part)]

LEMMA WaysOfFreeBSD ==
  ASSUME NEW part, NEW lsn, NEW n \in Nat, NEW k \in 0 .. n
  PROVE  /\ Other!FreeBSD!NothingRead(n).rc = "error"
         /\ Other!FreeBSD!FirstOnly(part, lsn, n, k).rc # "success"
         /\ LET r == Other!FreeBSD!BySector(part, lsn, n, k) IN r.rc = "success" => r.buf = InSectors(part, lsn, n)
         /\ LET r == Other!FreeBSD!AtOnce(part, lsn, n, k) IN r.rc = "success" => r.buf = InSectors(part, lsn, n)
         /\ LET r == Other!FreeBSD!AnyBytes(part, lsn, n, k) IN k = n => r.buf = InSectors(part, lsn, n)
<1>1. Other!FreeBSD!NothingRead(n).rc = "error" /\ Other!FreeBSD!FirstOnly(part, lsn, n, k).rc # "success"
  BY DEF Other!FreeBSD!NothingRead, Other!FreeBSD!FirstOnly
<1>2. Other!FreeBSD!Filled(part, lsn, n, n) = InSectors(part, lsn, n)
  BY DEF Other!FreeBSD!Filled, InSectors, Other!FreeBSD!Cell, Other!Cell
<1>3. LET r == Other!FreeBSD!BySector(part, lsn, n, k) IN r.rc = "success" => r.buf = InSectors(part, lsn, n)
  BY <1>2 DEF Other!FreeBSD!BySector
<1>4. LET r == Other!FreeBSD!AtOnce(part, lsn, n, k) IN r.rc = "success" => r.buf = InSectors(part, lsn, n)
  BY <1>2 DEF Other!FreeBSD!AtOnce
<1>5. LET r == Other!FreeBSD!AnyBytes(part, lsn, n, k) IN k = n => r.buf = InSectors(part, lsn, n)
  BY <1>2 DEF Other!FreeBSD!AnyBytes
<1> QED BY <1>1, <1>2, <1>3, <1>4, <1>5

LEMMA WaysOfNetBSD ==
  ASSUME NEW part, NEW lsn, NEW n \in Nat, NEW k \in 0 .. n
  PROVE  /\ Other!NetBSD!NothingRead(n).rc = "error"
         /\ Other!NetBSD!FirstOnly(part, lsn, n, k).rc # "success"
         /\ LET r == Other!NetBSD!BySector(part, lsn, n, k) IN r.rc = "success" => r.buf = InSectors(part, lsn, n)
         /\ LET r == Other!NetBSD!AtOnce(part, lsn, n, k) IN r.rc = "success" => r.buf = InSectors(part, lsn, n)
         /\ LET r == Other!NetBSD!AnyBytes(part, lsn, n, k) IN k = n => r.buf = InSectors(part, lsn, n)
<1>1. Other!NetBSD!NothingRead(n).rc = "error" /\ Other!NetBSD!FirstOnly(part, lsn, n, k).rc # "success"
  BY DEF Other!NetBSD!NothingRead, Other!NetBSD!FirstOnly
<1>2. Other!NetBSD!Filled(part, lsn, n, n) = InSectors(part, lsn, n)
  BY DEF Other!NetBSD!Filled, InSectors, Other!NetBSD!Cell, Other!Cell
<1>3. LET r == Other!NetBSD!BySector(part, lsn, n, k) IN r.rc = "success" => r.buf = InSectors(part, lsn, n)
  BY <1>2 DEF Other!NetBSD!BySector
<1>4. LET r == Other!NetBSD!AtOnce(part, lsn, n, k) IN r.rc = "success" => r.buf = InSectors(part, lsn, n)
  BY <1>2 DEF Other!NetBSD!AtOnce
<1>5. LET r == Other!NetBSD!AnyBytes(part, lsn, n, k) IN k = n => r.buf = InSectors(part, lsn, n)
  BY <1>2 DEF Other!NetBSD!AnyBytes
<1> QED BY <1>1, <1>2, <1>3, <1>4, <1>5

LEMMA WaysOfSolaris ==
  ASSUME NEW part, NEW lsn, NEW n \in Nat, NEW k \in 0 .. n
  PROVE  /\ Other!Solaris!NothingRead(n).rc = "error"
         /\ Other!Solaris!FirstOnly(part, lsn, n, k).rc # "success"
         /\ LET r == Other!Solaris!BySector(part, lsn, n, k) IN r.rc = "success" => r.buf = InSectors(part, lsn, n)
         /\ LET r == Other!Solaris!AtOnce(part, lsn, n, k) IN r.rc = "success" => r.buf = InSectors(part, lsn, n)
         /\ LET r == Other!Solaris!AnyBytes(part, lsn, n, k) IN k = n => r.buf = InSectors(part, lsn, n)
<1>1. Other!Solaris!NothingRead(n).rc = "error" /\ Other!Solaris!FirstOnly(part, lsn, n, k).rc # "success"
  BY DEF Other!Solaris!NothingRead, Other!Solaris!FirstOnly
<1>2. Other!Solaris!Filled(part, lsn, n, n) = InSectors(part, lsn, n)
  BY DEF Other!Solaris!Filled, InSectors, Other!Solaris!Cell, Other!Cell
<1>3. LET r == Other!Solaris!BySector(part, lsn, n, k) IN r.rc = "success" => r.buf = InSectors(part, lsn, n)
  BY <1>2 DEF Other!Solaris!BySector
<1>4. LET r == Other!Solaris!AtOnce(part, lsn, n, k) IN r.rc = "success" => r.buf = InSectors(part, lsn, n)
  BY <1>2 DEF Other!Solaris!AtOnce
<1>5. LET r == Other!Solaris!AnyBytes(part, lsn, n, k) IN k = n => r.buf = InSectors(part, lsn, n)
  BY <1>2 DEF Other!Solaris!AnyBytes
<1> QED BY <1>1, <1>2, <1>3, <1>4, <1>5

LEMMA WaysOfWin32 ==
  ASSUME NEW part, NEW lsn, NEW n \in Nat, NEW k \in 0 .. n
  PROVE  /\ Other!Win32!NothingRead(n).rc = "error"
         /\ Other!Win32!FirstOnly(part, lsn, n, k).rc # "success"
         /\ LET r == Other!Win32!BySector(part, lsn, n, k) IN r.rc = "success" => r.buf = InSectors(part, lsn, n)
         /\ LET r == Other!Win32!AtOnce(part, lsn, n, k) IN r.rc = "success" => r.buf = InSectors(part, lsn, n)
         /\ LET r == Other!Win32!AnyBytes(part, lsn, n, k) IN k = n => r.buf = InSectors(part, lsn, n)
<1>1. Other!Win32!NothingRead(n).rc = "error" /\ Other!Win32!FirstOnly(part, lsn, n, k).rc # "success"
  BY DEF Other!Win32!NothingRead, Other!Win32!FirstOnly
<1>2. Other!Win32!Filled(part, lsn, n, n) = InSectors(part, lsn, n)
  BY DEF Other!Win32!Filled, InSectors, Other!Win32!Cell, Other!Cell
<1>3. LET r == Other!Win32!BySector(part, lsn, n, k) IN r.rc = "success" => r.buf = InSectors(part, lsn, n)
  BY <1>2 DEF Other!Win32!BySector
<1>4. LET r == Other!Win32!AtOnce(part, lsn, n, k) IN r.rc = "success" => r.buf = InSectors(part, lsn, n)
  BY <1>2 DEF Other!Win32!AtOnce
<1>5. LET r == Other!Win32!AnyBytes(part, lsn, n, k) IN k = n => r.buf = InSectors(part, lsn, n)
  BY <1>2 DEF Other!Win32!AnyBytes
<1> QED BY <1>1, <1>2, <1>3, <1>4, <1>5

LEMMA WaysOfOSX ==
  ASSUME NEW part, NEW lsn, NEW n \in Nat, NEW k \in 0 .. n
  PROVE  /\ Other!OSX!NothingRead(n).rc = "error"
         /\ Other!OSX!FirstOnly(part, lsn, n, k).rc # "success"
         /\ LET r == Other!OSX!BySector(part, lsn, n, k) IN r.rc = "success" => r.buf = InSectors(part, lsn, n)
         /\ LET r == Other!OSX!AtOnce(part, lsn, n, k) IN r.rc = "success" => r.buf = InSectors(part, lsn, n)
         /\ LET r == Other!OSX!AnyBytes(part, lsn, n, k) IN k = n => r.buf = InSectors(part, lsn, n)
<1>1. Other!OSX!NothingRead(n).rc = "error" /\ Other!OSX!FirstOnly(part, lsn, n, k).rc # "success"
  BY DEF Other!OSX!NothingRead, Other!OSX!FirstOnly
<1>2. Other!OSX!Filled(part, lsn, n, n) = InSectors(part, lsn, n)
  BY DEF Other!OSX!Filled, InSectors, Other!OSX!Cell, Other!Cell
<1>3. LET r == Other!OSX!BySector(part, lsn, n, k) IN r.rc = "success" => r.buf = InSectors(part, lsn, n)
  BY <1>2 DEF Other!OSX!BySector
<1>4. LET r == Other!OSX!AtOnce(part, lsn, n, k) IN r.rc = "success" => r.buf = InSectors(part, lsn, n)
  BY <1>2 DEF Other!OSX!AtOnce
<1>5. LET r == Other!OSX!AnyBytes(part, lsn, n, k) IN k = n => r.buf = InSectors(part, lsn, n)
  BY <1>2 DEF Other!OSX!AnyBytes
<1> QED BY <1>1, <1>2, <1>3, <1>4, <1>5

(* A read of n sectors under each driver, apart from those that            *)
(* SectorsAsAsked leaves out.                                              *)
Shifted(e, kind) ==
  /\ kind = "form2"
  /\ (platform = "win32" /\ ~e.cam) \/ platform = "osx" \/ (platform = "freebsd" /\ e.mode = "ioctl")

LEMMA ReadFills ==
  ASSUME platform \in OtherPlatforms, NEW e, NEW kind \in {"audio", "form1", "form2", "data", "mode1"}, NEW lsn \in Int,
         inserted.end \in Int, NEW n \in Nat, NEW k \in 0 .. n, Other!ReadBy(e, kind, lsn, n, k).rc = "success", ~Shifted(e, kind),
         ~(platform = "osx" /\ kind = "data" /\ inserted.format # "none"), kind = "data" => k = n
  PROVE  Other!ReadBy(e, kind, lsn, n, k).buf = InSectors(Other!WantedPart(kind), lsn, n)
<1> DEFINE part == Other!WantedPart(kind)
<1>0. part = IF kind = "audio" THEN "raw" ELSE IF kind = "form2" THEN "subheader" ELSE "user"
  BY DEF Other!WantedPart
<1>1. CASE platform = "freebsd"
  <2> DEFINE r == Other!FreeBSD!ReadSectors(e, kind, lsn, n, k)
  <2>1. r.rc = "success" /\ Other!ReadBy(e, kind, lsn, n, k) = r
    BY <1>1 DEF Other!ReadBy
  <2>2. CASE ~Other!FreeBSD!ByCam(e)
    <3>1. r = Other!FreeBSD!IoctlRead(kind, lsn, n, k) /\ kind # "form2"
      BY <1>1, <2>2 DEF Other!FreeBSD!ReadSectors, Shifted, Other!FreeBSD!ByCam
    <3>2. CASE kind = "audio"
      BY <1>0, <2>1, <3>1, <3>2, WaysOfFreeBSD DEF Other!FreeBSD!IoctlRead
    <3>3. CASE kind = "form1"
      <4>1. r.rc = Other!FreeBSD!FirstOnly("user", lsn, n, k).rc
        BY <3>1, <3>3 DEF Other!FreeBSD!IoctlRead, Other!FreeBSD!FirstOnly
      <4> QED BY <2>1, <4>1, WaysOfFreeBSD
    <3>4. CASE kind \in {"mode1", "data"}
      BY <2>1, <3>1, <3>4, WaysOfFreeBSD DEF Other!FreeBSD!IoctlRead
    <3> QED BY <3>1, <3>2, <3>3, <3>4
  <2>3. CASE Other!FreeBSD!ByCam(e) /\ ~e.cam
    BY <2>1, <2>3, WaysOfFreeBSD DEF Other!FreeBSD!ReadSectors
  <2>4. CASE Other!FreeBSD!ByCam(e) /\ e.cam
    <3>1. r = Other!FreeBSD!CamRead(kind, lsn, n, k)
      BY <2>4 DEF Other!FreeBSD!ReadSectors
    <3>2. CASE kind \in {"audio", "data"}
      <4>1. r = Other!FreeBSD!AtOnce(part, lsn, n, k)
        BY <1>0, <3>1, <3>2 DEF Other!FreeBSD!CamRead, Other!FreeBSD!WantedPart
      <4> QED BY <2>1, <4>1, WaysOfFreeBSD
    <3>3. CASE kind \in {"form1", "form2"}
      BY <1>0, <2>1, <3>1, <3>3, WaysOfFreeBSD DEF Other!FreeBSD!CamRead
    <3>4. CASE kind = "mode1"
      BY <2>1, <3>1, <3>4, WaysOfFreeBSD DEF Other!FreeBSD!CamRead
    <3> QED BY <3>2, <3>3, <3>4
  <2> QED BY <2>2, <2>3, <2>4
<1>2. CASE platform = "netbsd"
  <2> DEFINE r == Other!NetBSD!ReadSectors(e, kind, lsn, n, k)
  <2>1. r.rc = "success" /\ Other!ReadBy(e, kind, lsn, n, k) = r
    BY <1>2 DEF Other!ReadBy
  <2>2. CASE kind = "audio"
    BY <1>0, <2>1, <2>2, WaysOfNetBSD DEF Other!NetBSD!ReadSectors
  <2>3. CASE kind \in {"form1", "form2"}
    BY <1>0, <2>1, <2>3, WaysOfNetBSD DEF Other!NetBSD!ReadSectors
  <2>4. CASE kind \in {"mode1", "data"}
    BY <1>0, <2>1, <2>4, WaysOfNetBSD DEF Other!NetBSD!ReadSectors
  <2> QED BY <2>2, <2>3, <2>4
<1>3. CASE platform = "solaris"
  <2> DEFINE r == Other!Solaris!ReadSectors(e, kind, lsn, n, k)
  <2>1. r.rc = "success" /\ Other!ReadBy(e, kind, lsn, n, k) = r
    BY <1>3 DEF Other!ReadBy
  <2>5. e.fd = "open"
    <3>1. CASE e.fd # "open"
      BY <2>1, <3>1, WaysOfSolaris DEF Other!Solaris!ReadSectors
    <3> QED BY <3>1
  <2>2. CASE kind = "audio"
    BY <1>0, <2>1, <2>2, <2>5, WaysOfSolaris DEF Other!Solaris!ReadSectors
  <2>3. CASE kind \in {"form1", "form2"}
    BY <1>0, <2>1, <2>3, <2>5, WaysOfSolaris DEF Other!Solaris!ReadSectors
  <2>4. CASE kind \in {"mode1", "data"}
    BY <1>0, <2>1, <2>4, <2>5, WaysOfSolaris DEF Other!Solaris!ReadSectors
  <2> QED BY <2>2, <2>3, <2>4
<1>4. CASE platform = "win32"
  <2> DEFINE r == Other!Win32!ReadSectors(e, kind, lsn, n, k)
  <2>1. r.rc = "success" /\ Other!ReadBy(e, kind, lsn, n, k) = r
    BY <1>4 DEF Other!ReadBy
  <2>2. CASE e.cam
    <3>1. r = Other!Win32!AspiReadSectors(e, kind, lsn, n, k)
      BY <2>2 DEF Other!Win32!ReadSectors
    <3>2. CASE kind = "audio"
      BY <1>0, <2>1, <3>1, <3>2, WaysOfWin32 DEF Other!Win32!AspiReadSectors
    <3>3. CASE kind \in {"form1", "form2", "mode1"}
      BY <1>0, <2>1, <3>1, <3>3, WaysOfWin32 DEF Other!Win32!AspiReadSectors
    <3>4. CASE kind = "data"
      BY <1>0, <2>1, <3>1, <3>4, WaysOfWin32 DEF Other!Win32!AspiReadSectors
    <3> QED BY <3>2, <3>3, <3>4
  <2>3. CASE ~e.cam
    <3>1. r = Other!Win32!IoctlRead(e, kind, lsn, n, k) /\ kind # "form2"
      BY <1>4, <2>3 DEF Other!Win32!ReadSectors, Shifted
    <3>5. e.fd = "open"
      <4>1. CASE e.fd # "open"
        BY <2>1, <3>1, <4>1, WaysOfWin32 DEF Other!Win32!IoctlRead
      <4> QED BY <4>1
    <3>2. CASE kind = "audio"
      BY <1>0, <2>1, <3>1, <3>2, <3>5, WaysOfWin32 DEF Other!Win32!IoctlRead, Other!Win32!IoctlReadAudio
    <3>3. CASE kind \in {"form1", "mode1"}
      BY <1>0, <2>1, <3>1, <3>3, <3>5, WaysOfWin32 DEF Other!Win32!IoctlRead
    <3>4. CASE kind = "data"
      BY <1>0, <2>1, <3>1, <3>4, <3>5, WaysOfWin32 DEF Other!Win32!IoctlRead
    <3> QED BY <3>1, <3>2, <3>3, <3>4
  <2> QED BY <2>2, <2>3
<1>5. CASE platform = "osx"
  <2> DEFINE r == Other!OSX!ReadSectors(e, inserted, kind, lsn, n, k)
  <2>1. r.rc = "success" /\ Other!ReadBy(e, kind, lsn, n, k) = r /\ kind # "form2"
    BY <1>5 DEF Other!ReadBy, Shifted
  <2>5. e.fd = "open"
    <3>1. CASE e.fd # "open"
      BY <2>1, <3>1, WaysOfOSX DEF Other!OSX!ReadSectors
    <3> QED BY <3>1
  <2>2. CASE kind = "audio"
    BY <1>0, <2>1, <2>2, <2>5, WaysOfOSX DEF Other!OSX!ReadSectors
  <2>3. CASE kind \in {"form1", "mode1"}
    BY <1>0, <2>1, <2>3, <2>5, WaysOfOSX DEF Other!OSX!ReadSectors
  <2>4. CASE kind = "data"
    <3>1. r = Other!OSX!DataRead(inserted, lsn, n, k)
      BY <2>4, <2>5 DEF Other!OSX!ReadSectors
    <3>2. Other!OSX!Told(inserted, Other!OSX!TrackAt(inserted, lsn)) \in {"audio", "cdi"}
      BY <1>5, <2>4 DEF Other!OSX!Told, Other!OSX!DataMode
    <3>3. r = Other!OSX!NothingRead(n) \/ r = Other!OSX!AtOnce("user", lsn, n, k)
      BY <3>1, <3>2 DEF Other!OSX!DataRead
    <3> QED BY <1>0, <2>1, <2>4, <3>3, WaysOfOSX
  <2> QED BY <2>1, <2>2, <2>3, <2>4
<1> QED BY <1>1, <1>2, <1>3, <1>4, <1>5 DEF OtherPlatforms

(* A request is cut at the disc's leadout.                                 *)
LEMMA EndIsKnown ==
  ASSUME platform \in OtherPlatforms, IsDisc(inserted), NEW e, IsEnv(e), Whole(e), Other!Indexed,
         e.toc => e.count # 0, platform = "solaris" => e.toc,
         NEW end \in {x - Other!CDIO_PREGAP_SECTORS : x \in Other!Ends(e)}
  PROVE  IF e.toc THEN end = inserted.end ELSE end = -45451
<1>1. CASE e.toc
  <2>1. Other!LbaBy(e, 170) = Other!RightLba(170)
    BY <1>1, LbaRight DEF Other!Asked, Other!CDIO_CDROM_LEADOUT_TRACK
  <2>2. Other!RightLba(170) = inserted.end + 150 /\ inserted.end \in Nat
    BY DiscNumbers DEF Other!RightLba, Other!EndOf, Other!CDIO_PREGAP_SECTORS, IsDisc
  <2>3. Other!Ends(e) = {inserted.end + 150}
    BY <2>1, <2>2 DEF Other!Ends, Other!WILD, Other!CDIO_CDROM_LEADOUT_TRACK
  <2> QED BY <1>1, <2>2, <2>3 DEF Other!CDIO_PREGAP_SECTORS
<1>2. CASE ~e.toc
  <2>1. Other!LbaBy(e, 170) = -45301
    BY <1>2, NoLba DEF Other!INVALID
  <2>2. Other!Ends(e) = {-45301}
    BY <2>1 DEF Other!Ends, Other!WILD, Other!CDIO_CDROM_LEADOUT_TRACK
  <2> QED BY <1>2, <2>2 DEF Other!CDIO_PREGAP_SECTORS
<1> QED BY <1>1, <1>2

LEMMA ReadsAsAsked ==
  ASSUME platform \in OtherPlatforms, IsDisc(inserted), OtherEnv, Other!Read
  PROVE  Other!SectorsAsAsked'
<1> SUFFICES ASSUME said'.rc = "success", Other!LeadoutKnown', ~Other!ShiftedForm2', ~Other!WrongUnits',
                    said'.kind = "data" => said'.all
             PROVE  /\ Len(said'.buf) = Other!OwedBlocks'
                    /\ \A i \in 1 .. Other!OwedBlocks' :
                         said'.buf[i] = Other!Cell(said'.lsn + i - 1, Other!WantedPart(said'.kind))
  BY DEF Other!SectorsAsAsked, Other!WantedPart, Other!Cell
<1>1. PICK e \in Other!Tables, kind \in Other!Kinds, lsn \in OtherLsns, n \in 1 .. MaxBlocks :
        \E end \in {x - Other!CDIO_PREGAP_SECTORS : x \in Other!Ends(e)} :
          LET m == Other!Cut(kind, lsn, n, end)
          IN  /\ env' = e
              /\ \E k \in 0 .. m :
                   LET r == IF lsn > end THEN Other!NothingRead(n) ELSE Other!ReadBy(e, kind, lsn, m, k)
                   IN  said' = [op |-> "read", kind |-> kind, lsn |-> lsn, n |-> n,
                                all |-> k = m, rc |-> r.rc, buf |-> r.buf]
  BY DEF Other!Read
<1>2. PICK end \in {x - Other!CDIO_PREGAP_SECTORS : x \in Other!Ends(e)} :
        LET m == Other!Cut(kind, lsn, n, end)
        IN  /\ env' = e
            /\ \E k \in 0 .. m :
                 LET r == IF lsn > end THEN Other!NothingRead(n) ELSE Other!ReadBy(e, kind, lsn, m, k)
                 IN  said' = [op |-> "read", kind |-> kind, lsn |-> lsn, n |-> n,
                              all |-> k = m, rc |-> r.rc, buf |-> r.buf]
  BY <1>1
<1> DEFINE m == Other!Cut(kind, lsn, n, end)
           r(k) == IF lsn > end THEN Other!NothingRead(n) ELSE Other!ReadBy(e, kind, lsn, m, k)
<1>3. PICK k \in 0 .. m : said' = [op |-> "read", kind |-> kind, lsn |-> lsn, n |-> n, all |-> k = m,
                                   rc |-> r(k).rc, buf |-> r(k).buf]
  BY <1>2
<1>4. /\ env' = e /\ said'.kind = kind /\ said'.lsn = lsn /\ said'.n = n
      /\ said'.rc = r(k).rc /\ said'.buf = r(k).buf /\ (said'.all => k = m)
  BY <1>2, <1>3
<1>5. UNCHANGED <<platform, inserted>>
  BY DEF Other!Read
<1>6. IsEnv(e) /\ Whole(e)
  BY TocStep DEF OtherEnv
<1>7. Other!Indexed /\ (e.toc => e.count # 0) /\ (platform = "solaris" => e.toc)
  BY <1>4, <1>5 DEF Other!LeadoutKnown, Other!Indexed
<1>8. IF e.toc THEN end = inserted.end ELSE end = -45451
  BY <1>6, <1>7, EndIsKnown
<1>9. lsn \in Nat /\ MaxBlocks \in Nat /\ inserted.end \in Nat
  BY DiscsFitTheTable DEF Other!PlatformConstants, IsDisc
<1>10. ~(lsn > end) /\ r(k) = Other!ReadBy(e, kind, lsn, m, k)
  <2>1. CASE lsn > end
    BY <1>4, <2>1 DEF Other!NothingRead
  <2> QED BY <2>1
<1>11. end = inserted.end
  BY <1>8, <1>9, <1>10
<1>12. m \in Nat /\ m = Other!OwedBlocks'
  BY <1>4, <1>5, <1>9, <1>10, <1>11 DEF Other!OwedBlocks, Other!Cut
<1>13. ~Shifted(e, kind) /\ ~(platform = "osx" /\ kind = "data" /\ inserted.format # "none") /\ (kind = "data" => k = m)
  BY <1>4, <1>5 DEF Shifted, Other!ShiftedForm2, Other!WrongUnits
<1>14. kind \in {"audio", "form1", "form2", "data", "mode1"}
  BY DEF Other!Kinds
<1> HIDE DEF m
<1>15. said'.buf = InSectors(Other!WantedPart(kind), lsn, m)
  BY <1>4, <1>9, <1>10, <1>12, <1>13, <1>14, ReadFills
<1> QED BY <1>4, <1>12, <1>15 DEF InSectors

(* The calls that say something of another kind, or nothing.               *)
LEMMA OtherOps ==
  ASSUME Other!Next, ~Other!Read, ~Other!AskTrack
  PROVE  said'.op \notin {"read", "lba"}
<1>1. CASE Other!Open \/ Other!SetAccessMode \/ Other!Eject \/ Other!Destroy
  BY <1>1 DEF Other!Open, Other!SetAccessMode, Other!Eject, Other!Destroy, Other!Nothing
<1>2. CASE Other!AskFormat
  BY <1>2 DEF Other!AskFormat
<1>3. CASE Other!AskGreen
  BY <1>3 DEF Other!AskGreen
<1>4. CASE Other!AskDiscMode
  BY <1>4 DEF Other!AskDiscMode
<1>5. CASE Other!AskLastLsn
  BY <1>5 DEF Other!AskLastLsn
<1>6. CASE Other!AskArg
  BY <1>6 DEF Other!AskArg
<1> QED BY <1>1, <1>2, <1>3, <1>4, <1>5, <1>6 DEF Other!Next, Other!Ask

LEMMA AnswersOfTable ==
  ASSUME platform \in OtherPlatforms, IsDisc(inserted), OtherEnv, Other!AskTrack
  PROVE  Other!TableAnswersForDisc'
<1>1. PICK e \in Other!Tables, t \in Other!Asked :
        env' = e /\ said' = [op |-> "lba", track |-> t, value |-> Other!LbaBy(e, t)]
  BY DEF Other!AskTrack
<1>2. UNCHANGED <<platform, inserted>> /\ said'.track = t /\ said'.value = Other!LbaBy(e, t)
  BY <1>1 DEF Other!AskTrack
<1>3. IsEnv(e) /\ Whole(e)
  BY TocStep DEF OtherEnv
<1>4. Other!Indexed /\ t # 0 /\ e.toc /\ e.count # 0 => Other!LbaBy(e, t) = Other!RightLba(t)
  BY <1>3, LbaRight
<1>5. ~e.toc /\ platform # "solaris" => Other!LbaBy(e, t) = Other!INVALID
  BY NoLba
<1> QED BY <1>1, <1>2, <1>4, <1>5 DEF Other!TableAnswersForDisc, Other!HasTable, Other!Indexed, Other!RightLba

OthersAnswer == platform # "linux" => Other!SectorsAsAsked /\ Other!TableAnswersForDisc

LEMMA OthersAnswerStart == DrivesInit => OthersAnswer
BY DEF DrivesInit, InitLinux, NoOther, InitOther, Other!Init, Other!Nothing, OthersAnswer, Other!SectorsAsAsked,
       Other!TableAnswersForDisc

LEMMA OthersAnswerStep == EnvInv /\ OthersAnswer /\ [DrivesNext]_drivesVars => OthersAnswer'
<1> SUFFICES ASSUME EnvInv, OthersAnswer, [DrivesNext]_drivesVars PROVE OthersAnswer'
  OBVIOUS
<1>1. CASE UNCHANGED others
  BY <1>1 DEF OthersAnswer, others, Other!SectorsAsAsked, Other!TableAnswersForDisc, Other!LeadoutKnown,
              Other!Indexed, Other!ShiftedForm2, Other!WrongUnits, Other!OwedBlocks, Other!HasTable, Other!RightLba
<1>2. CASE platform # "linux" /\ Other!Next
  <2>1. platform \in OtherPlatforms /\ IsDisc(inserted) /\ OtherEnv
    BY <1>2 DEF EnvInv, OtherEnv
  <2>2. CASE Other!Read
    <3>1. said'.op = "read"
      BY <2>2 DEF Other!Read
    <3> QED BY <2>1, <2>2, <3>1, ReadsAsAsked DEF OthersAnswer, Other!TableAnswersForDisc
  <2>3. CASE Other!AskTrack
    <3>1. said'.op = "lba"
      BY <2>3 DEF Other!AskTrack
    <3> QED BY <2>1, <2>3, <3>1, AnswersOfTable DEF OthersAnswer, Other!SectorsAsAsked
  <2>4. CASE ~Other!Read /\ ~Other!AskTrack
    BY <1>2, <2>4, OtherOps DEF OthersAnswer, Other!SectorsAsAsked, Other!TableAnswersForDisc
  <2> QED BY <2>2, <2>3, <2>4
<1> QED BY <1>1, <1>2 DEF DrivesNext, OnLinux, OnOther, drivesVars, others

LEMMA DrivesOfLinux ==
  /\ DrivesInit => Init
  /\ [DrivesNext]_drivesVars => [Next]_vars
BY DEF DrivesInit, InitLinux, InitOther, DrivesNext, OnLinux, OnOther, drivesVars

(* On every platform a read that reports success has filled the buffer     *)
(* with the sectors asked for, up to the leadout, whatever commands failed *)
(* before (read.c's checks over the drivers' read routines).               *)
THEOREM ReadsFillTheBuffer == DrivesSpec => []SectorsAsAsked
<1> DEFINE Linux == IInv /\ AskedInv /\ SelectInv /\ RetryInv
<1>1. DrivesInit => Linux /\ EnvInv /\ OthersAnswer
  BY DrivesOfLinux, RetriesStart, InitInv, OthersStart, OthersAnswerStart
<1>2. Linux /\ [DrivesNext]_drivesVars => Linux'
  BY DrivesOfLinux, StepInv, AskedStep, SelectStep, RetryStep
<1>3. Linux /\ OthersAnswer => SectorsAsAsked
  BY DEF RetryInv, OthersAnswer, SectorsAsAsked
<1>4. DrivesSpec => DrivesInit /\ [][DrivesNext]_drivesVars
  BY PTL DEF DrivesSpec, DrivesInit, DrivesNext, drivesVars
<1> QED BY <1>1, <1>2, <1>3, <1>4, OthersStep, OthersAnswerStep, PTL

(* On the other platforms the getter of a track's start answers with the   *)
(* start, or with the leadout behind the last track, when the table was    *)
(* read, however many attempts to read it failed before, and with none     *)
(* when it was not.                                                        *)
THEOREM StartsOfTheDisc == DrivesSpec => [](platform # "linux" => Other!TableAnswersForDisc)
<1>1. DrivesInit => EnvInv /\ OthersAnswer
  BY OthersStart, OthersAnswerStart
<1>2. OthersAnswer => (platform # "linux" => Other!TableAnswersForDisc)
  BY DEF OthersAnswer
<1>3. DrivesSpec => DrivesInit /\ [][DrivesNext]_drivesVars
  BY PTL DEF DrivesSpec, DrivesInit, DrivesNext, drivesVars
<1> QED BY <1>1, <1>2, <1>3, OthersStep, OthersAnswerStep, PTL
=============================================================================
