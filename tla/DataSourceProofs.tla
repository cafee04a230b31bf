-------------------------- MODULE DataSourceProofs --------------------------
(***************************************************************************)
(* For every file size, every set of offsets and counts and every limit:   *)
(* a data source leaks no FILE and closes none twice; and as long as its   *)
(* callers seek with SEEK_SET in a file that fseek accepts, its cached     *)
(* position is right and it implements ByteCursor.                         *)
(***************************************************************************)
EXTENDS DataSource, TLAPS

(* The part of the invariant that needs nothing from the callers.          *)
Safe == TypeOK /\ OneFilePerOpenStream

LEMMA ReadResultsBound ==
  ASSUME NEW f \in Nat, NEW count \in Nat, NEW n \in ReadResults(f, count)
  PROVE  n \in Nat /\ n <= count /\ (n > 0 => f + n <= FileSize)
  BY DataSourceAssumption DEF DataSourceAssumption, ReadResults

(* fseek is asked for a place in the file or beyond its end.               *)
LEMMA SeekTargetIsOffset ==
  ASSUME Safe, NEW offset \in Nat, NEW whence \in Whences
  PROVE  SeekTarget(offset, whence) \in Nat
  <1>1. FileOnceOpen \in Nat
    BY DEF Safe, TypeOK, OneFilePerOpenStream, isOpen, FileOnceOpen, NoFile
  <1> QED BY <1>1, DataSourceAssumption DEF DataSourceAssumption, SeekTarget

LEMMA InitSafe == Init => Safe
  BY DEF Init, Safe, TypeOK, OneFilePerOpenStream, isOpen, NoFile, Call, OpSuccess

LEMMA NextSafe == Safe /\ [Next]_vars => Safe'
  <1> SUFFICES ASSUME Safe, [Next]_vars PROVE Safe'
    OBVIOUS
  <1> USE DataSourceAssumption DEF DataSourceAssumption, alive, isOpen
  <1>a. FileOnceOpen \in Nat /\ PosOnceOpen \in Nat
    BY DEF Safe, TypeOK, OneFilePerOpenStream, isOpen, FileOnceOpen, PosOnceOpen, NoFile
  <1>1. CASE New
    BY <1>1 DEF New, Safe, TypeOK, OneFilePerOpenStream, NoFile, Call, OpSuccess
  <1>2. ASSUME NEW count \in Counts, Read(count) PROVE Safe'
    <2>1. CASE CannotOpen("read", count, "SEEK_SET", 0)
      BY <2>1 DEF CannotOpen, Safe, TypeOK, OneFilePerOpenStream, NoFile, Call
    <2>2. CASE /\ OpenIfNecessary
               /\ \E n \in ReadResults(FileOnceOpen, count) :
                    /\ position' = PositionAfterRead(n)
                    /\ file' = FileOnceOpen + n
                    /\ last' = Call("read", count, "SEEK_SET", n)
      <3>1. PICK n \in ReadResults(FileOnceOpen, count) :
              /\ position' = PositionAfterRead(n)
              /\ file' = FileOnceOpen + n
              /\ last' = Call("read", count, "SEEK_SET", n)
        BY <2>2
      <3>2. n \in Nat
        BY <1>a, ReadResultsBound
      <3> QED
        BY <1>2, <1>a, <2>2, <3>1, <3>2
           DEF Read, OpenIfNecessary, PositionAfterRead, Safe, TypeOK,
               OneFilePerOpenStream, NoFile, Call
    <2> QED BY <1>2, <2>1, <2>2 DEF Read
  <1>3. ASSUME NEW offset \in Offsets \cup {BeforeFile}, NEW whence \in Whences, Seek(offset, whence)
        PROVE  Safe'
    <2>1. CASE CannotOpen("seek", offset, whence, OpError)
      BY <2>1 DEF CannotOpen, Safe, TypeOK, OneFilePerOpenStream, NoFile, Call, OpError
    <2>2. CASE ~CannotOpen("seek", offset, whence, OpError)
      <3>1. offset >= 0 => SeekTarget(offset, whence) \in Nat
        BY SeekTargetIsOffset
      <3>2. position' \in Nat /\ file' \in Nat
        BY <1>3, <1>a, <2>2, <3>1 DEF Seek, AlreadyThere
      <3>3. OpenIfNecessary
        BY <1>3, <2>2 DEF Seek
      <3>4. \E rc \in Int : last' = Call("seek", offset, whence, rc)
        BY <1>3, <2>2 DEF Seek, OpError, OpSuccess
      <3> QED
        BY <3>2, <3>3, <3>4
           DEF OpenIfNecessary, Safe, TypeOK, OneFilePerOpenStream, NoFile, Call
    <2> QED BY <2>1, <2>2
  <1>4. CASE Stat
    BY <1>4, <1>a
       DEF Stat, CannotOpen, OpenIfNecessary, Safe, TypeOK, OneFilePerOpenStream,
           NoFile, Call
  <1>5. CASE GetPos
    BY <1>5 DEF GetPos, Safe, TypeOK, OneFilePerOpenStream, NoFile, Call, OpUninit
  <1>6. CASE Close
    BY <1>6
       DEF Close, FileAfterClose, FilesAfterClose, Safe, TypeOK,
           OneFilePerOpenStream, NoFile, Call, OpSuccess
  <1>7. CASE Destroy
    BY <1>7
       DEF Destroy, FileAfterClose, FilesAfterClose, Safe, TypeOK,
           OneFilePerOpenStream, NoFile, Call, OpSuccess
  <1>8. CASE UNCHANGED vars
    BY <1>8 DEF vars, Safe, TypeOK, OneFilePerOpenStream
  <1> QED BY <1>1, <1>2, <1>3, <1>4, <1>5, <1>6, <1>7, <1>8 DEF Next

(* The variables of a data source keep their types, whatever is asked.     *)
THEOREM TypeCorrect == Spec => []TypeOK
  <1>1. Safe => TypeOK
    BY DEF Safe
  <1> QED BY <1>1, InitSafe, NextSafe, PTL DEF Spec

(* However reads, seeks, failing opens, closes and destroys follow each    *)
(* other, every FILE is closed exactly once.                               *)
THEOREM FilesBalance == Spec => []OneFilePerOpenStream
  <1>1. Safe => OneFilePerOpenStream
    BY DEF Safe
  <1> QED BY <1>1, InitSafe, NextSafe, PTL DEF Spec

-----------------------------------------------------------------------------
(* Under the discipline that every caller in the library keeps, SEEK_SET   *)
(* on a seekable file, the cached position is exact.                       *)
Disciplined == Whences = {"SEEK_SET"} /\ SeekMayFail = FALSE

LEMMA NextPosition ==
  ASSUME Disciplined, Safe, PositionIsFileOffset, [Next]_vars
  PROVE  PositionIsFileOffset'
  <1> USE DataSourceAssumption DEF DataSourceAssumption, PositionIsFileOffset, isOpen
  <1>a. PosOnceOpen = FileOnceOpen
    BY DEF PosOnceOpen, FileOnceOpen
  <1>1. CASE New
    BY <1>1 DEF New
  <1>2. ASSUME NEW count \in Counts, Read(count) PROVE PositionIsFileOffset'
    BY <1>2, <1>a DEF Read, CannotOpen, PositionAfterRead
  <1>3. ASSUME NEW offset \in Offsets \cup {BeforeFile}, NEW whence \in Whences, Seek(offset, whence)
        PROVE  PositionIsFileOffset'
    <2>1. whence = "SEEK_SET" /\ ~SeekMayFail
      BY DEF Disciplined
    <2> QED BY <1>3, <1>a, <2>1 DEF Seek, CannotOpen, AlreadyThere, SeekTarget
  <1>4. CASE Stat
    BY <1>4, <1>a DEF Stat, CannotOpen
  <1>5. CASE GetPos \/ Close \/ Destroy \/ UNCHANGED vars
    BY <1>5 DEF GetPos, Close, Destroy, vars
  <1> QED BY <1>1, <1>2, <1>3, <1>4, <1>5 DEF Next

THEOREM PositionExact == Disciplined => (Spec => []PositionIsFileOffset)
  <1> SUFFICES ASSUME Disciplined PROVE Spec => []PositionIsFileOffset
    OBVIOUS
  <1>1. Init => Safe /\ PositionIsFileOffset
    BY InitSafe DEF Init, isOpen, PositionIsFileOffset
  <1>2. (Safe /\ PositionIsFileOffset) /\ [Next]_vars
          => (Safe /\ PositionIsFileOffset)'
    BY NextSafe, NextPosition
  <1> QED BY <1>1, <1>2, PTL DEF Spec

-----------------------------------------------------------------------------
(* One lemma per kind of step: what it looks like to a reader of Cursor.   *)

LEMMA ReadRefines ==
  ASSUME Disciplined, Safe, PositionIsFileOffset, NEW count \in Counts, Read(count)
  PROVE  \E n \in 0 .. count : Abs!ReadSome(count, n)
  <1> USE DataSourceAssumption DEF DataSourceAssumption, isOpen, Cursor, Result, Call
  <1>1. CASE CannotOpen("read", count, "SEEK_SET", 0)
    <2>1. Abs!ReadSome(count, 0)
      BY <1>1 DEF CannotOpen, Abs!ReadSome, Abs!Answer
    <2> QED BY <2>1
  <1>2. CASE ~CannotOpen("read", count, "SEEK_SET", 0)
    <2>1. PICK n \in ReadResults(FileOnceOpen, count) :
            /\ file' = FileOnceOpen + n
            /\ last' = Call("read", count, "SEEK_SET", n)
      BY <1>2 DEF Read
    <2>2. FileOnceOpen \in Nat
      BY DEF Safe, TypeOK, OneFilePerOpenStream, FileOnceOpen, NoFile
    <2>3. n \in 0 .. count /\ (n > 0 => FileOnceOpen + n <= FileSize)
      BY <2>2, ReadResultsBound
    <2>4. Cursor = FileOnceOpen /\ Cursor' = FileOnceOpen + n
      BY <1>2, <2>1 DEF FileOnceOpen, Read, OpenIfNecessary
    <2>5. Result' = [op |-> "read", arg |-> count, rc |-> n]
      BY <2>1
    <2>6. Abs!ReadSome(count, n)
      BY <2>3, <2>4, <2>5 DEF Abs!ReadSome, Abs!Answer
    <2> QED BY <2>3, <2>6
  <1> QED BY <1>1, <1>2

LEMMA SeekRefines ==
  ASSUME Disciplined, Safe, PositionIsFileOffset,
         NEW offset \in Offsets \cup {BeforeFile}, NEW whence \in Whences, Seek(offset, whence)
  PROVE  Abs!SeekTo(offset) \/ Abs!SeekFails(offset)
  <1> USE DataSourceAssumption
      DEF DataSourceAssumption, isOpen, Cursor, Result, Call, OpError, OpSuccess,
          Abs!SeekTo, Abs!SeekFails, Abs!Answer
  <1>a. whence = "SEEK_SET" /\ ~SeekMayFail
    BY DEF Disciplined
  <1>b. Cursor = FileOnceOpen /\ PosOnceOpen = FileOnceOpen
    BY DEF FileOnceOpen, PosOnceOpen, PositionIsFileOffset
  <1>1. CASE CannotOpen("seek", offset, whence, OpError)
    BY <1>1 DEF CannotOpen
  <1>2. CASE ~CannotOpen("seek", offset, whence, OpError)
    <2>1. Cursor' = file'
      BY <1>2 DEF Seek, OpenIfNecessary
    <2>2. \/ file' = FileOnceOpen /\ last' = Call("seek", offset, whence, OpError)
          \/ /\ offset >= 0 /\ file' = offset
             /\ last' = Call("seek", offset, whence, OpSuccess)
      BY <1>2, <1>a, <1>b DEF Seek, AlreadyThere, SeekTarget
    <2> QED BY <1>b, <2>1, <2>2
  <1> QED BY <1>1, <1>2

LEMMA QueryRefines ==
  ASSUME Safe, Stat \/ GetPos, PositionIsFileOffset
  PROVE  Abs!AskSize \/ Abs!Tell
  <1> USE DEF isOpen, Cursor, Result, Call, Abs!AskSize, Abs!Tell, Abs!Answer
  <1>1. CASE Stat
    BY <1>1 DEF Stat, CannotOpen, OpenIfNecessary, FileOnceOpen, PosOnceOpen
  <1>2. CASE GetPos
    BY <1>2 DEF GetPos, OpUninit, PositionIsFileOffset
  <1> QED BY <1>1, <1>2

LEMMA RewindRefines ==
  ASSUME Safe, New \/ Close \/ Destroy
  PROVE  Abs!Rewind
  BY DEF New, Close, Destroy, isOpen, Cursor, Result, Call, Abs!Rewind, Abs!Answer

(* For every file and every sequence of calls, a data source used as the   *)
(* library uses it is a plain cursor over the bytes of its file.           *)
THEOREM Refinement == Disciplined => (Spec => ImplementsByteCursor)
  <1> SUFFICES ASSUME Disciplined PROVE Spec => ImplementsByteCursor
    OBVIOUS
  <1>1. Init => Abs!Init
    BY DEF Init, Abs!Init, Abs!Answer, Cursor, Result, Call, isOpen
  <1>2. Safe /\ PositionIsFileOffset /\ [Next]_vars => [Abs!Next]_<<Cursor, Result>>
    <2> SUFFICES ASSUME Safe, PositionIsFileOffset, [Next]_vars
                 PROVE  Abs!Next \/ UNCHANGED <<Cursor, Result>>
      OBVIOUS
    <2>1. CASE \E count \in Counts : Read(count)
      BY <2>1, ReadRefines DEF Abs!Next
    <2>2. CASE \E offset \in Offsets \cup {BeforeFile}, whence \in Whences : Seek(offset, whence)
      BY <2>2, SeekRefines DEF Abs!Next
    <2>3. CASE Stat \/ GetPos
      BY <2>3, QueryRefines DEF Abs!Next
    <2>4. CASE New \/ Close \/ Destroy
      BY <2>4, RewindRefines DEF Abs!Next
    <2>5. CASE UNCHANGED vars
      BY <2>5 DEF vars, Cursor, Result, isOpen
    <2> QED BY <2>1, <2>2, <2>3, <2>4, <2>5 DEF Next
  <1>3. Spec => [](Safe /\ PositionIsFileOffset)
    <2>1. Spec => []PositionIsFileOffset
      BY PositionExact
    <2>2. Spec => []Safe
      BY InitSafe, NextSafe, PTL DEF Spec
    <2> QED BY <2>1, <2>2, PTL
  <1> QED BY <1>1, <1>2, <1>3, PTL DEF Spec, ImplementsByteCursor, Abs!Spec
=============================================================================
