----------------------------- MODULE ByteCursor -----------------------------
(***************************************************************************)
(* What a data source promises its callers, with no file and no cache: a   *)
(* cursor over the bytes of a file and the result of the last request.     *)
(***************************************************************************)
EXTENDS Integers

CONSTANTS
  Size,     \* bytes in the file
  Offsets,  \* offsets that may be asked for
  Counts    \* byte counts that may be asked for

VARIABLES
  cursor,   \* where the next read starts
  result    \* [op, arg, rc]: the last request and its answer

Answer(op, arg, rc) == [op |-> op, arg |-> arg, rc |-> rc]

Init == cursor = 0 /\ result = Answer("rewind", 0, 0)

(* A seek that succeeds lands on the offset asked for; one that fails does *)
(* not move the cursor.                                                    *)
SeekTo(offset) ==
  /\ offset >= 0
  /\ cursor' = offset
  /\ result' = Answer("seek", offset, 0)

SeekFails(offset) ==
  /\ result' = Answer("seek", offset, -1)
  /\ UNCHANGED cursor

(* A read delivers bytes of the file that follow the cursor, never more    *)
(* than asked, and moves the cursor by as many.                            *)
ReadSome(count, n) ==
  /\ n > 0 => cursor + n <= Size
  /\ cursor' = cursor + n
  /\ result' = Answer("read", count, n)

(* A new, a closed and a destroyed source start again at offset 0.         *)
Rewind ==
  /\ cursor' = 0
  /\ result' = Answer("rewind", 0, 0)

(* Asking for the position or the size moves nothing and is answered       *)
(* truthfully, unless there is no open file to ask.                        *)
Tell ==
  /\ \E rc \in {cursor, -3} : result' = Answer("getpos", 0, rc)
  /\ UNCHANGED cursor

AskSize ==
  /\ \E rc \in {Size, -1} : result' = Answer("stat", 0, rc)
  /\ UNCHANGED cursor

Next ==
  \/ \E offset \in Offsets : SeekTo(offset) \/ SeekFails(offset)
  \/ \E count \in Counts : \E n \in 0 .. count : ReadSome(count, n)
  \/ Rewind
  \/ Tell
  \/ AskSize

Spec == Init /\ [][Next]_<<cursor, result>>
=============================================================================
