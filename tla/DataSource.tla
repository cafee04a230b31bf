----------------------------- MODULE DataSource -----------------------------
(***************************************************************************)
(* The data source that every disk-image driver, the ISO 9660 library and  *)
(* the UDF library read their bytes through: lib/driver/_cdio_stream.c     *)
(* (the stream object with its lazily opened file and its cached position) *)
(* on top of lib/driver/_cdio_stdio.c (the stdio back end).                *)
(*                                                                         *)
(* The object caches, in is_open and position, what it believes about the  *)
(* FILE that _stdio_open opened.  A seek to the cached position is not     *)
(* passed on, so the cache has to be right.                                *)
(*                                                                         *)
(* Only the C library is external: fopen, fseek and fread may fail or stop *)
(* short; the data itself is abstracted to the offset it comes from.       *)
(* cdio_error is taken to return, as it does with the handlers that the    *)
(* programs install; the default handler ends the process there.           *)
(***************************************************************************)
EXTENDS Integers

CONSTANTS
  FileSize,        \* bytes in the file, as stat(2) saw them in cdio_stdio_new
  MaxAllowedCount, \* MAX_ALLOWED_COUNT: the largest read _stdio_read accepts
  Offsets,         \* the offsets callers pass to cdio_stream_seek
  Counts,          \* the byte counts callers pass to cdio_stream_read
  Whences,         \* the whence arguments callers use
  MaxOffset,       \* bound: no call may take the file beyond this offset
  OpenMayFail,     \* TRUE when fopen may fail (permissions, file removed)
  SeekMayFail      \* TRUE when fseek may fail (a FIFO, a character device)

ASSUME DataSourceAssumption ==
  /\ FileSize \in Nat
  /\ MaxAllowedCount \in Nat
  /\ Offsets \subseteq Int
  /\ Counts \subseteq Nat
  /\ Whences \subseteq {"SEEK_SET", "SEEK_CUR", "SEEK_END"}
  /\ MaxOffset \in Nat
  /\ OpenMayFail \in BOOLEAN
  /\ SeekMayFail \in BOOLEAN

VARIABLES
  stream,   \* "none": no object; else p_obj->is_open, as "closed" or "open"
  position, \* p_obj->position, the cached offset
  file,     \* ud->fd: the offset of the open FILE, NoFile when NULL
  files,    \* how many FILEs this object has open in the C library
  last      \* the last call and what it returned

vars == <<stream, position, file, files, last>>

NoFile == -1
BeforeFile == -1      \* asked for where an LSN lies below the file's first
OpSuccess == 0        \* DRIVER_OP_SUCCESS
OpError == -1         \* DRIVER_OP_ERROR
OpUninit == -3        \* DRIVER_OP_UNINIT

alive == stream # "none"
isOpen == stream = "open"

(* The last call: what was asked and the value the caller got back.        *)
Call(op, arg, whence, rc) ==
  [op |-> op, arg |-> arg, whence |-> whence, rc |-> rc]

TypeOK ==
  /\ stream \in {"none", "closed", "open"}
  /\ position \in Nat
  /\ file \in Nat \cup {NoFile}
  /\ files \in Nat
  /\ last \in [op : {"new", "read", "seek", "stat", "getpos", "close", "destroy"},
               arg : Int, whence : {"SEEK_SET", "SEEK_CUR", "SEEK_END"}, rc : Int]

-----------------------------------------------------------------------------
(* cdio_stdio_new and cdio_stream_new: the file is stat'ed, not opened.    *)

New ==
  /\ ~alive
  /\ stream' = "closed"
  /\ position' = 0
  /\ file' = NoFile
  /\ last' = Call("new", 0, "SEEK_SET", OpSuccess)
  /\ UNCHANGED files

(* _cdio_stream_open_if_necessary: what position and file are once it      *)
(* returned true, and the call that it makes fail.                         *)
PosOnceOpen == IF isOpen THEN position ELSE 0
FileOnceOpen == IF isOpen THEN file ELSE 0

OpenIfNecessary ==
  /\ stream' = "open"
  /\ files' = IF isOpen THEN files ELSE files + 1

CannotOpen(op, arg, whence, rc) ==
  /\ OpenMayFail /\ ~isOpen
  /\ file' = NoFile
  /\ last' = Call(op, arg, whence, rc)
  /\ UNCHANGED <<stream, position, files>>

-----------------------------------------------------------------------------
(* What fread can deliver from offset f: all that is there, or less when   *)
(* an error cuts it short.  A count above the limit is refused.            *)
ReadResults(f, count) ==
  IF count > MaxAllowedCount \/ f >= FileSize THEN {0}
  ELSE 0 .. (IF f + count <= FileSize THEN count ELSE FileSize - f)

(* cdio_stream_read adds what op.read returned to the cached position.     *)
PositionNotAdvanced(n) == PosOnceOpen          \* mutant of PositionAfterRead
PositionAfterRead(n) == PosOnceOpen + n

Read(count) ==
  /\ alive
  /\ \/ CannotOpen("read", count, "SEEK_SET", 0)
     \/ /\ OpenIfNecessary
        /\ \E n \in ReadResults(FileOnceOpen, count) :
             /\ position' = PositionAfterRead(n)
             /\ file' = FileOnceOpen + n
             /\ last' = Call("read", count, "SEEK_SET", n)

-----------------------------------------------------------------------------
(* fseek: the offset that whence asks for.                                 *)
SeekTarget(offset, whence) ==
  CASE whence = "SEEK_SET" -> offset
    [] whence = "SEEK_CUR" -> FileOnceOpen + offset
    [] whence = "SEEK_END" -> FileSize + offset

(* The test that saves the call of fseek.                                  *)
NotBefore(offset) == offset <= PosOnceOpen     \* mutant of AlreadyThere
AlreadyThere(offset) == offset = PosOnceOpen

(* cdio_stream_seek.  A negative offset is refused; an offset equal to the *)
(* cached position returns 0 without a call, whatever whence says; in the  *)
(* other cases position is assigned first and fseek is called after it.    *)
Seek(offset, whence) ==
  /\ alive
  /\ \/ CannotOpen("seek", offset, whence, OpError)
     \/ /\ OpenIfNecessary
        /\ \/ /\ offset < 0
              /\ position' = PosOnceOpen
              /\ file' = FileOnceOpen
              /\ last' = Call("seek", offset, whence, OpError)
           \/ /\ offset >= 0
              /\ AlreadyThere(offset)
              /\ position' = PosOnceOpen
              /\ file' = FileOnceOpen
              /\ last' = Call("seek", offset, whence, OpSuccess)
           \/ /\ offset >= 0
              /\ ~AlreadyThere(offset)
              /\ position' = offset
              /\ \/ /\ SeekTarget(offset, whence) <= MaxOffset
                    /\ file' = SeekTarget(offset, whence)
                    /\ last' = Call("seek", offset, whence, OpSuccess)
                 \/ /\ SeekMayFail
                    /\ file' = FileOnceOpen
                    /\ last' = Call("seek", offset, whence, OpError)

(* cdio_stream_stat: opens the file, answers from the cached st_size.      *)
Stat ==
  /\ alive
  /\ \/ CannotOpen("stat", 0, "SEEK_SET", -1)
     \/ /\ OpenIfNecessary
        /\ position' = PosOnceOpen
        /\ file' = FileOnceOpen
        /\ last' = Call("stat", 0, "SEEK_SET", FileSize)

(* cdio_stream_getpos: the cached position, and only of an open stream.    *)
GetPos ==
  /\ alive
  /\ last' = Call("getpos", 0, "SEEK_SET", IF isOpen THEN position ELSE OpUninit)
  /\ UNCHANGED <<stream, position, file, files>>

(* cdio_stream_close calls _stdio_close (which fcloses ud->fd and clears   *)
(* it) when the stream is open: the FILE, and the number of FILEs, after.  *)
FileNotCleared == file                         \* mutant of FileAfterClose
FileAfterClose == IF isOpen THEN NoFile ELSE file
FilesAfterClose == IF isOpen THEN files - 1 ELSE files

Close ==
  /\ alive
  /\ stream' = "closed"
  /\ position' = IF isOpen THEN 0 ELSE position
  /\ file' = FileAfterClose
  /\ files' = FilesAfterClose
  /\ last' = Call("close", 0, "SEEK_SET", OpSuccess)

(* cdio_stream_destroy: cdio_stream_close, then _stdio_free, which closes  *)
(* the FILE once more when ud->fd is still there.                          *)
Destroy ==
  /\ alive
  /\ stream' = "none"
  /\ position' = 0
  /\ file' = NoFile
  /\ files' = IF FileAfterClose = NoFile THEN FilesAfterClose ELSE FilesAfterClose - 1
  /\ last' = Call("destroy", 0, "SEEK_SET", OpSuccess)

-----------------------------------------------------------------------------
Init ==
  /\ stream = "none"
  /\ position = 0
  /\ file = NoFile
  /\ files = 0
  /\ last = Call("destroy", 0, "SEEK_SET", OpSuccess)

Next ==
  \/ New
  \/ \E count \in Counts : Read(count)
  \/ \E offset \in Offsets \cup {BeforeFile}, whence \in Whences : Seek(offset, whence)
  \/ Stat
  \/ GetPos
  \/ Close
  \/ Destroy

Spec == Init /\ [][Next]_vars

-----------------------------------------------------------------------------
(* Every FILE that _stdio_open opened is closed exactly once, on whichever *)
(* path the stream ends: an open stream owns one FILE, a closed or a       *)
(* destroyed one owns none.                                                *)
OneFilePerOpenStream ==
  /\ files = IF isOpen THEN 1 ELSE 0
  /\ isOpen <=> file # NoFile

(* The cached position, by which cdio_stream_seek decides whether to call  *)
(* fseek at all, is the offset of the FILE.                                *)
PositionIsFileOffset == isOpen => position = file

(* The refinement mapping: the cursor of the abstract specification is the *)
(* offset of the FILE, 0 while there is none.                              *)
Cursor == IF isOpen THEN file ELSE 0

Result ==
  IF last.op \in {"new", "close", "destroy"}
    THEN [op |-> "rewind", arg |-> 0, rc |-> 0]
    ELSE [op |-> last.op, arg |-> last.arg, rc |-> last.rc]

Abs == INSTANCE ByteCursor
         WITH Size <- FileSize, Offsets <- Offsets \cup {BeforeFile},
              cursor <- Cursor, result <- Result

(* The stream, lazily opened file, cached position and all, behaves as a   *)
(* plain cursor over the bytes of the file.                                *)
ImplementsByteCursor == Abs!Spec
=============================================================================
