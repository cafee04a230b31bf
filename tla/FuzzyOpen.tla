----------------------------- MODULE FuzzyOpen -----------------------------
(***************************************************************************)
(* iso9660_open_fuzzy (lib/iso9660/iso9660_fs.c): finding the file system   *)
(* in a file that may be an image of a CD's sectors rather than of its     *)
(* data, and may have more or less in front of it.  The identifier CD001   *)
(* is searched for in frames of three sizes, nearer and nearer to the      *)
(* ends of the tolerance; the place where it is found gives the frame size *)
(* and the offsets with which every later sector is sought.                *)
(*                                                                         *)
(* A file is a record: frame, the bytes from one sector to the next; head, *)
(* those of a frame before its data; lead, the bytes before sector 0,      *)
(* negative when the first ones are missing; mode, what is in the heads    *)
(* ("none", "mode1", "mode2"); ids, the sectors from 16 on that hold       *)
(* descriptors; size.                                                      *)
(***************************************************************************)
EXTENDS Integers, Sequences, FiniteSetsExt

CONSTANTS
  Files,        \* files that may be opened
  Fuzz,         \* tolerances given by callers
  Sectors       \* sectors read afterwards

ISO_BLOCKSIZE == 2048
ISO_PVD_SECTOR == 16
CDIO_CD_FRAMESIZE_RAW == 2352
M2RAW_SECTOR_SIZE == 2336
CDIO_CD_SYNC_SIZE == 12
CDIO_CD_HEADER_SIZE == 4
CDIO_CD_SUBHEADER_SIZE == 8

VARIABLES
  file,
  iso,          \* i_framesize, i_datastart, i_fuzzy_offset and b_mode2
  read          \* where a sector's read begins, or what there is instead
vars == <<file, iso, read>>

None == [none |-> TRUE]
Over == [over |-> TRUE]
Nothing == [nothing |-> TRUE]

DataOf(f, lsn) == f.lead + lsn * f.frame + f.head     \* where it is in fact

(* iso9660_seek_read_framesize: where the read of a sector begins.         *)
Position(p, lsn) == lsn * p.framesize + p.fuzzy + p.datastart

---------------------------------------------------------------------------
(* The search.                                                             *)

Framesizes == <<ISO_BLOCKSIZE, CDIO_CD_FRAMESIZE_RAW, M2RAW_SECTOR_SIZE>>

Datastart(framesize) == IF framesize = ISO_BLOCKSIZE THEN 0 ELSE CDIO_CD_SYNC_SIZE

(* The first identifier whole in the frame that is read, if there is one;  *)
(* it begins one byte after its descriptor.                                *)
IdsIn(f, from, framesize) ==
  {at \in {DataOf(f, lsn) + 1 : lsn \in f.ids} : at >= from /\ at + 5 <= from + framesize}

(* One probe: a frame size at a sector.  Over ends the whole search.     *)
Probe(f, lsn, framesize) ==
  LET start == [framesize |-> framesize, datastart |-> Datastart(framesize), fuzzy |-> 0,
                mode2 |-> FALSE]
      from  == Position(start, lsn)
      ids   == IdsIn(f, from, framesize)
      found == [start EXCEPT !.fuzzy = (Min(ids) - from - 1)
                                       - (ISO_PVD_SECTOR - lsn) * framesize]
  IN IF from < 0 \/ from >= f.size THEN Over
     ELSE IF ids = {} \/ Position(found, ISO_PVD_SECTOR) # DataOf(f, ISO_PVD_SECTOR)
          THEN Nothing
     ELSE found

Lsn(i, j) == IF j = 1 THEN ISO_PVD_SECTOR - i ELSE ISO_PVD_SECTOR + i
Probes(fuzz) ==
  LET step[i \in 0 .. fuzz] ==
        IF i = 0 THEN << >>
        ELSE step[i - 1] \o [k \in 1 .. 3 |-> <<Lsn(i - 1, 0), Framesizes[k]>>]
             \o (IF i = 1 THEN << >> ELSE [k \in 1 .. 3 |-> <<Lsn(i - 1, 1), Framesizes[k]>>])
  IN step[fuzz]

(* adjust_fuzzy_pvd: is there a frame header before the descriptor?  The    *)
(* bytes are those from its data back over subheader, header and sync.     *)
Unadjusted(f, p) == p
Adjusted(f, p) ==
  LET back == CDIO_CD_SYNC_SIZE + CDIO_CD_HEADER_SIZE + CDIO_CD_SUBHEADER_SIZE
      from == Position(p, ISO_PVD_SECTOR) - back
  IN IF p.framesize # CDIO_CD_FRAMESIZE_RAW \/ from < 0 \/ f.mode = "mode1" THEN p
     ELSE IF f.mode = "mode2" THEN [p EXCEPT !.mode2 = TRUE]
     ELSE [p EXCEPT !.framesize = M2RAW_SECTOR_SIZE,
                    !.fuzzy = (CDIO_CD_FRAMESIZE_RAW - M2RAW_SECTOR_SIZE) * ISO_PVD_SECTOR
                              + p.fuzzy + p.datastart,
                    !.datastart = 0]

(* iso9660_ifs_fuzzy_read_superblock *)
Search(f, fuzz) ==
  LET probes == Probes(fuzz)
      ends   == {n \in DOMAIN probes : Probe(f, probes[n][1], probes[n][2]) # Nothing}
      last   == probes[Min(ends)]
      hit    == Probe(f, last[1], last[2])
  IN IF ends = {} \/ hit = Over THEN None ELSE Adjusted(f, hit)

---------------------------------------------------------------------------
Init ==
  /\ file \in Files
  /\ iso = None
  /\ read = None

OpenFuzzy(fuzz) ==
  /\ iso = None
  /\ iso' = Search(file, fuzz)
  /\ UNCHANGED <<file, read>>

(* iso9660_iso_seek_read of one sector.                                    *)
SeekRead(lsn) ==
  /\ iso # None
  /\ read' = [lsn |-> lsn, from |-> Position(iso, lsn)]
  /\ UNCHANGED <<file, iso>>

Close ==
  /\ iso # None
  /\ iso' = None
  /\ read' = None
  /\ UNCHANGED file

Next ==
  \/ \E fuzz \in Fuzz : OpenFuzzy(fuzz)
  \/ \E lsn \in Sectors : SeekRead(lsn)
  \/ Close

Spec == Init /\ [][Next]_vars

---------------------------------------------------------------------------
(* Once the file system is found in a file, every sector is read from its  *)
(* own place: the frame size and the offsets that were derived from where  *)
(* one descriptor was found hold for all sectors                           *)
(* (iso9660_ifs_fuzzy_read_superblock, adjust_fuzzy_pvd and                *)
(* iso9660_seek_read_framesize).                                           *)
FuzzyReadsInPlace ==
  read # None => read.from = DataOf(file, read.lsn)
=============================================================================
