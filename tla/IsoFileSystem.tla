--------------------------- MODULE IsoFileSystem ---------------------------
(***************************************************************************)
(* Reading an ISO 9660 file system (lib/iso9660/iso9660_fs.c, rock.c): the *)
(* choice of the volume descriptor, the walk over directory records that   *)
(* iso9660_ifs_stat, _readdir and _find_lsn each make for an image file    *)
(* and iso9660_fs_stat, ... for a disc, files in several extents, Rock     *)
(* Ridge names and relocated directories.                                  *)
(*                                                                         *)
(* A disc is a record: root, the directory record of its primary           *)
(* descriptor; vds, the descriptors from sector 17 on; extents, for the    *)
(* first sector of each directory its records by the offset at which they  *)
(* begin, counted in units of which BlockSize make a block; continuations, *)
(* by their sector; and, for the properties, what was written to it: for   *)
(* each way of reading it the entries of the directory at each sector.     *)
(* Names are sequences, to put the parts of Rock Ridge names together.     *)
(***************************************************************************)
EXTENDS Integers, Sequences, SequencesExt, FiniteSetsExt, Functions

CONSTANTS
  Discs,        \* discs that may be read
  BlockSize,    \* ISO_BLOCKSIZE, in the units of record lengths and sizes
  Translated(_), \* iso9660_name_translate_ext: a name in its plain form
  NameLimit,    \* longest Rock Ridge name kept, in parts
  CeLimit,      \* continuations followed for one record
  Paths,        \* paths that are looked up
  Masks,        \* extension masks: [rock : BOOLEAN, levels : SUBSET Joliet]
  Limits        \* u_file_limit of iso9660_have_rr

VARIABLES
  disc,         \* what the handle reads
  handle,       \* the iso9660_t, or the CdIo_t and what its env keeps
  answer        \* the last call with its result
vars == <<disc, handle, answer>>

Null == [null |-> TRUE]
Undefined == [undefined |-> TRUE]
Joliet == {1, 2, 3}                   \* the Joliet levels of a mask
NoLimit == 10 ^ 6                     \* UINT64_MAX
Unread == {{}, {16}, {17}}            \* descriptor sectors a disc's read fails at

---------------------------------------------------------------------------
(* The volume descriptors.                                                 *)

LevelAfter(vd, mask, level) ==
  IF vd.type = "supplementary" /\ vd.level \in mask.levels THEN vd.level ELSE level

LastDescriptor(level) == TRUE
KeepsDescriptor(level) == level = 0

(* iso9660_ifs_read_superblock: descriptors up to the terminator, or to the *)
(* end of the file; the one kept is not replaced once it is Joliet's.      *)
IfsSuperblock(d, mask) ==
  LET step(kept, i) ==
        IF kept.ended \/ d.vds[i].type = "end" THEN [kept EXCEPT !.ended = TRUE]
        ELSE [kept EXCEPT !.svd = IF d.vds[i].type = "supplementary" /\ KeepsDescriptor(kept.level)
                                  THEN i ELSE @,
                          !.level = LevelAfter(d.vds[i], mask, @)]
  IN FoldLeftDomain(step, [svd |-> 0, level |-> 0, ended |-> FALSE], d.vds)

(* iso9660_fs_read_superblock: only the sector after the primary one.      *)
FsSuperblock(d, mask, svd, unread) ==
  IF 17 \in unread \/ d.vds = << >> THEN [svd |-> svd, level |-> 0]
  ELSE [svd |-> 1, level |-> LevelAfter(d.vds[1], mask, 0)]

RootRecord(d, h) == IF h.level > 0 THEN d.vds[h.svd].root ELSE d.root

---------------------------------------------------------------------------
(* Directory records: where the walk over an extent stops and goes on.     *)

Blocks(size) == (size + (BlockSize - 1)) \div BlockSize
NextBlock(offset) == offset + BlockSize - (offset % BlockSize)
LengthAt(ext, offset) == IF offset \in DOMAIN ext THEN ext[offset].len ELSE 0

(* iso9660_check_dir_block_end *)
AtBlockEnd(ext, offset) ==
  LET len == LengthAt(ext, offset)
  IN len = 0 \/ (offset + len - 1) \div BlockSize # offset \div BlockSize

(* The walk of readdir, and of both calls on a disc: a while loop.         *)
Walk(ext, end) ==
  LET from[offset \in 0 .. 2 * end] ==
        IF offset >= end THEN [records |-> << >>, at |-> offset]
        ELSE IF AtBlockEnd(ext, offset) THEN from[NextBlock(offset)]
        ELSE LET rest == from[offset + LengthAt(ext, offset)]
             IN [rest EXCEPT !.records = <<ext[offset]>> \o @]
  IN from[0]

(* The walk of _fs_iso_stat_traverse: a for loop, whose step goes over the *)
(* length of the record at the old offset after a hop as well.             *)
ForWalk(ext, end) ==
  LET from[offset \in 0 .. 2 * end] ==
        LET len == LengthAt(ext, offset)
        IN IF offset >= end THEN [records |-> << >>, at |-> offset]
           ELSE IF AtBlockEnd(ext, offset) THEN from[NextBlock(offset) + len]
           ELSE LET rest == from[offset + len]
                IN [rest EXCEPT !.records = <<ext[offset]>> \o @]
  IN from[0]

---------------------------------------------------------------------------
(* Rock Ridge: get_rock_ridge_filename.                                    *)

Formal == {"ER", "PX", "PN", "SL", "NM", "CL", "PL", "RE", "TF", "SF"}
SelfOrParent(name) == name \in {<<".">>, <<"..">>}

RockEnabled(h) == h.kind = "cdio" \/ h.mask.rock

(* What an entry of the system use area does to the result so far: su, the *)
(* fields seen; name; the continuation to follow; the target of a child    *)
(* link; out, once the rest is given up.                                   *)
NameField(f, r) ==
  LET seen == [r EXCEPT !.su = @ \cup {"NM"}]
  IN IF r.cut \/ f.flags = "unknown" THEN seen
     ELSE IF f.flags \in {"parent", "current"}
          THEN [seen EXCEPT !.name = Append(@, IF f.flags = "parent" THEN ".." ELSE ".")]
     ELSE IF Len(r.name) + Len(f.name) >= NameLimit THEN [seen EXCEPT !.cut = TRUE]
     ELSE [seen EXCEPT !.name = @ \o f.name]

Field(rec, h, f, r) ==
  IF r.out \/ f.sig = "none" THEN [r EXCEPT !.out = TRUE]       \* a length of 0
  ELSE CASE f.sig = "SP" -> IF f.valid THEN [r EXCEPT !.su = @ \cup {"SP"}]
                            ELSE [r EXCEPT !.out = TRUE]
         [] f.sig = "CE" -> IF SelfOrParent(rec.name) THEN r
                            ELSE IF ~f.valid THEN [r EXCEPT !.out = TRUE]
                            ELSE [r EXCEPT !.su = @ \cup {"CE"}, !.next = f.extent]
         [] f.sig = "NM" -> NameField(f, r)
         [] f.sig \in {"PX", "SL", "TF", "SF"} -> [r EXCEPT !.su = @ \cup {f.sig}]
         [] f.sig = "CL" -> IF ~h.deep THEN r
                            ELSE [r EXCEPT !.su = @ \cup {"CL"}, !.child = f.location]
         [] f.sig \in {"PL", "RE"} -> IF h.deep THEN [r EXCEPT !.su = @ \cup {f.sig}] ELSE r
         [] OTHER -> r

Fields(rec, h, area, r) == FoldLeft(LAMBDA acc, f : Field(rec, h, f, acc), r, area)

(* Continuations are followed once an area is through, each from the last  *)
(* CE entry of the area before, and no more than CeLimit of them.  They    *)
(* are read as an image's: of a CdIo_t the call takes other fields for the  *)
(* stream and the offsets, and what happens then is undefined.             *)
NextArea(d, rec, h, n, r) ==
  IF r.out \/ r.next = 0 THEN r
  ELSE IF n > CeLimit \/ r.next \notin DOMAIN d.continuations
       THEN [r EXCEPT !.next = 0, !.out = r.next \notin DOMAIN d.continuations]
  ELSE Fields(rec, h, d.continuations[r.next], [r EXCEPT !.next = 0])

Continued(d, rec, h, start) ==
  LET follow[n \in 0 .. CeLimit + 1] ==
        IF n = 0 THEN start ELSE NextArea(d, rec, h, n, follow[n - 1])
  IN IF h.kind = "iso" \/ start.out \/ start.next = 0 THEN follow[CeLimit + 1]
     ELSE [start EXCEPT !.undefined = TRUE]

RockRidge(d, rec, h, su) ==
  Continued(d, rec, h,
            Fields(rec, h, rec.su, [su |-> su, name |-> << >>, next |-> 0, child |-> 0,
                                    cut |-> FALSE, out |-> FALSE, undefined |-> FALSE]))

---------------------------------------------------------------------------
(* _iso9660_dir_to_statbuf: the entry a record gives, last being the one    *)
(* that the parts before it have given, or Null.                           *)

NoGap(last, rec) ==
  last.total > 0 => /\ last.lsn + last.total \div BlockSize = rec.lsn
                    /\ last.total % BlockSize = 0

RECURSIVE StatOf(_, _, _, _), Entries(_, _, _), ReadDir(_, _, _), FindLsn(_, _, _, _),
          FindBelow(_, _, _, _), Lookup(_, _, _, _)

Grown(h, rec, last) ==
  LET base == [null |-> FALSE, name |-> rec.name, dir |-> rec.dir, total |-> rec.size,
               lsn |-> rec.lsn, rock |-> IF RockEnabled(h) THEN "dunno" ELSE "nope", su |-> {}]
  IN IF last = Null THEN base
     ELSE [base EXCEPT !.total = last.total + @, !.lsn = last.lsn, !.su = last.su]

Named(stat, rr) ==
  [stat EXCEPT !.su = rr.su,
               !.rock = IF ~rr.out /\ rr.su \cap Formal # {} THEN "yep" ELSE @,
               !.name = IF ~rr.out /\ rr.name # << >> THEN rr.name ELSE @]

(* The directory that a child link's target is found to be, under the name *)
(* of the link.                                                            *)
Linked(stat, found) ==
  IF found.end \in {"abort", "undefined"} THEN Undefined
  ELSE IF found.stat = Null THEN stat
  ELSE [found.stat EXCEPT !.name = stat.name]

(* _iso9660_dd_find_lsn works on a copy of the handle.                     *)
DeepFind(d, h, lsn) == FindLsn(d, [h EXCEPT !.deep = FALSE], << >>, lsn)

WithRock(d, h, stat, rr) ==
  IF rr.undefined THEN Undefined
  ELSE IF rr.child = 0 THEN Named(stat, rr)
  ELSE Linked(Named(stat, rr), DeepFind(d, h, rr.child))

StatOf(d, h, rec, last) ==
  IF \/ last # Null /\ ("RE" \in last.su \/ ~NoGap(last, rec))
     \/ rec.short
     \/ ~rec.multi /\ last # Null /\ last.name # rec.name
  THEN Null
  ELSE IF rec.multi \/ ~RockEnabled(h) THEN Grown(h, rec, last)
  ELSE WithRock(d, h, Grown(h, rec, last), RockRidge(d, rec, h, Grown(h, rec, last).su))

(* The entries of the files in a walk that are well; a file one record of  *)
(* which is ill is left out whole.  A relocated directory is left out of   *)
(* an image's directories, and of a disc's it is not.                      *)
LeftOut(h, stat) == h.kind = "iso" /\ stat # Undefined /\ "RE" \in stat.su
AfterRecord(h, rec, stat, acc) ==
  LET ill == acc.skip \/ stat = Null \/ LeftOut(h, stat)
  IN [last    |-> IF ill \/ ~rec.multi THEN Null ELSE stat,
      skip    |-> rec.multi /\ ill,
      entries |-> IF ill \/ rec.multi THEN acc.entries ELSE Append(acc.entries, stat)]

Entries(d, h, records) ==
  FoldLeft(LAMBDA acc, rec : AfterRecord(h, rec,
                                         IF acc.skip THEN Null ELSE StatOf(d, h, rec, acc.last),
                                         acc),
           [last |-> Null, skip |-> FALSE, entries |-> << >>], records).entries

(* The walk of the image's lookup gives up at the first ill record.        *)
KeptAfter(rec, stat) == stat
LastAfter(rec, stat) == IF rec.multi THEN stat ELSE Null
AfterStat(rec, stat, acc) ==
  [ill     |-> stat = Null,
   last    |-> LastAfter(rec, stat),
   entries |-> IF stat = Null \/ rec.multi THEN acc.entries ELSE Append(acc.entries, stat)]
UpToIll(d, h, records) ==
  FoldLeft(LAMBDA acc, rec :
             IF acc.ill THEN acc ELSE AfterStat(rec, StatOf(d, h, rec, acc.last), acc),
           [ill |-> FALSE, last |-> Null, entries |-> << >>], records)

---------------------------------------------------------------------------
(* Lookups.                                                                *)

Matches(h, component, stat) ==
  \/ stat = Undefined
  \/ component = stat.name
  \/ h.level = 0 /\ stat.rock # "yep" /\ component = Translated(stat.name)

ExtentOf(d, stat) == d.extents[stat.lsn]
Readable(d, stat) == stat.lsn \in DOMAIN d.extents
EndOf(stat) == Blocks(stat.total) * BlockSize

(* _fs_stat_traverse and _fs_iso_stat_traverse.  "abort" is the assertion  *)
(* that the walk ends with the last block.                                 *)
Among(d, h, path, entries, hits, whole) ==
  IF hits = {} THEN [end |-> IF whole THEN "missing" ELSE "abort", stat |-> Null]
  ELSE IF entries[Min(hits)] = Undefined THEN [end |-> "undefined", stat |-> Null]
  ELSE Lookup(d, h, entries[Min(hits)], Tail(path))

InEntries(d, h, path, entries, whole) ==
  Among(d, h, path, entries,
        {i \in DOMAIN entries : Matches(h, Head(path), entries[i])}, whole)

InImage(d, h, stat, path, read, at) ==
  InEntries(d, h, path, read.entries, read.ill \/ at = EndOf(stat))

InWalk(d, h, stat, path, walk) ==
  IF h.kind = "iso" THEN InImage(d, h, stat, path, UpToIll(d, h, walk.records), walk.at)
  ELSE InEntries(d, h, path, Entries(d, h, walk.records), walk.at = EndOf(stat))

Lookup(d, h, stat, path) ==
  IF path = << >> THEN [end |-> "found", stat |-> stat]
  ELSE IF ~stat.dir \/ ~Readable(d, stat) THEN [end |-> "missing", stat |-> Null]
  ELSE InWalk(d, h, stat, path, IF h.kind = "iso" THEN ForWalk(ExtentOf(d, stat), EndOf(stat))
                                ELSE Walk(ExtentOf(d, stat), EndOf(stat)))

RootStat(d, h) == StatOf(d, h, RootRecord(d, h), Null)
Stat(d, h, path) == Lookup(d, h, RootStat(d, h), path)

(* iso9660_fs_readdir and iso9660_ifs_readdir.                             *)
NoList == <<Null>>
Listed(list) == IF Undefined \in Range(list) THEN [end |-> "undefined", list |-> NoList]
                ELSE [end |-> "found", list |-> list]

DirectoryAt(d, h, stat) ==
  LET walk == Walk(ExtentOf(d, stat), EndOf(stat))
  IN IF \/ ~stat.dir
        \/ h.kind = "iso" /\ stat.total = 0
        \/ ~Readable(d, stat)
        \/ h.kind = "iso" /\ walk.at # EndOf(stat)
     THEN [end |-> "missing", list |-> NoList]
     ELSE Listed(Entries(d, h, walk.records))

ReadFound(d, h, at) ==
  IF at.end # "found" THEN [end |-> at.end, list |-> NoList] ELSE DirectoryAt(d, h, at.stat)

ReadDir(d, h, path) == ReadFound(d, h, Stat(d, h, path))

(* find_lsn_recurse: the entries of a directory, then its directories.     *)
PathOf(path, e) == Append(path, e.name)
InList(d, h, path, list, hits, lsn) ==
  IF hits # {} THEN [end |-> "found", stat |-> list[Min(hits)], path |-> PathOf(path, list[Min(hits)])]
  ELSE LET dirs == SelectSeq(list, LAMBDA e : e.dir /\ ~SelfOrParent(e.name))
       IN FindBelow(d, h, [i \in DOMAIN dirs |-> PathOf(path, dirs[i])], lsn)

FindIn(d, h, path, read, lsn) ==
  IF read.end = "found"
  THEN InList(d, h, path, read.list, {i \in DOMAIN read.list : read.list[i].lsn = lsn}, lsn)
  ELSE [end |-> IF read.end = "undefined" THEN read.end ELSE "abort", stat |-> Null, path |-> << >>]

FindLsn(d, h, path, lsn) == FindIn(d, h, path, ReadDir(d, h, path), lsn)

OrInRest(d, h, found, rest, lsn) == IF found.end = "missing" THEN FindBelow(d, h, rest, lsn) ELSE found
FindBelow(d, h, paths, lsn) ==
  IF paths = << >> THEN [end |-> "missing", stat |-> Null, path |-> << >>]
  ELSE OrInRest(d, h, FindLsn(d, h, Head(paths), lsn), Tail(paths), lsn)

---------------------------------------------------------------------------
(* iso9660_have_rr: the root's entries and those one level below, each as  *)
(* if it was a file in one extent, up to a number of files.                *)

RECURSIVE HaveRock(_, _, _, _, _), HaveRockIn(_, _, _, _, _)
HaveRock(d, h, stat, depth, limit) ==
  IF ~stat.dir THEN [have |-> "nope", left |-> limit]
  ELSE IF limit = 0 THEN [have |-> "dunno", left |-> limit]
  ELSE IF ~Readable(d, stat) THEN [have |-> "nope", left |-> limit]
  ELSE HaveRockIn(d, h, Walk(ExtentOf(d, stat), EndOf(stat)).records, depth, limit)

OrInOthers(d, h, below, others, depth) ==
  IF below.have # "nope" THEN below
  ELSE IF below.left = 1 THEN [have |-> "dunno", left |-> 0]
  ELSE HaveRockIn(d, h, others, depth, below.left - 1)

HaveRockAt(d, h, stat, others, depth, limit) ==
  IF stat \in {Null, Undefined} THEN [have |-> "undefined", left |-> limit]
  ELSE IF stat.rock = "yep" THEN [have |-> "yep", left |-> limit]
  ELSE OrInOthers(d, h, IF depth = 1 THEN [have |-> "nope", left |-> limit]
                        ELSE HaveRock(d, h, stat, depth + 1, limit), others, depth)

HaveRockIn(d, h, records, depth, limit) ==
  IF records = << >> THEN [have |-> "nope", left |-> limit]
  ELSE HaveRockAt(d, h, StatOf(d, h, Head(records), Null), Tail(records), depth, limit)

---------------------------------------------------------------------------
NoHandle == [kind |-> "none", mask |-> [rock |-> FALSE, levels |-> {}], level |-> 0, svd |-> 0, deep |-> TRUE]

NoAnswer == [call |-> "none"]
Init ==
  /\ disc \in Discs
  /\ handle = NoHandle
  /\ answer = NoAnswer

(* iso9660_open_ext *)
OpenImage(mask) ==
  /\ handle.kind = "none"
  /\ LET super == IfsSuperblock(disc, mask)
     IN handle' = [kind |-> "iso", mask |-> mask, level |-> super.level, svd |-> super.svd,
                   deep |-> TRUE]
  /\ UNCHANGED <<disc, answer>>

(* cdio_open *)
OpenDisc ==
  /\ handle.kind = "none"
  /\ handle' = [NoHandle EXCEPT !.kind = "cdio"]
  /\ UNCHANGED <<disc, answer>>

(* iso9660_fs_read_pvd: a sector that cannot be read, or that holds no      *)
(* primary descriptor.                                                     *)
NoPvd(unread) == 16 \in unread

WithSuperblock(mask, unread) ==
  LET super == FsSuperblock(disc, mask, handle.svd, unread)
  IN IF NoPvd(unread) THEN handle
     ELSE [handle EXCEPT !.level = super.level, !.svd = super.svd]

(* iso9660_fs_read_superblock *)
ReadSuperblock(mask) ==
  /\ handle.kind = "cdio" /\ answer = NoAnswer
  /\ \E unread \in Unread : handle' = WithSuperblock(mask, unread)
  /\ UNCHANGED <<disc, answer>>

(* _fs_stat_root reads the descriptors again, Joliet's if it was in use.   *)
StatMask(h) == [rock |-> TRUE, levels |-> IF h.level = 0 THEN {} ELSE Joliet]
AtRoot(unread) ==
  IF handle.kind = "iso" THEN handle ELSE WithSuperblock(StatMask(handle), unread)

(* What a lookup on a disc sees is what its own reads of the descriptors    *)
(* brought; it fails when the primary one is not readable.                 *)
Called(unread) ==
  /\ handle.kind # "none" /\ answer = NoAnswer
  /\ handle' = AtRoot(unread)
  /\ UNCHANGED disc

Fails(unread) == handle.kind = "cdio" /\ NoPvd(unread)

StatPath(path) ==
  \E unread \in Unread :
    /\ Called(unread)
    /\ answer' = [call |-> "stat", arg |-> path,
                  result |-> IF Fails(unread) THEN [end |-> "missing", stat |-> Null]
                             ELSE Stat(disc, handle', path)]

ReadDirectory(path) ==
  \E unread \in Unread :
    /\ Called(unread)
    /\ answer' = [call |-> "readdir", arg |-> path,
                  result |-> IF Fails(unread) THEN [end |-> "missing", list |-> NoList]
                             ELSE ReadDir(disc, handle', path)]

(* Without a list of the root's entries the assertion of find_lsn_recurse   *)
(* ends the program.                                                       *)
FindSector(lsn) ==
  \E unread \in Unread :
    /\ Called(unread)
    /\ answer' = [call |-> "find_lsn", arg |-> lsn,
                  result |-> IF Fails(unread)
                             THEN [end |-> "abort", stat |-> Null, path |-> << >>]
                             ELSE FindLsn(disc, handle', << >>, lsn)]

(* iso9660_have_rr is for images only.                                     *)
AskRock(limit) ==
  /\ handle.kind = "iso" /\ answer = NoAnswer
  /\ answer' = [call |-> "have_rr", arg |-> limit,
                result |-> HaveRock(disc, handle, RootStat(disc, handle), 0,
                                     IF limit = 0 THEN NoLimit ELSE limit).have]
  /\ UNCHANGED <<disc, handle>>

(* A call's result is taken before the next call.                          *)
Taken == answer # NoAnswer /\ answer' = NoAnswer /\ UNCHANGED <<disc, handle>>

Lsns == UNION {{disc.extents[e][o].lsn : o \in DOMAIN disc.extents[e]} :
               e \in DOMAIN disc.extents}

Next ==
  \/ \E mask \in Masks : OpenImage(mask) \/ ReadSuperblock(mask)
  \/ OpenDisc
  \/ \E path \in Paths : StatPath(path) \/ ReadDirectory(path)
  \/ \E lsn \in Lsns : FindSector(lsn)
  \/ \E limit \in Limits : AskRock(limit)
  \/ Taken

Spec == Init /\ [][Next]_vars

---------------------------------------------------------------------------
(* Properties.                                                             *)

Way == IF handle.level > 0 THEN "joliet"
       ELSE IF handle.kind = "cdio" THEN "disc"
       ELSE IF handle.mask.rock THEN "rock" ELSE "plain"

Answered(call) == answer.call = call /\ answer.result.end = "found"

(* A directory is listed as it was written: every file once, under the     *)
(* name that its tree and its Rock Ridge fields give it, with the first    *)
(* sector and the size of all its extents; files a part of which is ill    *)
(* and relocated directories of an image are left out; and the tree is the *)
(* Joliet one exactly when Joliet's level is in use (iso9660_ifs_readdir   *)
(* and iso9660_fs_readdir, from the descriptors to the records).           *)
ListedAsWritten ==
  Answered("readdir") =>
    LET at   == Stat(disc, handle, answer.arg).stat
        list == answer.result.list
    IN at.lsn \in DOMAIN disc.written[Way] /\ disc.written[Way][at.lsn] =
         [i \in DOMAIN list |-> [name |-> list[i].name, dir |-> list[i].dir,
                                lsn |-> list[i].lsn, total |-> list[i].total]]

(* Whatever a directory lists, a lookup of its name in that directory finds *)
(* at the same sector and with the same size, and the path that a search   *)
(* for a sector answers with leads to an entry at that sector, although    *)
(* the three walk the records in loops of their own (iso9660_ifs_readdir,  *)
(* iso9660_ifs_stat and iso9660_ifs_find_lsn_with_path, on discs without   *)
(* ill records).                                                           *)
LooksUp(path, lsn) ==
  Stat(disc, handle, path).end = "found" /\ Stat(disc, handle, path).stat.lsn = lsn

ListedIsFound ==
  disc.regular =>
    /\ Answered("readdir") =>
         \A e \in Range(answer.result.list) :
           LET path == Append(answer.arg, e.name)
           IN LooksUp(path, e.lsn) /\ Stat(disc, handle, path).stat.total = e.total
    /\ Answered("find_lsn") => LooksUp(answer.result.path, answer.arg)
============================================================================
