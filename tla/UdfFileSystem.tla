--------------------------- MODULE UdfFileSystem ---------------------------
(***************************************************************************)
(* Reading a UDF file system (lib/udf/udf_fs.c, udf_file.c): opening it    *)
(* over its volume descriptors, the root of a partition, walking           *)
(* directories entry by entry, opening a file by its path, reading blocks. *)
(*                                                                         *)
(* An entry (udf_dirent_t) is at once a directory that is walked and the   *)
(* entry the walk has come to, and the place in the file that is read is   *)
(* kept once for the whole file system.                                    *)
(*                                                                         *)
(* An image is a record: anchor, whether sector 256 has the pointer to the *)
(* main volume descriptors mvds; and blocks, from absolute sectors to what *)
(* is in them: a file set, a file entry, or the start of a directory's     *)
(* identifiers (the sectors of one extent together).                       *)
(***************************************************************************)
EXTENDS Integers, Sequences, SequencesExt, FiniteSetsExt, Functions

CONSTANTS
  Images,       \* images that may be opened
  UDF_BLOCKSIZE,
  Handles,      \* the caller's variables for entries
  Partitions,   \* partitions asked for
  Paths,        \* paths opened
  Counts        \* blocks asked of one read

VARIABLES
  image,
  udf,          \* the udf_t; mixed, once its partition has been changed under
                \* the entries, whose sectors are counted from the new one
  ent,          \* the caller's entries
  last,         \* the call that returned last, with its result
  sole          \* the entry that is read one block at a time with no other
                \* call between, and the blocks that were delivered
vars == <<image, udf, ent, last, sole>>

AnyPartition == -1                    \* b_any_partition
Null == [null |-> TRUE]
Closed == [open |-> FALSE, part |-> 0, part_start |-> 0, lvd |-> 0, fsd |-> 0, position |-> 0,
           mixed |-> FALSE]
NoReader == [handle |-> 0, blocks |-> << >>]

Block(lba) == IF lba \in DOMAIN image.blocks THEN image.blocks[lba] ELSE [tag |-> "none"]

---------------------------------------------------------------------------
(* The volume descriptors.  Both loops stop before the last sector of the  *)
(* sequence.                                                               *)

Examined == 1 .. Len(image.mvds) - 1

(* udf_open *)
Opens == image.anchor /\ \E i \in Examined : image.mvds[i].tag = "primary"

(* udf_get_root: the partition and the logical volume are kept in the      *)
(* udf_t, those of an earlier call too.                                    *)
AfterPartition(u, d, wanted) ==
  IF wanted = AnyPartition \/ wanted = d.number
  THEN [u EXCEPT !.part = d.number, !.part_start = d.start, !.done = u.lvd # 0]
  ELSE u
AfterVolume(u, d, i) ==
  IF d.valid THEN [u EXCEPT !.lvd = i, !.fsd = d.fsd, !.done = u.part_start # 0] ELSE u

Scanned(u, wanted) ==
  LET step(acc, i) ==
        IF acc.done \/ i \notin Examined THEN acc
        ELSE CASE image.mvds[i].tag = "partition" -> AfterPartition(acc, image.mvds[i], wanted)
               [] image.mvds[i].tag = "logvol"    -> AfterVolume(acc, image.mvds[i], i)
               [] OTHER -> acc
      done == FoldLeftDomain(step, u @@ [done |-> FALSE], image.mvds)
  IN [f \in DOMAIN u |-> done[f]]

---------------------------------------------------------------------------
(* Entries.                                                                *)

(* udf_get_lba: the first extent of the file entry.                        *)
HasExtent(fe) == fe.tag = "fe" /\ fe.ads # << >> /\ fe.flags # "icb"
LbaOf(fe) == IF HasExtent(fe) THEN fe.ads[1].pos ELSE 0
EndOf(fe) == IF HasExtent(fe) THEN fe.ads[1].pos + (fe.ads[1].len - 1) \div UDF_BLOCKSIZE ELSE 0

(* udf_new_dirent; at is the identifier that fid points at, 0 for none.    *)
NewEntry(u, fe, name, dir, parent) ==
  [name |-> name, dir |-> dir, parent |-> parent, part_start |-> u.part_start,
   left |-> fe.info, fe |-> fe, loc |-> LbaOf(fe), loc_end |-> EndOf(fe), at |-> 0,
   icb |-> 0, walked |-> << >>]

(* The identifiers in the extent that a directory's entry has read.        *)
Fids(d) ==
  LET b == Block(d.part_start + d.loc)
  IN IF b.tag = "fids" THEN b.fids ELSE << >>

(* udf_readdir: the entry moved on, or Null once it has been freed.  What  *)
(* it takes over of the next one: name, flags, file entry, not its place.  *)
Lengths(fids) == FoldLeft(LAMBDA acc, f : acc + f.len, 0, fids)
Spent(left, fid) == left - fid.len
ReadNext(u, d) ==
  LET next == d.at + 1
      fid  == Fids(d)[next]
  IN IF d.left <= 0 \/ next \notin DOMAIN Fids(d) THEN Null
     ELSE [d EXCEPT !.at = next, !.left = Spent(@, fid), !.dir = fid.dir, !.parent = fid.parent,
                    !.fe = Block(u.part_start + fid.icb), !.icb = fid.icb, !.name = fid.name,
                    !.walked = Append(@, fid.name)]

(* udf_opendir *)
IsDirectory(fe) == fe.tag = "fe" /\ fe.type = "dir"
OpenedDir(u, d) ==
  LET fe == Block(u.part_start + d.icb)
  IN IF ~d.dir \/ d.parent \/ d.at = 0 \/ ~IsDirectory(fe) THEN Null
     ELSE NewEntry(u, fe, d.name, TRUE, TRUE)

(* udf_ff_traverse: the components that a file of the same name has used   *)
(* up are not given back.                                                  *)
RECURSIVE Traverse(_, _, _, _)
Traverse(u, d, token, rest) ==
  LET e     == ReadNext(u, d)
      below == OpenedDir(u, e)
  IN IF e = Null THEN Null
     ELSE IF e.name # token THEN Traverse(u, e, token, rest)
     ELSE IF rest = << >> THEN e
     ELSE IF below # Null THEN Traverse(u, below, Head(rest), Tail(rest))
     ELSE Traverse(u, e, token, Tail(rest))

(* udf_fopen starts from a new entry of what the root is now.              *)
Fopened(u, root, path) ==
  LET copy == NewEntry(u, root.fe, root.name, root.dir, root.parent)
  IN IF path = << >> THEN copy ELSE Traverse(u, copy, Head(path), Tail(path))

---------------------------------------------------------------------------
(* Reading: offset_to_lba and udf_read_block.                              *)

(* The extent of an offset, and the offset in it.  One descriptor after    *)
(* the last is looked at; it is zero, and the one after that is refused.   *)
UpToEnd(offset, len) == offset <= len
InExtent(offset, len) == offset < len
ExtentOf(ads, offset) ==
  LET seek[i \in 1 .. Len(ads) + 1] ==
        LET before == IF i = 1 THEN offset ELSE seek[i - 1].offset - ads[i - 1].len
        IN [offset |-> before,
            found  |-> IF i > 1 /\ seek[i - 1].found # 0 THEN seek[i - 1].found
                       ELSE IF i <= Len(ads) /\ InExtent(before, ads[i].len) THEN i ELSE 0]
      found == seek[Len(ads) + 1].found
  IN IF found = 0 THEN Null ELSE [ad |-> ads[found], offset |-> seek[found].offset]

Ceiling(x) == (x + UDF_BLOCKSIZE - 1) \div UDF_BLOCKSIZE

(* How much a read of count blocks gives: blocks, and the length it says.  *)
CountOf(ad, count) == Min({count, Ceiling(ad.len)})
LengthRead(ad, count) == Min({ad.len, count * UDF_BLOCKSIZE})
BlocksAt(u, x, count) ==
  LET first == x.offset \div UDF_BLOCKSIZE + x.ad.pos + u.part_start
  IN [i \in 1 .. count |-> first + i - 1]

Readable(fe) == fe.tag = "fe" /\ fe.strategy = 4 /\ fe.flags \in {"short", "long"}

---------------------------------------------------------------------------
Init ==
  /\ image \in Images
  /\ udf = Closed
  /\ ent = [h \in Handles |-> Null]
  /\ last = [call |-> "none"]
  /\ sole = NoReader

UdfOpen ==
  /\ ~udf.open
  /\ udf' = [Closed EXCEPT !.open = Opens]
  /\ last' = [call |-> "open"]
  /\ UNCHANGED <<image, ent, sole>>

Free(h) ==
  /\ ent[h] # Null
  /\ ent' = [ent EXCEPT ![h] = Null]
  /\ last' = [call |-> "free"]
  /\ sole' = IF sole.handle = h THEN NoReader ELSE sole
  /\ UNCHANGED <<image, udf>>

(* udf_close, once the caller has freed its entries.                       *)
UdfClose ==
  /\ udf.open
  /\ \A h \in Handles : ent[h] = Null
  /\ udf' = Closed
  /\ last' = [call |-> "close"]
  /\ UNCHANGED <<image, ent, sole>>

GetRoot(h, wanted) ==
  /\ udf.open
  /\ ent[h] = Null
  /\ LET u == Scanned(udf, wanted)
     IN udf' = [u EXCEPT !.mixed = @ \/ udf.part_start \notin {0, u.part_start}]
  /\ LET fsd  == Block(udf'.part_start + udf'.fsd)
         root == Block(udf'.part_start + fsd.root)
         ok   == udf'.lvd # 0 /\ udf'.part_start # 0 /\ fsd.tag = "fsd" /\ root.tag = "fe"
     IN /\ ent' = [ent EXCEPT ![h] = IF ok THEN NewEntry(udf', root, "/", TRUE, FALSE) ELSE Null]
        /\ last' = [call |-> "get_root", wanted |-> wanted, found |-> ok]
  /\ UNCHANGED <<image, sole>>

(* A sector of the directory or the entry's own may not be readable.       *)
Readdir(h) ==
  /\ ent[h] # Null
  /\ \E fails \in BOOLEAN :
       LET e == IF fails THEN Null ELSE ReadNext(udf, ent[h])
       IN /\ ent' = [ent EXCEPT ![h] = e]
          /\ last' = [call |-> "readdir", entry |-> ent[h], fails |-> fails, end |-> e = Null]
          /\ sole' = IF e = Null THEN NoReader ELSE [handle |-> h, blocks |-> << >>]
  /\ udf' = [udf EXCEPT !.position = IF ent[h].left <= 0 THEN @ ELSE 0]
  /\ UNCHANGED image

Opendir(h, g) ==
  /\ ent[h] # Null
  /\ ent[g] = Null
  /\ ent' = [ent EXCEPT ![g] = OpenedDir(udf, ent[h])]
  /\ last' = [call |-> "opendir"]
  /\ UNCHANGED <<image, udf, sole>>

Fopen(h, g, path) ==
  /\ ent[h] # Null
  /\ ent[h].name = "/"
  /\ ent[g] = Null
  /\ LET e == Fopened(udf, ent[h], path)
     IN /\ ent' = [ent EXCEPT ![g] = e]
        /\ last' = [call |-> "fopen", root |-> ent[h], path |-> path, entry |-> e]
        /\ sole' = IF e = Null THEN NoReader ELSE [handle |-> g, blocks |-> << >>]
  /\ udf' = [udf EXCEPT !.position = 0]
  /\ UNCHANGED image

(* When the sectors cannot be read the place in the file stays, so that    *)
(* the next read asks for them again.                                      *)
ReadBlock(h, count) ==
  /\ ent[h] # Null
  /\ LET fe == ent[h].fe
         x  == IF Readable(fe) THEN ExtentOf(fe.ads, udf.position) ELSE Null
         n  == CountOf(x.ad, count)
         at == BlocksAt(udf, x, n)
         nothing(fails) ==
           /\ last' = [call |-> "read", handle |-> h, count |-> count, blocks |-> << >>,
                       fails |-> fails]
           /\ UNCHANGED <<udf, sole>>
     IN \/ (count = 0 \/ x = Null) /\ nothing(FALSE)
        \/ count > 0 /\ x # Null /\ nothing(TRUE)
        \/ /\ count > 0 /\ x # Null
           /\ last' = [call |-> "read", handle |-> h, count |-> count, blocks |-> at, fails |-> FALSE]
           /\ udf' = [udf EXCEPT !.position = @ + LengthRead(x.ad, n)]
           /\ sole' = IF sole.handle = h /\ count = 1 THEN [sole EXCEPT !.blocks = @ \o at] ELSE NoReader
  /\ UNCHANGED <<image, ent>>

Next ==
  \/ UdfOpen \/ UdfClose
  \/ \E h \in Handles :
       \/ Free(h) \/ Readdir(h)
       \/ \E wanted \in Partitions : GetRoot(h, wanted)
       \/ \E g \in Handles : Opendir(h, g) \/ \E path \in Paths : Fopen(h, g, path)
       \/ \E count \in Counts : ReadBlock(h, count)

Spec == Init /\ [][Next]_vars

---------------------------------------------------------------------------
(* The blocks of a file, in order.                                         *)
FileBlocks(fe, start) ==
  FoldLeft(LAMBDA acc, ad : acc \o [i \in 1 .. Ceiling(ad.len) |-> start + ad.pos + i - 1],
           << >>, fe.ads)

(* Reading a file block by block, with no other file read or opened and no *)
(* directory walked in between, delivers its blocks in order over all its  *)
(* extents, also when some of the reads fail and are repeated, and gives   *)
(* an error for want of more only once they are through (udf_read_block,   *)
(* offset_to_lba).                                                         *)
FileReadInOrder ==
  (last.call = "read" /\ sole.handle = last.handle) =>
    LET fe  == ent[last.handle].fe
        all == FileBlocks(fe, ent[last.handle].part_start)
    IN Readable(fe) /\ ~udf.mixed =>
         /\ IsPrefix(sole.blocks, all)
         /\ last.blocks = << >> /\ last.count > 0 /\ ~last.fails => sole.blocks = all

(* The entry that the names of a path lead to, from the root's directory   *)
(* down.                                                                   *)
FollowPath(root, path) ==
  LET step(lba, name) ==
        LET dir  == Block(udf.part_start + lba)
            fids == IF dir.tag = "fe" /\ dir.type = "dir"
                    THEN Block(udf.part_start + dir.ads[1].pos).fids ELSE << >>
            hits == {i \in DOMAIN fids : fids[i].name = name}
        IN IF lba = 0 \/ hits = {} THEN 0 ELSE fids[Min(hits)].icb
  IN FoldLeft(step, root, path)

RootIcb == Block(udf.part_start + udf.fsd).root

(* A directory that is walked to its end has given every identifier in it  *)
(* once and in order, whatever was done with other entries meanwhile and   *)
(* although each of them takes over the entry (udf_readdir, on directories *)
(* of one extent), and an opened path leads to the file that has it        *)
(* (udf_fopen on a root that has not been walked); unless another          *)
(* partition was taken up in between.                                      *)
DirectoriesFollowed ==
  ~udf.mixed =>
    /\ last.call = "readdir" /\ last.end /\ ~last.fails =>
         last.entry.walked = [i \in DOMAIN Fids(last.entry) |-> Fids(last.entry)[i].name]
    /\ last.call = "fopen" /\ last.path # << >> /\ last.root.at = 0 =>
         FollowPath(RootIcb, last.path) = IF last.entry = Null THEN 0 ELSE last.entry.icb
=============================================================================
