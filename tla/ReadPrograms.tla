---------------------------- MODULE ReadPrograms ----------------------------
(***************************************************************************)
(* The command line programs that copy and list: cd-read (src/cd-read.c),  *)
(* which copies sectors, iso-read (src/iso-read.c), which copies one file  *)
(* out of an ISO 9660 or UDF image, and iso-info (src/iso-info.c), which   *)
(* lists the files of one.  What they get from the library is chosen: the  *)
(* sectors that can be read, where a file lies, the tree of directories.   *)
(*                                                                         *)
(* A program parses its command line, opens its input and then works a     *)
(* block or a directory at a time until it exits with a code.              *)
(***************************************************************************)
EXTENDS Integers, Sequences, SequencesExt, FiniteSetsExt, Functions

CONSTANTS
  CdLines,      \* command lines of cd-read
  CdSources,    \* discs it reads: [kind : {"device", "image"}, leadout, bad]
  InvalidLsn,   \* CDIO_INVALID_LSN, a negative number
  ReadLines,    \* command lines of iso-read
  Files,        \* files it extracts: [udf, extents, bad]
  Block,        \* ISO_BLOCKSIZE and UDF_BLOCKSIZE, in units of content
  InfoLines,    \* command lines of iso-info
  Trees,        \* images it lists: [udf, dirs, unreadable], dirs[1] the root
  PlainName(_), \* iso9660_name_translate_ext of a file name
  MaxRecursion  \* CDIO_MAX_DIR_RECURSION

VARIABLES
  line,     \* the command line, with the name of the program
  input,    \* what was opened
  pc,       \* "parse", "open", "create", "copy", "list", "exit"
  code,     \* the exit code
  run       \* what the program's loop keeps
vars == <<line, input, pc, code, run>>

Nothing == [nothing |-> TRUE]
EXIT_FAILURE == 1

Exit(c) == pc' = "exit" /\ code' = c
Goto(place) == pc' = place /\ code' = code

-----------------------------------------------------------------------------
(* The options of cd-read.                                                 *)

(* parse_source: the first option that sets source_image is the last one   *)
(* that is heard.  --toc-file sets no source_image.                        *)
ParseSource(heard, option) ==
  IF heard.image # "unknown" THEN heard
  ELSE [image |-> IF option.type = "cdrdao" THEN "unknown" ELSE option.type,
        name  |-> IF option.name # "" THEN option.name ELSE heard.name]
Source(l) == FoldLeft(ParseSource, [image |-> "unknown", name |-> ""], l.sources)
NameGiven(l) == IF Source(l).name # "" THEN Source(l).name ELSE IF l.rest = 1 THEN "rest" ELSE ""

(* start_lsn, num_sectors and end_lsn after parse_options.                 *)
FromEnd(l) == l.end - l.num + 1
StartLsn(l) ==
  IF l.start # InvalidLsn THEN l.start
  ELSE IF l.end = InvalidLsn THEN 0
  ELSE IF l.num # 0 THEN FromEnd(l) ELSE InvalidLsn
NumSectors(l) == IF l.end = InvalidLsn /\ l.num = 0 THEN 1 ELSE l.num
EndLsn(l) == IF l.end = InvalidLsn THEN StartLsn(l) + NumSectors(l) - 1 ELSE l.end

EndTooLow(l) == l.start = InvalidLsn /\ l.end # InvalidLsn /\ l.num # 0 /\ l.end <= l.num
Inconsistent(l) == l.end # InvalidLsn /\ l.num # 0 /\ l.num # l.end - StartLsn(l) + 1

CdReadExit(l) ==
  CASE l.rest > 0 /\ Source(l).name # "" -> EXIT_FAILURE
    [] l.rest > 1 -> EXIT_FAILURE
    [] l.mode = "uninit" -> 10
    [] l.hexdump /\ l.nohexdump -> 11
    [] EndTooLow(l) -> 12
    [] l.end # InvalidLsn /\ l.end < StartLsn(l) -> 13
    [] Inconsistent(l) -> 14
    [] OTHER -> 0

(* buffer is the sector it holds, {} for zeros.                            *)
FirstBlock(l) == [lsn |-> StartLsn(l), blocklen |-> 2352, buffer |-> {}, out |-> << >>]
ParseCdRead ==
  /\ pc = "parse" /\ line.program = "cd-read"
  /\ IF CdReadExit(line) = 0
     THEN Goto("open") /\ run' = FirstBlock(line)
     ELSE Exit(CdReadExit(line)) /\ UNCHANGED run
  /\ UNCHANGED <<line, input>>

(* open_input and the output file; either may fail, through err_exit.      *)
(* Sectors before the disc are only asked of images.                       *)
CanOpen(image, source) ==
  /\ image \in {"unknown", "auto"} \/ (image = "device" <=> source.kind = "device")
  /\ StartLsn(line) < 0 => source.kind = "image"
OpenInput ==
  /\ pc = "open" /\ line.program = "cd-read"
  /\ \/ \E source \in CdSources :
          CanOpen(Source(line).image, source) /\ input' = source /\ Goto("copy")
     \/ Exit(EXIT_FAILURE) /\ UNCHANGED input
  /\ UNCHANGED <<line, run>>

(* What a read of one sector does: the image drivers seek before the file  *)
(* only to fail, and at the leadout, where the file ends, a read of data   *)
(* stores nothing and succeeds.                                            *)
ReadSector(source, mode, lsn) ==
  IF source.kind = "device"
  THEN IF lsn < source.leadout /\ lsn \notin source.bad THEN "stored" ELSE "error"
  ELSE IF lsn < 0 \/ lsn > source.leadout THEN "error"
  ELSE IF lsn < source.leadout THEN "stored"
  ELSE IF mode = "audio" THEN "error" ELSE "nothing"

BlockLength == [m1f1 |-> 2048, m1f2 |-> 2336, m2f1 |-> 2048, m2f2 |-> 2324]
LengthAfter(mode, result, blocklen) ==
  IF result = "error" THEN 0
  ELSE IF mode \in DOMAIN BlockLength THEN BlockLength[mode] ELSE blocklen

AnyOfImage == line.mode = "any" /\ input.kind = "image"
CopySector ==
  /\ pc = "copy" /\ line.program = "cd-read"
  /\ run.lsn <= EndLsn(line)
  /\ IF AnyOfImage THEN Exit(EXIT_FAILURE) /\ UNCHANGED run
     ELSE LET result == ReadSector(input, line.mode, run.lsn)
              length == LengthAfter(line.mode, result, run.blocklen)
              buffer == IF result = "stored" THEN {run.lsn} ELSE run.buffer
          IN /\ run' = [lsn |-> run.lsn + 1, blocklen |-> length, buffer |-> buffer,
                        out |-> Append(run.out, [content |-> buffer, length |-> length])]
             /\ UNCHANGED <<pc, code>>
  /\ UNCHANGED <<line, input>>

SectorsCopied ==
  /\ pc = "copy" /\ line.program = "cd-read"
  /\ run.lsn > EndLsn(line)
  /\ Exit(0)
  /\ UNCHANGED <<line, input, run>>

-----------------------------------------------------------------------------
(* iso-read.                                                               *)

IsoReadRefused(l) ==
  \/ l.image /\ l.rest > 0
  \/ l.rest > 1
  \/ ~l.image /\ l.rest = 0
  \/ ~l.extract
  \/ ~l.output
ParseIsoRead ==
  /\ pc = "parse" /\ line.program = "iso-read"
  /\ IF IsoReadRefused(line) THEN Exit(EXIT_FAILURE) ELSE Goto("create")
  /\ UNCHANGED <<line, input, run>>

CreateOutput ==
  /\ pc = "create"
  /\ Goto("open") \/ Exit(3)
  /\ UNCHANGED <<line, input, run>>

(* The image is opened and the file looked for in it.                      *)
OpenImage ==
  /\ pc = "open" /\ line.program = "iso-read"
  /\ \/ \E f \in Files : f.udf = line.udf /\ input' = f /\ Goto("copy")
     \/ (Exit(1) \/ Exit(2)) /\ UNCHANGED input
  /\ run' = [i |-> 0, position |-> 0, out |-> << >>, skipped |-> {}, cut |-> FALSE]
  /\ UNCHANGED line

Added(sizes) == FoldLeft(LAMBDA sum, n : sum + n, 0, sizes)
TotalSize(f) == Added(f.extents)
CeilBlocks(n) == (n + Block - 1) \div Block
Units(from, n, total) == [u \in 1 .. n |-> IF from + u <= total THEN from + u ELSE -1]
Zeros == [u \in 1 .. Block |-> 0]

WriteFails == Exit(5) /\ UNCHANGED run
WriteBlock(bytes, ahead) ==
  /\ run' = [ahead EXCEPT !.out = @ \o bytes]
  /\ UNCHANGED <<pc, code>>

(* read_iso_file: a block of the file's extent, whole, or zeros when it    *)
(* cannot be read and --ignore was given.                                  *)
CopyIsoBlock ==
  /\ pc = "copy" /\ line.program = "iso-read" /\ ~input.udf
  /\ run.i < TotalSize(input)
  /\ LET unread == run.i \div Block \in input.bad
         block  == IF unread THEN Zeros ELSE Units(run.i, Block, TotalSize(input))
         ahead  == [run EXCEPT !.i = @ + Block, !.skipped = IF unread THEN @ \cup {run.i} ELSE @]
     IN IF unread /\ ~line.ignore THEN Exit(4) /\ UNCHANGED run
        ELSE WriteBlock(block, ahead) \/ WriteFails
  /\ UNCHANGED <<line, input>>

(* read_udf_file: as many reads as the file has blocks, each of what is    *)
(* left of an extent, at most a block.                                     *)
Ends(f) == {Added(SubSeq(f.extents, 1, k)) : k \in DOMAIN f.extents}
LeftInExtent(f, position) == Min({e \in Ends(f) : e > position}) - position
CopyUdfBlock ==
  /\ pc = "copy" /\ line.program = "iso-read" /\ input.udf
  /\ run.i < CeilBlocks(TotalSize(input))
  /\ IF run.position >= TotalSize(input) \/ run.i \in input.bad
     THEN Exit(4) /\ UNCHANGED run
     ELSE LET n == Min({Block, LeftInExtent(input, run.position)})
              ahead == [run EXCEPT !.i = @ + 1, !.position = @ + n]
          IN WriteBlock(Units(run.position, n, TotalSize(input)), ahead) \/ WriteFails
  /\ UNCHANGED <<line, input>>

AllCopied == run.i >= IF input.udf THEN CeilBlocks(TotalSize(input)) ELSE TotalSize(input)
Truncated(out, size) == [u \in 1 .. size |-> IF u <= Len(out) THEN out[u] ELSE 0]
(* An ftruncate that fails is reported and forgotten.                      *)
FileCopied ==
  /\ pc = "copy" /\ line.program = "iso-read" /\ AllCopied
  /\ \/ run' = [run EXCEPT !.out = Truncated(@, TotalSize(input)), !.cut = TRUE]
     \/ UNCHANGED run
  /\ Exit(0)
  /\ UNCHANGED <<line, input>>

-----------------------------------------------------------------------------
(* iso-info.  -i without a name falls through to -f.                       *)
Short(l) == l.short \/ l.input = "bare"
NoImageName(l) == l.rest = 0 /\ l.input # "named"
ParseIsoInfo ==
  /\ pc = "parse" /\ line.program = "iso-info"
  /\ IF line.rest > 1 \/ NoImageName(line) THEN Exit(EXIT_FAILURE) ELSE Goto("open")
  /\ UNCHANGED <<line, input, run>>

Lists(l) == IF l.long \/ Short(l) THEN "iso" ELSE IF l.udf THEN "udf" ELSE "none"
Frame(path, dir) == [path |-> path, dir |-> dir, rest |-> input'.dirs[dir]]

(* What is printed: a name, under the path of its directory.               *)
Line(name, dir, path) == [name |-> name, dir |-> dir, path |-> path]

(* The image is opened as ISO 9660 first, whatever is to be listed.  One   *)
(* that then has no UDF is reported, and the program ends well.            *)
HasNothing(t) == Lists(line) = "none" \/ (Lists(line) = "udf" /\ ~t.udf)
OpenForListing ==
  /\ pc = "open" /\ line.program = "iso-info"
  /\ \/ \E t \in Trees :
          /\ input' = t
          /\ IF HasNothing(t) THEN Exit(0) ELSE Goto("list")
          /\ run' = [printed |-> IF Lists(line) = "udf" THEN <<Line(".", 1, << >>)>> ELSE << >>,
                     failed  |-> {},
                     todo    |-> IF Lists(line) = "udf" THEN <<Frame(<< >>, 1)>>
                                 ELSE <<[path |-> << >>, counter |-> 0]>>]
     \/ Exit(EXIT_FAILURE) /\ UNCHANGED <<input, run>>
  /\ UNCHANGED line

SubDirs(entries) == SelectSeq(entries, LAMBDA e : e.dir # 0 /\ ~e.dots)

(* The directory a path leads to, 0 for none: components match the name,   *)
(* or its plain form when it is not from Rock Ridge.                       *)
Matching(name, e) == e.name = name \/ (~e.rock /\ PlainName(e.name) = name)
DirAt(tree, path) ==
  LET step(dir, name) ==
        LET hits == IF dir = 0 THEN {} ELSE {k \in DOMAIN tree.dirs[dir] : Matching(name, tree.dirs[dir][k])}
        IN IF hits = {} THEN 0 ELSE tree.dirs[dir][Min(hits)].dir
  IN FoldLeft(step, 1, path)

(* The name that print_iso9660_recurse puts in the path of a directory.    *)
InPath(e) == IF ~e.rock \/ line.norock THEN PlainName(e.name) ELSE e.name
Below(path, counter, entries) ==
  [k \in DOMAIN SubDirs(entries) |->
     [path |-> Append(path, InPath(SubDirs(entries)[k])), counter |-> counter]]

ListIsoDirectory ==
  /\ pc = "list" /\ Lists(line) = "iso" /\ run.todo # << >>
  /\ LET this == Head(run.todo)
         dir  == DirAt(input, this.path)
         entries == input.dirs[dir]
         shown   == IF line.long THEN entries ELSE SelectSeq(entries, LAMBDA e : ~e.dots)
     IN run' = IF dir = 0 \/ dir \in input.unreadable \/ this.counter + 1 > MaxRecursion
               THEN [run EXCEPT !.failed = @ \cup {this.path}, !.todo = Tail(@)]
               ELSE [run EXCEPT !.printed = @ \o [k \in DOMAIN shown |-> Line(shown[k].name, dir, this.path)],
                                !.todo = Below(this.path, this.counter + 1, entries) \o Tail(@)]
  /\ UNCHANGED <<line, input, pc, code>>

(* list_udf_files: one entry of the innermost directory.  A directory is   *)
(* listed in the place of its entry, first itself and then what is in it,  *)
(* and not at all when it is not opened.                                   *)
ListUdfEntry ==
  /\ pc = "list" /\ Lists(line) = "udf" /\ run.todo # << >>
  /\ LET top  == Head(run.todo)
         rest == [top EXCEPT !.rest = Tail(@)]
         e    == Head(top.rest)
         path == Append(top.path, e.name)
     IN run' =
          IF top.rest = << >> THEN [run EXCEPT !.todo = Tail(@)]
          ELSE IF e.dir = 0
          THEN [run EXCEPT !.printed = Append(@, Line(e.name, top.dir, top.path)),
                           !.todo = <<rest>> \o Tail(@)]
          ELSE IF e.dots \/ e.dir \in input.unreadable
          THEN [run EXCEPT !.todo = <<rest>> \o Tail(@)]
          ELSE [run EXCEPT !.printed = Append(@, Line(".", e.dir, path)),
                           !.todo = <<[path |-> path, dir |-> e.dir, rest |-> input.dirs[e.dir]], rest>>
                                    \o Tail(@)]
  /\ UNCHANGED <<line, input, pc, code>>

AllListed ==
  /\ pc = "list" /\ run.todo = << >>
  /\ Exit(0)
  /\ UNCHANGED <<line, input, run>>

-----------------------------------------------------------------------------
(* A program that has exited stays so.                                     *)
Exited == pc = "exit" /\ UNCHANGED vars

Init ==
  /\ line \in CdLines \cup ReadLines \cup InfoLines
  /\ input = Nothing /\ run = Nothing
  /\ pc = "parse" /\ code = 0

Next ==
  \/ ParseCdRead \/ OpenInput \/ CopySector \/ SectorsCopied
  \/ ParseIsoRead \/ CreateOutput \/ OpenImage \/ CopyIsoBlock \/ CopyUdfBlock \/ FileCopied
  \/ ParseIsoInfo \/ OpenForListing \/ ListIsoDirectory \/ ListUdfEntry \/ AllListed
  \/ Exited

Spec == Init /\ [][Next]_vars

-----------------------------------------------------------------------------
(* cd-read keeps what was asked of it: a start, an end and a number of     *)
(* sectors that it accepts are those it reads, a range it derives from the *)
(* end does not begin before the disc, and only -e alone leaves the start  *)
(* unset (src/cd-read.c:428).  The source is the one named by the option   *)
(* that set its type, as long as no --toc-file is among the options.       *)
RangeAsGiven ==
  (line.program = "cd-read" /\ pc \in {"open", "copy"}) =>
    /\ line.start # InvalidLsn => StartLsn(line) = line.start
    /\ line.end # InvalidLsn => EndLsn(line) = line.end
    /\ line.num # 0 => line.num = EndLsn(line) - StartLsn(line) + 1
    /\ StartLsn(line) = InvalidLsn => line.end # InvalidLsn /\ line.num = 0
    /\ (line.start = InvalidLsn /\ StartLsn(line) # InvalidLsn) => StartLsn(line) >= 0
    /\ (\A k \in DOMAIN line.sources : line.sources[k].type # "cdrdao") =>
         Source(line).name = IF line.sources = << >> THEN "" ELSE line.sources[1].name

(* Its output has a block for each sector of the range so far, in order:   *)
(* the sector itself, or nothing where the read failed.  At the leadout of *)
(* an image the sector before comes once more, and audio or any sectors    *)
(* after one that failed are lost (src/cd-read.c:544, 573), as blocklen    *)
(* is not set again.                                                       *)
Failed(lsn) == ReadSector(input, line.mode, lsn) = "error"
BlocksInOrder ==
  (line.program = "cd-read" /\ pc \in {"copy", "exit"} /\ run # Nothing /\ input # Nothing) =>
    /\ \A k \in DOMAIN run.out :
         LET lsn == StartLsn(line) + k - 1
             lost == line.mode \notin DOMAIN BlockLength /\ \E m \in StartLsn(line) .. lsn : Failed(m)
         IN /\ (run.out[k].length = 0) <=> (Failed(lsn) \/ lost)
            /\ run.out[k].length > 0 =>
                 \/ run.out[k].content = {lsn}
                 \/ /\ lsn = input.leadout /\ input.kind = "image"
                    /\ run.out[k].content = IF k = 1 THEN {} ELSE {lsn - 1}
    /\ (pc = "exit" /\ code = 0) => Len(run.out) = Max({0, EndLsn(line) - StartLsn(line) + 1})

(* A file that iso-read reports as extracted has the bytes stored, in      *)
(* order over its extents, and zeros only for the blocks that --ignore     *)
(* passed over; it has the file's size, or that of whole blocks when it    *)
(* could not be cut.  One that failed half way holds what came before.     *)
Stored(u) == IF \E i \in run.skipped : i < u /\ u <= i + Block THEN 0 ELSE u
ExtractedAsStored ==
  (line.program = "iso-read" /\ run # Nothing /\ input # Nothing) =>
    LET total == TotalSize(input)
    IN /\ \A u \in DOMAIN run.out : u <= total => run.out[u] = Stored(u)
       /\ run.skipped # {} => line.ignore /\ ~input.udf
       /\ (pc = "exit" /\ code = 0) =>
            Len(run.out) = IF run.cut \/ input.udf THEN total ELSE CeilBlocks(total) * Block

(* iso-info lists every directory that can be read, up to the depth it     *)
(* follows, and every entry of it once; the directories it cannot list are *)
(* reported, except in UDF.  Unless Rock Ridge is left out: then a         *)
(* directory whose name is not in its plain form is not found again        *)
(* (src/iso-info.c:281).  Each entry stands under the path of its own      *)
(* directory; one of UDF, where directories are listed in the middle of    *)
(* others, is listed as itself.                                            *)
Renamed(tree) ==
  \E d \in DOMAIN tree.dirs : \E e \in ToSet(tree.dirs[d]) : e.rock /\ PlainName(e.name) # e.name
Opened(tree, dir) == {e.dir : e \in {x \in ToSet(tree.dirs[dir]) : x.dir # 0 /\ ~x.dots}} \ tree.unreadable
Reachable(tree) ==
  LET depth == IF Lists(line) = "udf" THEN Len(tree.dirs) ELSE MaxRecursion
      within[n \in 1 .. depth] ==
        IF n = 1 THEN {1} \ tree.unreadable
        ELSE within[n - 1] \cup UNION {Opened(tree, d) : d \in within[n - 1]}
  IN within[depth]
Shown(tree, dir) ==
  IF Lists(line) = "udf" THEN {"."} \cup {e.name : e \in {x \in ToSet(tree.dirs[dir]) : x.dir = 0}}
  ELSE {e.name : e \in {x \in ToSet(tree.dirs[dir]) : line.long \/ ~x.dots}}

ListedOnce ==
  (line.program = "iso-info" /\ run # Nothing /\ ~(line.norock /\ Renamed(input))) =>
    /\ IsInjective(run.printed)
    /\ \A k \in DOMAIN run.printed :
         LET p == run.printed[k]
         IN /\ p.dir \in Reachable(input) /\ p.name \in Shown(input, p.dir)
            /\ DirAt(input, p.path) = p.dir
    /\ (pc = "exit" /\ code = 0 /\ ~HasNothing(input)) =>
         /\ \A d \in Reachable(input) : \A name \in Shown(input, d) :
              \E k \in DOMAIN run.printed : run.printed[k].dir = d /\ run.printed[k].name = name
         /\ Lists(line) = "iso" =>
              \A d \in Reachable(input) : \A e \in ToSet(SubDirs(input.dirs[d])) :
                e.dir \in input.unreadable => \E p \in run.failed : DirAt(input, p) = e.dir

CopiesAsAsked == RangeAsGiven /\ BlocksInOrder /\ ExtractedAsStored
=============================================================================
