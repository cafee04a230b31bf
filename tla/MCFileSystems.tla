---------------------------- MODULE MCFileSystems ----------------------------
(* One of the three readers of file systems (ISO 9660 from an image or a    *)
(* disc, ISO 9660 in a file with unknown framing, or UDF) or the writer of  *)
(* ISO 9660 structures, or what is told of a file's mode, links and times,  *)
(* or one of the programs that read files and sectors.                      *)
EXTENDS IsoFileSystem, SequencesExt, TLC

(* The discs and images that the readers are given: first ISO 9660 discs,   *)
(* whose lists of files are laid out as directory records in blocks of four *)
(* units, with the list kept beside them; then UDF images of one and two    *)
(* partitions, with files of one and of three extents, of the other kinds   *)
(* of descriptors and of another strategy, and with a directory in a        *)
(* directory, or a file under its name.                                     *)
Field0(sig) == [sig |-> sig]
Nm(name) == [sig |-> "NM", flags |-> "none", name |-> name]
Sp == [sig |-> "SP", valid |-> TRUE]
Ce(extent) == [sig |-> "CE", valid |-> TRUE, extent |-> extent]
Cl(location) == [sig |-> "CL", location |-> location]

Rec(name, len, dir, multi, lsn, size, su) ==
  [name |-> name, len |-> len, dir |-> dir, multi |-> multi, lsn |-> lsn, size |-> size,
   su |-> su, short |-> FALSE]
Item(name, dir, lsn, total) == [name |-> name, dir |-> dir, lsn |-> lsn, total |-> total]

(* A file: its records, and its entry in each way of reading (none: << >>).*)
Simple(name, rock, len, lsn, size) ==
  [recs |-> <<Rec(<<name>>, len, FALSE, FALSE, lsn, size, <<Sp, Nm(<<rock>>), Field0("PX")>>)>>,
   plain |-> <<Item(<<name>>, FALSE, lsn, size)>>,
   rock |-> <<Item(<<rock>>, FALSE, lsn, size)>>, disc |-> <<Item(<<rock>>, FALSE, lsn, size)>>]
Bare(name, len, lsn, size) ==
  LET item == <<Item(<<name>>, FALSE, lsn, size)>>
  IN [recs |-> <<Rec(<<name>>, len, FALSE, FALSE, lsn, size, << >>)>>,
      plain |-> item, rock |-> item, disc |-> item]
(* Three extents of 8, 4 and 3 units; ill when they are not consecutive.   *)
Big(name, rock, len, lsn, third, su) ==
  LET item(n) == IF third = lsn + 3 THEN <<Item(<<n>>, FALSE, lsn, 15)>> ELSE << >>
  IN [recs |-> <<Rec(<<name>>, len, FALSE, TRUE, lsn, 8, << >>),
                 Rec(<<name>>, len, FALSE, TRUE, lsn + 2, 4, << >>),
                 Rec(<<name>>, len, FALSE, FALSE, third, 3, su)>>,
      plain |-> item(name), rock |-> item(rock), disc |-> item(rock)]
WithCe(name, rock, len, lsn, ces) ==
  [recs |-> <<Rec(<<name>>, len, FALSE, FALSE, lsn, 4, <<Nm(<<rock>>), Ce(100)>>)>>,
   plain |-> <<Item(<<name>>, FALSE, lsn, 4)>>, rock |-> <<Item(<<rock, "x", "y">>, FALSE, lsn, 4)>>,
   disc |-> <<Item(<<rock, "x", "y">>, FALSE, lsn, 4)>>]
Directory(name, rock, len, lsn, size) ==
  [recs |-> <<Rec(<<name>>, len, TRUE, FALSE, lsn, size, <<Nm(<<rock>>), Field0("PX")>>)>>,
   plain |-> <<Item(<<name>>, TRUE, lsn, size)>>,
   rock |-> <<Item(<<rock>>, TRUE, lsn, size)>>, disc |-> <<Item(<<rock>>, TRUE, lsn, size)>>]
Relocated(name, rock, lsn, size) ==
  [recs |-> <<Rec(<<name>>, 2, TRUE, FALSE, lsn, size, <<Nm(<<rock>>), Field0("RE")>>)>>,
   plain |-> <<Item(<<name>>, TRUE, lsn, size)>>, rock |-> << >>,
   disc |-> <<Item(<<rock>>, TRUE, lsn, size)>>]
ChildLink(name, rock, lsn, target, size) ==
  [recs |-> <<Rec(<<name>>, 2, FALSE, FALSE, lsn, 0, <<Nm(<<rock>>), Cl(target)>>)>>,
   plain |-> <<Item(<<name>>, FALSE, lsn, 0)>>,
   rock |-> <<Item(<<rock>>, TRUE, target, size)>>, disc |-> <<Item(<<rock>>, TRUE, target, size)>>]

Flat(seqs) == FoldLeft(LAMBDA acc, q : acc \o q, << >>, seqs)

(* Records in order, none across the end of a block.                       *)
Layout(recs) ==
  LET place(acc, rec) ==
        LET at == IF (acc.at % BlockSize) + rec.len > BlockSize THEN NextBlock(acc.at) ELSE acc.at
        IN [ext |-> acc.ext @@ (at :> rec), at |-> at + rec.len]
  IN FoldLeft(place, [ext |-> << >>, at |-> 0], recs)
SizeOf(recs) == Blocks(Layout(recs).at) * BlockSize

Dots(lsn, size, upLsn, upSize, su) ==
  <<Rec(<<".">>, 1, TRUE, FALSE, lsn, size, su), Rec(<<"..">>, 1, TRUE, FALSE, upLsn, upSize, << >>)>>

(* A directory of files, with the entries "." and "..".                    *)
DirSize(files) == SizeOf(Dots(0, 0, 0, 0, << >>) \o Flat([i \in DOMAIN files |-> files[i].recs]))
DirExtent(files, lsn, upLsn, upSize) ==
  Layout(Dots(lsn, DirSize(files), upLsn, upSize, <<Sp, Ce(100), Field0("ER")>>)
         \o Flat([i \in DOMAIN files |-> files[i].recs])).ext
DirWritten(files, way, lsn, upLsn, upSize) ==
  <<Item(<<".">>, TRUE, lsn, DirSize(files)), Item(<<"..">>, TRUE, upLsn, upSize)>>
  \o Flat([i \in DOMAIN files |-> files[i][way]])

Continuations == 100 :> <<Nm(<<"x">>), [sig |-> "CE", valid |-> TRUE, extent |-> 101]>>
                 @@ 101 :> <<Nm(<<"y">>), Field0("TF")>>

JolietFiles == <<Bare("A", 2, 70, 5), Bare("B", 2, 80, 15)>>

(* Discs with files in the root, a directory D and the relocated one of it. *)
DiscWith(dirs, root, vds, regular) ==
  LET written(way) == [l \in DOMAIN dirs |-> DirWritten(dirs[l].files, way, l, dirs[l].up, dirs[l].size)]
      rootRec(lsn, size) == Rec(<<".">>, 1, TRUE, FALSE, lsn, size, << >>)
  IN [root |-> rootRec(20, root),
      vds |-> [i \in DOMAIN vds |->
                 [type |-> vds[i][1], level |-> vds[i][2],
                  root |-> IF vds[i][2] = 0 THEN rootRec(20, root)
                           ELSE rootRec(90, DirSize(JolietFiles))]],
      extents |-> [l \in DOMAIN dirs |-> DirExtent(dirs[l].files, l, dirs[l].up, dirs[l].size)]
                  @@ 90 :> DirExtent(JolietFiles, 90, 90, DirSize(JolietFiles)),
      continuations |-> Continuations,
      written |-> [way \in {"plain", "rock", "disc"} |-> written(way)]
                  @@ "joliet" :> (90 :> DirWritten(JolietFiles, "plain", 90, 90, DirSize(JolietFiles))),
      regular |-> regular]

DiscOf(inRoot, inD, inMoved, root, moved, vds, regular) ==
  DiscWith(20 :> [files |-> inRoot, up |-> 20, size |-> root]
           @@ 30 :> [files |-> inD, up |-> 20, size |-> root]
           @@ 40 :> [files |-> inMoved, up |-> 20, size |-> root]
           @@ 50 :> [files |-> << >>, up |-> 40, size |-> moved], root, vds, regular)

DiscAround(inRoot, inD, inMoved, vds, regular) ==
  DiscOf(inRoot, inD, inMoved, DirSize(inRoot), DirSize(inMoved), vds, regular)

DiscOver(files, inD, inMoved, vds, regular) ==
  DiscAround(files \o <<Directory("D", "d", 2, 30, DirSize(inD)),
                        Directory("MOVED", "moved", 2, 40, DirSize(inMoved))>>,
             inD, inMoved, vds, regular)

Disc(files, inDir, vds, regular) ==
  DiscOver(files, inDir \o <<ChildLink("DEEP", "deep", 60, 50, DirSize(<< >>))>>,
           <<Relocated("DEEP", "deep", 50, DirSize(<< >>))>>, vds, regular)

A == Simple("A;1", "a", 2, 70, 5)
B == Big("B;1", "bb", 1, 80, 83, <<Nm(<<"bb">>)>>)
C == WithCe("C;1", "c", 1, 75, {})
E == Bare("E;1", 1, 76, 0)
Long == Simple("A;1", "a", 3, 70, 5)
Ill == Big("I;1", "i", 1, 85, 89, <<Nm(<<"i">>)>>)

(* With a record that runs over the end of the block in each gap that the  *)
(* layout leaves, which the readers pass over.                             *)
WithStrays(ext) ==
  LET ends == {o + ext[o].len : o \in DOMAIN ext}
      gaps == {e \in ends : e % BlockSize # 0 /\ e \notin DOMAIN ext}
  IN ext @@ [e \in gaps |-> Rec(<<"X">>, BlockSize, FALSE, FALSE, 99, 1, << >>)]
Strayed(d) ==
  [d EXCEPT !.extents = [l \in DOMAIN @ |-> WithStrays(@[l])], !.regular = FALSE]

Plainly == {<<>>, <<B, A>>, <<Long, B>>, <<E, B, A>>, <<E, Long>>}
Descriptors ==
  {<< >>, <<<<"supplementary", 3>>, <<"end", 0>>>>, <<<<"boot", 0>>, <<"supplementary", 1>>, <<"end", 0>>>>,
   <<<<"supplementary", 0>>, <<"supplementary", 3>>, <<"end", 0>>>>,
   <<<<"supplementary", 3>>, <<"supplementary", 0>>, <<"end", 0>>>>,
   <<<<"end", 0>>, <<"supplementary", 3>>>>}

MCPlainDisc == Disc(<<A>>, <<E>>, << >>, TRUE)
MCDiscs ==
  {MCPlainDisc} \cup
  {Disc(files, <<E>>, << >>, TRUE) : files \in Plainly}
  \cup {Disc(<<A, C>>, <<C, B>>, vds, TRUE) : vds \in Descriptors}
  \cup {Disc(<<Ill, A>>, <<E>>, << >>, FALSE), Disc(<<A, Ill, B>>, <<Ill>>, << >>, FALSE)}
  \cup {Strayed(Disc(files, <<E>>, << >>, TRUE)) : files \in {<<A>>, <<Long, B>>, <<E, Long>>}}

MCTranslated(name) ==
  CASE name = <<"A;1">> -> <<"a">> [] name = <<"B;1">> -> <<"b">> [] name = <<"C;1">> -> <<"c">>
    [] name = <<"E;1">> -> <<"e">> [] name = <<"I;1">> -> <<"i">> [] name = <<"D">> -> <<"d">>
    [] name = <<"DEEP">> -> <<"deep">> [] name = <<"MOVED">> -> <<"moved">> [] OTHER -> name

MCPaths == {<< >>, <<<<"d">>>>, <<<<"D">>>>, <<<<"moved">>>>, <<<<"d">>, <<"deep">>>>, <<<<"bb">>>>,
            <<<<"moved">>, <<"deep">>, <<"..">>>>, <<<<".">>, <<"a">>>>, <<<<"a">>, <<"a">>>>}
MCMasks == {[rock |-> TRUE, levels |-> l] : l \in {{}, {1, 2, 3}}}
           \cup {[rock |-> FALSE, levels |-> l] : l \in {{}, {3}}}

------------------------------------------------------------------------------
(* UDF images.                                                              *)

Partition(number, start) == [tag |-> "partition", number |-> number, start |-> start]
Volume(fsd) == [tag |-> "logvol", valid |-> TRUE, fsd |-> fsd]
OtherTag(tag) == [tag |-> tag]

Ad(pos, len) == [pos |-> pos, len |-> len]
File(flags, strategy, ads) ==
  [tag |-> "fe", type |-> "file", flags |-> flags, strategy |-> strategy, ads |-> ads, info |-> 0]
Lengths(fids) == FoldLeft(LAMBDA acc, f : acc + f.len, 0, fids)
UdfDir(pos, fids) ==
  [tag |-> "fe", type |-> "dir", flags |-> "long", strategy |-> 4,
   ads |-> <<Ad(pos, Lengths(fids))>>, info |-> Lengths(fids)]
Fid(name, len, dir, parent, icb) ==
  [name |-> name, len |-> len, dir |-> dir, parent |-> parent, icb |-> icb]
Names(fids) == [tag |-> "fids", fids |-> fids]

PlainFile == File("short", 4, <<Ad(20, 7)>>)

(* Partition 1 from sector 100: a root with two files and a directory of   *)
(* one; partition 2 from sector 200: an empty root.                        *)
InD(third) == <<Fid("..", 2, TRUE, TRUE, 2)>> \o third
InRoot(d) == <<Fid("..", 2, TRUE, TRUE, 2), Fid("f", 3, FALSE, FALSE, 4),
                      Fid("d", 3, d, FALSE, 5), Fid("g", 3, FALSE, FALSE, 6)>>
UdfBlocks(f, g, d, inD) ==
  100 + 1 :> [tag |-> "fsd", root |-> 2] @@ 100 + 2 :> UdfDir(3, InRoot(d))
  @@ 100 + 3 :> Names(InRoot(d)) @@ 100 + 4 :> f
  @@ 100 + 5 :> (IF d THEN UdfDir(7, InD(inD)) ELSE PlainFile) @@ 100 + 7 :> Names(InD(inD)) @@ 100 + 6 :> g
  @@ 200 + 1 :> [tag |-> "fsd", root |-> 2] @@ 200 + 2 :> UdfDir(3, InD(<< >>))
  @@ 200 + 3 :> Names(InD(<< >>))

Descriptors2 ==
  {<<OtherTag("primary"), Partition(1, 100), Volume(1), OtherTag("terminator")>>,
   <<Volume(1), OtherTag("primary"), Partition(1, 100), Partition(2, 200), OtherTag("terminator")>>,
   <<Partition(2, 200), Partition(1, 100), OtherTag("primary"), Volume(1), OtherTag("terminator")>>}

Pieces == File("long", 4, <<Ad(30, 4), Ad(40, 8), Ad(50, 3)>>)
MCUdfImages ==
  {[anchor |-> TRUE, mvds |-> m, blocks |-> UdfBlocks(PlainFile, Pieces, TRUE, <<Fid("f", 3, FALSE, FALSE, 6)>>)] :
     m \in Descriptors2}
  \cup {[anchor |-> TRUE, mvds |-> <<OtherTag("primary"), Partition(1, 100), Volume(1), OtherTag("end")>>,
         blocks |-> UdfBlocks(f, g, d, inD)] :
          f \in {Pieces, File("icb", 4, <<Ad(20, 4)>>)}, g \in {PlainFile, File("long", 4096, <<Ad(20, 4)>>)},
          d \in BOOLEAN, inD \in {<< >>, <<Fid("d", 3, TRUE, FALSE, 5), Fid("g", 4, FALSE, FALSE, 4)>>}}
  \cup {[anchor |-> TRUE, mvds |-> <<Partition(1, 100), OtherTag("primary")>>,
         blocks |-> UdfBlocks(PlainFile, Pieces, TRUE, << >>)]}

------------------------------------------------------------------------------
(* Files of forty sectors in each framing, the file system behind a lead.   *)
Framings == {[frame |-> 2048, head |-> 0, mode |-> "none"], [frame |-> 2352, head |-> 16, mode |-> "mode1"],
             [frame |-> 2352, head |-> 24, mode |-> "mode2"], [frame |-> 2336, head |-> 8, mode |-> "none"]}
Leads == {0, 8, 150, 300, 1000, 2000, 2352, 4000}
FuzzyFiles ==
  {[frame |-> s.frame, head |-> s.head, mode |-> s.mode, lead |-> l, ids |-> i, size |-> s.frame * 40 + l] :
     s \in Framings, l \in Leads, i \in {16 .. 17, 16 .. 18}}

VARIABLES system, file, iso, read, image, udf, ent, last, sole, block, given, said, asked,
          line, input, pc, code, run
isoVars == vars
fuzzyVars == <<file, iso, read>>
udfVars == <<image, udf, ent, last, sole>>
writerVars == <<block, given, said>>
programVars == <<line, input, pc, code, run>>

Fuzzy == INSTANCE FuzzyOpen WITH
  Files <- FuzzyFiles, Fuzz <- {1, 3, 16}, Sectors <- {0, 16, 17, 30}

Udf == INSTANCE UdfFileSystem WITH
  Images <- MCUdfImages, UDF_BLOCKSIZE <- BlockSize, Handles <- {1, 2}, Counts <- {0, 1, 2},
  Partitions <- {-1, 1, 2},
  Paths <- {<<"g">>, <<"d", "f">>, <<"d", "g">>, <<"f", "g">>, << >>, <<"d", "d", "g">>}

Writer == INSTANCE IsoWriter WITH
  ISO_BLOCKSIZE <- 128, MAX_ISOPATHNAME <- 12, NameMax <- 2, ExtMax <- 1,
  Files <- {[len |-> f[1], su |-> f[2], id |-> f, size |-> 9] : f \in {<<1, 0>>, <<12, 3>>, <<27, 0>>}},
  DirSizes <- {128, 256},
  TableEntries <- {[len |-> l, id |-> l] : l \in {1, 40}}, TableMax <- 4,
  Strings <- SeqOf({65, 46, 47, 97}, 5), Ids <- SeqOf({65, 32}, 5), Versions <- {1, 2, 11},
  FieldSize <- 4
(* A directory of the writer's, as the readers walk over it.                *)
Reader == INSTANCE IsoFileSystem WITH BlockSize <- 128

Part(kind, text, cont) == [kind |-> kind, text |-> text, cont |-> cont]
Parts == {Part("name", <<"a", "b", "c">>, FALSE), Part("name", <<"d">>, TRUE), Part("parent", << >>, FALSE),
          Part("current", << >>, FALSE), Part("root", << >>, FALSE)}
Entry(parts, cont) == [parts |-> parts, cont |-> cont]
Attributes == INSTANCE FileAttributes WITH
  Links <- {<<Entry(p, FALSE)>> : p \in SeqOf(Parts, 4) \ {<< >>}}
           \cup {<<Entry(p, TRUE), Entry(q, FALSE)>> : p, q \in SeqOf(Parts, 2) \ {<< >>}},
  Zones <- {-720, -210, 0, 15, 345, 780, 840}, TimeYears <- {70, 124, 255, 256},
  StampZones <- {-2047, 345}, UdfYears <- 1970 .. 2038, Seconds <- {0, 1, 59, 3661, 32767, 32768, 70000, 1000000000}

(* Command lines: ranges of sectors given in every way, by sources of one   *)
(* and of two options, and those that are refused; the options of the other *)
(* programs in all combinations.                                            *)
Unset == -4
Option(type, name) == [type |-> type, name |-> name]
CdRead(sources, rest, mode, start, end, num, hexdump, nohexdump) ==
  [program |-> "cd-read", sources |-> sources, rest |-> rest, mode |-> mode, start |-> start,
   end |-> end, num |-> num, hexdump |-> hexdump, nohexdump |-> nohexdump]
CdReadLines ==
  {CdRead(<<source>>, 0, mode, start, end, num, FALSE, FALSE) :
     source \in {Option("bin", "x"), Option("device", "y")}, mode \in {"any", "audio", "m1f1", "m2f2"},
     start \in {Unset, -1, 0, 1, 3}, end \in {Unset, 2, 3, 4}, num \in {-1, 0, 1, 2, 3, 4}}
  \cup {CdRead(s, rest, mode, 0, Unset, 2, h, n) :
     s \in {<< >>, <<Option("auto", ""), Option("bin", "x")>>, <<Option("cdrdao", "t"), Option("cue", "")>>,
            <<Option("nrg", "x"), Option("device", "y")>>, <<Option("device", "y")>>},
     rest \in 0 .. 2, mode \in {"uninit", "m1f2", "m2f1"}, h \in BOOLEAN, n \in BOOLEAN}
CdsRead ==
  {[kind |-> "image", leadout |-> 3, bad |-> {}]}
  \cup {[kind |-> "device", leadout |-> 4, bad |-> b] : b \in {{}, {1}, {0, 2}}}
IsoReadLines ==
  {[program |-> "iso-read", image |-> i, rest |-> r, extract |-> e, output |-> o, udf |-> u, ignore |-> k] :
     i, e, o, u, k \in BOOLEAN, r \in 0 .. 2}
IsoInfoLines ==
  {[program |-> "iso-info", input |-> i, rest |-> r, long |-> l, short |-> s, udf |-> u, norock |-> n] :
     i \in {"none", "bare", "named"}, r \in 0 .. 2, l, s, u, n \in BOOLEAN}
(* Files of no, one, two and three blocks, with blocks that cannot be read. *)
FilesRead ==
  {[udf |-> FALSE, extents |-> e, bad |-> b] : e \in {<<0>>, <<4>>, <<7>>, <<10>>}, b \in {{}, {0}, {1}, {2}}}
  \cup {[udf |-> TRUE, extents |-> e, bad |-> b] : e \in {<< >>, <<7>>, <<4, 8, 3>>}, b \in {{}, {1}, {3}}}
(* Trees of four directories, and of two more, deeper than the recursion    *)
(* goes; one with a directory in itself.                                    *)
Leaf(name, rock) == [name |-> name, dir |-> 0, rock |-> rock, dots |-> FALSE]
Branch(name, dir, rock) == [name |-> name, dir |-> dir, rock |-> rock, dots |-> FALSE]
Dot(name, dir) == [name |-> name, dir |-> dir, rock |-> FALSE, dots |-> TRUE]
Branches(dir, up, entries) == <<Dot(".", dir), Dot("..", up)>> \o entries
Tree(rock, loop, deep) ==
  <<Branches(1, 1, <<Leaf("F", rock), Branch("D", 2, rock), Leaf("g", rock), Branch("e", 3, rock)>>),
    Branches(2, 1, <<Leaf("g", rock), Branch("d", 4, FALSE), Leaf("h", rock)>>),
    Branches(3, 1, << >>),
    Branches(4, 2, <<Branch("x", deep, FALSE), Leaf("y", rock)>>),
    Branches(5, 4, <<Leaf("z", FALSE), Branch("w", 6, rock)>>),
    Branches(6, 5, <<Leaf("v", rock), Branch("l", loop, FALSE)>>)>>
TreesRead ==
  {[udf |-> deep = 0, dirs |-> Tree(rock, 0, deep), unreadable |-> u] :
     rock \in BOOLEAN, deep \in {0, 5}, u \in {{}, {2}, {4}, {3}}}
  \cup {[udf |-> FALSE, dirs |-> Tree(FALSE, 6, 5), unreadable |-> {}]}
InPlainForm(name) == CASE name = "F" -> "f" [] name = "D" -> "d" [] OTHER -> name

Programs == INSTANCE ReadPrograms WITH
  CdLines <- CdReadLines, CdSources <- CdsRead, InvalidLsn <- Unset, ReadLines <- IsoReadLines,
  Files <- FilesRead, Block <- BlockSize, InfoLines <- IsoInfoLines, Trees <- TreesRead,
  PlainName <- InPlainForm, MaxRecursion <- 4

FileSystemsInit ==
  /\ system \in {"iso", "fuzzy", "udf", "writer", "attributes", "programs"}
  /\ Init /\ (system # "iso" => disc = MCPlainDisc)
  /\ Fuzzy!Init /\ (system # "fuzzy" => file = CHOOSE f \in FuzzyFiles : TRUE)
  /\ Udf!Init /\ (system # "udf" => image = CHOOSE i \in MCUdfImages : TRUE)
  /\ Writer!Init /\ Attributes!Init
  /\ Programs!Init /\ (system # "programs" => line = CHOOSE l \in CdReadLines : TRUE)

OnIso == system = "iso" /\ Next /\ UNCHANGED <<system, fuzzyVars, udfVars, writerVars, asked, programVars>>
OnFuzzy == system = "fuzzy" /\ Fuzzy!Next /\ UNCHANGED <<system, isoVars, udfVars, writerVars, asked, programVars>>
OnUdf == system = "udf" /\ Udf!Next /\ UNCHANGED <<system, isoVars, fuzzyVars, writerVars, asked, programVars>>
OnWriter == system = "writer" /\ Writer!Next /\ UNCHANGED <<system, isoVars, fuzzyVars, udfVars, asked, programVars>>
OnAttributes ==
  /\ system = "attributes" /\ Attributes!Next
  /\ UNCHANGED <<system, isoVars, fuzzyVars, udfVars, writerVars, programVars>>
OnPrograms == system = "programs" /\ Programs!Next /\ UNCHANGED <<system, isoVars, fuzzyVars, udfVars, writerVars, asked>>

FileSystemsSpec ==
  FileSystemsInit /\ [][OnIso \/ OnFuzzy \/ OnUdf \/ OnWriter \/ OnAttributes \/ OnPrograms]_
                       <<system, isoVars, fuzzyVars, udfVars, writerVars, asked, programVars>>

(* Directories are read as they are written.  Each read directory has its   *)
(* entries as the disc has them (ListedAsWritten), and the walk of a reader *)
(* over a directory that the writer filled finds every entry once, in the   *)
(* order given and within one block (iso9660_dir_add_entry_su and           *)
(* iso9660_ifs_readdir); names, path tables and identifiers come back as    *)
(* they were given (WrittenAsGiven), and so do modes, links and times       *)
(* (AttributesAsWritten).  What cd-read and iso-read copy, and what iso-info *)
(* lists, is what is stored (CopiesAsAsked, ListedOnce).                    *)
WalkFindsGiven ==
  block.kind = "directory" =>
    LET found == Reader!Walk(block.ext, Writer!DirectorySize(block)).records
        kept  == IF said = Writer!Stopped THEN Front(given) ELSE given
    IN [i \in DOMAIN found |-> found[i].id] = [i \in DOMAIN kept |-> kept[i].id]
ReadAsWritten ==
  /\ ListedAsWritten /\ WalkFindsGiven /\ Writer!WrittenAsGiven /\ Attributes!AttributesAsWritten
  /\ Programs!CopiesAsAsked /\ Programs!ListedOnce

(* Once the file system is found in a file of unknown framing, every sector *)
(* is read from its own place: what was derived from where one descriptor   *)
(* was found holds for all sectors (iso9660_ifs_fuzzy_read_superblock).     *)
FuzzyReadsInPlace == Fuzzy!FuzzyReadsInPlace

(* A UDF directory that is walked to its end has given each of its          *)
(* identifiers once and in order, whatever was done with other entries, and *)
(* an opened path leads to the file that has it (udf_readdir, udf_fopen).   *)
(* Reading a UDF file block by block, with no other read or walk between,   *)
(* delivers its blocks in order over all its extents (udf_read_block).      *)
UdfReadInOrder == Udf!DirectoriesFollowed /\ Udf!FileReadInOrder
==============================================================================
