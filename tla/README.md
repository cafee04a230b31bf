# A verification project for libcdio

libcdio gives programs one interface to CDs and to images of CDs. This
directory holds TLA+ models of it, the TLC configurations that check them on
small instances, and theorems that TLAPS proves for every instance.
`PROJECT.json` is the machine-readable index: which definition stands for which
lines, which run checks what, which hazard each property is for.

Source paths below are relative to `src/`, so `lib/driver/track.c` is
`src/lib/driver/track.c`.

## 1. The system

### Components, their state and their operations

| Component | State it keeps | Operations | What makes it correct |
|---|---|---|---|
| Data source (`_cdio_stream.c`, `_cdio_stdio.c`) | `is_open`, the cached `position`; in the back end the `FILE` and `st_size` | open (lazy), read, seek, stat, getpos, close, destroy | each `FILE` closed once; the cache is the `FILE`'s offset; it behaves as a cursor over bytes |
| Handles (`device.c`, `cdio.c`) | `CdIo_last_driver`, `CdIo_driver[]`; per handle the driver, its environment, a descriptor | init, open, eject, close tray, destroy | no environment or descriptor leaked or released twice; the table filled once |
| Finding and opening drives (`device.c`, `_cdio_generic.c`, each driver's `get_devices`, `open_am`, `free`) | the list built so far; per open the source, descriptor, lock, pass-through device | list devices, default device, open in a mode, eject, close | each drive listed once; opens that fail leave nothing; exclusive opens exclude |
| Track queries (`track.c`) | the driver's table of contents | track of an LSN, first/last LSN, sector count | the answer is the track that spans the LSN; the search ends and stays inside the table |
| Addresses (`sector.c`, `util.c`) | none | LSN, LBA, MSF, BCD, text | conversions invert each other |
| BIN/CUE image (`image/bincue.c`, `image_common.c`) | `tocent[]`, `i_tracks`, `disc_mode`, strings; the read position `pos` | parse the sheet (dry run, load), seek, read, read sectors, free | the dry run accepts what the load accepts; the tracks are those of the sheet; reads store the bytes asked for |
| CDRDAO and NRG images (`image/cdrdao.c`, `image/nrg.c`) | the same, from a TOC file with a data source for each track, or from the chunks of a footer with a mapping list | as above | as above |
| Platform drivers (`gnu_linux.c`, `FreeBSD/*.c`, `netbsd.c`, `solaris.c`, `MSWindows/*.c`, `osx.c`) | the table of contents once read, track flags, access mode; the drive's block size | getters, sector reads, disc mode, last LSN, access mode, eject | one consistent table; reads land in place in every access mode; the drive is left as it was found |
| Audio control (`audio.c` and the drivers) | none; the drive plays | play MSF, index or tracks, pause, resume, stop, subchannel, volume | what plays is what was asked for |
| MMC (`mmc/*.c`) | sense data of the last command | build and run commands | two-step calls answer of one disc; the sense data are the last command's |
| CD-Text (`cdtext.c`, `_cdio_generic.c`) | fields per block, track and kind; an error flag | read and decode packs, select, get | every field is the one that was written |
| Disc kinds (`cd_types.c`, `src/cd-info.c`, `src/cdinfo-linux.c`) | static buffers of blocks | guess, search with capabilities, analyse tracks and sessions | what is told is on the disc, in the track asked about |
| ISO 9660 (`lib/iso9660`) | volume descriptors, Joliet level, framing, the entry of a file in several extents | open (also fuzzily), stat, readdir, find LSN, read; write records, path tables, names; attributes, links, times | every entry listed once and found; extents add up; what is written reads back |
| UDF (`lib/udf`) | partition and file set, directory cursor, file position | open, root, readdir, opendir, fopen, read blocks, close | the cursor covers the directory; a file's blocks come in order |
| CD player (`src/cdda-player.c`) | table read, range, modes; the call stack | keys, options, main loop | what plays is what was asked for; a stopped CD stays quiet |
| Programs (`src/cd-read.c`, `src/iso-read.c`, `src/iso-info.c`) | options; how far the copy or the listing is | parse, open, copy or list, exit | the range asked for, block after block; a whole file; each entry once |
| Lists, logging, C++ wrappers, other programs, AIX | | | section 6 |

### How they interact

Everything is a call in the caller's thread; there are no threads, locks or
callbacks inside the library except the log handler, and drivers are reached
through the function table `p_cdio->op`. `cdio_read_*` (`read.c`) checks the LSN
against the leadout, which is a track query on the driver's table, and passes
the read to the driver; an image driver turns it into seeks and reads of its
data source, a device driver into ioctls or MMC commands. The generic environment
(`generic_img_private_t`) is the first member of every driver's own, so the
generic getters and the driver share the table of contents, the CD-Text and the
sense data. The ISO 9660 and UDF libraries read through a handle or through a
data source. The actors that are really concurrent are outside: the user who
changes the disc and plugs in drives, another process that opens the same
drive, and the drive and the C library, which may fail any request.

### What is hard

* **State cached in two places.** The stream's position and the `FILE`'s; the
  image's `pos` and the stream's position, which sector reads move as well; the
  table of contents, the CD-Text or the player's range and the disc that is in
  the drive now; the UDF directory cursor and its buffer.
* **Partial failure.** A table read half way, a read that stops short, a sheet
  refused half way, an eject whose reopen fails, the three commands of READ_10,
  an open that fails after the lock was taken, a text of which a pack is lost.
* **Order of calls.** close, read again, destroy; eject, destroy; a seek between
  sector reads; `cdio_destroy(NULL)` with other handles open; a key pressed while
  the table is read anew inside another key's call.
* **Calls that are several commands.** The disc, the tray or the drive's name may
  change between any two of them.
* **Boundaries.** 8-bit track numbers with three special values, the leadout that
  is an entry but not a track, the first track not being number 1, addresses
  before the pre-gap, the boundary of two tracks with different layouts,
  directory records at the end of a block, files in several extents.

`PROJECT.json` lists each at its line under `hazards`, with the property that
would catch it.

## 2. The modules

Where a definition has the name of a C variable or field it stands for it.
Data is abstracted to where it comes from: a byte is its offset in the
file, a sector's data the sector and part it was read from, a table entry the
track and disc, a string the number of the line that allocated it. cdio's
default log handler ends the process on `cdio_error`; the models take a handler
that returns, as the library's own programs install.

**DataSource, ByteCursor.** `DataSource` has one action for each call of the
stream object, with the stdio back end inlined: `Read` = `cdio_stream_read` →
`_cdio_stream_open_if_necessary` → `_stdio_open`, `_stdio_read`. `files` counts
`fopen` minus `fclose`. `fopen`, `fseek` and `fread` fail or stop short as they
like. `ByteCursor` is the abstract specification: a position and the bytes a
call delivers. `ImplementsByteCursor` is `Cursor!Spec` under the mapping `Abs`.

**CdioHandle.** The variables of the program that hold `CdIo_t` pointers, each
with its driver, a count of environments (`envs`), the descriptor, and a count of
`open` minus `close` (`opens`). `OpenAm` is `cdio_open_am` with
`scan_for_driver`: it inits the driver table, tries candidates in turn, and each
may refuse. `EjectMedia` has the exits of `eject_media_linux` and of
`_eject_media_image`.

**DriveAccess.** A machine of one of six platforms has units (CD drives or not)
and names for them; a name is a class of node and a number, and may be a link.
`Search` is `cdio_get_devices` or `cdio_get_default_device` over the platform's
`get_devices`, one step for each name looked at, each looked up at that
moment. An open goes through stages (`at`), one action each, and `held` has what
it holds by then: environment, source string, device, descriptor, lock, exclusive
flag, CAM device. Two processes, `mine` and `rival`, open; drives are plugged in
and out between any two steps. A directory lists its nodes in an order of its own,
which only the set of them determines. `RealMachine` says what any machine is like,
whatever its names and links: finitely many names, of the platform's classes, each of
one unit, and a mount table that mounts no other kind of node as a CD.

**TrackLookup.** `cdio_get_track`'s binary search, one step a probe, with `U8`
truncation of `track_t`; last LSN, sector count and the MSF of a track's start are
single steps. The table is that of an image driver; the MSF is `MsfAddress`'s.

**MsfAddress.** The conversions as operators on integers and BCD bytes, printing
and parsing on sequences of digit sequences.

**CueSheet.** `ParseLine` is one iteration of `parse_cuefile`'s loop, with one
action for each keyword. The lines of the dry run (`cdio_is_cuefile`) are chosen
one at a time and kept in `sheet`; the load reads the same lines again and fills
`img`. `LoadEnds` is the end of `_init_bincue` with the faked leadout, `FreeImage`
is `_free_image`. `leaked` has the strings that nothing points at any more.

**ImageRead.** An image as CueSheet left it, with a sector scaled down from 2352
bytes to six; MODE2/2048 and MODE2/2324 tracks, for which the sheet's parser sets no
layout, are empty tracks (`datasize` 0). `Lseek` is `_lseek_bincue`; `Read` starts `_read_bincue` and `Turn`
is one iteration of its loop, which goes on into the leadout's entry of `tocent` and
the empty entries behind it until the table ends; the sector reads are `read.c`'s checks followed by
the routines of `bincue.c` or `read_data_sectors_image`. The data source is taken
to behave as `ByteCursor` says, which `DataSource` shows.

**CdrdaoToc.** A TOC's lines are parsed one at a time, in the dry run of
`cdio_is_tocfile` and again in the load; each track has a data source of its own.
Files may be found from the current directory, from beside the TOC, from both.
Then seeks and sector reads on the tracks that were loaded.

**NrgImage.** `Walk` is one iteration of `parse_nrg`'s loop over the footer, or its
end, which computes the leadout, in the probe and again in the load; chunks fill
the mapping list and `tocent`. The sector reads walk the mapping.

**LinuxDevice.** `read_toc_linux` ioctl by ioctl, the getters (`Call`, `Answer`),
the sector reads of `_read_mode1_sectors_linux` and of `_read_mode2_sector_linux`
with its access modes, `SetAccessMode`, which is `set_arg_linux`. `Swap` is the
user, who may act between any two ioctls. `seen` is a history variable, the discs
since the header of the reading was read. A command that fails is taken to move
no data.

**DriveModel, PlatformDevice, FreeBsdDriver, NetBsdDriver, SolarisDriver,
Win32Driver, OsxDriver.** `DriveModel` is the disc as a drive describes it, the
environment, and the loops by which a request becomes commands. Each driver
module has the operators of its platform: reading the table, the start, format
and green flag of a track, the sector reads in each access mode, disc mode, last
LSN. `PlatformDevice` has the calls of the library over whichever driver was
built, any command failing. `Win32Driver` has ASPI as its third way to the drive, and
a pass-through ioctl of it fails when the drive refuses the command. `PlatformConstants`
is what any disc is like: it has a track, and its numbers fit the table.

**AudioControl.** The calls of `audio.c`, with close tray and last session, one
ioctl each by each platform's routine; the drive plays on by itself.

**MmcDevice.** A drive with tray, door lock, attention and event; a call is one
command or several, with the sense data kept as each transport keeps them.
`said` has the last answer. The transport of GNU/Linux has the disc mode as well
(`get_discmode_linux`), three commands of its own: the DVD's book, the full table of
contents, the drive's status.

**CdText.** A disc's texts are put into packs as they are on a disc (`PacksOf`);
`ReadPack` is one turn of `cdtext_data_init`'s loop, and the
environment keeps the result and the error.

**DiscKinds.** `cdio_guess_cd_type` one block read at a time over static buffers
that stay; `cdio_get_devices_with_cap_ret`; and `cd-info`'s walk over tracks,
sessions and directories on top of them. `cdinfo-linux` is a task of its own, with its
older guess (`guess_filesystem`), its list of tracks, one ioctl each, and its walk.

**IsoFileSystem.** `MCFileSystems` lays lists of files out as
directory records in blocks of four units, with ill records, continuations and
deep directories, and keeps the list beside them. `IsoFileSystem` has the choice
of descriptor (`OpenImage`, `ReadSuperblock`, `OpenDisc`), the walks of stat, readdir and find LSN, each as its own
loop written as a fold over the records, for images and for discs.

**FuzzyOpen.** `iso9660_open_fuzzy`: the search through frames of three sizes, what
is derived from where the identifier was found, then reads of sectors.

**UdfFileSystem.** Open, root, `Readdir` entry by entry with the directory's
buffer, opendir, fopen, block reads with the shared position, freeing.

**IsoWriter.** A program fills blocks with directory records
(`iso9660_dir_add_entry_su`), path tables, and names; the run reads the
directories back with the walk of `IsoFileSystem`.

**FileAttributes.** XA attributes, Rock Ridge modes and link text with the memory
it grows in, UDF modes, `ls -l` strings, and dates and stamps.

**ReadPrograms.** `cd-read`, `iso-read` and `iso-info` from the command line to the exit
code: what each makes of its options, what it opens, then a sector, a block or a
directory at a time. What the library gives them is chosen: sectors that cannot be
read, where a file lies, a tree of directories with some that cannot be read.

**CdPlayer.** The main loop and the functions that keys and options call. The
functions call one another, read the table anew and start playing inside a call,
so the program is a stack (`todo`) of what is still to be done; each action takes
the top and may push. A read of the drive's status or table may fail, a hand may
change the disc, and the drive plays on, between any two steps.

### How they compose

`MCCdioHandle`, `MCDrives`, `MCOtherImages`, `MCFileSystems`, `MCDiscData` and
`MCCdPlayer` put several systems side by side with a variable that says which one
a behaviour goes through (`side`, `platform`, `format`, `system`, `subject`), as a
program is built for one platform and opens one kind of image. The modules of one
such run are not independent: `PlatformDevice` uses the drivers over `DriveModel`;
`IsoWriter`'s directories are read by `IsoFileSystem`; the player's drive is that of
`AudioControl`'s calls; the tables of `ImageRead` and `TrackLookup` are those that
`CueSheet` can load; `ImageRead`'s source is the cursor that `DataSource` refines.
Only `ReadPrograms`, in `MCFileSystems`, has files and trees of its own. The discs,
drives, machines and bounds of `MCCdioHandle`, `MCDrives`, `MCDiscData` and
`MCCdPlayer` are constants that the `.cfg` gives, so that theorems about the composed
specifications are about any of them.

## 3. The runs

| Run | What it shows | Bounds |
|---|---|---|
| `data_source` | `OneFilePerOpenStream`, `PositionIsFileOffset`, refinement of `ByteCursor`, for every order of calls | file of 5 bytes, reads of 0..5 with a limit of 4, seeks before, in, at the end of and past the file |
| `handle_life` | `EnvOwned`, `DescriptorsBalance`, `RegistryFilledOnce`, `EjectFreesOrKeeps` for handles; `DrivesFound`, `HandlesHold`, `AccessEnds` for drives | two handle variables, two device and two image drivers, so that one handle's calls meet the other's and a refusal is followed by another candidate; eleven machines of two units on six platforms, with links, gaps in the numbers, a mounted node, supermount, vold, ASPI |
| `track_lookup` | `AnswersSpanningTrack`, `ProbesInsideTable`, `LookupTerminates` | up to four tracks (every parity of the bounds), first track 1 or 96 so that the numbers end at 99; gaps of one and several sectors |
| `cue_sheet` | `LoadedAsWritten`, `ProbeAgreesWithLoad`, `TracksDoNotOverlap`, `OnlySupersededStringsLeak` | every sheet of up to five of 31 lines: two tracks with their INDEX lines and one line more, or any keyword anywhere |
| `image_read` | `SectorReadsInPlace`, `ReadAfterSeek`, `ReadEnds` | images of one to three tracks, of one layout and of several, one whose track does not count all its sectors and one that begins before its first track; images that have an empty track alone, first or last; reads across two sectors, into the next track, and of more bytes than the image holds |
| `other_images` | `RefusedForItsFiles`, `SectorsComeFromTheirTrack` | TOCs with a head, one or two tracks and a tail, each keyword well and badly formed somewhere; sectors of twelve bytes; NRG footers with each kind of chunk |
| `disc_data` | `MsfNamesLsn`, `PrintedIsParsed`, `TextReadAsWritten`, `CommandsOfOneDisc`, `KindsAsOnDisc` | LSNs around each place where a conversion changes; texts of up to four fields of up to three digits; packs of three characters with strings that end in, at and after a pack, in two languages; eight transports, two discs; a disc of each kind and with each block missing, and discs of several sessions, for `cd-info`, `cdinfo-linux` and searches of two drives |
| `drives` | `TableOfOneReading`, `BlockSizeKnown`, `TableAnswersForDisc`, `SectorsAsAsked`, `TableNeverChanges`, `CallsEnd` | GNU/Linux: two discs whose numbers overlap and start differently, reads of one or two sectors, any ioctl failing; other platforms: five discs of one to three tracks that start at track 1, 2 or 4, reads of up to three blocks that start behind a boundary of tracks, before the leadout and past it, up to six commands |
| `file_systems` | `ReadAsWritten`, `ListedIsFound`, `FuzzyReadsInPlace`, `UdfReadInOrder`; `ReadAsWritten` includes `CopiesAsAsked` and `ListedOnce` of the programs | blocks of four units with records of one to three, and a stray record across the end of a block; files of forty sectors in four framings behind eight leads; UDF with files of one and three extents and two partitions, reads of none, one or two blocks that may fail; written blocks of 128 bytes; programs: ranges around the first sector and the leadout with sectors that fail, files of several extents that end in a block and at its end, trees deeper than the listing follows |
| `player` | `PlayingAsAsked`, `QuietOnceStopped`, `AutoEjects` | a disc of two tracks, two keys, one change by hand, one fault, a stack of at most 14; audio calls on seven platforms over discs of one and two sessions |
| `image_eject`, `mode2_form2` | disagreements, see section 5 | those of `handle_life` and `other_images` |

Notes on the bounds and on what properties leave out:

* The bounds are chosen so that each case can happen twice where a second time
  differs: two handles, two tracks with a boundary, two discs, two languages, a read
  of two sectors. Everything that is counted in the code beyond that (99 tracks, 2352
  bytes, 2048-byte blocks, 8 languages) is a constant of the modules.
* `MaxLba` of `ImageRead` bounds where a read may start, not how far it goes: a read
  runs on through empty tracks and the leadout's entry up to the end of `tocent`
  (`Entries`), where the model stops, since the loop then reads memory that is not the
  table's. A read after a failed seek, with fewer than no bytes left of its sector
  (`Rem >= 0`), is left out. `MaxBlocks`, `MaxCommands` and `MaxEntry` bound the other drivers'
  requests, `MaxDepth`, `MaxKeys`, `MaxHands` and `MaxFaults` the player. The stack of
  the player needs a bound because `read_toc` and `play_track` may call each other
  without end (section 5).
* `handle_life` makes searches only while no handle is open or being opened (`Apart`
  in `MCCdioHandle`); neither changes what the other looks at. The rival opens one
  drive, in the exclusive mode, under GNU/Linux and FreeBSD, which have such a mode.
* `ReadAfterSeek` leaves out seeks to the first byte of a track that follows one
  of another layout, and offsets beyond a track that does not count all its sectors or
  in an image that begins before its first track (`Counted`); `LoadedAsWritten` the last track's count on discs whose
  first track is not number 1 and the disc mode of MODE2/2336 tracks: there the code
  does something else (section 5).
* `ReadEnds` says that `_read_bincue` returns or has gone past the last track, where the
  entries are empty and it does not return; and that it returns when the sectors between
  where it stands and the leadout's entry hold what is left to read, whichever of the
  tracks ahead they are in (`DataAhead`). An empty track at which a read starts, or that
  it passes through, is among the images.
* `EnvOwned` leaves out the environment of an image that was ejected, which
  `image_eject` is about; `HandlesHold` handles whose eject failed, since
  `eject_media_linux` opens the drive again without `O_EXCL`.
* `ImplementsByteCursor` and `PositionIsFileOffset` are for seeks from the start
  of the file that do not fail (`Whences = {"SEEK_SET"}`, `SeekMayFail = FALSE`).
* `SectorsAsAsked` leaves out reads after which the block size could not be set back
  (GNU/Linux), form 2 sectors where the driver stores them shifted, data sectors of
  OS X in the wrong unit, and tables that do not tell the leadout (`LeadoutKnown`): one
  that is indexed wrongly makes read.c cut a request at some other sector; `TableAnswersForDisc` discs whose first track is not 1 on
  platforms that index their table wrongly; `PlayingAsAsked` play-tracks on FreeBSD
  and the subchannel addresses of Solaris, the player's play after a stop, which
  forgets the number of the last track, and the option that names the tracks to play.
  Each of these but the last is listed in section 5.
* `ListedIsFound` is for discs without ill records, at which a lookup gives up, and
  without records across the end of a block, where it hops on within the next one.
* `CHECK_DEADLOCK FALSE` is said of `cue_sheet`, `other_images`, `disc_data` and
  `player`: parses, walks and programs that end; and of `image_read`, where a seek that
  divides by 0 ends the program and a read may leave the table.

**Fairness.** Weak fairness on the steps of a call that has started (`Probe \/ Found`,
`LastTurn \/ Turn`, LinuxDevice's `Calls`, `SearchStep`, `OpenStep(c)`), and on the
player's `Calls \/ Main`: the caller's thread runs it, and waits in the code time out.
`PlayOn` is fair as well: a disc that plays goes on turning. None is assumed of the
caller, who need not make another call, of the user, of the other process or of faults.

## 4. The theorems

All are about the unbounded modules, under the named assumptions on constants,
which the runs evaluate. LSNs, files, discs, drivers, machines and handles are
arbitrary.

| Module | Theorem | Argument |
|---|---|---|
| `DataSourceProofs` | `TypeCorrect`, `FilesBalance`: `[]OneFilePerOpenStream` | the type invariant with the balance is inductive: `files` follows `is_open` |
| | `PositionExact`: `[]PositionIsFileOffset` | `Inv` adds that a file that is closed is at the position it will have once opened; needs `Whences = {"SEEK_SET"}` and no failing seek |
| | `Refinement`: `Spec => ImplementsByteCursor` | each action maps to the cursor's action of the same call, or to a stutter; the seek that is not passed on by `PositionIsFileOffset` |
| `CdioHandleProofs` | `RegistryIsFilledOnce`, `EnvironmentsBalance`: `[]EnvOwned`, `EveryDescriptorClosedOnce` | the counter's invariant relates it to the table's count; `EnvOwned` and `DescriptorsBalance` are inductive together with types, by cases on the exits of eject |
| | `EjectsFreeOrKeep`: `EjectFreesOrKeeps` | from the same invariant: `last` records an eject of a variable only in `EjectMedia` of it |
| | `OpensLeaveNothing`: `[]Access!HandlesHold` | `HInv`: `Stage` says, for each stage of an open, what may be held there and what must be; `Alone`, that what only one process may hold of a drive is held by one. Assumes that machines are of the six platforms (`KnownMachines`) |
| | `SearchesFindTheDrives`: `[]Access!DrivesFound` | `CallInv`: every drive that stays and can be relied on is on the list, is the one held in the hand, or has a name still to be looked at (`Complete`, over `Accounted`); what is on the list was once there (`Good`) and stands there once (`NoTwice`); the names still to be looked at are in their order (`InOrder`). A directory's listing has every node by the pigeonhole principle (`SequenceOfSet`). Assumes `RealMachines`, which `handle_life` evaluates for its eleven |
| | `SidesHandlesHold`: `[]HandlesHold`, `SidesDrivesFound`: `[]DrivesFound` | the two before, over the composed specification of `handle_life` |
| `ImageReadProofs` | `ImageSectorsInPlace`: `[]SectorReadsInPlace` | the data of a track are pieces of one size put one behind the other, and so is what a read stores: a row of pieces is a function of the place, found by division (`FlattenOfPieces`), and some of its pieces are a part of it (`FlattenOfSome`). A track begins where its start says (`TracksBegin`) and a sector is in one track (`OneTrack`). The property is about images of raw sectors that reach to where their last track starts (`OfRawSectors` in its premise); of other layouts the routines read something else (section 5). Nothing is assumed of `Images` but `IsImage`. The invariant (`InPlace`) adds that a read that is under way is none of sectors |
| | `SeeksReadInPlace`: `[]ReadAfterSeek` | the image's data are sequences of any lengths put one behind the other, so each byte has a place behind the parts before it (`FlattenOfParts`, `ImageDataIs`): in the file and in the data the bytes of a sector follow one another (`InSector`). A seek adds up what the tracks before come to; these sums are the places of the tracks where they count all their sectors (`TracksCounted`), and division by the size of a sector's data finds the sector (`SeekPlace`). `InOrder`: after a seek, and while a read from there has not yet gone round, the file is where `_lseek_bincue` placed it (`Placed`). `OfRawSectors` is in the premise here too |
| `DiscDataProofs` | `LookupCorrect`: `[]AnswersSpanningTrack`, `ProbesStayInside` | `SearchInv`: tracks below `low` start before the LSN and those above `high` after, except after an exact hit, where the bounds are two apart around it; needs increasing starts |
| | `LastSectorInTrack` | the next entry's start is larger, by increasing starts |
| | `TrackMsfNamesStart`: `[]MsfNamesTrack` | the conversion of the entry's start, by `AddressesNameSectors`' arithmetic, for every table |
| | `AddressesNameSectors`: `[]MsfNamesLsn`, `AddressesWellFormed` | arithmetic of division, with the range of each field |
| | `PrintedAddressesParse`: `[]PrintedIsParsed` | `Number`, the value of a sequence of digits, satisfies its recursive equation at each length (there would be a shortest counterexample), and a printed field has two digits |
| | `CommandsAnswerForOneDisc`: `Mmc!Spec => []Mmc!CommandsOfOneDisc` | `MInv` says of a call in progress what it has read so far (`ReadSoFar`, `Queried`, `Capable`): the disc it was read from lies in the drive still, or the next command will fail, for the drive reports the change first (`Steady`). `CommandsAnswerOfOneDisc`, `[]CommandsOfOneDisc` of the run's specification, follows, for the other tasks leave the drive alone. Under `MmcConstants`, which `disc_data` evaluates |
| | `GuessesTellOfTheirTrack`: `[]Kinds!ToldOfItsTrack`, a part of `KindsAsOnDisc` | `GuessInv`: at each step of a guess the static buffers that it will still look at hold the blocks of its own track, read since it began (`HoldsBlock`), and what it has found so far, and the analysis, are so on the disc (`Told`, `AnalysisOf`). For both guesses; one lemma for each block read |
| | `SearchesFindAsAsked`: `[]Kinds!FoundAsAsked`, another part | `FoundInv`: what was found is on the list searched and satisfies the request; the guess under way is of the drive at the head of the list. With `GuessInv`, as a drive is judged by its guess (`FitsSatisfies`). Under `KindConstants`, which `disc_data` evaluates |
| `CueSheetProofs` | `CueSheetInvariant`, with `LoadedAsWrittenHolds`, `ProbeAgreesWithLoadHolds`, `TracksDoNotOverlapHolds`, `OnlySupersededStringsLeakHolds` | the properties speak of an open image and its sheet; `IInv` says the same of a half filled image and the lines read so far, field by field (`EntriesAsRead`, `StringsAsRead`, `TitlesAsRead`, `CountsAsRead`, `ModeAsRead`). One lemma turns every action into what its line does to each field (`LoadedLine`, to `LineRead`), and one lemma per conjunct carries it over a line. That the load rejects no line needs `SheetAccepted`: the dry run took the same line at the same place |
| `CdrdaoTocProofs` | `LoadRefusesForFiles`: `[]RefusedForItsFiles` | the dry run accepts a line by what stands in it and by whether a TRACK line came before (`TrackSeen`); the invariant keeps this for the lines read, and each action gives one of three outcomes (`Outcome`): the line is taken, refused as the dry run would have, or refused for its file |
| | `DataSectorsInPlace`: `[]SectorsInPlace`, the CDRDAO part of `SectorsComeFromTheirTrack` | with the types of the image, the place of each byte stored, by division through the size of a sector (`DataBufferInPlace`) |
| `LinuxDeviceProofs` | `TypeCorrect`, `TableIsWhole`: `[]TableOfOneReading`, `TableIsKept`: `TableNeverChanges` | `Reading` says what has been read after each ioctl (`EntriesRead`), that the disc is among those `seen`, and that a reading starts only without a table |
| | `BlockSizeIsKnown`: `[]BlockSizeKnown` | `SelectInv`: between the MODE SELECT and the restore the mode is READ_10, and a restore that fails ends it |
| | `TableAnswers`: `[]AnswersFromTable`, the GNU/Linux part of `TableAnswersForDisc` | `AskedInv`: a call in progress has no answer yet, and its operation is one that the step it is at is for |
| | `RetriesReadInPlace`: `[]Mode2ReadsAskedSectors`, the GNU/Linux part of `SectorsAsAsked` | `RetryInv`: what has been stored so far is the beginning of what was asked for, and each retry starts again from nothing; with `AskedInv` and `SelectInv` |
| | `ReadsFillTheBuffer`: `[]SectorsAsAsked` of `drives`, with `StartsOfTheDisc`, `Other!TableAnswersForDisc` of the other platforms | for GNU/Linux the invariant of `RetriesReadInPlace`; for the others `EnvInv`: a table that counts as read has each track's entry, and the leadout's, in its place (`Whole`), on platforms and discs that are `Indexed`. One lemma per platform for reading the table (`FreeBSDToc` ... `OSXToc`), for the getter of a start (`LbaRight`), and for each loop of commands, whichever command fails (`WaysOf...`): one that reports success has stored every sector in place. Under `PlatformConstants`, which `drives` evaluates |
| `CdPlayerProofs` | `StaysStopped`: `QuietOnceStopped` | an invariant about the stack (`StackQuiet`): the calls that wait below the top are to be made by the loop, and when the CD was stopped none of the stack's operations is one that may play (`Ops(todo) \subseteq QuietOps`); every action replaces the top by calls of which this holds |
| | `PlaysWholeTracks`: `[]PlaysToTheLeadout`, the player's part of `PlayingAsAsked` | what is on the stack asks for the last entry of the table, or was clamped to entries that it has (`Asked`), as `flags.cd` vouches for the table (`Vouched`) until `read_toc` fails; so a command that is given goes from the start of a track to the leadout, and what follows does not move it. For the keys and every option but `-t`, which is given its own end, and the one to stop |
| | `CallsPlayAsAsked`: `Audio!Spec => []Audio!PlayingAsAsked`, the other part of it | `PlaysInside`: what is paused lies inside of what was asked for as well, and FreeBSD's kept table is one of a disc; an address that goes through BCD comes back (`ThereAndBack`). Stated of an instance of `AudioControl`, under `AudioConstants`, which `player` evaluates |
| | `PlaysAsAsked`: `[]PlayingAsAsked` of `player` | the two before, over the composed specification: the side that is not taken stays as it began |

Where a proof module is about several modules, they are instances in it or in the
MC module it extends (`Access`, `Mmc`, `Kinds`, `Other`, `Audio`).

What the library says about induction is stated for an operator that the provers cannot
instantiate; where a proof goes by induction over numbers (`Number`, the first line of a
mount table, the first INDEX of a track, `FlattenSeq`, `Begin`, `SumBefore`), it takes the least counterexample instead, which
exists because the order of the naturals is well-founded.

Only model-checked, and why:

* `LookupTerminates`, `ReadEnds`, `CallsEnd`, `AccessEnds`, `AutoEjects`: liveness, which
  needs fairness.
* The properties of `NrgImage`, `IsoFileSystem`, `FuzzyOpen`, `UdfFileSystem`, `CdText`,
  `FileAttributes`, `ReadPrograms` and the writer: what they say compares the whole of a
  sequence of records, chunks, packs or blocks with what was laid out, so a proof would
  be by induction over data with folds on both sides, and the walks of `IsoFileSystem`
  are recursive operators.
* Three of the five parts of `KindsAsOnDisc` (`SessionsReported`, `DirectoriesListed`,
  `IdTellsLength`) compare a whole report with the tracks and the tree of the disc, and
  `IdTellsLength` sums over all tracks; the NRG part of `SectorsComeFromTheirTrack` the walk
  over a mapping list of any length: induction over data again.
* Of the other platforms' `TableAnswersForDisc` the format, the disc mode, the last LSN and
  the green flag. The disc mode is a fold over the tracks of a table; the others depend on
  flags and formats of entries that a reading which fails leaves from before, for which
  no invariant was stated.

## 5. Where code and words differ

With a run that shows it:

* `image_eject`: ejecting an image frees the environment, reports "unsupported", and the
  handle stays (`lib/driver/image_common.c:48`).
* `mode2_form2`: `_read_mode2_sectors_cdrdao` reads form 2 sectors of 2336 bytes to
  places that are 2048 bytes apart, so that all but the last lose
  their tail (`lib/driver/image/cdrdao.c:1137`).

Seen while modelling, in the models as the code has it, without a run of their own.

Streams, handles, tracks, addresses:

* `_cdio_stream.c:190` compares any offset with the cached position, also one that is
  relative (comment at 168); line 194 sets `position` before the seek that may fail, so
  that the same call tried again succeeds without moving.
* `device.c:399`: `cdio_close_tray` never writes the driver it found to its out-parameter.
* `track.c:416`: `cdio_get_track_sec_count` compares a track number with the number of
  tracks; `track.c:196`: where two tracks start at one sector the search answers
  whichever it probes.
* `sector.c:240`: `cdio_mmssff_to_lba` returns -1, an LBA, for a text without frames;
  `sector.c:82`: LSNs from 449850 share the MSFs of minute 99.

Images:

* `bincue.c:442`: the string of a FILE line that no TRACK follows, and of repeated
  CATALOG, FILE and ISRC lines, is not freed (`OnlySupersededStringsLeak` says that
  no other is lost).
* `bincue.c:576`: MODE2 layouts do not add up to the block, against `image.h:80`;
  `bincue.c:582`: MODE2/2336 sets the disc mode of a form 1 disc, and a second test of
  the same word (line 643) is never reached.
* `bincue.c:128`: the last track's `sec_count` is set in another entry unless the
  first track is number 1; `bincue.c:158`: an offset at the start of a track is resolved
  with the track before; `bincue.c:204`: `_read_bincue` leaves `buff_offset` where it
  was after the last part of a read (against `read.c:92`).
* `bincue.c:597` and 620: MODE2/2048 and MODE2/2324 tracks are given no layout, so that
  their `datasize` stays 0. A seek to offset 0 then divides by 0 when the first track is
  one (`bincue.c:159`); a read goes round the loop of `_read_bincue` without taking
  anything (`rem` is 0 at line 200) on to the next track, and past the last track, as
  does any read of more than the image still holds, through the leadout's entry and off
  the table (line 227) without returning.
* `bincue.c:943`: a sector read that reads nothing, as at the leadout, succeeds;
  `bincue.c:922`: a failing audio read returns 1; `bincue.c:936`: sectors of MODE1/2048
  tracks are read as whole raw sectors.
* CDRDAO: a DATAFILE before its TRACK's mode divides by 0 (`cdrdao.c:844`), one whose
  offset is beyond the file gives a negative leadout, reads of a TOC of several files use
  the first track's file, and a load that fails leaks what it had.
* NRG: a footer without a track chunk writes the entry before the first; a second CUE or
  ETN chunk stops the program in an assertion; sectors of 2048-byte blocks
  are handed over from sixteen bytes into what was read (`nrg.c:988`, 1002).

Drives:

* `gnu_linux.c:663`: after a table could not be read, `get_track_msf_linux` succeeds
  with blank entries for track 0 and the leadout; `gnu_linux.c:994`: a restore of the
  block size that fails after a good read leads to a retry from the overwritten buffer;
  `gnu_linux.c:1062`: `_read_mode1_sectors_linux` stops at the first sector, taking its
  byte count for an error; `gnu_linux.c:1390`: `set_arg` of "access-mode" converts the
  key, not the value.
* `get_disc_last_lsn_solaris` (`solaris.c:616`) and `get_disc_last_lsn_freebsd_ioctl`
  (`FreeBSD/freebsd_ioctl.c:148`) end the program when the ioctl fails. OS X answers an LBA.
* `disc.c:153`: `cdio_is_discmode_dvd` is false for HD DVD and double-layer media. A CD-i
  track makes the disc mode an error on Win32 and Solaris. Most drivers take the
  copy-permission bit of the control field for "green"; OS X takes data tracks.
* FreeBSD: the loop over tracks (`FreeBSD/freebsd.c:286`) reads too few when the first is
  not 1, so that a read past the end of such a disc is not cut at its leadout; mode 2 form 1 reads go to a local buffer; the block size set for 2352-byte
  sectors is not put back; `play_track_index` adds the pre-gap twice and plays up to the
  start of its last track (`FreeBSD/freebsd.c:372`); an open that fails leaks `device`.
* NetBSD: `get_track_msf` returns true with an unset MSF, mode 1 reads stop after the
  first sector, the last LSN is computed from BCD bytes.
* Solaris: a disc whose first track is not 1 cannot be read; eject never ejects; the
  subchannel's addresses are asked for in a format that is never set (`solaris.c:203`).
* Win32: the full TOC stores at `POINT - 1` whatever the first track, form 2 sectors are
  shifted by eight bytes (`MSWindows/win32_ioctl.c:873`), a failed open is tested
  against another value than it returns; ASPI goes on after the second TOC command
  failed (`MSWindows/aspi32.c:707`).
* OS X: mode 1 data tracks are reported as CD-i, eject closes the descriptor first, and
  freeing closes it once more.
* The list of all drives asks for a default drive first, and is empty when none opens;
  FreeBSD takes any device node for a CD drive; Win32's ASPI search asks the first adapter
  only; the default-drive search of OS X passes over what is not a CD but leaks it.

MMC, CD-Text, kinds:

* `mmc_get_disctype` misses the last profile of the list; `mmc_set_blocksize` shifts a
  16-bit size by 16; the ten-byte path of `mmc_get_blocksize` returns the descriptor's
  length; `mmc_get_tray_status` consumes the event that `mmc_get_media_changed` reports;
  `mmc_read_cdtext` sizes its buffer by the first command's answer and parses by the
  second's.
* The text and the error of CD-Text are kept when the disc is changed
  (`_cdio_generic.c:284`); packs carry a CRC that nothing checks.
* `cd_types.c:226`: the guess starts from `CDIO_FS_UNKNOWN`, which has all type bits set,
  so that `|=` never leaves it; a track of less than 256 sectors skips the later checks.
* `cd-info.c:1268`: the size of the volume found last decides which tracks of a later
  session are passed over.

File systems:

* `iso9660_fs.c:1286`: a lookup gives up at an ill record that a listing skips; line 1066:
  a descriptor that cannot be read drops Joliet; line 1724: find LSN asserts that every
  directory can be read; line 2021: have-Rock-Ridge follows a NULL.
* `rock.c:309`: a link continued in another SL entry between two components gets a
  blank byte. `rock.c:384` reads continuations only of images: on discs what it reads is
  undefined.
* `xa.h:56`: the permission bits of others are those of two sector forms;
  `iso9660.c:863` hands the attributes over without the byte swap.
* `iso9660_set_ltime` counts time zones the other way from `iso9660_set_dtime`;
  `udf_time.c:160` keeps the seconds of a stamp in 16 bits, so that only times within nine
  hours of 1970 come back.
* `udf_fs.c:410`: loops over descriptors stop before the last sector; line 715: only the
  first extent of a directory is read; line 598: asked for a partition that is not there, `udf_get_root` answers with
  the one of an earlier call, where its comment (line 556) has NULL; `udf_file.c:249`: a read of several blocks from the middle of an extent
  runs past its end, and the position (line 246) is shared by all files.

Player:

* `read_toc` and `play_track` call each other without end when auto-mode is on and the
  drive answers neither. `-t n` plays track n + 1 as well (`cdda-player.c:682`). A stop or
  a failed read forgets the last audio track (line 441), to which the next play is cut.
  A digit beyond the last track indexes the table by the special numbers. The help
  screen goes on with its handle after an ejection while it waited has closed that
  (line 981).

Programs:

* `cd-read`: `-e` alone leaves the start unset (`cd-read.c:428`); after a read that failed,
  audio sectors and those of any kind are lost, as `blocklen` is not set again
  (lines 544, 573); at the leadout of an image the sector before is written once more;
  `--toc-file` sets no `source_image`.
* `iso-read`: an `ftruncate` that fails is reported and the program still exits with 0
  (`iso-read.c:382`).
* `iso-info`: `-i` without a name goes on into the case of `-f` (`iso-info.c:170`); a pure UDF
  image must open as ISO 9660 first, and an image without UDF still exits with 0; with
  `--no-rock-ridge` a directory whose Rock Ridge name differs from the plain one is not
  found again (line 281).

## 6. What is not modelled

* `ds.c`: its callers only append and walk; the modules use sequences. Logging, with the
  default handler's exit. The AIX driver, which names things that nothing declares and
  cannot be built. The C++ wrappers, which pass on.
* `mmc-tool` and `cd-drive`, which make one call of the library after the other, the
  options of `cd-info`, and what the programs print besides names.
* Inside the modelled components: media change, MCN and ISRC of GNU/Linux and its audio
  and data sector reads, one ioctl each; argument setters other than the access mode;
  character sets and UCS conversion; CD-Text contents of sheets; byte offsets of images
  over 2 GB; mount checks of eject; tables of names; the one-line getters of descriptor
  fields; the player's display and volume keys.

## 7. Plan

1. **Proofs.** The sector reads of `NrgImage` with its mapping list, with `FlattenOfParts`
   as for the tracks of an image.
   Formats and last LSN of the other platforms, with an invariant about the entries of
   a table that was read in part.
2. **Refinement.** An abstract table of tracks that the loads of `CueSheet`, `CdrdaoToc`
   and `NrgImage` and the readings of the drivers implement; `CueSheetInvariant` and
   `EnvInv` already relate the tables to the lines and to the disc.
3. **Calls.** The pass-through getters of `device.c` and `disc.c`, `cd-drive`, `mmc-tool`.
