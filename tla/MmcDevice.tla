------------------------------ MODULE MmcDevice ------------------------------
(***************************************************************************)
(* The MMC commands of mmc.c, mmc_hl_cmds.c and mmc_ll_cmds.c, sent to a   *)
(* drive by the platform's routine.  A call is one command or several, and *)
(* between two of them whoever stands at the drive may press its button    *)
(* and change the disc; any command may fail.                              *)
(*                                                                         *)
(* The drive is external: it refuses what MMC says it must, and after a    *)
(* disc was put in it refuses the next command, with the sense that says   *)
(* so, unless it is a query of the drive itself.                           *)
(***************************************************************************)
EXTENDS Integers, Sequences, FiniteSets, SequencesExt

CONSTANTS
  Transports,           \* the routines that send commands
  Drives,               \* kinds of drive: [six, ten, pages, profiles, interface]
  MmcDiscs,             \* discs: [name, size, mcn, isrc, text, book, full_toc, status]
  MAX_CD_READ_BLOCKS,   \* blocks of one READ CD
  Sizes,                \* block sizes and speeds that are set
  Requests              \* what is read: pairs of an LSN and a number of blocks

VARIABLES
  transport,  \* the routine of the platform and its access mode
  drive,      \* [kind, disc, open, locked, attention, event, blocksize]
  valid,      \* the sense data kept in the environment, "none" when not valid
  happened,   \* the sense data of the command sent last
  call,       \* the call that is at work, or Idle
  said        \* the last call and its answer, or Silent
vars == <<transport, drive, valid, happened, call, said>>

NoDisc == [name |-> "none", size |-> 0, mcn |-> "none", isrc |-> "none", text |-> 0,
           book |-> "none", full_toc |-> "none", status |-> "none"]
Idle == [op |-> "none"]
Silent == [op |-> "none"]

-------------------------------------------------------------------------------
(* The drive.                                                              *)
Query(c) == c.op \in {"INQUIRY", "GET_EVENT_STATUS"}
NeedsDisc(c) == c.op \in {"READ_CD", "READ_SUBCHANNEL", "READ_TOC", "READ_DISC_INFO"}
Loaded(d) == ~d.open /\ d.disc # NoDisc

Accepts(c, d) ==
  /\ NeedsDisc(c) \/ c.op = "TEST_UNIT_READY" => Loaded(d)
  /\ c.op = "READ_CD" => c.lsn + c.blocks <= d.disc.size
  /\ c.op = "START_STOP" /\ c.eject => ~d.locked
  /\ c.op \in {"MODE_SENSE_6", "MODE_SELECT_6"} => d.kind.six
  /\ c.op = "MODE_SENSE_10" => d.kind.ten

Carried(c, d) ==
  CASE c.op = "START_STOP" /\ c.eject -> [d EXCEPT !.open = TRUE, !.event = "removal"]
    [] c.op = "START_STOP" /\ ~c.eject ->
         [d EXCEPT !.open = FALSE, !.event = IF d.open /\ d.disc # NoDisc THEN "new" ELSE @,
                   !.attention = @ \/ (d.open /\ d.disc # NoDisc)]
    [] c.op = "PREVENT_ALLOW" -> [d EXCEPT !.locked = c.prevent]
    [] c.op = "MODE_SELECT_6" -> [d EXCEPT !.blocksize = c.size]
    [] c.op = "GET_EVENT_STATUS" -> [d EXCEPT !.event = "none"]
    [] OTHER -> d

(* With the ioctls of FreeBSD no command is sent at all.                   *)
NeverSends == transport = "ioctl"

(* What may come of a command: whether it succeeds, the sense data that    *)
(* come with it, and the drive after it.                                   *)
Outcome(ok, sense, d) == [ok |-> ok, sense |-> sense, drive |-> d]

Outcomes(c, d) ==
  {Outcome(FALSE, "none", d)}
  \cup (IF NeverSends THEN {}
        ELSE IF d.attention /\ ~Query(c)
        THEN {Outcome(FALSE, "attention", [d EXCEPT !.attention = FALSE])}
        ELSE IF Accepts(c, d)
             THEN {Outcome(TRUE, s, Carried(c, d)) : s \in {"none", "recovered"}}
             ELSE {Outcome(FALSE, "refused", d)})

(* The sense data that are valid after a command.  Every routine forgets   *)
(* those of the command before first.  Those of GNU/Linux and of Solaris   *)
(* keep what there is; the pass-through of Windows what came with a        *)
(* status; CAM what a failed command left, also if that is blank; ASPI,    *)
(* whose sense area is blank when there is nothing, what a command that    *)
(* succeeded left; NetBSD never has any, and OS X none that is valid.      *)
KeptWithout(o) == {IF o.sense = "none" THEN valid ELSE o.sense}     \* mutant of SenseLinux
SenseLinux(o) == {o.sense}
SenseSolaris(o) == {o.sense}
SenseWin32(o) == {o.sense}
SenseCam(o) ==
  IF o.ok THEN {"none"} ELSE IF o.sense = "none" THEN {"none", "blank"} ELSE {o.sense}
SenseAspi(o) == {IF ~o.ok THEN "none" ELSE IF o.sense = "none" THEN "blank" ELSE o.sense}
SenseNetBsd == {"none"}
SenseOsx == {"none"}

SensesAfter(o) ==
  CASE transport = "linux"   -> SenseLinux(o)
    [] transport = "solaris" -> SenseSolaris(o)
    [] transport = "win32"   -> SenseWin32(o)
    [] transport = "cam"     -> SenseCam(o)
    [] transport = "aspi"    -> SenseAspi(o)
    [] transport = "netbsd"  -> SenseNetBsd
    [] transport = "osx"     -> SenseOsx
    [] OTHER -> {"none"}

Sent(o) ==
  /\ drive' = o.drive
  /\ valid' \in SensesAfter(o)
  /\ happened' = o.sense

-------------------------------------------------------------------------------
Init ==
  /\ drive \in [kind : Drives, disc : {CHOOSE d \in MmcDiscs : TRUE}, open : {FALSE}, locked : {FALSE},
                attention : {FALSE}, event : {"none"}, blocksize : {2048}]
  /\ transport \in Transports
  /\ valid = "none" /\ happened = "none" /\ call = Idle /\ said = Silent

(* A call of one command, whose answer is taken from the drive.            *)
OneCommand(c, name, answer) ==
  \E o \in Outcomes(c, drive) :
    /\ Sent(o)
    /\ said' = [op |-> name, ok |-> o.ok, value |-> IF o.ok THEN answer ELSE "none"]
    /\ UNCHANGED call

Ready == call = Idle

(* mmc_test_unit_ready, mmc_close_tray, mmc_prevent_allow_medium_removal,  *)
(* mmc_set_blocksize, mmc_get_event_status for the tray and for a change.  *)
TestUnitReady == Ready /\ OneCommand([op |-> "TEST_UNIT_READY"], "ready", "ready")
CloseTray == Ready /\ OneCommand([op |-> "START_STOP", eject |-> FALSE], "close", "closed")
PreventRemoval ==
  Ready /\ \E b \in BOOLEAN : OneCommand([op |-> "PREVENT_ALLOW", prevent |-> b], "prevent", "done")
SetBlocksize ==
  Ready /\ \E n \in Sizes : OneCommand([op |-> "MODE_SELECT_6", size |-> n], "set_blocksize", "done")
TrayStatus ==
  Ready /\ OneCommand([op |-> "GET_EVENT_STATUS"], "tray", IF drive.open THEN "open" ELSE "closed")
MediaChanged ==
  Ready /\ OneCommand([op |-> "GET_EVENT_STATUS"], "changed", IF drive.event \in {"new", "removal"} THEN "yes" ELSE "no")

(* mmc_have_interface: one feature, found among those of the drive.        *)
HaveInterface ==
  /\ Ready
  /\ \E e \in {"scsi", "atapi"} :
       OneCommand([op |-> "GET_CONFIGURATION"], "interface", IF e = drive.kind.interface THEN "yes" ELSE "nope")

(* mmc_get_disctype: the first active profile of those in the list, the    *)
(* last of which is never looked at.                                       *)
ActiveProfile(profiles) ==
  LET active == {i \in 1..(Len(profiles) - 1) : profiles[i].active}
  IN  IF active = {} THEN "non_conform"
      ELSE profiles[CHOOSE i \in active : \A j \in active : i <= j].number
DiscType == Ready /\ OneCommand([op |-> "GET_CONFIGURATION"], "disctype", ActiveProfile(drive.kind.profiles))

(* mmc_set_speed, which refuses a speed below 1x before it asks the drive. *)
TooSlow(n) == n < 176
SetSpeed ==
  /\ Ready
  /\ \E n \in Sizes :
       \/ TooSlow(n) /\ said' = [op |-> "speed", ok |-> FALSE, value |-> "none"] /\ UNCHANGED <<drive, valid, happened, call>>
       \/ ~TooSlow(n) /\ OneCommand([op |-> "SET_SPEED"], "speed", "done")

(* mmc_get_disc_last_lsn, mmc_get_discmode, mmc_get_disc_erasable and      *)
(* mmc_get_hwinfo: one command each, about the disc or about the drive.    *)
AskDisc ==
  /\ Ready
  /\ \E what \in {"last_lsn", "discmode", "erasable"} :
       OneCommand([op |-> IF what = "erasable" THEN "READ_DISC_INFO" ELSE "READ_TOC"], what,
                  [last_lsn |-> drive.disc.size, discmode |-> drive.disc.full_toc, erasable |-> "yes"][what])

HwInfo == Ready /\ OneCommand([op |-> "INQUIRY"], "hwinfo", "names")

(* mmc_last_cmd_sense.                                                     *)
LastSense ==
  /\ Ready
  /\ said' = [op |-> "sense", ok |-> TRUE, value |-> valid]
  /\ UNCHANGED <<drive, valid, happened, call>>

-------------------------------------------------------------------------------
(* The calls of several commands: the next command of the one at work, and *)
(* what it makes of the outcome.                                           *)
Start(c) == Ready /\ call' = c /\ said' = Silent /\ UNCHANGED <<drive, valid, happened>>
GoOn(c) == call' = c /\ UNCHANGED said
End(ok, value) == call' = Idle /\ said' = [op |-> call.op, ok |-> ok, value |-> value, call |-> call]

(* mmc_eject_media: removal is allowed, then the tray opened.              *)
StartEject == Start([op |-> "eject", step |-> "allow"])

EjectCommand(step) ==
  IF step = "allow" THEN [op |-> "PREVENT_ALLOW", prevent |-> FALSE] ELSE [op |-> "START_STOP", eject |-> TRUE]

Eject ==
  /\ call.op = "eject"
  /\ \E o \in Outcomes(EjectCommand(call.step), drive) :
       /\ Sent(o)
       /\ IF o.ok /\ call.step = "allow" THEN GoOn([call EXCEPT !.step = "open"]) ELSE End(o.ok, "done")

(* mmc_read_cd: at most MAX_CD_READ_BLOCKS at a time, each to its place.   *)
AtOnce(n) == IF n > MAX_CD_READ_BLOCKS THEN MAX_CD_READ_BLOCKS ELSE n
Sector(d, k) == [of |-> d.name, lsn |-> k]

StartRead ==
  \E r \in Requests :
    Start([op |-> "read_cd", lsn |-> r[1], wanted |-> r[2], left |-> r[2], j |-> 0, buf |-> << >>])

FirstBlocks(buf, lsn, n) == [i \in 1..n |-> Sector(drive.disc, lsn + i - 1)]
WithBlocks(buf, lsn, n) == buf \o FirstBlocks(buf, lsn, n)

ReadCd ==
  /\ call.op = "read_cd"
  /\ IF call.left = 0
     THEN End(TRUE, call.buf) /\ UNCHANGED <<drive, valid, happened>>
     ELSE \E o \in Outcomes([op |-> "READ_CD", lsn |-> call.lsn + call.j, blocks |-> AtOnce(call.left)], drive) :
            /\ Sent(o)
            /\ IF ~o.ok THEN End(FALSE, call.buf)
               ELSE GoOn([call EXCEPT !.buf = WithBlocks(@, call.lsn + call.j, AtOnce(call.left)),
                                      !.left = @ - AtOnce(@), !.j = @ + AtOnce(call.left)])

(* mmc_get_mcn_isrc_private and mmc_read_cdtext: how much there is to      *)
(* read, and then the reading.                                             *)
Answer(d, what) == IF what = "mcn" THEN d.mcn ELSE IF what = "isrc" THEN d.isrc ELSE "text"
Available(d, what) == IF what = "cdtext" THEN d.text ELSE IF Answer(d, what) = "none" THEN 0 ELSE 1

StartQuery == \E what \in {"mcn", "isrc", "cdtext"} : Start([op |-> what, step |-> "size", size |-> 0])

QueryCommand(what) == [op |-> IF what = "cdtext" THEN "READ_TOC" ELSE "READ_SUBCHANNEL"]

QuerySubchannel ==
  /\ call.op \in {"mcn", "isrc", "cdtext"}
  /\ \E o \in Outcomes(QueryCommand(call.op), drive) :
       /\ Sent(o)
       /\ \/ ~o.ok /\ End(FALSE, "none")
          \/ o.ok /\ call.step = "size" /\ call.op # "cdtext" /\ Available(drive.disc, call.op) = 0 /\ End(FALSE, "none")
          \/ /\ o.ok /\ call.step = "size" /\ (call.op = "cdtext" \/ Available(drive.disc, call.op) > 0)
             /\ GoOn([call EXCEPT !.step = "read", !.size = Available(drive.disc, call.op)])
          \/ /\ o.ok /\ call.step = "read"
             /\ End(Available(drive.disc, call.op) > 0 \/ call.op = "cdtext",
                    [of |-> drive.disc.name, what |-> Answer(drive.disc, call.op),
                     whole |-> call.size >= Available(drive.disc, call.op)])

(* mmc_mode_sense: the command of six bytes, and if it fails that of ten,  *)
(* of which mmc_audio_get_volume and mmc_get_drive_mmc_cap take a page;    *)
(* mmc_get_blocksize, which takes the length of the block descriptor for   *)
(* the size of a block when the drive knows only the longer command.       *)
StartSense ==
  \E what \in {"mode_sense", "volume", "mmc_level", "get_blocksize"} : Start([op |-> what, step |-> "six"])

SenseCommand(step) == [op |-> IF step = "six" THEN "MODE_SENSE_6" ELSE "MODE_SENSE_10"]
BlockSizeBy(step) == IF step = "six" THEN drive.blocksize ELSE 8

ModeSense ==
  /\ call.op \in {"mode_sense", "volume", "mmc_level", "get_blocksize"}
  /\ \E o \in Outcomes(SenseCommand(call.step), drive) :
       /\ Sent(o)
       /\ IF ~o.ok /\ call.step = "six" THEN GoOn([call EXCEPT !.step = "ten"])
          ELSE End(o.ok, IF call.op = "get_blocksize" THEN BlockSizeBy(call.step) ELSE drive.kind.pages)

(* mmc_get_drive_cap: the length of all pages, then the pages; the whole   *)
(* once more if they cannot be read.  The walk stops two bytes past what   *)
(* was asked for and 256 bytes on, and a page is [number, size].           *)
Default == 2048
StartCap == Start([op |-> "drive_cap", step |-> "length", asked |-> Default, again |-> FALSE])

StartOf(pages, k) == FoldLeft(LAMBDA n, p : n + p.size + 2, 8, SubSeq(pages, 1, k - 1))
LengthOf(pages) == StartOf(pages, Len(pages) + 1) - 2

Capabilities(pages, asked) ==
  {k \in DOMAIN pages : /\ pages[k].number = "capabilities"
                        /\ StartOf(pages, k) < 2 + asked /\ StartOf(pages, k) < 256}

DriveCap ==
  /\ call.op = "drive_cap"
  /\ \E o \in Outcomes(SenseCommand("ten"), drive) :
       /\ Sent(o)
       /\ CASE call.step = "length" ->
                 GoOn([call EXCEPT !.step = "pages", !.asked = IF o.ok THEN LengthOf(drive.kind.pages) ELSE @])
            [] call.step = "pages" /\ ~o.ok /\ ~call.again ->
                 GoOn([call EXCEPT !.step = "length", !.again = TRUE])
            [] call.step = "pages" /\ ~o.ok /\ call.again -> End(FALSE, "error")
            [] call.step = "pages" /\ o.ok ->
                 End(TRUE, IF Capabilities(drive.kind.pages, call.asked) = {} THEN "nothing" ELSE "capabilities")

(* get_discmode_linux: an ioctl for the structure of a DVD, so that the     *)
(* full TOC is not asked of one, then the command for that, and if that    *)
(* says nothing the ioctl for the status of the disc.                      *)
StartLinuxMode == transport = "linux" /\ Start([op |-> "linux_mode", step |-> "dvd"])

DvdDiscMode ==
  /\ call.step = "dvd" /\ UNCHANGED <<drive, valid, happened>>
  /\ \/ GoOn([call EXCEPT !.step = "full_toc"])
     \/ Loaded(drive) /\ drive.disc.book # "none" /\ End(TRUE, drive.disc.book)

FullTocMode ==
  /\ call.step = "full_toc"
  /\ \E o \in Outcomes([op |-> "READ_TOC"], drive) :
       /\ Sent(o)
       /\ IF o.ok /\ drive.disc.full_toc # "none" THEN End(TRUE, drive.disc.full_toc)
          ELSE GoOn([call EXCEPT !.step = "status"])

StatusMode ==
  /\ call.step = "status" /\ UNCHANGED <<drive, valid, happened>>
  /\ \/ End(FALSE, "error")
     \/ Loaded(drive) /\ End(TRUE, drive.disc.status)

LinuxMode == call.op = "linux_mode" /\ (DvdDiscMode \/ FullTocMode \/ StatusMode)

(* Numbers of blocks, discs with a size of their text, and drives whose    *)
(* capabilities, if they have that page, stand where the walk gets to.     *)
MmcConstants ==
  /\ MAX_CD_READ_BLOCKS \in Nat
  /\ \A r \in Requests : r[1] \in Int /\ r[2] \in Nat
  /\ MmcDiscs # {} /\ \A d \in MmcDiscs : d.text \in Nat
  /\ \A k \in Drives : \A p \in DOMAIN k.pages :
       k.pages[p].number = "capabilities" =>
         StartOf(k.pages, p) \in 0 .. 255 /\ StartOf(k.pages, p) < 2 + LengthOf(k.pages)

-------------------------------------------------------------------------------
(* Whoever stands at the drive: the button, unless removal is prevented,   *)
(* and another disc.                                                       *)
PressButton ==
  /\ drive.open \/ ~drive.locked
  /\ drive' = IF drive.open THEN Carried([op |-> "START_STOP", eject |-> FALSE], drive)
              ELSE Carried([op |-> "START_STOP", eject |-> TRUE], drive)
  /\ said' = Silent
  /\ UNCHANGED <<valid, happened, call>>

ChangeDisc ==
  /\ drive.open
  /\ \E d \in MmcDiscs \cup {NoDisc} : d # drive.disc /\ drive' = [drive EXCEPT !.disc = d]
  /\ said' = Silent
  /\ UNCHANGED <<valid, happened, call>>

Calls ==
  \/ TestUnitReady \/ CloseTray \/ PreventRemoval \/ SetBlocksize \/ TrayStatus \/ MediaChanged
  \/ HaveInterface \/ DiscType \/ SetSpeed \/ AskDisc \/ HwInfo \/ LastSense
  \/ StartEject \/ Eject \/ StartRead \/ ReadCd \/ StartQuery \/ QuerySubchannel
  \/ StartSense \/ ModeSense \/ StartCap \/ DriveCap \/ StartLinuxMode \/ LinuxMode
  \/ PressButton \/ ChangeDisc

Next == Calls /\ UNCHANGED transport

Spec == Init /\ [][Next]_vars

-------------------------------------------------------------------------------
(* What was read, in however many commands, is one disc's: the blocks that *)
(* were asked for, in their order, or after a failure the first of them;   *)
(* and a code, text or mode that is given is the disc's that is in the     *)
(* drive, whichever disc the commands before were for.                     *)
BlocksInOrder(read, buf) ==
  /\ \A i \in DOMAIN buf : buf[i].lsn = read.lsn + i - 1
  /\ \A i, j \in DOMAIN buf : buf[i].of = buf[j].of

OfOneDisc ==
  /\ said.op = "read_cd" =>
       BlocksInOrder(said.call, said.value) /\ (said.ok => Len(said.value) = said.call.wanted)
  /\ said.op \in {"mcn", "isrc", "cdtext"} /\ said.ok => said.value.of = drive.disc.name /\ said.value.whole
  /\ said.op = "linux_mode" /\ said.ok =>
       said.value \in {drive.disc.book, drive.disc.full_toc, drive.disc.status}

(* A drive that was ejected is open and its removal not prevented, and one *)
(* that has a page of capabilities tells them, whichever commands failed.  *)
EjectedIsOpen == said.op = "eject" /\ said.ok => drive.open /\ ~drive.locked

SaidByDrive ==
  said.op = "drive_cap" /\ said.ok =>
    (said.value = "capabilities" <=> \E k \in DOMAIN drive.kind.pages : drive.kind.pages[k].number = "capabilities")

(* The sense data that are given are those of the command sent last, none  *)
(* or blank ones, and where a failure's are kept they are not missing.     *)
SenseOfLastCommand ==
  said.op = "sense" =>
    /\ said.value \in {happened, "none", "blank"}
    /\ transport \in {"linux", "solaris", "win32"} => said.value = happened
    /\ transport = "cam" /\ happened \in {"refused", "attention"} => said.value = happened

CommandsOfOneDisc == OfOneDisc /\ EjectedIsOpen /\ SaidByDrive /\ SenseOfLastCommand
===============================================================================
