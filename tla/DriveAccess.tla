------------------------------ MODULE DriveAccess ------------------------------
(***************************************************************************)
(* Finding the drives of a machine and opening them: the get_devices,      *)
(* get_default_device and open routines of the platforms' drivers under    *)
(* the calls of device.c.  Drives are plugged in and out between any two   *)
(* looks at them, and a second process opens the same drives.              *)
(*                                                                         *)
(* A name is a pair of the class of device node and its number; Numbers    *)
(* stands for how many of each class are probed (26 hd, 28 scd and sr,     *)
(* ten cd and acd, 65 rcd, the letters A to Z).                            *)
(***************************************************************************)
EXTENDS Integers, Sequences, FiniteSets, SequencesExt

CONSTANTS
  Machines,   \* the machines: platform, nodes, units, mount tables
  Numbers     \* how many numbers of a class are probed

VARIABLES
  machine,    \* the machine the program runs on
  attached,   \* the units attached to it now
  call,       \* the search under way
  handle,     \* handle[c]: the handle that process c opens or has open
  told        \* what the search answered that ended with the last step

vars == <<machine, attached, call, handle, told>>

Clients == {"mine", "rival"}
MaxRetry == 3
None == <<"none", 0>>

Platform == machine.platform
Names == DOMAIN machine.unit
Units == DOMAIN machine.kind
Gone == "gone"

UnitAt(name) == IF name \in Names /\ machine.unit[name] \in attached THEN machine.unit[name] ELSE Gone
KindAt(name) == IF UnitAt(name) = Gone THEN "none" ELSE machine.kind[UnitAt(name)]

(* cdio_is_device_generic and the quiet one: there is such a node.  A node *)
(* that is there may still refuse to be opened.                            *)
IsDevice(name) == UnitAt(name) # Gone
CanOpen(name) == IsDevice(name) /\ name \notin machine.refuses

Numbered(class) == [i \in 1..Numbers |-> <<class, i - 1>>]

(* The nodes of a class that a directory or a registry lists now, in an    *)
(* order of its own.                                                       *)
Listed(class) == SetToSeq({n \in Names : n[1] = class /\ IsDevice(n)})

-------------------------------------------------------------------------------
(* cdio_realpath: what cannot be resolved is left as it is.                *)
RealPath(name) == IF IsDevice(name) THEN <<UnitAt(name), 0>> ELSE name

(* cdio_add_device_list.                                                   *)
AddAlways(list, name) == Append(list, name)       \* mutant of AddDevice
AddDevice(list, name) ==
  IF \E i \in DOMAIN list : RealPath(list[i]) = RealPath(name) THEN list ELSE Append(list, name)

-------------------------------------------------------------------------------
(* GNU/Linux.  is_cdrom_linux opens the node and asks for capabilities; a  *)
(* node that cannot be opened may be mounted.                              *)
IsCdromLinux(name, mnttype) ==
  /\ IsDevice(name)
  /\ IF CanOpen(name) THEN KindAt(name) = "cd" ELSE mnttype = "iso9660"

(* check_mounts_linux: the first line of a table that is of a CD-ROM; a    *)
(* supermount's type and device are in its options.                        *)
MountType(line) == IF line.type = "supermount" /\ line.fs # "none" THEN line.fs ELSE line.type
MountDev(line)  == IF line.type = "supermount" /\ line.dev # None THEN line.dev ELSE line.node

CheckMounts(lines) ==
  LET ofCdrom(line) == MountType(line) = "iso9660" /\ IsCdromLinux(MountDev(line), MountType(line))
      found == {i \in DOMAIN lines : ofCdrom(lines[i])}
      first == CHOOSE i \in found : \A k \in found : i <= k
  IN  IF found = {} THEN None ELSE MountDev(lines[first])

LinuxNames == <<<<"cdrom", 0>>, <<"dvd", 0>>, <<"mtab", 0>>, <<"fstab", 0>>>>
                \o Numbered("hd") \o Numbered("scd") \o Numbered("sr")

FoundLinux(name) ==
  CASE name[1] = "mtab"  -> CheckMounts(machine.mtab)
    [] name[1] = "fstab" -> CheckMounts(machine.fstab)
    [] OTHER -> IF IsCdromLinux(name, "none") THEN name ELSE None

(* FreeBSD takes every node for a drive (cdio_is_cdrom_freebsd_ioctl).     *)
(* The list ends at the first number that is missing, before the ATAPI     *)
(* drives; the search for a default begins again with them.                *)
FreeBsdNames == Numbered("cd") \o Numbered("acd")
FreeBsdDefaults == <<<<"cd", 0>>, <<"acd", 0>>>>
FoundFreeBsd(name) == IF IsDevice(name) THEN name ELSE None

(* NetBSD lists what can be opened, and its default is a fixed name.       *)
NetBsdNames == Numbered("rcd")
FoundNetBsd(name) == IF CanOpen(name) THEN name ELSE None

(* Solaris: with vold's directory the names it has given to the media,     *)
(* else the entries of /dev/rdsk that are called cXtYdZs2 and have the     *)
(* controller of a CD-ROM.                                                 *)
DecodeBtl(name) == name[1] = "ctds2"
DirectoryEntries == Listed("disk") \o Listed("ctds2")
SolarisNames == IF machine.vol THEN Listed("alias") ELSE DirectoryEntries

FoundSolaris(name) ==
  LET isDrive == IF machine.vol THEN IsDevice(name)
                 ELSE DecodeBtl(name) /\ CanOpen(name) /\ KindAt(name) = "cd"
  IN  IF isDrive THEN name ELSE None

(* The default: the volume an insertion told of in the environment, or a   *)
(* fixed name, also when nothing was found.                                *)
DefaultSolaris(found) ==
  IF machine.vol
  THEN IF machine.volume # None /\ IsDevice(machine.volume) THEN machine.volume ELSE <<"alias", 0>>
  ELSE IF found # <<>> THEN Head(found) ELSE <<"alias", 0>>

(* OS X: the ejectable media of the registry, of which the search for a    *)
(* default passes over those that are no CD, DVD or BD.                    *)
OsxNames == Listed("rdisk")
FoundOsx(op, name) ==
  IF IsDevice(name) /\ (op = "default" => KindAt(name) = "cd") THEN name ELSE None

(* Windows: the type of the drive with a letter, or the ASPI units that    *)
(* say they have that letter.  is_cdrom_aspi asks the first adapter for    *)
(* the unit's type, whichever adapter the unit is at.                      *)
Win32Names == Numbered("letter")
IsCdromIoctl(letter) == KindAt(letter) = "cd"

AtFirst(adr) == <<0, adr[2]>>
IsCdromAspi(letter) ==
  \E u \in attached, v \in attached :
    /\ UnitAt(letter) = u
    /\ machine.scsi[v] = AtFirst(machine.scsi[u])
    /\ machine.kind[v] = "cd"

FoundWin32(letter) ==
  LET isDrive == IF machine.nt THEN IsCdromIoctl(letter) ELSE IsCdromAspi(letter)
  IN  IF isDrive THEN letter ELSE None

-------------------------------------------------------------------------------
(* A search of a platform's driver: what it looks at, what it finds there, *)
(* and what is left to look at.                                            *)
NamesToTry(op) ==
  CASE Platform = "linux"   -> LinuxNames
    [] Platform = "freebsd" -> IF op = "default" THEN FreeBsdDefaults ELSE FreeBsdNames
    [] Platform = "netbsd"  -> IF op = "default" THEN <<>> ELSE NetBsdNames
    [] Platform = "solaris" -> IF op = "default" /\ machine.vol THEN <<>> ELSE SolarisNames
    [] Platform = "osx"     -> OsxNames
    [] Platform = "win32"   -> Win32Names

Found(op, name) ==
  CASE Platform = "linux"   -> FoundLinux(name)
    [] Platform = "freebsd" -> FoundFreeBsd(name)
    [] Platform = "netbsd"  -> FoundNetBsd(name)
    [] Platform = "solaris" -> FoundSolaris(name)
    [] Platform = "osx"     -> FoundOsx(op, name)
    [] Platform = "win32"   -> FoundWin32(name)

LeftToTry(op, names, found) ==
  IF (op = "default" /\ found # None) \/ (op = "list" /\ Platform = "freebsd" /\ found = None)
  THEN <<>> ELSE Tail(names)

DefaultOf(found) ==
  CASE Platform = "netbsd"  -> <<"rcd", 0>>
    [] Platform = "solaris" -> DefaultSolaris(found)
    [] OTHER -> IF found = <<>> THEN None ELSE Head(found)

(* The default device as the machine is now.                               *)
DefaultNow ==
  LET isFound(name) == Found("default", name) # None
      found == SelectSeq(NamesToTry("default"), isFound)
  IN  DefaultOf(IF found = <<>> THEN <<>> ELSE <<Found("default", Head(found))>>)

(* The machines there are: nodes are of the classes that the platform has, *)
(* with numbers that are probed; a unit is no class, so that a resolved    *)
(* name is unlike all others; and what a line mounts as iso9660 is a CD.   *)
ClassesOf(platform) ==
  CASE platform = "linux"   -> {"cdrom", "dvd", "hd", "scd", "sr"}
    [] platform = "freebsd" -> {"cd", "acd"}
    [] platform = "netbsd"  -> {"rcd"}
    [] platform = "solaris" -> {"alias", "disk", "ctds2"}
    [] platform = "osx"     -> {"rdisk"}
    [] platform = "win32"   -> {"letter"}

MountsAreCds(m, lines) ==
  \A i \in DOMAIN lines : LET dev == MountDev(lines[i]) IN
    MountType(lines[i]) = "iso9660" /\ dev \in DOMAIN m.unit => m.kind[m.unit[dev]] = "cd"

RealMachine(m) ==
  /\ m.platform \in {"linux", "freebsd", "netbsd", "solaris", "osx", "win32"}
  /\ m.unit \in [DOMAIN m.unit -> DOMAIN m.kind] /\ IsFiniteSet(DOMAIN m.unit)
  /\ DOMAIN m.unit \subseteq ClassesOf(m.platform) \X (0..Numbers - 1)
  /\ Gone \notin DOMAIN m.kind /\ \A u \in DOMAIN m.kind : <<u, 0>> \notin DOMAIN m.unit
  /\ m.scsi \in [DOMAIN m.kind -> Nat \X Nat]
  /\ \A lines \in {m.mtab, m.fstab} : DOMAIN lines \subseteq Nat /\ MountsAreCds(m, lines)

NoCall == [op |-> "none", names |-> <<>>, got |-> None, list |-> <<>>, steady |-> {}, ever |-> {}]
Answer(op, list, steady, ever) == [op |-> op, list |-> list, steady |-> steady, ever |-> ever]
NothingTold == Answer("none", <<>>, {}, {})

(* cdio_get_devices and cdio_get_default_device for the platform's driver; *)
(* for DRIVER_DEVICE the list is asked of a handle of the default device,  *)
(* which must open first (cdio_get_devices_ret).                           *)
Search(op, viaHandle) ==
  /\ call = NoCall
  /\ viaHandle => op = "list"
  /\ IF viaHandle /\ ~CanOpen(DefaultNow)
     THEN call' = call /\ told' = Answer("NULL", <<>>, {}, {})
     ELSE /\ call' = [NoCall EXCEPT !.op = op, !.names = NamesToTry(op),
                                    !.steady = attached, !.ever = attached]
          /\ told' = NothingTold
  /\ UNCHANGED <<machine, attached, handle>>

Probe ==
  /\ call.names # <<>> /\ call.got = None
  /\ LET found == Found(call.op, Head(call.names))
     IN  call' = [call EXCEPT !.got = found, !.names = LeftToTry(call.op, @, found)]
  /\ told' = NothingTold /\ UNCHANGED <<machine, attached, handle>>

Add ==
  /\ call.got # None
  /\ call' = [call EXCEPT !.got = None, !.list = AddDevice(@, call.got)]
  /\ told' = NothingTold /\ UNCHANGED <<machine, attached, handle>>

AnswerSearch ==
  /\ call # NoCall /\ call.names = <<>> /\ call.got = None
  /\ LET list == IF call.op = "list" THEN call.list
                 ELSE IF DefaultOf(call.list) = None THEN <<>> ELSE <<DefaultOf(call.list)>>
     IN  told' = Answer(call.op, list, call.steady, call.ever)
  /\ call' = NoCall
  /\ UNCHANGED <<machine, attached, handle>>

-------------------------------------------------------------------------------
(* Opening.  A handle goes through the stages of the driver's open; held   *)
(* is what has been allocated, opened or locked for it and not released.   *)
ClosedHandle == [at |-> "closed", src |-> None, am |-> "none", unit |-> Gone, tries |-> 0, held |-> {}]

Move(c, h) == handle' = [handle EXCEPT ![c] = h]

(* What a driver's error exit and its free routine release.                *)
System == {"fd", "excl", "lock", "cam", "service"}
ReleasedOnError ==
  CASE Platform \in {"linux", "netbsd", "osx"} -> System \cup {"env", "source", "cdio"}
    [] Platform = "freebsd" -> System \cup {"env", "source", "cdio"}
    [] Platform = "solaris" -> System \cup {"env", "source", "cdio"}
    [] Platform = "win32"   -> System \cup {"env", "source"}

ReleasedByFree(h) ==
  IF Platform = "freebsd" /\ h.am # "ioctl" THEN System \cup {"env", "device", "cdio"}
  ELSE System \cup {"env", "source", "device", "cdio"}

Refuse(c, released) == Move(c, [ClosedHandle EXCEPT !.held = handle[c].held \ released])

StartOpen(c, src, am) ==
  /\ handle[c].at = "closed"
  /\ Move(c, [ClosedHandle EXCEPT !.at = IF Platform = "freebsd" /\ am = "default" THEN "mode" ELSE "source",
                                  !.src = src, !.am = am])
  /\ told' = NothingTold /\ UNCHANGED <<machine, attached, call>>

(* get_access_mode of freebsd.c: ioctls for an ATAPI drive, CAM for others.*)
ModeFor(name) == IF name[1] = "acd" THEN "ioctl" ELSE "CAM"
ChooseMode(c) ==
  /\ handle[c].at = "mode"
  /\ LET dev == IF handle[c].src = None THEN DefaultNow ELSE handle[c].src
     IN  Move(c, [handle[c] EXCEPT !.at = "source", !.am = ModeFor(dev)])
  /\ told' = NothingTold /\ UNCHANGED <<machine, attached, call>>

(* The source: the default device, asked for here, or one that is given    *)
(* and must be a device; a letter is one by its form.                      *)
ChooseSource(c) ==
  /\ handle[c].at = "source"
  /\ LET h == handle[c]
         name == IF h.src = None THEN DefaultNow ELSE h.src
     IN  IF name = None \/ (h.src # None /\ Platform # "win32" /\ ~IsDevice(name))
         THEN Refuse(c, {"env", "source"})
         ELSE Move(c, [h EXCEPT !.at = "new", !.src = name,
                                !.held = {"env", "source"} \cup
                                         IF Platform = "freebsd" THEN {"device"} ELSE {}])
  /\ told' = NothingTold /\ UNCHANGED <<machine, attached, call>>

(* cdio_new, which fails for want of memory.                               *)
New(c) ==
  /\ handle[c].at = "new"
  /\ \/ Move(c, [handle[c] EXCEPT !.at = "node", !.held = @ \cup {"cdio"}])
     \/ Refuse(c, IF Platform = "solaris" THEN {} ELSE ReleasedOnError)
  /\ told' = NothingTold /\ UNCHANGED <<machine, attached, call>>

(* cdio_generic_init with the flags of the access mode.  Of the drivers    *)
(* that pass O_EXCL only GNU/Linux has an access mode to look at; its      *)
(* kernel keeps a second such open out.  init_win32 goes on without.       *)
WantsExcl(h) == Platform = "linux" /\ h.am = "EXCL"
HeldExcl(u) == \E c \in Clients : "excl" \in handle[c].held /\ handle[c].unit = u

OpenNode(c) ==
  /\ handle[c].at = "node"
  /\ LET h == handle[c]
         ok == CanOpen(h.src) /\ (WantsExcl(h) => ~HeldExcl(UnitAt(h.src)))
     IN  IF ok THEN Move(c, [h EXCEPT !.at = "init", !.unit = UnitAt(h.src),
                                      !.held = @ \cup {"fd"} \cup (IF WantsExcl(h) THEN {"excl"} ELSE {})])
         ELSE IF Platform = "win32" THEN Move(c, [h EXCEPT !.at = "init"])
         ELSE Refuse(c, ReleasedOnError)
  /\ told' = NothingTold /\ UNCHANGED <<machine, attached, call>>

(* What follows the open.  GNU/Linux, NetBSD and Solaris look up the SCSI  *)
(* address at most, without which the handle is live all the same.         *)
InitPlain(c) ==
  /\ handle[c].at = "init" /\ Platform \in {"linux", "netbsd", "solaris"}
  /\ Move(c, [handle[c] EXCEPT !.at = "live"])
  /\ told' = NothingTold /\ UNCHANGED <<machine, attached, call>>

(* FreeBSD locks the drive for an exclusive handle and goes on to the      *)
(* pass-through device, unless ioctls are used.                            *)
NextOfMode(am) == CASE am = "ioctl" -> "live" [] am = "EXCL" -> "lock" [] OTHER -> "cam"

InitFreeBsd(c) ==
  /\ handle[c].at = "init" /\ Platform = "freebsd"
  /\ Move(c, [handle[c] EXCEPT !.at = NextOfMode(handle[c].am)])
  /\ told' = NothingTold /\ UNCHANGED <<machine, attached, call>>

(* init_osx looks for the service of the drive's media.                    *)
HasService(h) == h.unit \in attached /\ machine.kind[h.unit] = "cd"

InitOsx(c) ==
  /\ handle[c].at = "init" /\ Platform = "osx"
  /\ IF HasService(handle[c])
     THEN Move(c, [handle[c] EXCEPT !.at = "live", !.held = @ \cup {"service"}])
     ELSE Refuse(c, ReleasedOnError)
  /\ told' = NothingTold /\ UNCHANGED <<machine, attached, call>>

(* init_win32: on NT, or in a mode that is asked for, a handle of the      *)
(* drive, of which the second try counts whatever it returns; else the     *)
(* ASPI unit that has the letter.                                          *)
InitWin32(c) ==
  /\ handle[c].at = "init" /\ Platform = "win32"
  /\ IF machine.nt \/ handle[c].am # "default" \/ IsCdromAspi(handle[c].src)
     THEN Move(c, [handle[c] EXCEPT !.at = "live"])
     ELSE Refuse(c, ReleasedOnError)
  /\ told' = NothingTold /\ UNCHANGED <<machine, attached, call>>

InitDevice(c) == InitPlain(c) \/ InitFreeBsd(c) \/ InitOsx(c) \/ InitWin32(c)

(* freebsd_dev_lock: up to four tries two seconds apart.  The node that    *)
(* the source now names, if it is another one, is locked too, and that     *)
(* lock given back at once, so that it does not show here.                 *)
Locked(u) == \E c \in Clients : "lock" \in handle[c].held /\ handle[c].unit = u

TriesNotCounted(h) == h                             \* mutant of AfterDenial
GoOnWithout(h) == [h EXCEPT !.at = "cam"]           \* mutant of AfterDenial
AfterDenial(h) == [h EXCEPT !.tries = @ + 1]

TryLock(c) ==
  /\ handle[c].at = "lock"
  /\ LET h == handle[c]
     IN  IF ~Locked(h.unit) THEN Move(c, [h EXCEPT !.at = "cam", !.held = @ \cup {"lock"}])
         ELSE IF h.tries < MaxRetry THEN Move(c, AfterDenial(h))
         ELSE Refuse(c, ReleasedOnError)
  /\ told' = NothingTold /\ UNCHANGED <<machine, attached, call>>

(* init_freebsd_cam: the drive must tell its pass-through device, which an *)
(* ATAPI drive has not.                                                    *)
InitCam(c) ==
  /\ handle[c].at = "cam"
  /\ LET h == handle[c]
     IN  IF h.unit \in attached /\ h.src[1] # "acd"
         THEN Move(c, [h EXCEPT !.at = "live", !.held = @ \cup {"cam"}])
         ELSE Refuse(c, ReleasedOnError)
  /\ told' = NothingTold /\ UNCHANGED <<machine, attached, call>>

(* An eject that fails leaves the handle.  eject_media_linux has closed    *)
(* the drive by then and opened it without O_EXCL.                         *)
EjectFails(c) ==
  /\ handle[c].at = "live" /\ Platform = "linux"
  /\ \/ Move(c, [handle[c] EXCEPT !.held = @ \ {"fd", "excl"}])
     \/ /\ CanOpen(handle[c].src)
        /\ Move(c, [handle[c] EXCEPT !.held = (@ \ {"excl"}) \cup {"fd"}])
  /\ told' = NothingTold /\ UNCHANGED <<machine, attached, call>>

CloseHandle(c) ==
  /\ handle[c].at = "live"
  /\ Move(c, [ClosedHandle EXCEPT !.held = handle[c].held \ ReleasedByFree(handle[c])])
  /\ told' = NothingTold /\ UNCHANGED <<machine, attached, call>>

-------------------------------------------------------------------------------
Plug(u) ==
  /\ attached' = IF u \in attached THEN attached \ {u} ELSE attached \cup {u}
  /\ call' = IF call = NoCall THEN call
             ELSE [call EXCEPT !.steady = @ \cap attached', !.ever = @ \cup attached']
  /\ told' = NothingTold /\ UNCHANGED <<machine, handle>>

AccessModes == {"default", "RDWR", "EXCL"}

OpenStep(c) == ChooseMode(c) \/ ChooseSource(c) \/ New(c) \/ OpenNode(c) \/ InitDevice(c) \/ TryLock(c) \/ InitCam(c)
SearchStep == Probe \/ Add \/ AnswerSearch

Init ==
  /\ machine \in Machines
  /\ attached \in SUBSET Units
  /\ call = NoCall
  /\ handle = [c \in Clients |-> ClosedHandle]
  /\ told = NothingTold

Next ==
  \/ \E op \in {"list", "default"}, viaHandle \in BOOLEAN : Search(op, viaHandle)
  \/ SearchStep
  \/ \E u \in Units : Plug(u)
  \/ \E c \in Clients :
       \/ \E src \in Names \cup {None}, am \in AccessModes : StartOpen(c, src, am)
       \/ OpenStep(c)
       \/ EjectFails(c)
       \/ CloseHandle(c)

Spec == Init /\ [][Next]_vars /\ WF_vars(SearchStep) /\ \A c \in Clients : WF_vars(OpenStep(c))

-------------------------------------------------------------------------------
(* The names a platform's search can be relied on to find, if their units  *)
(* stay: those that can be opened, on FreeBSD those without a gap before   *)
(* them, on Solaris those of the kind searched for, and over ASPI those of *)
(* units at the first adapter.                                             *)
Sure(name, steady) ==
  CASE Platform = "freebsd" ->
         name[1] = "cd" /\ \A k \in 0..name[2] : <<"cd", k>> \in Names /\ machine.unit[<<"cd", k>>] \in steady
    [] Platform = "solaris" ->
         name \notin machine.refuses /\ name[1] = IF machine.vol THEN "alias" ELSE "ctds2"
    [] Platform = "win32" -> machine.nt \/ machine.scsi[machine.unit[name]][1] = 0
    [] OTHER -> name \notin machine.refuses /\ name[1] \notin {"cdrom", "dvd"}

Reliable(u, steady) == \E n \in Names : machine.unit[n] = u /\ Sure(n, steady)

UnitOf(name) == IF name \in Names THEN machine.unit[name] ELSE Gone

(* The platforms that look whether a node is a CD drive.                   *)
LooksAtKind == Platform \in {"linux", "win32"} \/ (Platform = "solaris" /\ ~machine.vol)

(* A list of drives names each CD drive that was there all the time once,  *)
(* under whichever of its names comes first, and names nothing that was    *)
(* never there or, where the driver looks, is no CD drive, however drives  *)
(* came and went meanwhile (cdio_get_devices over the get_devices routines *)
(* and cdio_add_device_list).  The default device is such a drive, too,    *)
(* where it is not a fixed name, and there is one if there is a drive.     *)
DrivesFound ==
  /\ told.op = "list" =>
       /\ \A u \in told.steady : machine.kind[u] = "cd" /\ Reliable(u, told.steady) =>
            \E i \in DOMAIN told.list : UnitOf(told.list[i]) = u
       /\ \A i, k \in DOMAIN told.list :
            UnitOf(told.list[i]) = UnitOf(told.list[k]) /\ UnitOf(told.list[i]) \in told.steady => i = k
       /\ \A i \in DOMAIN told.list :
            /\ UnitOf(told.list[i]) \in told.ever
            /\ LooksAtKind /\ (Platform = "win32" => machine.nt) => machine.kind[UnitOf(told.list[i])] = "cd"
  /\ told.op = "default" /\ Platform \in {"linux", "osx", "win32"} =>
       /\ told.list # <<>> => UnitOf(told.list[1]) \in told.ever
       /\ told.list = <<>> => \A u \in told.steady : machine.kind[u] = "cd" => ~Reliable(u, told.steady)

(* Two processes never both have a drive open in the exclusive mode, save  *)
(* after an eject has failed; and whatever fails on the way, and when the  *)
(* handle is closed, no descriptor, lock or pass-through device is left,   *)
(* and under GNU/Linux and NetBSD nothing at all.  No ATAPI drive of       *)
(* FreeBSD is read through CAM, whichever drive the mode was chosen for.   *)
Exclusive(c) ==
  handle[c].at = "live" /\ handle[c].am = "EXCL" /\ (Platform = "linux" => "excl" \in handle[c].held)

HandlesHold ==
  /\ Platform \in {"linux", "freebsd"} /\ handle["mine"].unit = handle["rival"].unit =>
       ~(Exclusive("mine") /\ Exclusive("rival"))
  /\ \A c \in Clients : handle[c].at = "closed" =>
       /\ handle[c].held \cap System = {}
       /\ Platform \in {"linux", "netbsd"} => handle[c].held = {}
  /\ \A c \in Clients : handle[c].at = "live" /\ Platform = "freebsd" /\ handle[c].src[1] = "acd" =>
       handle[c].am = "ioctl"

(* A search ends, and an open either fails or leaves a live handle, though *)
(* another process holds the lock for good (the tries of freebsd_dev_lock).*)
AccessEnds ==
  /\ call # NoCall ~> call = NoCall
  /\ \A c \in Clients : handle[c].at \notin {"closed", "live"} ~> handle[c].at \in {"closed", "live"}
================================================================================
