---------------------------- MODULE MCCdioHandle ----------------------------
(* Two systems, one of which a run goes through: the life of handles (two  *)
(* handle variables, the GNU/Linux driver and another device driver        *)
(* without a close_tray routine, two image drivers, one of which the       *)
(* program also ejects), and the finding and opening of the drives of a    *)
(* machine.                                                                *)
EXTENDS CdioHandle, Sequences

CONSTANTS
  Machines,   \* the machines with drives to find and to open
  Numbers     \* how many numbers of a class are probed

VARIABLES side, machine, attached, call, handle, told

lifeVars == vars
accessVars == <<machine, attached, call, handle, told>>
allVars == <<side, lifeVars, accessVars>>

MCDeviceDrivers == {"linux", "scsi"}
MCImageDrivers == {"bincue", "nrg"}
MCCanClose == {"linux"}
MCEjectOn == MCDeviceDrivers \cup {"bincue"}

-----------------------------------------------------------------------------
(* Machines.  Two units each, of which one or both are CD drives; nodes    *)
(* that are links to others, a gap in the numbers, a node that refuses to  *)
(* be opened because it is mounted, a supermount line.                     *)
Line(type, node) == [type |-> type, node |-> node, fs |-> "none", dev |-> <<"none", 0>>]
Supermount(fs, dev) == [type |-> "supermount", node |-> <<"none", 0>>, fs |-> fs, dev |-> dev]

NameAt(class, n) == <<class, n>>
On(pairs) == [n \in {p[1] : p \in pairs} |-> (CHOOSE p \in pairs : p[1] = n)[2]]

Machine(platform, nodes, kind) ==
  [platform |-> platform, unit |-> On(nodes), kind |-> kind, refuses |-> {},
   mtab |-> <<>>, fstab |-> <<>>, vol |-> FALSE, volume |-> <<"none", 0>>,
   scsi |-> [u \in DOMAIN kind |-> <<0, 0>>], nt |-> TRUE]

TwoDrives == [u1 |-> "cd", u2 |-> "cd"]
DriveAndDisk == [u1 |-> "disk", u2 |-> "cd"]

LinuxLinked ==
  Machine("linux", {<<NameAt("cdrom", 0), "u1">>, <<NameAt("sr", 0), "u1">>, <<NameAt("sr", 1), "u2">>,
                    <<NameAt("scd", 0), "u1">>}, TwoDrives)
LinuxMounted ==
  [Machine("linux", {<<NameAt("hd", 0), "u1">>, <<NameAt("hd", 1), "u2">>}, DriveAndDisk)
     EXCEPT !.refuses = {NameAt("hd", 1)},
            !.mtab = <<Line("ext3", NameAt("hd", 0)), Line("iso9660", NameAt("hd", 1))>>]
LinuxSupermount ==
  [Machine("linux", {<<NameAt("hd", 0), "u1">>, <<NameAt("sr", 0), "u2">>}, DriveAndDisk)
     EXCEPT !.fstab = <<Supermount("auto", NameAt("hd", 0)), Supermount("iso9660", NameAt("sr", 0))>>]
FreeBsdBoth  == Machine("freebsd", {<<NameAt("cd", 0), "u1">>, <<NameAt("acd", 0), "u2">>}, TwoDrives)
FreeBsdGap   == Machine("freebsd", {<<NameAt("cd", 1), "u1">>, <<NameAt("acd", 0), "u2">>}, TwoDrives)
NetBsdTwo    == [Machine("netbsd", {<<NameAt("rcd", 0), "u1">>, <<NameAt("rcd", 1), "u2">>}, TwoDrives)
                   EXCEPT !.refuses = {NameAt("rcd", 0)}]
SolarisVold  == [Machine("solaris", {<<NameAt("alias", 0), "u1">>, <<NameAt("alias", 1), "u2">>}, TwoDrives)
                   EXCEPT !.vol = TRUE, !.volume = NameAt("alias", 1)]
SolarisPlain == Machine("solaris", {<<NameAt("disk", 0), "u1">>, <<NameAt("ctds2", 0), "u1">>,
                                    <<NameAt("ctds2", 1), "u2">>}, DriveAndDisk)
OsxMedia     == Machine("osx", {<<NameAt("rdisk", 0), "u1">>, <<NameAt("rdisk", 1), "u2">>}, DriveAndDisk)
WindowsNt    == Machine("win32", {<<NameAt("letter", 0), "u1">>, <<NameAt("letter", 1), "u2">>}, DriveAndDisk)
WindowsAspi  == [WindowsNt EXCEPT !.nt = FALSE, !.kind = TwoDrives,
                                  !.scsi = [u1 |-> <<0, 1>>, u2 |-> <<1, 1>>]]

MCMachines == {LinuxLinked, LinuxMounted, LinuxSupermount, FreeBsdBoth, FreeBsdGap, NetBsdTwo,
               SolarisVold, SolarisPlain, OsxMedia, WindowsNt, WindowsAspi}

Access == INSTANCE DriveAccess

RealMachines == Numbers \in Nat /\ \A m \in Machines : Access!RealMachine(m)
ASSUME MachinesAssumption == RealMachines

-----------------------------------------------------------------------------
(* Bounds: no search runs while handles are being opened or are open, and  *)
(* the second process opens one drive, exclusively, where drivers do that. *)
Apart ==
  /\ call = Access!NoCall \/ \A c \in Access!Clients : handle[c].at = "closed"
  /\ LET h == handle["rival"]
     IN  h.at = "closed" \/ (machine.platform \in {"linux", "freebsd"} /\ h.am = "EXCL")

LifeIdle ==
  /\ lastDriver = Uninit /\ registry = 0 /\ last = Call("init", NoDriver, "false")
  /\ driver = [h \in Handles |-> NoDriver]
  /\ envs = [h \in Handles |-> 0] /\ fd = [h \in Handles |-> NoFd] /\ opens = [h \in Handles |-> 0]

AccessIdle ==
  /\ machine = (CHOOSE m \in Machines : TRUE) /\ attached = {} /\ call = Access!NoCall /\ told = Access!NothingTold
  /\ handle = [c \in Access!Clients |-> Access!ClosedHandle]

InitSides == \/ side = "life" /\ Init /\ AccessIdle
             \/ side = "access" /\ LifeIdle /\ Access!Init

Life == side = "life" /\ Next /\ UNCHANGED <<side, accessVars>>
Drives == side = "access" /\ Access!Next /\ Apart' /\ UNCHANGED <<side, lifeVars>>

NextSides == Life \/ Drives

SpecSides ==
  /\ InitSides /\ [][NextSides]_allVars
  /\ WF_allVars(side = "access" /\ Access!SearchStep /\ UNCHANGED <<side, lifeVars>>)
  /\ \A c \in Access!Clients : WF_allVars(side = "access" /\ Access!OpenStep(c) /\ UNCHANGED <<side, lifeVars>>)

(* DriveAccess.DrivesFound of the drives' side.                            *)
DrivesFound == side = "access" => Access!DrivesFound

(* DriveAccess.HandlesHold of the drives' side.                            *)
HandlesHold == side = "access" => Access!HandlesHold

(* DriveAccess.AccessEnds: a search ends, and so does an open.             *)
AccessEnds == Access!AccessEnds
=============================================================================
