-------------------------- MODULE CdioHandleProofs --------------------------
(***************************************************************************)
(* Proofs about handles, for every set of handle variables and drivers     *)
(* (CdioHandle), and about finding and opening the drives that they are    *)
(* for (DriveAccess): on every machine of the six platforms, with any      *)
(* names, units and links between them, and whatever is plugged in or out  *)
(* meanwhile, an open that fails and a handle that is closed leave no      *)
(* descriptor, lock, pass-through device or service behind, two processes  *)
(* never both have a drive open in the exclusive mode, and a search for    *)
(* drives names each one that stays plugged in, once.                      *)
(*                                                                         *)
(* HandlesHold speaks of live and closed handles only.  Stage says of each *)
(* stage of an open what is held by then, so that what the error exits     *)
(* release is all of it; and that a FreeBSD handle for exclusive use has   *)
(* passed the lock, once it has got that far.                              *)
(*                                                                         *)
(* DrivesFound speaks of a search that has ended.  Accounted says of one   *)
(* under way that each drive that stays is named or still to be looked at. *)
(***************************************************************************)
EXTENDS MCCdioHandle, FiniteSetTheorems, WellFoundedInduction, TLAPS

Types ==
  /\ driver \in [Handles -> Drivers \cup {NoDriver}]
  /\ envs \in [Handles -> Int]
  /\ fd \in [Handles -> {NoFd, AnFd}]
  /\ opens \in [Handles -> Int]

Counter ==
  /\ lastDriver \in {Uninit, Cardinality(Drivers) - 1}
  /\ registry \in {0, Cardinality(Drivers)}
  /\ RegistryFilledOnce

IInv == Types /\ EnvOwned /\ DescriptorsBalance

(* Device drivers are among the drivers, and "null" names none of them.    *)
LEMMA CandidatesAreDrivers == \A id : Candidates(id) \subseteq Drivers
BY DEF Candidates, Drivers

LEMMA DriverCount == Cardinality(Drivers) \in Nat
BY CdioHandleAssumption, FS_CardinalityType

(***************************************************************************)
(* The counter of cdio_init and the table it fills.                        *)
(***************************************************************************)
LEMMA CounterStep == Counter /\ [Next]_vars => Counter'
<1> SUFFICES ASSUME Counter, [Next]_vars PROVE Counter'
  OBVIOUS
<1> USE DriverCount DEF Counter, RegistryFilledOnce, Uninit
<1>0. ASSUME lastDriver' = LastDriverOnceInit, registry' = RegistryOnceInit
      PROVE Counter'
  BY <1>0 DEF LastDriverOnceInit, RegistryOnceInit
<1>1. ASSUME lastDriver' = Uninit, registry' = registry PROVE Counter'
  BY <1>1
<1>2. ASSUME lastDriver' = lastDriver, registry' = registry PROVE Counter'
  BY <1>2
<1>3. ASSUME lastDriver' = Uninit, registry' = RegistryOnceInit PROVE Counter'
  BY <1>3 DEF RegistryOnceInit
<1>4. CASE CdioInit
  BY <1>0, <1>4 DEF CdioInit
<1>5. ASSUME NEW h \in Handles, NEW id \in DriverArgs, OpenAm(h, id) PROVE Counter'
  BY <1>0, <1>5 DEF OpenAm
<1>6. ASSUME NEW h \in Handles, Destroy(h) PROVE Counter'
  BY <1>1, <1>6 DEF Destroy
<1>7. ASSUME NEW h \in Handles, EjectMedia(h) PROVE Counter'
  BY <1>1, <1>2, <1>7 DEF EjectMedia, EjectedDevice
<1>8. ASSUME NEW h \in Handles, EjectMediaDrive(h) PROVE Counter'
  BY <1>0, <1>3, <1>8 DEF EjectMediaDrive
<1>9. ASSUME NEW id, GetDevices(id) PROVE Counter'
  BY <1>1, <1>2, <1>9 DEF GetDevices
<1>10. ASSUME NEW id, CloseTray(id) PROVE Counter'
  BY <1>2, <1>10 DEF CloseTray
<1>11. CASE UNCHANGED vars
  BY <1>2, <1>11 DEF vars
<1> QED
  BY <1>4, <1>5, <1>6, <1>7, <1>8, <1>9, <1>10, <1>11 DEF Next

(* CdIo_driver[] is filled by one cdio_init at a time: whenever the counter *)
(* is set it is the index of the table's last entry, however opens and     *)
(* destroys of several handles follow each other.                          *)
THEOREM RegistryIsFilledOnce == Spec => []RegistryFilledOnce
<1>1. Init => Counter
  BY DriverCount DEF Init, Counter, RegistryFilledOnce, Uninit
<1>2. Counter => RegistryFilledOnce
  BY DEF Counter
<1> QED
  BY <1>1, <1>2, CounterStep, PTL DEF Spec

(***************************************************************************)
(* Environments and descriptors.                                           *)
(***************************************************************************)
(* Every path through eject_media_linux opens and closes in balance.       *)
LEMMA PathsBalance ==
  ASSUME NEW f \in {NoFd, AnFd}, NEW p \in EjectPaths(f)
  PROVE  /\ p.fd \in {NoFd, AnFd}
         /\ p.opened \in Int /\ p.closed \in Int
         /\ (IF f = AnFd THEN 1 ELSE 0) + p.opened - p.closed
              = IF p.fd = AnFd THEN 1 ELSE 0
BY DEF EjectPaths, Path, ClosedAtEnd, NoFd, AnFd

LEMMA OpenStep ==
  ASSUME IInv, NEW h \in Handles, NEW id, OpenAm(h, id) PROVE IInv'
<1> USE DEF IInv, Types, EnvOwned, DescriptorsBalance, live, NoFd, AnFd
<1>1. CASE UNCHANGED <<driver, fd, opens>> /\ envs' = [envs EXCEPT ![h] = EnvsAfterRefusal(@)]
  <2>1. envs' = envs
    BY <1>1 DEF EnvsAfterRefusal
  <2> QED
    BY <1>1, <2>1
<1>2. ASSUME NEW d \in Candidates(id),
             driver' = [driver EXCEPT ![h] = d],
             envs' = [envs EXCEPT ![h] = @ + 1],
             fd' = [fd EXCEPT ![h] = IF d \in DeviceDrivers THEN AnFd ELSE NoFd],
             opens' = [opens EXCEPT ![h] = IF d \in DeviceDrivers THEN @ + 1 ELSE @]
      PROVE IInv'
  <2>1. d \in Drivers /\ d # NoDriver
    BY CandidatesAreDrivers, CdioHandleAssumption DEF NoDriver
  <2>2. ~live(h) /\ envs[h] = 0
    BY DEF OpenAm
  <2> QED
    BY <1>2, <2>1, <2>2
<1> QED
  BY <1>1, <1>2 DEF OpenAm

LEMMA DestroyStep ==
  ASSUME IInv, NEW h \in Handles, Destroy(h) PROVE IInv'
BY DEF IInv, Types, EnvOwned, DescriptorsBalance, live, NoFd, AnFd,
       Destroy, OpensAfterFree

LEMMA EjectStep ==
  ASSUME IInv, NEW h \in Handles, EjectMedia(h) PROVE IInv'
<1> USE DEF IInv, Types, EnvOwned, DescriptorsBalance, live
<1>1. CASE UNCHANGED <<driver, envs, fd, opens>>
  BY <1>1
<1>2. ASSUME NEW p \in EjectPaths(fd[h]), EjectedDevice(h, p), live(h) PROVE IInv'
  <2> DEFINE n == opens[h] + p.opened - p.closed
  <2>1. n = IF p.fd = AnFd THEN 1 ELSE 0
    BY PathsBalance
  <2>2. p.fd \in {NoFd, AnFd}
    BY PathsBalance
  <2> HIDE DEF n
  <2>3. CASE p.rc = Success
    <3>1. /\ driver' = [driver EXCEPT ![h] = NoDriver]
          /\ envs' = [envs EXCEPT ![h] = @ - 1]
          /\ opens' = [opens EXCEPT ![h] = 0]
          /\ fd' = [fd EXCEPT ![h] = NoFd]
      BY <1>2, <2>1, <2>2, <2>3 DEF EjectedDevice, DestroyedAfter, OpensAfterFree, n, AnFd, NoFd
    <3> QED
      BY <1>2, <3>1 DEF NoFd, AnFd
  <2>4. CASE p.rc # Success
    BY <1>2, <2>1, <2>2, <2>4 DEF EjectedDevice, DestroyedAfter, n, AnFd, NoFd
  <2> QED
    BY <2>3, <2>4
<1>3. ASSUME driver[h] \in ImageDrivers \cap EjectOn, envs[h] = 1,
             envs' = [envs EXCEPT ![h] = @ - 1], UNCHANGED <<driver, fd, opens>>
      PROVE IInv'
  BY <1>3
<1>4. driver[h] \in DeviceDrivers \cap EjectOn => live(h)
  BY CdioHandleAssumption DEF Drivers, NoDriver
<1> QED
  BY <1>1, <1>2, <1>3, <1>4 DEF EjectMedia

LEMMA EjectDriveStep ==
  ASSUME IInv, NEW h \in Handles, EjectMediaDrive(h) PROVE IInv'
<1> USE DEF IInv, Types, EnvOwned, DescriptorsBalance, live
<1>1. CASE UNCHANGED <<driver, fd, envs, opens>>
  BY <1>1
<1>2. ASSUME NEW p \in EjectPaths(AnFd), UNCHANGED <<driver, fd>>,
             envs' = [envs EXCEPT ![h] = @ + 1 - 1],
             opens' = [opens EXCEPT ![h] =
                         OpensAfterFree(p.fd, @ + 1 + p.opened - p.closed)]
      PROVE IInv'
  <2>1. p.fd \in {NoFd, AnFd} /\ p.opened \in Int /\ p.closed \in Int
    BY PathsBalance
  <2>2. 1 + p.opened - p.closed = IF p.fd = AnFd THEN 1 ELSE 0
    BY PathsBalance DEF AnFd
  <2>3. opens[h] = 0
    BY DEF EjectMediaDrive, NoFd, AnFd
  <2> DEFINE n == opens[h] + 1 + p.opened - p.closed
  <2>4. n = IF p.fd = AnFd THEN 1 ELSE 0
    BY <2>1, <2>2, <2>3
  <2>6. opens' = [opens EXCEPT ![h] = OpensAfterFree(p.fd, n)]
    BY <1>2
  <2> HIDE DEF n
  <2>7. OpensAfterFree(p.fd, n) = 0
    BY <2>4 DEF OpensAfterFree
  <2>5. envs' = envs
    BY <1>2
  <2> QED
    BY <1>2, <2>3, <2>5, <2>6, <2>7
<1> QED
  BY <1>1, <1>2 DEF EjectMediaDrive

LEMMA IInvStep == IInv /\ [Next]_vars => IInv'
<1> SUFFICES ASSUME IInv, [Next]_vars PROVE IInv'
  OBVIOUS
<1>1. CASE UNCHANGED <<driver, envs, fd, opens>>
  BY <1>1 DEF IInv, Types, EnvOwned, DescriptorsBalance, live
<1>2. CASE CdioInit
  BY <1>1, <1>2 DEF CdioInit
<1>3. ASSUME NEW h \in Handles, NEW id \in DriverArgs, OpenAm(h, id) PROVE IInv'
  BY <1>3, OpenStep
<1>4. ASSUME NEW h \in Handles, Destroy(h) PROVE IInv'
  BY <1>4, DestroyStep
<1>5. ASSUME NEW h \in Handles, EjectMedia(h) PROVE IInv'
  BY <1>5, EjectStep
<1>6. ASSUME NEW h \in Handles, EjectMediaDrive(h) PROVE IInv'
  BY <1>6, EjectDriveStep
<1>7. ASSUME NEW id, GetDevices(id) PROVE IInv'
  BY <1>1, <1>7 DEF GetDevices
<1>8. ASSUME NEW id, CloseTray(id) PROVE IInv'
  BY <1>1, <1>8 DEF CloseTray
<1>9. CASE UNCHANGED vars
  BY <1>1, <1>9 DEF vars
<1> QED
  BY <1>2, <1>3, <1>4, <1>5, <1>6, <1>7, <1>8, <1>9 DEF Next

LEMMA IInvInit == Init => IInv
BY DEF Init, IInv, Types, EnvOwned, DescriptorsBalance, live, NoFd, AnFd

(* Whatever the order of opens, ejects and destroys, no environment is     *)
(* leaked, and the handle of a device, or of an image that is not ejected, *)
(* has exactly one.                                                        *)
THEOREM EnvironmentsBalance == Spec => []EnvOwned
<1>1. IInv => EnvOwned
  BY DEF IInv
<1> QED
  BY <1>1, IInvStep, IInvInit, PTL DEF Spec

(* Every descriptor is closed exactly once, on every path of an eject.     *)
THEOREM EveryDescriptorClosedOnce == Spec => []DescriptorsBalance
<1>1. IInv => DescriptorsBalance
  BY DEF IInv
<1> QED
  BY <1>1, IInvStep, IInvInit, PTL DEF Spec

(***************************************************************************)
(* What an eject leaves the caller.                                        *)
(***************************************************************************)
(* Only cdio_eject_media of a variable is recorded as its eject.           *)
LEMMA OnlyEjectMedia ==
  ASSUME NEW h \in Handles, Next, last' = Call("eject", h, last'.rc)
  PROVE  EjectMedia(h)
<1>1. last'.op = "eject" /\ last'.of = h
  BY DEF Call
<1>2. ASSUME NEW k \in Handles, EjectMedia(k) PROVE k = h
  <2>1. \E rc : last' = Call("eject", k, rc)
    BY <1>2, Zenon DEF EjectMedia
  <2> QED BY <1>1, <2>1 DEF Call
<1>3. ~CdioInit
  BY <1>1 DEF CdioInit, Call
<1>4. ASSUME NEW k, NEW id, OpenAm(k, id) PROVE FALSE
  <2>1. \E rc : last' = Call("open", k, rc)
    BY <1>4, Zenon DEF OpenAm
  <2> QED BY <1>1, <2>1 DEF Call
<1>5. ASSUME NEW k, Destroy(k) PROVE FALSE
  BY <1>1, <1>5 DEF Destroy, Call
<1>6. ASSUME NEW k, EjectMediaDrive(k) PROVE FALSE
  <2>1. \E rc : last' = Call("eject_drive", k, rc)
    BY <1>6, Zenon DEF EjectMediaDrive
  <2> QED BY <1>1, <2>1 DEF Call
<1>7. ASSUME NEW id, GetDevices(id) \/ CloseTray(id) PROVE FALSE
  <2>1. \E op \in {"devices", "tray"} : \E rc : last' = Call(op, id, rc)
    BY <1>7, Zenon DEF GetDevices, CloseTray
  <2> QED BY <1>1, <2>1 DEF Call
<1> QED BY <1>2, <1>3, <1>4, <1>5, <1>6, <1>7 DEF Next

(* cdio_eject_media of a device's handle frees it and reports success, or  *)
(* leaves it whole, on every path through eject_media_linux.               *)
THEOREM EjectsFreeOrKeep == Spec => EjectFreesOrKeeps
<1>1. ASSUME IInv, Next, NEW h \in Handles, last' = Call("eject", h, last'.rc),
             driver[h] \in DeviceDrivers
      PROVE  IF last'.rc = Success
               THEN ~live(h)' /\ envs'[h] = envs[h] - 1
               ELSE live(h)' /\ envs'[h] = envs[h]
  <2>1. EjectMedia(h) /\ live(h) /\ driver[h] \notin ImageDrivers
    BY <1>1, OnlyEjectMedia, CdioHandleAssumption DEF live, NoDriver, Drivers
  <2>2. PICK p \in EjectPaths(fd[h]) : EjectedDevice(h, p) /\ last' = Call("eject", h, p.rc)
    BY <2>1 DEF EjectMedia
  <2>3. last'.rc = p.rc
    BY <2>2 DEF Call
  <2>4. CASE p.rc = Success
    <3>1. driver' = [driver EXCEPT ![h] = NoDriver] /\ envs' = [envs EXCEPT ![h] = @ - 1]
      BY <2>2, <2>4 DEF EjectedDevice, DestroyedAfter
    <3> QED BY <1>1, <2>3, <2>4, <3>1 DEF IInv, Types, live
  <2>5. CASE p.rc # Success
    BY <2>1, <2>2, <2>3, <2>5 DEF EjectedDevice, DestroyedAfter, live
  <2> QED BY <2>4, <2>5
<1>2. IInv /\ [Next]_vars =>
        [\A h \in Handles :
           last' = Call("eject", h, last'.rc) /\ driver[h] \in DeviceDrivers =>
             IF last'.rc = Success
               THEN ~live(h)' /\ envs'[h] = envs[h] - 1
               ELSE live(h)' /\ envs'[h] = envs[h]]_vars
  BY <1>1
<1> QED
  BY <1>2, IInvStep, IInvInit, PTL DEF Spec, EjectFreesOrKeeps

-----------------------------------------------------------------------------
(* Finding and opening drives (module DriveAccess), which the calls above  *)
(* do for handles of devices.                                              *)
PlatformNames == {"linux", "freebsd", "netbsd", "solaris", "osx", "win32"}
KnownMachines == \A m \in Machines : m.platform \in PlatformNames

Allocated == {"env", "source", "device", "cdio"}
Guards == {"excl", "lock"}       \* what only one process may hold of a drive
IsHandle(h) == DOMAIN h = {"at", "src", "am", "unit", "tries", "held"}

Stage(h) ==
  /\ h.held \subseteq Access!System \cup Allocated
  /\ "device" \in h.held => Access!Platform = "freebsd"
  /\ h.at = "closed" =>
       h.held \cap Access!System = {} /\ (Access!Platform \in {"linux", "netbsd"} => h.held = {})
  /\ h.at \in {"mode", "source"} => h.held = {}
  /\ h.at = "new" => h.held \subseteq {"env", "source", "device"}
  /\ h.at = "node" => h.held \subseteq Allocated
  /\ h.at = "cam" /\ h.am = "EXCL" => "lock" \in h.held
  /\ h.at = "live" /\ Access!Platform = "freebsd" =>
       (h.am = "EXCL" => "lock" \in h.held) /\ (h.src[1] = "acd" => h.am = "ioctl")

(* No other process holds the guards of h for the same drive.              *)
Alone(c, h) ==
  \A d \in Access!Clients \ {c}, x \in Guards :
    ~(x \in h.held /\ x \in handle[d].held /\ handle[d].unit = h.unit)

HInv ==
  /\ Access!Platform \in PlatformNames
  /\ DOMAIN handle = Access!Clients
  /\ \A c \in Access!Clients : IsHandle(handle[c]) /\ Stage(handle[c]) /\ Alone(c, handle[c])

LEMMA InvHolds == HInv => Access!HandlesHold
<1> SUFFICES ASSUME HInv PROVE Access!HandlesHold
  OBVIOUS
<1>1. ASSUME Access!Platform \in {"linux", "freebsd"}, handle["mine"].unit = handle["rival"].unit,
             Access!Exclusive("mine"), Access!Exclusive("rival")
      PROVE  FALSE
  <2>1. \E x \in Guards : x \in handle["mine"].held /\ x \in handle["rival"].held
    BY <1>1 DEF HInv, Stage, Access!Exclusive, Guards, Access!Clients
  <2> QED BY <1>1, <2>1 DEF HInv, Alone, Access!Clients
<1>2. \A c \in Access!Clients : handle[c].at = "closed" =>
        /\ handle[c].held \cap Access!System = {}
        /\ Access!Platform \in {"linux", "netbsd"} => handle[c].held = {}
  BY DEF HInv, Stage
<1>3. \A c \in Access!Clients : handle[c].at = "live" /\ Access!Platform = "freebsd" /\ handle[c].src[1] = "acd" =>
        handle[c].am = "ioctl"
  BY DEF HInv, Stage
<1> QED BY <1>1, <1>2, <1>3 DEF Access!HandlesHold

-----------------------------------------------------------------------------
(* One process goes on to another stage.                                   *)
LEMMA MoveInv ==
  ASSUME HInv, NEW c \in Access!Clients, NEW h, Access!Move(c, h), UNCHANGED machine,
         IsHandle(h), Stage(h), Alone(c, h)
  PROVE  HInv'
<1>1. DOMAIN handle' = Access!Clients /\ handle'[c] = h /\ \A d \in Access!Clients \ {c} : handle'[d] = handle[d]
  BY DEF Access!Move, HInv
<1>2. Access!Platform' = Access!Platform
  BY DEF Access!Platform
<1>3. \A d \in Access!Clients : IsHandle(handle'[d])
  BY <1>1 DEF HInv
<1>4. \A d \in Access!Clients : Stage(handle[d])' 
  BY <1>1, <1>2 DEF HInv, Stage
<1>5. \A d \in Access!Clients : Alone(d, handle[d])'
  BY <1>1 DEF HInv, Alone
<1> QED BY <1>1, <1>2, <1>3, <1>4, <1>5 DEF HInv

(* Whoever takes up no guard, and keeps those it has for the same drive,   *)
(* is as alone with them as before.                                        *)
LEMMA KeepsGuards ==
  ASSUME HInv, NEW c \in Access!Clients, NEW h,
         h.held \cap Guards \subseteq handle[c].held,
         h.held \cap Guards = {} \/ h.unit = handle[c].unit
  PROVE  Alone(c, h)
BY DEF HInv, Alone

LEMMA RefuseInv ==
  ASSUME HInv, NEW c \in Access!Clients, NEW released, Access!Refuse(c, released), UNCHANGED machine,
         (handle[c].held \ released) \cap Access!System = {},
         Access!Platform \in {"linux", "netbsd"} => handle[c].held \ released = {}
  PROVE  HInv'
<1> DEFINE h == [Access!ClosedHandle EXCEPT !.held = handle[c].held \ released]
<1>1. IsHandle(h) /\ h.at = "closed" /\ h.held = handle[c].held \ released
  BY DEF IsHandle, Access!ClosedHandle
<1>2. Stage(h)
  BY <1>1 DEF Stage, HInv
<1>3. Alone(c, h)
  BY <1>1 DEF Alone, Guards, Access!System
<1> QED BY <1>1, <1>2, <1>3, MoveInv DEF Access!Refuse

(* The error exits release whatever the system holds, and under GNU/Linux  *)
(* and NetBSD everything.                                                  *)
LEMMA ErrorExit ==
  ASSUME HInv, NEW c \in Access!Clients, Access!Refuse(c, Access!ReleasedOnError), UNCHANGED machine
  PROVE  HInv'
<1>1. (handle[c].held \ Access!ReleasedOnError) \cap Access!System = {}
  BY DEF HInv, Access!ReleasedOnError, PlatformNames
<1>2. Access!Platform \in {"linux", "netbsd"} => handle[c].held \ Access!ReleasedOnError = {}
  BY DEF HInv, Stage, Access!ReleasedOnError, Allocated
<1> QED BY <1>1, <1>2, RefuseInv

-----------------------------------------------------------------------------
(* The stages of an open, one by one.                                      *)
LEMMA StartInv ==
  ASSUME HInv, NEW c \in Access!Clients, NEW src, NEW am, Access!StartOpen(c, src, am)
  PROVE  HInv'
<1> DEFINE h == [Access!ClosedHandle EXCEPT !.at = IF Access!Platform = "freebsd" /\ am = "default" THEN "mode" ELSE "source",
                                     !.src = src, !.am = am]
<1>1. IsHandle(h) /\ h.at \in {"mode", "source"} /\ h.held = {}
  BY DEF IsHandle, Access!ClosedHandle
<1>2. Stage(h) /\ Alone(c, h)
  BY <1>1 DEF Stage, Alone
<1>3. UNCHANGED machine /\ Access!Move(c, h)
  BY DEF Access!StartOpen
<1> QED BY <1>1, <1>2, <1>3, MoveInv

LEMMA ChooseModeInv ==
  ASSUME HInv, NEW c \in Access!Clients, Access!ChooseMode(c)
  PROVE  HInv'
<1> PICK am : Access!Move(c, [handle[c] EXCEPT !.at = "source", !.am = am])
  BY DEF Access!ChooseMode
<1> DEFINE h == [handle[c] EXCEPT !.at = "source", !.am = am]
<1>1. handle[c].held = {} /\ UNCHANGED machine
  BY DEF HInv, Stage, Access!ChooseMode
<1>2. IsHandle(h) /\ h.at = "source" /\ h.held = {}
  BY <1>1 DEF HInv, IsHandle
<1>3. Stage(h) /\ Alone(c, h)
  BY <1>2 DEF Stage, Alone
<1> QED BY <1>1, <1>2, <1>3, MoveInv

LEMMA ChooseSourceInv ==
  ASSUME HInv, NEW c \in Access!Clients, Access!ChooseSource(c)
  PROVE  HInv'
<1>1. handle[c].at = "source" /\ handle[c].held = {} /\ UNCHANGED machine
  BY DEF HInv, Stage, Access!ChooseSource
<1>2. CASE Access!Refuse(c, {"env", "source"})
  BY <1>1, <1>2, RefuseInv
<1>3. ASSUME NEW name,
             Access!Move(c, [handle[c] EXCEPT !.at = "new", !.src = name,
                        !.held = {"env", "source"} \cup IF Access!Platform = "freebsd" THEN {"device"} ELSE {}])
      PROVE  HInv'
  <2> DEFINE held == {"env", "source"} \cup IF Access!Platform = "freebsd" THEN {"device"} ELSE {}
             h == [handle[c] EXCEPT !.at = "new", !.src = name, !.held = held]
  <2>1. IsHandle(h) /\ h.at = "new" /\ h.held = held
    BY DEF HInv, IsHandle
  <2>2. Stage(h) /\ Alone(c, h)
    BY <2>1 DEF Stage, Alone, Guards, Allocated
  <2> QED BY <1>1, <1>3, <2>1, <2>2, MoveInv
<1> QED BY <1>2, <1>3 DEF Access!ChooseSource

LEMMA NewInv ==
  ASSUME HInv, NEW c \in Access!Clients, Access!New(c)
  PROVE  HInv'
<1>1. /\ handle[c].at = "new" /\ handle[c].held \subseteq {"env", "source", "device"}
      /\ UNCHANGED machine
  BY DEF HInv, Stage, Access!New
<1>2. CASE Access!Move(c, [handle[c] EXCEPT !.at = "node", !.held = @ \cup {"cdio"}])
  <2> DEFINE h == [handle[c] EXCEPT !.at = "node", !.held = @ \cup {"cdio"}]
  <2>1. IsHandle(h) /\ h.at = "node" /\ h.held = handle[c].held \cup {"cdio"}
    BY DEF HInv, IsHandle
  <2>2. Stage(h)
    BY <1>1, <2>1 DEF HInv, Stage, Allocated
  <2>3. Alone(c, h)
    BY <1>1, <2>1 DEF Alone, Guards
  <2> QED BY <1>1, <1>2, <2>1, <2>2, <2>3, MoveInv
<1>3. CASE Access!Platform = "solaris" /\ Access!Refuse(c, {})
  <2>1. (handle[c].held \ {}) \cap Access!System = {}
    BY <1>1 DEF Access!System
  <2> QED BY <1>1, <1>3, <2>1, RefuseInv
<1> QED BY <1>1, <1>2, <1>3, ErrorExit DEF Access!New

(* A handle that goes from one stage to the next with what it has, and     *)
(* perhaps something that is no guard.                                     *)
LEMMA GoOnInv ==
  ASSUME HInv, NEW c \in Access!Clients, NEW at, NEW more \in SUBSET (Access!System \ Guards),
         Access!Move(c, [handle[c] EXCEPT !.at = at, !.held = @ \cup more]), UNCHANGED machine,
         at \in {"init", "lock", "cam", "live"},
         at = "cam" => handle[c].am # "EXCL",
         at = "live" /\ Access!Platform = "freebsd" =>
           /\ handle[c].am = "EXCL" => "lock" \in handle[c].held
           /\ handle[c].src[1] = "acd" => handle[c].am = "ioctl"
  PROVE  HInv'
<1> DEFINE h == [handle[c] EXCEPT !.at = at, !.held = @ \cup more]
<1>1. /\ IsHandle(h) /\ h.at = at /\ h.held = handle[c].held \cup more
      /\ h.am = handle[c].am /\ h.src = handle[c].src /\ h.unit = handle[c].unit
  BY DEF HInv, IsHandle
<1>2. Stage(h)
  BY <1>1 DEF HInv, Stage, Access!System
<1>3. Alone(c, h)
  BY <1>1, KeepsGuards
<1> QED BY <1>1, <1>2, <1>3, MoveInv

LEMMA StageOnInv ==
  ASSUME HInv, NEW c \in Access!Clients, NEW at, Access!Move(c, [handle[c] EXCEPT !.at = at]), UNCHANGED machine,
         at \in {"init", "lock", "cam", "live"},
         at = "cam" => handle[c].am # "EXCL",
         at = "live" /\ Access!Platform = "freebsd" => handle[c].am = "ioctl"
  PROVE  HInv'
<1> DEFINE h == [handle[c] EXCEPT !.at = at]
<1>1. /\ IsHandle(h) /\ h.at = at /\ h.held = handle[c].held
      /\ h.am = handle[c].am /\ h.src = handle[c].src /\ h.unit = handle[c].unit
  BY DEF HInv, IsHandle
<1>2. Stage(h)
  BY <1>1 DEF HInv, Stage
<1>3. Alone(c, h)
  BY <1>1, KeepsGuards
<1> QED BY <1>1, <1>2, <1>3, MoveInv

LEMMA OpenNodeInv ==
  ASSUME HInv, NEW c \in Access!Clients, Access!OpenNode(c)
  PROVE  HInv'
<1>1. handle[c].at = "node" /\ handle[c].held \subseteq Allocated /\ UNCHANGED machine
  BY DEF HInv, Stage, Access!OpenNode
<1>2. ASSUME NEW excl \in SUBSET {"excl"}, excl # {} => Access!Platform = "linux",
             excl # {} => ~Access!HeldExcl(Access!UnitAt(handle[c].src)),
             Access!Move(c, [handle[c] EXCEPT !.at = "init", !.unit = Access!UnitAt(handle[c].src),
                                       !.held = @ \cup {"fd"} \cup excl])
      PROVE  HInv'
  <2> DEFINE u == Access!UnitAt(handle[c].src)
             h == [handle[c] EXCEPT !.at = "init", !.unit = u, !.held = @ \cup {"fd"} \cup excl]
  <2>1. IsHandle(h) /\ h.at = "init" /\ h.unit = u /\ h.held = handle[c].held \cup {"fd"} \cup excl
    BY DEF HInv, IsHandle
  <2>2. Stage(h)
    BY <1>1, <1>2, <2>1 DEF HInv, Stage, Access!System
  <2>3. Alone(c, h)
    BY <1>1, <1>2, <2>1 DEF Alone, Access!HeldExcl, Guards, Allocated
  <2> QED BY <1>1, <1>2, <2>1, <2>2, <2>3, MoveInv
<1>3. CASE Access!Move(c, [handle[c] EXCEPT !.at = "init"])
  BY <1>1, <1>3, StageOnInv
<1>4. CASE Access!Refuse(c, Access!ReleasedOnError)
  BY <1>1, <1>4, ErrorExit
<1> QED
  <2> DEFINE excl == IF Access!WantsExcl(handle[c]) THEN {"excl"} ELSE {}
  <2>1. excl \in SUBSET {"excl"} /\ (excl # {} => Access!Platform = "linux" /\ Access!WantsExcl(handle[c]))
    BY DEF Access!WantsExcl
  <2>2. CASE /\ Access!WantsExcl(handle[c]) => ~Access!HeldExcl(Access!UnitAt(handle[c].src))
             /\ Access!Move(c, [handle[c] EXCEPT !.at = "init", !.unit = Access!UnitAt(handle[c].src),
                                          !.held = @ \cup {"fd"} \cup excl])
    BY <1>2, <2>1, <2>2
  <2> QED BY <1>3, <1>4, <2>2 DEF Access!OpenNode

LEMMA InitDeviceInv ==
  ASSUME HInv, NEW c \in Access!Clients, Access!InitDevice(c)
  PROVE  HInv'
<1>1. UNCHANGED machine
  BY DEF Access!InitDevice, Access!InitPlain, Access!InitFreeBsd, Access!InitOsx, Access!InitWin32
<1>2. CASE Access!InitPlain(c)
  BY <1>1, <1>2, StageOnInv DEF Access!InitPlain
<1>3. CASE Access!InitFreeBsd(c)
  <2> DEFINE am == handle[c].am
  <2>1. /\ Access!NextOfMode(am) \in {"live", "lock", "cam"}
        /\ Access!NextOfMode(am) = "cam" => am # "EXCL"
        /\ Access!NextOfMode(am) = "live" => am = "ioctl"
    BY DEF Access!NextOfMode
  <2> QED BY <1>1, <1>3, <2>1, StageOnInv DEF Access!InitFreeBsd
<1>4. CASE Access!InitOsx(c)
  <2>1. {"service"} \in SUBSET (Access!System \ Guards)
    BY DEF Access!System, Guards
  <2>2. Access!Platform # "freebsd"
    BY <1>4 DEF Access!InitOsx
  <2> QED BY <1>1, <1>4, <2>1, <2>2, GoOnInv, ErrorExit DEF Access!InitOsx
<1>5. CASE Access!InitWin32(c)
  <2>1. Access!Platform # "freebsd"
    BY <1>5 DEF Access!InitWin32
  <2> QED BY <1>1, <1>5, <2>1, StageOnInv, ErrorExit DEF Access!InitWin32
<1> QED BY <1>2, <1>3, <1>4, <1>5 DEF Access!InitDevice

LEMMA TryLockInv ==
  ASSUME HInv, NEW c \in Access!Clients, Access!TryLock(c)
  PROVE  HInv'
<1>1. handle[c].at = "lock" /\ UNCHANGED machine
  BY DEF Access!TryLock
<1>2. CASE ~Access!Locked(handle[c].unit) /\ Access!Move(c, [handle[c] EXCEPT !.at = "cam", !.held = @ \cup {"lock"}])
  <2> DEFINE h == [handle[c] EXCEPT !.at = "cam", !.held = @ \cup {"lock"}]
  <2>1. IsHandle(h) /\ h.at = "cam" /\ h.unit = handle[c].unit /\ h.held = handle[c].held \cup {"lock"}
    BY DEF HInv, IsHandle
  <2>2. Stage(h)
    BY <2>1 DEF HInv, Stage, Access!System
  <2>3. Alone(c, h)
    BY <1>2, <2>1 DEF HInv, Alone, Access!Locked
  <2> QED BY <1>1, <1>2, <2>1, <2>2, <2>3, MoveInv
<1>3. CASE Access!Move(c, Access!AfterDenial(handle[c]))
  <2> DEFINE h == Access!AfterDenial(handle[c])
  <2>1. IsHandle(h) /\ h.at = "lock" /\ h.unit = handle[c].unit /\ h.held = handle[c].held
    BY <1>1 DEF HInv, IsHandle, Access!AfterDenial
  <2>2. Stage(h)
    BY <2>1 DEF HInv, Stage
  <2>3. Alone(c, h)
    BY <2>1, KeepsGuards
  <2> QED BY <1>1, <1>3, <2>1, <2>2, <2>3, MoveInv
<1>4. CASE Access!Refuse(c, Access!ReleasedOnError)
  BY <1>1, <1>4, ErrorExit
<1> QED BY <1>2, <1>3, <1>4 DEF Access!TryLock

LEMMA InitCamInv ==
  ASSUME HInv, NEW c \in Access!Clients, Access!InitCam(c)
  PROVE  HInv'
<1>1. /\ handle[c].at = "cam" /\ UNCHANGED machine
      /\ handle[c].am = "EXCL" => "lock" \in handle[c].held
  BY DEF HInv, Stage, Access!InitCam
<1>2. {"cam"} \in SUBSET (Access!System \ Guards)
  BY DEF Access!System, Guards
<1>3. CASE handle[c].src[1] # "acd" /\ Access!Move(c, [handle[c] EXCEPT !.at = "live", !.held = @ \cup {"cam"}])
  BY <1>1, <1>2, <1>3, GoOnInv
<1>4. CASE Access!Refuse(c, Access!ReleasedOnError)
  BY <1>1, <1>4, ErrorExit
<1> QED BY <1>3, <1>4 DEF Access!InitCam

-----------------------------------------------------------------------------
(* The handle afterwards.                                                  *)
LEMMA EjectInv ==
  ASSUME HInv, NEW c \in Access!Clients, Access!EjectFails(c)
  PROVE  HInv'
<1>1. handle[c].at = "live" /\ Access!Platform = "linux" /\ UNCHANGED machine
  BY DEF Access!EjectFails
<1>2. ASSUME NEW held, Access!Move(c, [handle[c] EXCEPT !.held = held]),
             held \subseteq handle[c].held \cup {"fd"}
      PROVE  HInv'
  <2> DEFINE h == [handle[c] EXCEPT !.held = held]
  <2>1. IsHandle(h) /\ h.at = "live" /\ h.unit = handle[c].unit /\ h.held = held
    BY <1>1 DEF HInv, IsHandle
  <2>2. Stage(h)
    BY <1>1, <1>2, <2>1 DEF HInv, Stage, Access!System
  <2>3. Alone(c, h)
    BY <1>2, <2>1, KeepsGuards DEF Guards
  <2> QED BY <1>1, <1>2, <2>1, <2>2, <2>3, MoveInv
<1>3. CASE Access!Move(c, [handle[c] EXCEPT !.held = @ \ {"fd", "excl"}])
  BY <1>2, <1>3
<1>4. CASE Access!Move(c, [handle[c] EXCEPT !.held = (@ \ {"excl"}) \cup {"fd"}])
  BY <1>2, <1>4
<1> QED BY <1>3, <1>4 DEF Access!EjectFails

LEMMA CloseInv ==
  ASSUME HInv, NEW c \in Access!Clients, Access!CloseHandle(c)
  PROVE  HInv'
<1>1. Access!Refuse(c, Access!ReleasedByFree(handle[c])) /\ UNCHANGED machine
  BY DEF Access!CloseHandle, Access!Refuse
<1>2. Access!System \subseteq Access!ReleasedByFree(handle[c])
  BY DEF Access!ReleasedByFree
<1>3. Access!Platform # "freebsd" => handle[c].held \subseteq Access!ReleasedByFree(handle[c])
  BY DEF HInv, Stage, Access!ReleasedByFree, Allocated
<1> QED BY <1>1, <1>2, <1>3, RefuseInv

LEMMA NextInv == HInv /\ [Access!Next]_Access!vars => HInv'
<1> SUFFICES ASSUME HInv, [Access!Next]_Access!vars PROVE HInv'
  OBVIOUS
<1>1. CASE UNCHANGED <<machine, handle>>
  BY <1>1 DEF HInv, Stage, Alone, Access!Platform
<1>2. CASE \/ \E op \in {"list", "default"}, viaHandle \in BOOLEAN : Access!Search(op, viaHandle)
           \/ Access!SearchStep
           \/ \E u \in Access!Units : Access!Plug(u)
           \/ UNCHANGED Access!vars
  BY <1>1, <1>2 DEF Access!Search, Access!SearchStep, Access!Probe, Access!Add,
       Access!AnswerSearch, Access!Plug, Access!vars
<1>3. ASSUME NEW c \in Access!Clients,
             \/ \E src \in Access!Names \cup {Access!None}, am \in Access!AccessModes : Access!StartOpen(c, src, am)
             \/ Access!OpenStep(c) \/ Access!EjectFails(c) \/ Access!CloseHandle(c)
      PROVE  HInv'
  BY <1>3, StartInv, ChooseModeInv, ChooseSourceInv, NewInv, OpenNodeInv, InitDeviceInv, TryLockInv,
     InitCamInv, EjectInv, CloseInv DEF Access!OpenStep
<1> QED BY <1>2, <1>3 DEF Access!Next

LEMMA InitInv ==
  ASSUME KnownMachines
  PROVE  Access!Init => HInv
BY DEF KnownMachines, Access!Init, Access!Platform, HInv, Access!ClosedHandle, IsHandle, Stage,
     Alone

(* On whatever machine: two processes never both have a drive open in the  *)
(* exclusive mode, save after an eject has failed, and an open that fails  *)
(* or a handle that is closed leaves no descriptor, lock, pass-through     *)
(* device or service behind, whatever fails on the way and whatever is     *)
(* plugged in or out meanwhile (the open and free routines of gnu_linux.c, *)
(* freebsd.c, netbsd.c, solaris.c, osx.c and win32.c).                     *)
THEOREM OpensLeaveNothing ==
  ASSUME KnownMachines
  PROVE  Access!Spec => []Access!HandlesHold
BY InitInv, NextInv, InvHolds, PTL DEF Access!Spec

-----------------------------------------------------------------------------
(* The search.  A machine of Machines stays the same for the whole run.    *)
Classes == {"cdrom", "dvd", "mtab", "fstab", "hd", "scd", "sr", "cd", "acd", "rcd",
            "alias", "disk", "ctds2", "rdisk", "letter"}
NodeNames == Classes \X Int
In(s) == {s[i] : i \in DOMAIN s}

(* The instance's definitions about finite sets are the library's.         *)
LEMMA SameFiniteSets ==
  \A S : /\ Access!IsFiniteSet(S) <=> IsFiniteSet(S)
         /\ Access!Cardinality(S) = Cardinality(S)
BY DEF Access!IsFiniteSet, IsFiniteSet, Access!Cardinality, Cardinality

LEMMA RealMachinesKnown == KnownMachines
BY MachinesAssumption DEF RealMachines, KnownMachines, PlatformNames, Access!RealMachine

LEMMA MachineFacts ==
  ASSUME RealMachines, machine \in Machines
  PROVE  /\ Access!Platform \in PlatformNames
         /\ Access!Names \subseteq Access!ClassesOf(Access!Platform) \X (0 .. Numbers - 1)
         /\ IsFiniteSet(Access!Names)
         /\ \A n \in Access!Names : machine.unit[n] \in Access!Units /\ machine.unit[n] # Access!Gone
         /\ Access!None \notin Access!Names /\ Access!Gone \notin Access!Units
         /\ \A u \in Access!Units : <<u, 0>> \notin Access!Names
<1>1. Access!RealMachine(machine)
  BY DEF RealMachines
<1>2. Access!Platform \in PlatformNames /\ Access!Names \subseteq Access!ClassesOf(Access!Platform) \X (0 .. Numbers - 1)
  BY <1>1 DEF Access!RealMachine, PlatformNames, Access!Platform, Access!Names
<1>3. Access!None \notin Access!Names
  BY <1>2 DEF Access!None, Access!ClassesOf, PlatformNames
<1>4. IsFiniteSet(Access!Names)
  BY <1>1, SameFiniteSets DEF Access!RealMachine, Access!Names
<1> QED BY <1>1, <1>2, <1>3, <1>4 DEF Access!RealMachine, Access!Platform, Access!Names,
    Access!Units

LEMMA NamesAreNodes ==
  ASSUME RealMachines, machine \in Machines
  PROVE  Access!Names \subseteq NodeNames
<1>1. Access!ClassesOf(Access!Platform) \subseteq Classes
  BY MachineFacts DEF Access!ClassesOf, Classes, PlatformNames
<1>2. 0 .. Numbers - 1 \subseteq Int
  BY DEF RealMachines
<1> QED BY <1>1, <1>2, MachineFacts DEF NodeNames

LEMMA NodeThere ==
  ASSUME RealMachines, machine \in Machines, NEW n
  PROVE  /\ Access!IsDevice(n) <=> n \in Access!Names /\ machine.unit[n] \in attached
         /\ Access!IsDevice(n) => Access!UnitAt(n) = machine.unit[n] /\ Access!KindAt(n) = machine.kind[machine.unit[n]]
         /\ Access!KindAt(n) = "cd" => Access!IsDevice(n)
BY MachineFacts DEF Access!IsDevice, Access!UnitAt, Access!KindAt

(* Every non-empty set of natural numbers has a least member.              *)
LEMMA LeastNatural ==
  ASSUME NEW S \in SUBSET Nat, S # {}
  PROVE  \E m \in S : \A k \in S : m <= k
<1> DEFINE R == {ss \in Nat \X Nat : ss[1] < ss[2]}
<1>1. IsWellFoundedOn(R, Nat)
  BY NatLessThanWellFounded DEF OpToRel
<1>2. \A x \in Nat, y \in Nat : y < x => <<y, x>> \in R
  OBVIOUS
<1> HIDE DEF R
<1>3. PICK x \in S : \A y \in S : ~ (<<y, x>> \in R)
  BY <1>1, WFMin
<1>4. ASSUME NEW k \in S
      PROVE  x <= k
  <2>1. x \in Nat /\ k \in Nat
    BY <1>3
  <2>2. ~ (k < x)
    BY <1>2, <1>3, <2>1
  <2> QED BY <2>1, <2>2
<1> QED BY <1>3, <1>4

(* A sequence made of a finite set has all its members.                    *)
LEMMA SequenceOfSet ==
  ASSUME NEW S, IsFiniteSet(S)
  PROVE  Access!SetToSeq(S) \in Seq(S) /\ In(Access!SetToSeq(S)) = S
<1> DEFINE n == Cardinality(S)
           P(f) == f \in [1 .. n -> S] /\ Access!IsInjective(f)
           f == Access!SetToSeq(S)
<1>1. n \in Nat /\ ExistsBijection(1 .. n, S)
  BY FS_CardinalityType
<1>2. PICK g : P(g)
  BY <1>1 DEF ExistsBijection, Bijection, Injection, IsInjective, Access!IsInjective
<1>3. f = CHOOSE h \in [1 .. n -> S] : Access!IsInjective(h)
  BY SameFiniteSets DEF Access!SetToSeq
<1> HIDE DEF f, n
<1>4. f \in [1 .. n -> S] /\ Access!IsInjective(f)
  BY <1>2, <1>3
<1>5. ASSUME NEW x \in S, x \notin In(f)
      PROVE  FALSE
  <2>1. f \in [1 .. n -> S \ {x}]
    BY <1>4, <1>5 DEF In
  <2>2. IsFiniteSet(S \ {x}) /\ Cardinality(S \ {x}) = n - 1
    BY FS_RemoveElement DEF n
  <2>3. IsFiniteSet(1 .. n) /\ Cardinality(1 .. n) = n
    BY <1>1, FS_Interval
  <2>4. PICK i \in 1 .. n, k \in 1 .. n : i # k /\ f[i] = f[k]
    <3>1. n - 1 < n
      BY <1>1
    <3> QED BY <2>1, <2>2, <2>3, <3>1, FS_PigeonHole
  <2> QED BY <1>4, <2>4 DEF Access!IsInjective
<1>6. f \in Seq(S)
  BY <1>1, <1>4
<1>7. In(f) = S
  BY <1>4, <1>5 DEF In
<1> QED BY <1>6, <1>7 DEF f

LEMMA ListedThere ==
  ASSUME RealMachines, machine \in Machines, NEW class
  PROVE  /\ Access!Listed(class) \in Seq(NodeNames)
         /\ In(Access!Listed(class)) = {n \in Access!Names : n[1] = class /\ Access!IsDevice(n)}
<1> DEFINE S == {n \in Access!Names : n[1] = class /\ Access!IsDevice(n)}
<1>1. IsFiniteSet(S)
  BY MachineFacts, FS_Subset
<1>2. Access!SetToSeq(S) \in Seq(S) /\ In(Access!SetToSeq(S)) = S
  BY <1>1, SequenceOfSet
<1>3. S \subseteq NodeNames
  BY NamesAreNodes
<1>4. Access!SetToSeq(S) \in Seq(NodeNames)
  <2> HIDE DEF S
  <2> QED BY <1>2, <1>3
<1> QED BY <1>2, <1>4 DEF Access!Listed

(* What is known of a name that a search has found.                        *)
KindSeen == Access!LooksAtKind /\ (Access!Platform = "win32" => machine.nt)
Good(name) ==
  /\ name \in Access!Names /\ machine.unit[name] \in call.ever
  /\ KindSeen => machine.kind[machine.unit[name]] = "cd"

(* The name n is listed, under this name or another one of its drive, or   *)
(* still to be looked at; a search for the default stops at the first.     *)
Accounted(n) ==
  \/ \E i \in DOMAIN call.list : machine.unit[call.list[i]] = machine.unit[n]
  \/ call.got # Access!None /\ machine.unit[call.got] = machine.unit[n]
  \/ n \in In(call.names)
  \/ call.op = "default" /\ (call.got # Access!None \/ call.list # <<>>)

Complete ==
  call.op = "list" \/ (call.op = "default" /\ Access!Platform \in {"linux", "osx", "win32"}) =>
    \A n \in Access!Names :
      machine.unit[n] \in call.steady /\ machine.kind[machine.unit[n]] = "cd" /\ Access!Sure(n, call.steady) =>
        Accounted(n)

(* FreeBSD looks at the numbers of the class cd in their order, first.     *)
InOrder ==
  Access!Platform = "freebsd" =>
    \A i \in DOMAIN call.names : call.names[i][1] = "cd" =>
      \A k \in 1 .. i - 1 : call.names[k][1] = "cd" /\ call.names[k][2] \in 0 .. call.names[i][2] - 1

NoTwice ==
  \A i, k \in DOMAIN call.list :
    machine.unit[call.list[i]] = machine.unit[call.list[k]] /\ machine.unit[call.list[i]] \in call.steady => i = k

CallInv ==
  /\ DOMAIN call = {"op", "names", "got", "list", "steady", "ever"}
  /\ call.op \in {"none", "list", "default"}
  /\ call.names \in Seq(NodeNames) /\ call.list \in Seq(Access!Names)
  /\ call # Access!NoCall => call.steady \subseteq attached /\ attached \subseteq call.ever
  /\ call = Access!NoCall \/ call.op # "none"
  /\ call.got # Access!None => Good(call.got)
  /\ \A i \in DOMAIN call.list : Good(call.list[i])
  /\ NoTwice /\ Complete /\ InOrder

SInv ==
  /\ machine \in Machines
  /\ attached \subseteq Access!Units
  /\ CallInv
  /\ Access!DrivesFound

(* Whatever is found is there, and is a CD drive where that is looked at.  *)
LEMMA FoundIsGood ==
  ASSUME RealMachines, machine \in Machines, attached \subseteq Access!Units, attached \subseteq call.ever,
         NEW op, NEW name, Access!Found(op, name) # Access!None
  PROVE  Good(Access!Found(op, name))
<1> DEFINE found == Access!Found(op, name)
<1>0. Access!Platform \in PlatformNames
  BY MachineFacts
<1>1. ASSUME Access!IsDevice(found), KindSeen => machine.kind[machine.unit[found]] = "cd"
      PROVE  Good(found)
  <2> HIDE DEF found
  <2> QED BY <1>1, NodeThere DEF Good
<1>2. CASE Access!Platform = "linux"
  <2>1. ASSUME NEW lines \in {machine.mtab, machine.fstab}, Access!CheckMounts(lines) # Access!None
        PROVE  LET dev == Access!CheckMounts(lines) IN Access!IsDevice(dev) /\ machine.kind[machine.unit[dev]] = "cd"
    <3> DEFINE ofCdrom(line) == Access!MountType(line) = "iso9660" /\ Access!IsCdromLinux(Access!MountDev(line), Access!MountType(line))
               at == {i \in DOMAIN lines : ofCdrom(lines[i])}
               first == CHOOSE i \in at : \A k \in at : i <= k
    <3>1. at # {} /\ Access!CheckMounts(lines) = Access!MountDev(lines[first])
      BY <2>1 DEF Access!CheckMounts
    <3>2. DOMAIN lines \subseteq Nat /\ Access!MountsAreCds(machine, lines)
      BY <2>1 DEF RealMachines, Access!RealMachine
    <3>3. \E i \in at : \A k \in at : i <= k
      <4>1. at \in SUBSET Nat
        BY <3>2
      <4> HIDE DEF at
      <4> QED BY <3>1, <4>1, LeastNatural
    <3>4. first \in at
      <4> HIDE DEF at
      <4> QED BY <3>3
    <3> HIDE DEF first
    <3> DEFINE dev == Access!MountDev(lines[first])
    <3>5. Access!MountType(lines[first]) = "iso9660" /\ Access!IsCdromLinux(dev, "iso9660") /\ first \in DOMAIN lines
      BY <3>4
    <3>6. Access!IsDevice(dev) /\ dev \in Access!Names /\ machine.kind[machine.unit[dev]] = "cd"
      <4> HIDE DEF dev
      <4>1. Access!IsDevice(dev) /\ dev \in Access!Names
        BY <3>5, NodeThere DEF Access!IsCdromLinux
      <4> QED BY <3>2, <3>5, <4>1 DEF Access!MountsAreCds, Access!Names, dev
    <3> QED BY <3>1, <3>6
  <2>2. CASE name[1] \in {"mtab", "fstab"}
    BY <1>1, <1>2, <2>1, <2>2 DEF Access!Found, Access!FoundLinux
  <2>3. CASE name[1] \notin {"mtab", "fstab"}
    <3>1. found = name /\ Access!IsCdromLinux(name, "none")
      BY <1>2, <2>3 DEF Access!Found, Access!FoundLinux
    <3>2. Access!IsDevice(name) /\ Access!KindAt(name) = "cd"
      BY <3>1 DEF Access!IsCdromLinux
    <3> QED BY <1>1, <3>1, <3>2, NodeThere
  <2> QED BY <2>2, <2>3
<1>3. CASE Access!Platform \in {"freebsd", "netbsd", "osx"}
  <2>1. found = name /\ Access!IsDevice(name) /\ ~Access!LooksAtKind
    BY <1>3 DEF Access!Found, Access!FoundFreeBsd, Access!FoundNetBsd, Access!FoundOsx,
         Access!CanOpen, Access!LooksAtKind
  <2> QED BY <1>1, <2>1 DEF KindSeen
<1>4. CASE Access!Platform = "solaris"
  <2>1. found = name /\ Access!IsDevice(name) /\ (~machine.vol => Access!KindAt(name) = "cd")
    BY <1>4 DEF Access!Found, Access!FoundSolaris, Access!CanOpen
  <2>2. KindSeen => ~machine.vol
    BY <1>4 DEF KindSeen, Access!LooksAtKind
  <2> QED BY <1>1, <2>1, <2>2, NodeThere
<1>5. CASE Access!Platform = "win32"
  <2>1. found = name /\ IF machine.nt THEN Access!IsCdromIoctl(name) ELSE Access!IsCdromAspi(name)
    BY <1>5 DEF Access!Found, Access!FoundWin32
  <2>2. Access!IsDevice(name)
    <3>1. CASE machine.nt
      BY <2>1, <3>1, NodeThere DEF Access!IsCdromIoctl
    <3>2. CASE ~machine.nt
      <4>1. Access!UnitAt(name) \in Access!Units
        BY <2>1, <3>2 DEF Access!IsCdromAspi
      <4> QED BY <4>1, MachineFacts DEF Access!IsDevice
    <3> QED BY <3>1, <3>2
  <2>3. KindSeen => machine.kind[machine.unit[name]] = "cd"
    BY <1>5, <2>1, <2>2, NodeThere DEF KindSeen, Access!IsCdromIoctl
  <2> QED BY <1>1, <2>1, <2>2, <2>3
<1> QED BY <1>0, <1>2, <1>3, <1>4, <1>5 DEF PlatformNames

(* A name that is sure to be found is, when it is looked at.               *)
LEMMA SureIsFound ==
  ASSUME RealMachines, machine \in Machines,
         NEW steady \in SUBSET attached, NEW op \in {"list", "default"},
         op = "list" \/ Access!Platform \in {"linux", "osx", "win32"},
         NEW n \in Access!Names, machine.unit[n] \in steady, machine.kind[machine.unit[n]] = "cd", Access!Sure(n, steady)
  PROVE  Access!Found(op, n) = n
<1>1. Access!IsDevice(n) /\ Access!KindAt(n) = "cd" /\ Access!UnitAt(n) = machine.unit[n]
  BY NodeThere
<1>2. n[1] \in Access!ClassesOf(Access!Platform) /\ Access!Platform \in PlatformNames
  BY MachineFacts
<1>3. CASE Access!Platform = "linux"
  <2>1. Access!CanOpen(n) /\ n[1] \notin {"mtab", "fstab"}
    BY <1>1, <1>2, <1>3 DEF Access!Sure, Access!CanOpen, Access!ClassesOf
  <2> QED BY <1>1, <1>3, <2>1 DEF Access!Found, Access!FoundLinux, Access!IsCdromLinux
<1>4. CASE Access!Platform = "freebsd"
  BY <1>1, <1>4 DEF Access!Found, Access!FoundFreeBsd
<1>5. CASE Access!Platform = "netbsd"
  BY <1>1, <1>5 DEF Access!Found, Access!FoundNetBsd, Access!Sure, Access!CanOpen
<1>6. CASE Access!Platform = "solaris"
  BY <1>1, <1>6 DEF Access!Found, Access!FoundSolaris, Access!Sure, Access!CanOpen, Access!DecodeBtl
<1>7. CASE Access!Platform = "osx"
  BY <1>1, <1>7 DEF Access!Found, Access!FoundOsx
<1>8. CASE Access!Platform = "win32"
  <2>1. CASE machine.nt
    BY <1>1, <1>8, <2>1 DEF Access!Found, Access!FoundWin32, Access!IsCdromIoctl
  <2>2. CASE ~machine.nt
    <3> DEFINE u == machine.unit[n]
    <3>1. machine.scsi[u][1] = 0
      BY <1>8, <2>2 DEF Access!Sure
    <3>2. machine.scsi[u] \in Nat \X Nat
      <4>1. u \in DOMAIN machine.kind
        BY MachineFacts DEF Access!Units
      <4> HIDE DEF u
      <4> QED BY <4>1 DEF RealMachines, Access!RealMachine
    <3>3. machine.scsi[u] = Access!AtFirst(machine.scsi[u])
      <4> HIDE DEF u
      <4> QED BY <3>1, <3>2 DEF Access!AtFirst
    <3>4. u \in attached
      OBVIOUS
    <3>5. Access!IsCdromAspi(n)
      BY <1>1, <3>3, <3>4 DEF Access!IsCdromAspi
    <3> QED BY <1>8, <2>2, <3>5 DEF Access!Found, Access!FoundWin32
  <2> QED BY <2>1, <2>2
<1> QED BY <1>2, <1>3, <1>4, <1>5, <1>6, <1>7, <1>8 DEF PlatformNames

-----------------------------------------------------------------------------
(* What a search looks at.                                                 *)
LEMMA InConcat ==
  ASSUME NEW S, NEW s \in Seq(S), NEW t \in Seq(S)
  PROVE  s \o t \in Seq(S) /\ In(s \o t) = In(s) \cup In(t)
<1>1. /\ s \o t \in Seq(S) /\ Len(s \o t) = Len(s) + Len(t)
      /\ \A i \in 1 .. Len(s) : (s \o t)[i] = s[i]
      /\ \A i \in 1 .. Len(t) : (s \o t)[Len(s) + i] = t[i]
  OBVIOUS
<1>2. Len(s) \in Nat /\ Len(t) \in Nat /\ DOMAIN s = 1 .. Len(s) /\ DOMAIN t = 1 .. Len(t)
      /\ DOMAIN (s \o t) = 1 .. Len(s) + Len(t)
  BY <1>1
<1>3. ASSUME NEW i \in 1 .. Len(s) + Len(t)
      PROVE  (s \o t)[i] \in In(s) \cup In(t)
  <2>1. CASE i \in 1 .. Len(s)
    BY <1>1, <1>2, <2>1 DEF In
  <2>2. CASE i \notin 1 .. Len(s)
    <3>1. i - Len(s) \in 1 .. Len(t) /\ Len(s) + (i - Len(s)) = i
      BY <1>2, <2>2
    <3> QED BY <1>1, <1>2, <3>1 DEF In
  <2> QED BY <2>1, <2>2
<1>4. ASSUME NEW i \in 1 .. Len(s) PROVE s[i] \in In(s \o t)
  BY <1>1, <1>2 DEF In
<1>5. ASSUME NEW i \in 1 .. Len(t) PROVE t[i] \in In(s \o t)
  <2>1. Len(s) + i \in 1 .. Len(s) + Len(t)
    BY <1>2
  <2> QED BY <1>1, <1>2, <2>1 DEF In
<1> QED BY <1>1, <1>2, <1>3, <1>4, <1>5 DEF In

LEMMA NumberedThere ==
  ASSUME RealMachines, NEW class \in Classes
  PROVE  /\ Access!Numbered(class) \in Seq(NodeNames)
         /\ \A k \in 0 .. Numbers - 1 : <<class, k>> \in In(Access!Numbered(class))
         /\ Len(Access!Numbered(class)) = Numbers
         /\ \A i \in 1 .. Numbers : Access!Numbered(class)[i] = <<class, i - 1>>
<1>1. Numbers \in Nat
  BY DEF RealMachines
<1>2. \A i \in 1 .. Numbers : <<class, i - 1>> \in NodeNames
  BY <1>1 DEF NodeNames
<1>3. Access!Numbered(class) \in [1 .. Numbers -> NodeNames]
  BY <1>2 DEF Access!Numbered
<1>4. ASSUME NEW k \in 0 .. Numbers - 1
      PROVE  <<class, k>> \in In(Access!Numbered(class))
  <2>1. k + 1 \in 1 .. Numbers /\ (k + 1) - 1 = k
    BY <1>1
  <2>2. Access!Numbered(class)[k + 1] = <<class, k>> /\ k + 1 \in DOMAIN Access!Numbered(class)
    BY <2>1 DEF Access!Numbered
  <2> QED BY <2>2 DEF In
<1> QED BY <1>1, <1>3, <1>4 DEF Access!Numbered

LEMMA NumberedNames ==
  ASSUME RealMachines, machine \in Machines, NEW n \in Access!Names, n[1] \in Classes
  PROVE  n \in In(Access!Numbered(n[1]))
<1>1. n[2] \in 0 .. Numbers - 1 /\ n = <<n[1], n[2]>>
  BY MachineFacts
<1> QED BY <1>1, NumberedThere

LEMMA TriesSure ==
  ASSUME RealMachines, machine \in Machines, NEW op \in {"list", "default"}
  PROVE  /\ Access!NamesToTry(op) \in Seq(NodeNames)
         /\ op = "list" \/ Access!Platform \in {"linux", "osx", "win32"} =>
              \A n \in Access!Names :
                machine.unit[n] \in attached /\ machine.kind[machine.unit[n]] = "cd" /\ Access!Sure(n, attached) =>
                  n \in In(Access!NamesToTry(op))
<1>0. Access!Platform \in PlatformNames /\ \A n \in Access!Names : n[1] \in Access!ClassesOf(Access!Platform)
  BY MachineFacts
<1>1. \A n \in Access!Names : machine.unit[n] \in attached => Access!IsDevice(n)
  BY NodeThere
<1>2. <<>> \in Seq(NodeNames)
  OBVIOUS
<1>3. CASE Access!Platform = "linux"
  <2> DEFINE fixed == <<<<"cdrom", 0>>, <<"dvd", 0>>, <<"mtab", 0>>, <<"fstab", 0>>>>
  <2>1. fixed \in Seq(NodeNames)
    BY DEF NodeNames, Classes
  <2> HIDE DEF fixed
  <2>2. /\ Access!Numbered("hd") \in Seq(NodeNames) /\ Access!Numbered("scd") \in Seq(NodeNames)
        /\ Access!Numbered("sr") \in Seq(NodeNames)
    BY NumberedThere DEF Classes
  <2>3. /\ Access!LinuxNames \in Seq(NodeNames)
        /\ In(Access!LinuxNames) = In(fixed) \cup In(Access!Numbered("hd")) \cup In(Access!Numbered("scd")) \cup In(Access!Numbered("sr"))
    <3> DEFINE one == fixed \o Access!Numbered("hd")
               two == one \o Access!Numbered("scd")
    <3>1. one \in Seq(NodeNames) /\ In(one) = In(fixed) \cup In(Access!Numbered("hd"))
      BY <2>1, <2>2, InConcat
    <3> HIDE DEF one
    <3>2. two \in Seq(NodeNames) /\ In(two) = In(one) \cup In(Access!Numbered("scd"))
      BY <2>2, <3>1, InConcat
    <3> HIDE DEF two
    <3>3. two \o Access!Numbered("sr") \in Seq(NodeNames) /\ In(two \o Access!Numbered("sr")) = In(two) \cup In(Access!Numbered("sr"))
      BY <2>2, <3>2, InConcat
    <3>4. Access!LinuxNames = two \o Access!Numbered("sr")
      BY DEF Access!LinuxNames, fixed, one, two
    <3> QED BY <3>1, <3>2, <3>3, <3>4
  <2>4. ASSUME NEW n \in Access!Names, Access!Sure(n, attached) PROVE n \in In(Access!LinuxNames)
    <3>1. n[1] \in {"hd", "scd", "sr"}
      BY <1>0, <1>3, <2>4 DEF Access!Sure, Access!ClassesOf
    <3>2. n \in In(Access!Numbered(n[1]))
      BY <3>1, NumberedNames DEF Classes
    <3> QED BY <2>3, <3>1, <3>2
  <2> QED BY <1>3, <2>3, <2>4 DEF Access!NamesToTry
<1>4. CASE Access!Platform = "freebsd"
  <2>1. Access!Numbered("cd") \in Seq(NodeNames) /\ Access!Numbered("acd") \in Seq(NodeNames)
    BY NumberedThere DEF Classes
  <2>2. Access!FreeBsdNames \in Seq(NodeNames) /\ In(Access!FreeBsdNames) = In(Access!Numbered("cd")) \cup In(Access!Numbered("acd"))
    BY <2>1, InConcat DEF Access!FreeBsdNames
  <2>3. Access!FreeBsdDefaults \in Seq(NodeNames)
    BY DEF Access!FreeBsdDefaults, NodeNames, Classes
  <2>4. ASSUME NEW n \in Access!Names, Access!Sure(n, attached) PROVE n \in In(Access!FreeBsdNames)
    <3>1. n[1] = "cd"
      BY <1>4, <2>4 DEF Access!Sure
    <3> QED BY <2>2, <3>1, NumberedNames DEF Classes
  <2> QED BY <1>4, <2>2, <2>3, <2>4 DEF Access!NamesToTry
<1>5. CASE Access!Platform = "netbsd"
  <2>1. \A n \in Access!Names : n \in In(Access!NetBsdNames)
    BY <1>0, <1>5, NumberedNames DEF Access!ClassesOf, Classes, Access!NetBsdNames
  <2>2. Access!NetBsdNames \in Seq(NodeNames)
    BY NumberedThere DEF Classes, Access!NetBsdNames
  <2> QED BY <1>2, <1>5, <2>1, <2>2 DEF Access!NamesToTry
<1>6. CASE Access!Platform = "solaris"
  <2>1. Access!DirectoryEntries \in Seq(NodeNames) /\ In(Access!DirectoryEntries) = In(Access!Listed("disk")) \cup In(Access!Listed("ctds2"))
    BY ListedThere, InConcat DEF Access!DirectoryEntries
  <2>2. Access!SolarisNames \in Seq(NodeNames)
    BY <2>1, ListedThere DEF Access!SolarisNames
  <2>3. ASSUME NEW n \in Access!Names, machine.unit[n] \in attached, Access!Sure(n, attached) PROVE n \in In(Access!SolarisNames)
    <3>1. n[1] = IF machine.vol THEN "alias" ELSE "ctds2"
      BY <1>6, <2>3 DEF Access!Sure
    <3>2. n \in In(Access!Listed(n[1]))
      BY <1>1, <2>3, ListedThere
    <3> QED BY <2>1, <3>1, <3>2 DEF Access!SolarisNames
  <2> QED BY <1>2, <1>6, <2>2, <2>3 DEF Access!NamesToTry
<1>7. CASE Access!Platform = "osx"
  <2>1. ASSUME NEW n \in Access!Names, machine.unit[n] \in attached PROVE n \in In(Access!OsxNames)
    BY <1>0, <1>1, <1>7, <2>1, ListedThere DEF Access!ClassesOf, Access!OsxNames
  <2> QED BY <1>7, <2>1, ListedThere DEF Access!NamesToTry, Access!OsxNames
<1>8. CASE Access!Platform = "win32"
  <2>1. \A n \in Access!Names : n \in In(Access!Win32Names)
    BY <1>0, <1>8, NumberedNames DEF Access!ClassesOf, Classes, Access!Win32Names
  <2>2. Access!Win32Names \in Seq(NodeNames)
    BY NumberedThere DEF Classes, Access!Win32Names
  <2> QED BY <1>8, <2>1, <2>2 DEF Access!NamesToTry
<1> QED BY <1>0, <1>3, <1>4, <1>5, <1>6, <1>7, <1>8 DEF PlatformNames

LEMMA TriesInOrder ==
  ASSUME RealMachines, machine \in Machines, NEW op \in {"list", "default"}, Access!Platform = "freebsd"
  PROVE  LET names == Access!NamesToTry(op) IN
         \A i \in DOMAIN names : names[i][1] = "cd" =>
           \A k \in 1 .. i - 1 : names[k][1] = "cd" /\ names[k][2] \in 0 .. names[i][2] - 1
<1>1. CASE op = "default"
  <2>1. Access!NamesToTry(op) = <<<<"cd", 0>>, <<"acd", 0>>>>
    BY <1>1 DEF Access!NamesToTry, Access!FreeBsdDefaults
  <2> QED BY <2>1
<1>2. CASE op = "list"
  <2> DEFINE names == Access!Numbered("cd") \o Access!Numbered("acd")
  <2>1. Access!NamesToTry(op) = names
    BY <1>2 DEF Access!NamesToTry, Access!FreeBsdNames
  <2>2. Numbers \in Nat
    BY DEF RealMachines
  <2>3. /\ Access!Numbered("cd") \in Seq(NodeNames) /\ Len(Access!Numbered("cd")) = Numbers
        /\ \A i \in 1 .. Numbers : Access!Numbered("cd")[i] = <<"cd", i - 1>>
        /\ Access!Numbered("acd") \in Seq(NodeNames) /\ Len(Access!Numbered("acd")) = Numbers
        /\ \A i \in 1 .. Numbers : Access!Numbered("acd")[i] = <<"acd", i - 1>>
    BY NumberedThere DEF Classes
  <2>4. /\ DOMAIN names = 1 .. Numbers + Numbers
        /\ \A i \in 1 .. Numbers : names[i] = <<"cd", i - 1>>
        /\ \A i \in 1 .. Numbers : names[Numbers + i] = <<"acd", i - 1>>
    <3> DEFINE a == Access!Numbered("cd")
               b == Access!Numbered("acd")
    <3>1. a \in Seq(NodeNames) /\ Len(a) = Numbers /\ b \in Seq(NodeNames) /\ Len(b) = Numbers
      BY <2>3
    <3> HIDE DEF a, b
    <3>2. a \o b \in Seq(NodeNames) /\ Len(a \o b) = Numbers + Numbers
      BY <2>2, <3>1
    <3>3. \A i \in 1 .. Numbers : (a \o b)[i] = a[i] /\ (a \o b)[Numbers + i] = b[i]
      BY <2>2, <3>1
    <3> QED BY <2>2, <2>3, <3>2, <3>3 DEF a, b
  <2> HIDE DEF names
  <2>5. ASSUME NEW i \in DOMAIN names, names[i][1] = "cd"
        PROVE  i \in 1 .. Numbers /\ names[i] = <<"cd", i - 1>>
    <3>1. CASE i \in 1 .. Numbers
      BY <2>4, <3>1
    <3>2. CASE i \notin 1 .. Numbers
      <4>1. i - Numbers \in 1 .. Numbers /\ Numbers + (i - Numbers) = i
        BY <2>2, <2>4, <3>2
      <4>2. names[i] = <<"acd", i - Numbers - 1>>
        BY <2>4, <4>1
      <4> QED BY <2>5, <4>2
    <3> QED BY <3>1, <3>2
  <2>6. ASSUME NEW i \in DOMAIN names, names[i][1] = "cd", NEW k \in 1 .. i - 1
        PROVE  names[k][1] = "cd" /\ names[k][2] \in 0 .. names[i][2] - 1
    <3>1. k \in 1 .. Numbers /\ names[k] = <<"cd", k - 1>> /\ names[i] = <<"cd", i - 1>>
      BY <2>2, <2>4, <2>5, <2>6
    <3> QED BY <2>2, <2>5, <2>6, <3>1
  <2> QED BY <2>1, <2>6
<1> QED BY <1>1, <1>2

-----------------------------------------------------------------------------
(* The steps of a search.                                                  *)
LEMMA ToldNothing ==
  ASSUME told'.op \notin {"list", "default"}
  PROVE  Access!DrivesFound'
BY DEF Access!DrivesFound

LEMMA SearchInv ==
  ASSUME RealMachines, SInv, NEW op \in {"list", "default"}, NEW viaHandle \in BOOLEAN, Access!Search(op, viaHandle)
  PROVE  SInv'
<1>1. Access!DrivesFound' /\ machine' = machine /\ attached' = attached
  BY ToldNothing DEF Access!Search, Access!Answer, Access!NothingTold
<1>2. CASE UNCHANGED call
  <2>1. CallInv'
    BY <1>1, <1>2 DEF SInv, CallInv, Good, KindSeen, Access!LooksAtKind, NoTwice, Complete,
         Accounted, Access!Sure, InOrder,
                      Access!Platform, Access!Names, Access!NoCall
  <2> QED BY <1>1, <2>1 DEF SInv, Access!Units
<1>3. CASE call' = [Access!NoCall EXCEPT !.op = op, !.names = Access!NamesToTry(op), !.steady = attached, !.ever = attached]
  <2> DEFINE names == Access!NamesToTry(op)
  <2>1. /\ DOMAIN call' = {"op", "names", "got", "list", "steady", "ever"}
        /\ call'.op = op /\ call'.names = names /\ call'.got = Access!None /\ call'.list = <<>>
        /\ call'.steady = attached /\ call'.ever = attached
    BY <1>3 DEF Access!NoCall
  <2> HIDE DEF names
  <2>2. Access!Platform' = Access!Platform /\ Access!Names' = Access!Names
    BY <1>1 DEF Access!Platform, Access!Names
  <2>3. names \in Seq(NodeNames) /\ machine \in Machines
    BY TriesSure DEF names, SInv
  <2>4. Complete'
    <3>1. \A n \in Access!Names : Access!Sure(n, attached)' <=> Access!Sure(n, attached)
      BY <1>1, <2>2 DEF Access!Sure
    <3> QED BY <1>1, <2>1, <2>2, <2>3, <3>1, TriesSure DEF Complete, Accounted, names
  <2>5. InOrder'
    BY <2>1, <2>2, <2>3, TriesInOrder DEF InOrder, names
  <2>6. CallInv'
    BY <1>1, <2>1, <2>2, <2>3, <2>4, <2>5 DEF CallInv, NoTwice
  <2> QED BY <1>1, <2>6 DEF SInv, Access!Units
<1> QED BY <1>2, <1>3 DEF Access!Search

LEMMA PlugInv ==
  ASSUME RealMachines, SInv, NEW u \in Access!Units, Access!Plug(u)
  PROVE  SInv'
<1>1. Access!DrivesFound' /\ machine' = machine /\ attached' \subseteq Access!Units
  BY ToldNothing DEF Access!Plug, SInv, Access!NothingTold, Access!Answer
<1>2. CASE call = Access!NoCall
  <2>1. call' = call
    BY <1>2 DEF Access!Plug
  <2>2. CallInv'
    BY <1>1, <1>2, <2>1 DEF SInv, CallInv, Good, KindSeen, Access!LooksAtKind, NoTwice, Complete,
         Accounted, Access!Sure, InOrder,
                      Access!Platform, Access!Names, Access!NoCall
  <2> QED BY <1>1, <2>2 DEF SInv, Access!Units
<1>3. CASE call # Access!NoCall
  <2>1. /\ DOMAIN call' = DOMAIN call /\ call'.op = call.op /\ call'.names = call.names
        /\ call'.got = call.got /\ call'.list = call.list
        /\ call'.steady = call.steady \cap attached' /\ call'.ever = call.ever \cup attached'
    BY <1>3 DEF Access!Plug, SInv, CallInv
  <2>2. Access!Platform' = Access!Platform /\ Access!Names' = Access!Names /\ (KindSeen' <=> KindSeen)
    BY <1>1 DEF Access!Platform, Access!Names, KindSeen, Access!LooksAtKind
  <2>3. \A n : Good(n) => Good(n)'
    BY <1>1, <2>1, <2>2 DEF Good
  <2>4. \A n \in Access!Names : Access!Sure(n, call.steady)' => Access!Sure(n, call.steady)
    BY <1>1, <2>1, <2>2 DEF Access!Sure
  <2>5. Complete'
    BY <1>1, <2>1, <2>2, <2>4 DEF SInv, CallInv, Complete, Accounted
  <2>6. NoTwice' /\ InOrder'
    BY <1>1, <2>1, <2>2 DEF SInv, CallInv, NoTwice, InOrder
  <2>7. CallInv'
    BY <1>3, <2>1, <2>2, <2>3, <2>5, <2>6 DEF SInv, CallInv
  <2> QED BY <1>1, <2>7 DEF SInv, Access!Units
<1> QED BY <1>2, <1>3

LEMMA ProbeInv ==
  ASSUME RealMachines, SInv, Access!Probe
  PROVE  SInv'
<1> DEFINE h == Head(call.names)
           found == Access!Found(call.op, h)
           left == Access!LeftToTry(call.op, call.names, found)
<1>1. Access!DrivesFound' /\ machine' = machine /\ attached' = attached
  BY ToldNothing DEF Access!Probe, Access!NothingTold, Access!Answer
<1>2. machine \in Machines /\ call # Access!NoCall /\ call.op \in {"list", "default"} /\ call.got = Access!None
      /\ call.names \in Seq(NodeNames) /\ call.names # <<>>
      /\ call.steady \subseteq attached /\ attached \subseteq call.ever /\ attached \subseteq Access!Units
  BY DEF Access!Probe, SInv, CallInv, Access!NoCall
<1>3. /\ DOMAIN call' = DOMAIN call /\ call'.op = call.op /\ call'.names = left
      /\ call'.got = found /\ call'.list = call.list
      /\ call'.steady = call.steady /\ call'.ever = call.ever
  BY DEF Access!Probe, SInv, CallInv
<1>4. left = Tail(call.names) \/ left = <<>>
  BY DEF Access!LeftToTry
<1>5. left = <<>> => left = Tail(call.names) \/ (call.op = "default" /\ found # Access!None)
                     \/ (call.op = "list" /\ Access!Platform = "freebsd" /\ found = Access!None)
  BY DEF Access!LeftToTry
<1>6. found # Access!None => Good(found)
  BY <1>2, FoundIsGood
<1>7. \A n \in Access!Names : 
        /\ call.op = "list" \/ Access!Platform \in {"linux", "osx", "win32"}
        /\ machine.unit[n] \in call.steady /\ machine.kind[machine.unit[n]] = "cd" /\ Access!Sure(n, call.steady)
        => Access!Found(call.op, n) = n
  BY <1>2, SureIsFound
<1> HIDE DEF found, left
<1>8. /\ Tail(call.names) \in Seq(NodeNames) /\ Len(Tail(call.names)) = Len(call.names) - 1
      /\ DOMAIN call.names = 1 .. Len(call.names) /\ Len(call.names) \in Nat \ {0}
      /\ DOMAIN Tail(call.names) = 1 .. Len(call.names) - 1
      /\ \A i \in 1 .. Len(call.names) - 1 : Tail(call.names)[i] = call.names[i + 1]
      /\ h = call.names[1]
  BY <1>2
<1>9. Access!Platform' = Access!Platform /\ Access!Names' = Access!Names /\ (KindSeen' <=> KindSeen)
  BY <1>1 DEF Access!Platform, Access!Names, KindSeen, Access!LooksAtKind
<1>10. \A n : Good(n) => Good(n)'
  BY <1>1, <1>3, <1>9 DEF Good
<1>11. InOrder'
  <2>1. CASE left = Tail(call.names)
    <3> SUFFICES ASSUME Access!Platform = "freebsd", NEW i \in DOMAIN Tail(call.names), Tail(call.names)[i][1] = "cd",
                        NEW k \in 1 .. i - 1
                 PROVE  /\ Tail(call.names)[k][1] = "cd"
                        /\ Tail(call.names)[k][2] \in 0 .. Tail(call.names)[i][2] - 1
      BY <1>3, <1>9, <2>1 DEF InOrder
    <3>1. i + 1 \in DOMAIN call.names /\ k + 1 \in 1 .. (i + 1) - 1
      BY <1>8
    <3>2. Tail(call.names)[i] = call.names[i + 1] /\ Tail(call.names)[k] = call.names[k + 1]
      BY <1>8
    <3> QED BY <3>1, <3>2 DEF SInv, CallInv, InOrder
  <2>2. CASE left = <<>>
    BY <1>3, <2>2 DEF InOrder
  <2> QED BY <1>4, <2>1, <2>2
<1>12. Complete'
  <2> SUFFICES ASSUME call.op = "list" \/ Access!Platform \in {"linux", "osx", "win32"},
                      NEW n \in Access!Names, machine.unit[n] \in call.steady,
                      machine.kind[machine.unit[n]] = "cd", Access!Sure(n, call.steady)
               PROVE  Accounted(n)'
    <3>1. \A n \in Access!Names : Access!Sure(n, call.steady)' <=> Access!Sure(n, call.steady)
      BY <1>1, <1>3, <1>9 DEF Access!Sure
    <3> QED BY <1>1, <1>2, <1>3, <1>9, <3>1 DEF Complete
  <2>1. Accounted(n)
    BY <1>2 DEF SInv, CallInv, Complete
  <2>2. CASE \E i \in DOMAIN call.list : machine.unit[call.list[i]] = machine.unit[n]
    BY <1>1, <1>3, <2>2 DEF Accounted
  <2>3. CASE call.op = "default" /\ (found # Access!None \/ call.list # <<>>)
    BY <1>3, <2>3 DEF Accounted
  <2>4. CASE n \in In(call.names)
    <3>1. PICK i \in 1 .. Len(call.names) : n = call.names[i]
      BY <1>8, <2>4 DEF In
    <3>2. n # Access!None
      BY <1>2, MachineFacts
    <3>3. CASE i = 1
      <4>1. found = n
        BY <1>7, <1>8, <3>1, <3>3 DEF found
      <4> QED BY <1>1, <1>3, <3>2, <4>1 DEF Accounted
    <3>4. CASE i # 1
      <4>1. CASE left = Tail(call.names)
        <5>1. i - 1 \in 1 .. Len(call.names) - 1 /\ Tail(call.names)[i - 1] = call.names[(i - 1) + 1]
          BY <1>8, <3>4
        <5>2. i - 1 \in DOMAIN left /\ left[i - 1] = n
          BY <1>8, <3>1, <4>1, <5>1
        <5>3. n \in In(left)
          BY <5>2 DEF In
        <5> QED BY <1>3, <5>3 DEF Accounted
      <4>2. CASE call.op = "list" /\ Access!Platform = "freebsd" /\ found = Access!None
        <5>1. n[1] = "cd" /\ \A k \in 0 .. n[2] : <<"cd", k>> \in Access!Names /\ machine.unit[<<"cd", k>>] \in call.steady
          BY <4>2 DEF Access!Sure
        <5>2. h[1] = "cd" /\ h[2] \in 0 .. n[2] - 1
          BY <1>8, <3>1, <3>4, <4>2, <5>1 DEF SInv, CallInv, InOrder
        <5>3. h = <<h[1], h[2]>>
          BY <1>2, <1>8 DEF NodeNames
        <5>4. n[2] \in Int
          BY <1>2, NamesAreNodes DEF NodeNames
        <5>5. Access!IsDevice(h)
          <6>1. h[2] \in 0 .. n[2] /\ h = <<"cd", h[2]>>
            BY <5>2, <5>3, <5>4
          <6>2. h \in Access!Names /\ machine.unit[h] \in attached
            BY <1>2, <5>1, <6>1
          <6> QED BY <1>2, <6>2, NodeThere
        <5>6. found = h /\ h \in Access!Names
          BY <1>2, <4>2, <5>5, NodeThere DEF found, Access!Found, Access!FoundFreeBsd
        <5> QED BY <1>2, <4>2, <5>6, MachineFacts
      <4> QED BY <1>4, <1>5, <2>3, <4>1, <4>2
    <3> QED BY <3>3, <3>4
  <2> QED BY <1>2, <2>1, <2>2, <2>3, <2>4 DEF Accounted
<1>13. left \in Seq(NodeNames)
  <2>1. <<>> \in Seq(NodeNames)
    OBVIOUS
  <2> QED BY <1>4, <1>8, <2>1
<1>14. NoTwice'
  BY <1>1, <1>3 DEF SInv, CallInv, NoTwice
<1>15. CallInv'
  BY <1>1, <1>2, <1>3, <1>6, <1>9, <1>10, <1>11, <1>12, <1>13, <1>14 DEF SInv, CallInv
<1> QED BY <1>1, <1>15 DEF SInv, Access!Units

(* What is added is in the list under some name of its drive, and once.    *)
LEMMA AddDeviceEffect ==
  ASSUME RealMachines, machine \in Machines, NEW list \in Seq(Access!Names), NEW name \in Access!Names
  PROVE  LET added == Access!AddDevice(list, name) IN
         /\ added \in Seq(Access!Names) /\ added # <<>>
         /\ DOMAIN list \subseteq DOMAIN added /\ \A i \in DOMAIN list : added[i] = list[i]
         /\ \A i \in DOMAIN added : added[i] = name \/ i \in DOMAIN list
         /\ machine.unit[name] \in attached =>
              /\ \E i \in DOMAIN added : machine.unit[added[i]] = machine.unit[name]
              /\ \A i, k \in DOMAIN added :
                   i \notin DOMAIN list /\ machine.unit[added[k]] = machine.unit[name] => i = k
<1> DEFINE added == Access!AddDevice(list, name)
           present == \E i \in DOMAIN list : Access!RealPath(list[i]) = Access!RealPath(name)
           u == machine.unit[name]
<1>1. \A i \in DOMAIN list : list[i] \in Access!Names
  OBVIOUS
<1>2. ASSUME u \in attached, NEW n \in Access!Names
      PROVE  Access!RealPath(n) = Access!RealPath(name) <=> machine.unit[n] = u
  <2>1. Access!RealPath(name) = <<u, 0>>
    BY <1>2, NodeThere DEF Access!RealPath
  <2>2. CASE Access!IsDevice(n)
    <3>1. Access!RealPath(n) = <<machine.unit[n], 0>>
      BY <2>2, NodeThere DEF Access!RealPath
    <3> QED BY <2>1, <3>1
  <2>3. CASE ~Access!IsDevice(n)
    <3>1. Access!RealPath(n) = n /\ machine.unit[n] # u
      BY <1>2, <2>3, NodeThere DEF Access!RealPath
    <3>2. <<u, 0>> \notin Access!Names
      BY MachineFacts
    <3> QED BY <2>1, <3>1, <3>2
  <2> QED BY <2>2, <2>3
<1>3. CASE present
  <2>1. added = list
    BY <1>3 DEF Access!AddDevice
  <2>2. list # <<>>
    BY <1>3
  <2> HIDE DEF added
  <2> QED BY <1>1, <1>2, <1>3, <2>1, <2>2 DEF added
<1>4. CASE ~present
  <2>1. added = Append(list, name)
    BY <1>4 DEF Access!AddDevice
  <2> HIDE DEF added
  <2>2. /\ added \in Seq(Access!Names) /\ Len(added) = Len(list) + 1 /\ Len(list) \in Nat
        /\ DOMAIN added = 1 .. Len(list) + 1 /\ DOMAIN list = 1 .. Len(list)
        /\ \A i \in 1 .. Len(list) : added[i] = list[i]
        /\ added[Len(list) + 1] = name
    BY <2>1
  <2>3. \A i \in DOMAIN added : i = Len(list) + 1 \/ i \in DOMAIN list
    BY <2>2
  <2>4. Len(list) + 1 \in DOMAIN added /\ added # <<>>
    BY <2>2
  <2>5. ASSUME u \in attached, NEW k \in DOMAIN added, machine.unit[added[k]] = u
        PROVE  k = Len(list) + 1
    <3>1. CASE k \in DOMAIN list
      <4>1. machine.unit[list[k]] = u /\ list[k] \in Access!Names
        BY <1>1, <2>2, <2>5, <3>1
      <4> QED BY <1>2, <1>4, <2>5, <3>1, <4>1
    <3> QED BY <2>3, <3>1
  <2> QED BY <2>2, <2>3, <2>4, <2>5 DEF added
<1> QED BY <1>3, <1>4

LEMMA AddInv ==
  ASSUME RealMachines, SInv, Access!Add
  PROVE  SInv'
<1> DEFINE added == Access!AddDevice(call.list, call.got)
<1>1. Access!DrivesFound' /\ machine' = machine /\ attached' = attached
  BY ToldNothing DEF Access!Add, Access!NothingTold, Access!Answer
<1>2. /\ machine \in Machines /\ call # Access!NoCall /\ call.op \in {"list", "default"} /\ call.got # Access!None
      /\ Good(call.got) /\ call.got \in Access!Names /\ call.list \in Seq(Access!Names)
      /\ call.steady \subseteq attached /\ attached \subseteq call.ever
  BY DEF Access!Add, SInv, CallInv, Access!NoCall, Good
<1>3. /\ DOMAIN call' = DOMAIN call /\ call'.op = call.op /\ call'.names = call.names
      /\ call'.got = Access!None /\ call'.list = added
      /\ call'.steady = call.steady /\ call'.ever = call.ever
  BY DEF Access!Add, SInv, CallInv
<1>4. Access!Platform' = Access!Platform /\ Access!Names' = Access!Names /\ (KindSeen' <=> KindSeen)
  BY <1>1 DEF Access!Platform, Access!Names, KindSeen, Access!LooksAtKind
<1>5. \A n : Good(n) => Good(n)'
  BY <1>1, <1>3, <1>4 DEF Good
<1>6. /\ added \in Seq(Access!Names) /\ added # <<>>
      /\ DOMAIN call.list \subseteq DOMAIN added /\ \A i \in DOMAIN call.list : added[i] = call.list[i]
      /\ \A i \in DOMAIN added : added[i] = call.got \/ i \in DOMAIN call.list
      /\ machine.unit[call.got] \in attached =>
           /\ \E i \in DOMAIN added : machine.unit[added[i]] = machine.unit[call.got]
           /\ \A i, k \in DOMAIN added :
                i \notin DOMAIN call.list /\ machine.unit[added[k]] = machine.unit[call.got] => i = k
  BY <1>2, AddDeviceEffect
<1> HIDE DEF added
<1>7. \A i \in DOMAIN added : Good(added[i])
  BY <1>2, <1>6 DEF SInv, CallInv
<1>8. NoTwice'
  <2> SUFFICES ASSUME NEW i \in DOMAIN added, NEW k \in DOMAIN added,
                      machine.unit[added[i]] = machine.unit[added[k]], machine.unit[added[i]] \in call.steady
               PROVE  i = k
    BY <1>1, <1>3 DEF NoTwice
  <2>1. CASE i \in DOMAIN call.list /\ k \in DOMAIN call.list
    BY <1>6, <2>1 DEF SInv, CallInv, NoTwice
  <2>2. CASE i \notin DOMAIN call.list
    <3>1. added[i] = call.got
      BY <1>6, <2>2
    <3> QED BY <1>2, <1>6, <2>2, <3>1
  <2>3. CASE k \notin DOMAIN call.list
    <3>1. added[k] = call.got
      BY <1>6, <2>3
    <3> QED BY <1>2, <1>6, <2>3, <3>1
  <2> QED BY <2>1, <2>2, <2>3
<1>9. Complete'
  <2> SUFFICES ASSUME call.op = "list" \/ Access!Platform \in {"linux", "osx", "win32"},
                      NEW n \in Access!Names, machine.unit[n] \in call.steady,
                      machine.kind[machine.unit[n]] = "cd", Access!Sure(n, call.steady)
               PROVE  Accounted(n)'
    <3>1. \A n \in Access!Names : Access!Sure(n, call.steady)' <=> Access!Sure(n, call.steady)
      BY <1>1, <1>3, <1>4 DEF Access!Sure
    <3> QED BY <1>1, <1>2, <1>3, <1>4, <3>1 DEF Complete
  <2>1. Accounted(n)
    BY <1>2 DEF SInv, CallInv, Complete
  <2>2. CASE \E i \in DOMAIN call.list : machine.unit[call.list[i]] = machine.unit[n]
    BY <1>1, <1>3, <1>6, <2>2 DEF Accounted
  <2>3. CASE machine.unit[call.got] = machine.unit[n]
    BY <1>1, <1>2, <1>3, <1>6, <2>3 DEF Accounted
  <2>4. CASE n \in In(call.names)
    BY <1>3, <2>4 DEF Accounted
  <2>5. CASE call.op = "default"
    BY <1>3, <1>6, <2>5 DEF Accounted
  <2> QED BY <2>1, <2>2, <2>3, <2>4, <2>5 DEF Accounted
<1>10. InOrder'
  BY <1>3, <1>4 DEF SInv, CallInv, InOrder
<1>11. CallInv'
  BY <1>1, <1>2, <1>3, <1>4, <1>5, <1>6, <1>7, <1>8, <1>9, <1>10 DEF SInv, CallInv
<1> QED BY <1>1, <1>11 DEF SInv, Access!Units

(* The answer is what the invariant says of the call.                      *)
LEMMA AnswerInv ==
  ASSUME RealMachines, SInv, Access!AnswerSearch
  PROVE  SInv'
<1> DEFINE list == IF call.op = "list" THEN call.list
                   ELSE IF Access!DefaultOf(call.list) = Access!None THEN <<>> ELSE <<Access!DefaultOf(call.list)>>
<1>1. UNCHANGED <<machine, attached>> /\ call' = Access!NoCall
  BY DEF Access!AnswerSearch
<1>2. /\ machine \in Machines /\ call # Access!NoCall /\ call.op \in {"list", "default"}
      /\ call.got = Access!None /\ call.names = <<>> /\ call.list \in Seq(Access!Names)
      /\ \A i \in DOMAIN call.list : Good(call.list[i])
  BY DEF Access!AnswerSearch, SInv, CallInv, Access!NoCall
<1>3. /\ told'.op = call.op /\ told'.list = list
      /\ told'.steady = call.steady /\ told'.ever = call.ever
  BY DEF Access!AnswerSearch, Access!Answer
<1>4. /\ Access!Platform' = Access!Platform /\ Access!Names' = Access!Names /\ (Access!LooksAtKind' <=> Access!LooksAtKind)
      /\ \A name : Access!UnitOf(name)' = Access!UnitOf(name)
  BY <1>1 DEF Access!Platform, Access!Names, Access!LooksAtKind, Access!UnitOf
<1>5. CallInv'
  <2>1. <<>> \in Seq(NodeNames) /\ \A S : <<>> \in Seq(S)
    OBVIOUS
  <2> QED BY <1>1, <2>1 DEF CallInv, Access!NoCall, NoTwice, Complete, InOrder
<1>6. \A i \in DOMAIN call.list :
        /\ call.list[i] \in Access!Names /\ Access!UnitOf(call.list[i]) = machine.unit[call.list[i]]
        /\ Access!UnitOf(call.list[i]) \in call.ever
        /\ KindSeen => machine.kind[Access!UnitOf(call.list[i])] = "cd"
  BY <1>2 DEF Good, Access!UnitOf
<1>7. \A u : Access!Reliable(u, told.steady)' => Access!Reliable(u, call.steady)
  BY <1>1, <1>3, <1>4 DEF Access!Reliable, Access!Sure
<1>8. ASSUME call.op = "list" \/ Access!Platform \in {"linux", "osx", "win32"},
             NEW u \in call.steady, machine.kind[u] = "cd", Access!Reliable(u, call.steady)
      PROVE  call.list # <<>> /\ (call.op = "list" => \E i \in DOMAIN call.list : Access!UnitOf(call.list[i]) = u)
  <2>1. PICK n \in Access!Names : machine.unit[n] = u /\ Access!Sure(n, call.steady)
    BY <1>8 DEF Access!Reliable
  <2>2. Accounted(n)
    BY <1>2, <1>8, <2>1 DEF SInv, CallInv, Complete
  <2>3. n \notin In(call.names)
    BY <1>2 DEF In
  <2>4. CASE \E i \in DOMAIN call.list : machine.unit[call.list[i]] = machine.unit[n]
    BY <1>6, <2>1, <2>4
  <2>5. CASE call.op = "default" /\ call.list # <<>>
    BY <2>5
  <2> QED BY <1>2, <2>2, <2>3, <2>4, <2>5 DEF Accounted
<1>9. CASE call.op = "list"
  <2>1. list = call.list
    BY <1>9
  <2>2. \A i, k \in DOMAIN call.list :
          Access!UnitOf(call.list[i]) = Access!UnitOf(call.list[k]) /\ Access!UnitOf(call.list[i]) \in call.steady => i = k
    BY <1>6 DEF SInv, CallInv, NoTwice
  <2> HIDE DEF list
  <2>3. Access!DrivesFound'
    BY <1>1, <1>3, <1>4, <1>6, <1>7, <1>8, <1>9, <2>1, <2>2 DEF Access!DrivesFound, KindSeen
  <2> QED BY <1>1, <1>2, <1>5, <2>3 DEF SInv, Access!Units
<1>10. CASE call.op = "default"
  <2>1. ASSUME Access!Platform \in {"linux", "osx", "win32"}
        PROVE  IF call.list = <<>> THEN list = <<>> ELSE list = <<call.list[1]>> /\ 1 \in DOMAIN call.list
    <3>1. Access!DefaultOf(call.list) = IF call.list = <<>> THEN Access!None ELSE Head(call.list)
      BY <2>1 DEF Access!DefaultOf
    <3>2. call.list # <<>> => Head(call.list) = call.list[1] /\ 1 \in DOMAIN call.list /\ call.list[1] \in Access!Names
      BY <1>2
    <3> QED BY <1>2, <1>10, <3>1, <3>2, MachineFacts
  <2> HIDE DEF list
  <2>2. ASSUME Access!Platform \in {"linux", "osx", "win32"}, list # <<>>
        PROVE  Access!UnitOf(list[1]) \in call.ever
    BY <1>6, <2>1, <2>2
  <2>3. ASSUME Access!Platform \in {"linux", "osx", "win32"}, list = <<>>
        PROVE  call.list = <<>>
    BY <2>1, <2>3
  <2>4. Access!DrivesFound'
    BY <1>1, <1>3, <1>4, <1>7, <1>8, <1>10, <2>2, <2>3 DEF Access!DrivesFound
  <2> QED BY <1>1, <1>2, <1>5, <2>4 DEF SInv, Access!Units
<1> QED BY <1>2, <1>9, <1>10

LEMMA SearchesKeepInv ==
  ASSUME RealMachines, SInv, [Access!Next]_Access!vars
  PROVE  SInv'
<1>1. ASSUME UNCHANGED <<machine, attached, call>>, told' = Access!NothingTold \/ UNCHANGED told
      PROVE  SInv'
  <2>1. Access!DrivesFound'
    <3>1. CASE told' = Access!NothingTold
      BY <3>1, ToldNothing DEF Access!NothingTold, Access!Answer
    <3>2. CASE UNCHANGED told
      BY <1>1, <3>2 DEF SInv, Access!DrivesFound, Access!Reliable, Access!Sure, Access!UnitOf,
           Access!LooksAtKind, Access!Platform, Access!Names
    <3> QED BY <1>1, <3>1, <3>2
  <2>2. CallInv'
    BY <1>1 DEF SInv, CallInv, Good, KindSeen, Access!LooksAtKind, NoTwice, Complete, Accounted,
         Access!Sure, InOrder,
                Access!Platform, Access!Names, Access!NoCall
  <2> QED BY <1>1, <2>1, <2>2 DEF SInv, Access!Units
<1>2. ASSUME NEW c \in Access!Clients,
             \/ \E src \in Access!Names \cup {Access!None}, am \in Access!AccessModes : Access!StartOpen(c, src, am)
             \/ Access!OpenStep(c) \/ Access!EjectFails(c) \/ Access!CloseHandle(c)
      PROVE  SInv'
  <2>1. UNCHANGED <<machine, attached, call>> /\ told' = Access!NothingTold
    BY <1>2 DEF Access!StartOpen, Access!OpenStep, Access!ChooseMode, Access!ChooseSource,
         Access!New, Access!OpenNode, Access!InitDevice, Access!InitPlain, Access!InitFreeBsd,
                Access!InitOsx, Access!InitWin32, Access!TryLock, Access!InitCam,
                    Access!EjectFails, Access!CloseHandle
  <2> QED BY <1>1, <2>1
<1>3. CASE Access!SearchStep
  BY <1>3, ProbeInv, AddInv, AnswerInv DEF Access!SearchStep
<1>4. CASE UNCHANGED Access!vars
  BY <1>1, <1>4 DEF Access!vars
<1> QED BY <1>2, <1>3, <1>4, SearchInv, PlugInv DEF Access!Next

LEMMA SearchesStart == Access!Init => SInv
<1> SUFFICES ASSUME Access!Init PROVE SInv
  OBVIOUS
<1>1. machine \in Machines /\ attached \subseteq Access!Units /\ call = Access!NoCall /\ told = Access!NothingTold
  BY DEF Access!Init
<1>2. \A S : <<>> \in Seq(S)
  OBVIOUS
<1>3. CallInv
  BY <1>1, <1>2 DEF CallInv, Access!NoCall, NoTwice, Complete, InOrder
<1>4. Access!DrivesFound
  BY <1>1 DEF Access!DrivesFound, Access!NothingTold, Access!Answer
<1> QED BY <1>1, <1>3, <1>4 DEF SInv

(* On whatever real machine, with any names, links, gaps and units, and    *)
(* whatever is plugged in or out while the search runs: the list names     *)
(* each CD drive that stays and can be relied on, each drive that stays    *)
(* only once, and nothing that was never there or is no CD drive where     *)
(* that is looked at; and the default device is such a drive               *)
(* (cdio_get_devices, cdio_get_default_device, cdio_add_device_list and    *)
(* the drivers' searches under them).                                      *)
THEOREM SearchesFindTheDrives ==
  ASSUME RealMachines
  PROVE  Access!Spec => []Access!DrivesFound
<1>1. Access!Init => SInv
  BY SearchesStart
<1>2. SInv /\ [Access!Next]_Access!vars => SInv'
  BY SearchesKeepInv
<1>3. SInv => Access!DrivesFound
  BY DEF SInv
<1> QED BY <1>1, <1>2, <1>3, PTL DEF Access!Spec

-----------------------------------------------------------------------------
(* The system of the model check (SpecSides of MCCdioHandle): a program    *)
(* that uses handles, or one that finds and opens the drives of any of the *)
(* machines of Machines.                                                   *)

LEMMA SidesStay ==
  [NextSides]_allVars => side' = side /\ (side = "access" => [Access!Next]_Access!vars)
BY DEF NextSides, Life, Drives, allVars, accessVars, Access!vars

LEMMA SidesStart == InitSides /\ side = "access" => Access!Init
BY DEF InitSides

(* HandlesHold of the drives' side holds in every run of the two systems:  *)
(* on any real machine no exclusive handle is shared and a closed one      *)
(* holds nothing.                                                          *)
THEOREM SidesHandlesHold == SpecSides => []HandlesHold
<1> DEFINE SideInv == side = "access" => HInv
<1>1. InitSides => SideInv
  BY SidesStart, InitInv, RealMachinesKnown
<1>2. SideInv /\ [NextSides]_allVars => SideInv'
  BY SidesStay, NextInv
<1>3. SideInv => HandlesHold
  BY InvHolds DEF HandlesHold
<1> QED BY <1>1, <1>2, <1>3, PTL DEF SpecSides

(* DrivesFound of the drives' side holds in every run of the two systems:  *)
(* whatever is plugged in or out, a search names the drives that stay.     *)
THEOREM SidesDrivesFound == SpecSides => []DrivesFound
<1> DEFINE SideInv == side = "access" => SInv
<1>1. InitSides => SideInv
  BY SidesStart, SearchesStart, MachinesAssumption
<1>2. SideInv /\ [NextSides]_allVars => SideInv'
  BY SidesStay, SearchesKeepInv, MachinesAssumption
<1>3. SideInv => DrivesFound
  BY DEF SInv, DrivesFound
<1> QED BY <1>1, <1>2, <1>3, PTL DEF SpecSides

=============================================================================
