----------------------------- MODULE CdioHandle -----------------------------
(***************************************************************************)
(* The life of a CdIo_t: lib/driver/device.c (cdio_init, cdio_open_am,     *)
(* cdio_eject_media, cdio_destroy, cdio_close_tray, cdio_get_devices_ret)  *)
(* and lib/driver/cdio.c (cdio_new), over the drivers' own open, eject and *)
(* free routines: GNU/Linux (gnu_linux.c with _cdio_generic.c) and the     *)
(* disk images (image_common.c).                                           *)
(*                                                                         *)
(* A handle pairs the CdIo_t the caller holds with the driver's private    *)
(* environment.  The two are allocated and freed by different layers; the  *)
(* model counts, for each of the program's handle variables, environments  *)
(* and descriptors, +1 for each allocation or open(2) and -1 for each free *)
(* or close(2), so that a leak and a double free both show.                *)
(*                                                                         *)
(* External: open(2) may fail; the kernel answers the ioctls of an eject   *)
(* as it likes.                                                            *)
(***************************************************************************)
EXTENDS Integers, Sequences, FiniteSets

CONSTANTS
  Handles,        \* the program's variables of type CdIo_t *
  DeviceDrivers,  \* the drivers in cdio_device_drivers that this build has
  ImageDrivers,   \* the disk-image drivers, always built
  CanClose,       \* the drivers with a close_tray routine
  EjectOn         \* the drivers whose handles the program passes to eject

Drivers == DeviceDrivers \cup ImageDrivers

ASSUME CdioHandleAssumption ==
  /\ IsFiniteSet(Drivers)
  /\ DeviceDrivers \cap ImageDrivers = {}
  /\ CanClose \subseteq DeviceDrivers
  /\ EjectOn \subseteq Drivers
  /\ "null" \notin Drivers

VARIABLES
  lastDriver, \* CdIo_last_driver
  registry,   \* how many entries of CdIo_driver[] cdio_init filled
  driver,     \* driver[h]: p_cdio->driver_id, NoDriver when the pointer is NULL
  envs,       \* envs[h]: environments allocated less environments freed
  fd,         \* fd[h]: p_env->gen.fd: 1 an open descriptor, -1 none
  opens,      \* opens[h]: descriptors opened less descriptors closed
  last        \* the last call, its result and what it reported

vars == <<lastDriver, registry, driver, envs, fd, opens, last>>

Uninit == -1          \* CDIO_DRIVER_UNINIT
NoDriver == "null"
Device == "DRIVER_DEVICE"
NoFd == -1
AnFd == 1

Success == "DRIVER_OP_SUCCESS"
Error == "DRIVER_OP_ERROR"
Unsupported == "DRIVER_OP_UNSUPPORTED"
OpUninit == "DRIVER_OP_UNINIT"

live(h) == driver[h] # NoDriver

Call(op, h, rc) == [op |-> op, of |-> h, rc |-> rc]

Ops == {"init", "open", "destroy", "eject", "eject_drive", "devices", "tray"}

TypeOK ==
  /\ lastDriver \in Uninit .. Cardinality(Drivers) - 1
  /\ registry \in {0, Cardinality(Drivers)}
  /\ driver \in [Handles -> Drivers \cup {NoDriver}]
  /\ envs \in [Handles -> {-1, 0, 1}]
  /\ fd \in [Handles -> {NoFd, AnFd}]
  /\ opens \in [Handles -> Int]
  /\ last.op \in Ops

-----------------------------------------------------------------------------
(* cdio_init fills CdIo_driver[] once, until cdio_destroy resets the       *)
(* counter; cdio_open_am and cdio_open_am_cd call it when it is reset.     *)
CountFromZero ==                                      \* mutant of LastDriverOnceInit
  IF lastDriver = Uninit THEN Cardinality(Drivers) ELSE lastDriver
LastDriverOnceInit ==
  IF lastDriver = Uninit THEN lastDriver + Cardinality(Drivers) ELSE lastDriver
RegistryOnceInit ==
  IF lastDriver = Uninit THEN Cardinality(Drivers) ELSE registry

CdioInit ==
  /\ lastDriver' = LastDriverOnceInit
  /\ registry' = RegistryOnceInit
  /\ last' = Call("init", NoDriver, IF lastDriver = Uninit THEN "true" ELSE "false")
  /\ UNCHANGED <<driver, envs, fd, opens>>

-----------------------------------------------------------------------------
(* The drivers that cdio_open_am tries for a driver argument: one by name, *)
(* cdio_device_drivers for DRIVER_DEVICE, all for DRIVER_UNKNOWN.          *)
Candidates(id) ==
  CASE id = Device -> DeviceDrivers
    [] id = NoDriver -> Drivers
    [] OTHER -> {id} \cap Drivers

(* A driver that accepts the source: cdio_open_am_linux opens a descriptor *)
(* in cdio_generic_init, an image driver opens the image's data sources,   *)
(* which its environment owns.  A driver that does not accept it frees the *)
(* environment it had allocated, and its descriptor is not open.  After a  *)
(* double free (envs[h] = -1) the program's behaviour is undefined, and    *)
(* the model goes no further with that variable.                           *)
EnvLeftBehind(n) == n + 1                   \* mutant of EnvsAfterRefusal
EnvsAfterRefusal(n) == n                    \* calloc, then free at err_exit

OpenAm(h, id) ==
  /\ ~live(h) /\ envs[h] = 0
  /\ lastDriver' = LastDriverOnceInit
  /\ registry' = RegistryOnceInit
  /\ \/ /\ last' = Call("open", h, "NULL")
        /\ envs' = [envs EXCEPT ![h] = EnvsAfterRefusal(@)]
        /\ UNCHANGED <<driver, fd, opens>>
     \/ \E d \in Candidates(id) :
          LET isDevice == d \in DeviceDrivers
          IN /\ driver' = [driver EXCEPT ![h] = d]
             /\ envs' = [envs EXCEPT ![h] = @ + 1]
             /\ fd' = [fd EXCEPT ![h] = IF isDevice THEN AnFd ELSE NoFd]
             /\ opens' = [opens EXCEPT ![h] = IF isDevice THEN @ + 1 ELSE @]
             /\ last' = Call("open", h, Success)

(* What op.free (free_linux and cdio_generic_free, or _free_image) releases *)
(* of an environment whose descriptor is f: the environment and, when it   *)
(* is open, the descriptor.                                                *)
OpensAfterFree(f, n) == IF f = AnFd THEN n - 1 ELSE n

(* cdio_destroy, also of a NULL pointer.  It resets the counter whatever   *)
(* other handles are open.                                                 *)
Destroy(h) ==
  /\ lastDriver' = Uninit
  /\ last' = Call("destroy", h, Success)
  /\ IF live(h)
       THEN /\ driver' = [driver EXCEPT ![h] = NoDriver]
            /\ envs' = [envs EXCEPT ![h] = @ - 1]
            /\ opens' = [opens EXCEPT ![h] = OpensAfterFree(fd[h], @)]
            /\ fd' = [fd EXCEPT ![h] = NoFd]
       ELSE UNCHANGED <<driver, envs, fd, opens>>
  /\ UNCHANGED registry

-----------------------------------------------------------------------------
(* eject_media_linux closes the descriptor it finds, opens the device      *)
(* read-write, and reopens it once more after it unmounted the disc.  Each *)
(* path is the pair of its open(2) and close(2) counts, the descriptor it  *)
(* leaves and the code it returns.                                         *)
Path(o, c, f, rc) == [opened |-> o, closed |-> c, fd |-> f, rc |-> rc]

NeverClosedAtEnd(f) == 0                       \* mutant of ClosedAtEnd
ClosedAtEnd(f) == IF f = AnFd THEN 0 ELSE 1    \* close(fd) when it was not open

EjectPaths(f) ==
  LET before == IF f = AnFd THEN 1 ELSE 0
      end == ClosedAtEnd(f)
  IN   {Path(0, before, NoFd, Error)}                         \* open fails
  \cup {Path(1, before + end, f, rc) : rc \in {Success, Error}}
  \cup {Path(2, before + 1 + end, f, rc) : rc \in {Success, Error}}  \* unmounted
  \cup {Path(1, before + 1, NoFd, Error)}                 \* reopen fails

(* cdio_eject_media.  Success is followed by cdio_destroy; _eject_media_   *)
(* image frees the environment itself and returns "unsupported", after     *)
(* which nothing is destroyed.  A second eject would read the freed        *)
(* environment; the model stops before it.                                 *)
DestroyedOnError(rc) == rc # Success           \* mutant of DestroyedAfter
DestroyedAfter(rc) == rc = Success

EjectedDevice(h, p) ==
  LET n == opens[h] + p.opened - p.closed
  IN IF DestroyedAfter(p.rc)
       THEN /\ lastDriver' = Uninit
            /\ driver' = [driver EXCEPT ![h] = NoDriver]
            /\ envs' = [envs EXCEPT ![h] = @ - 1]
            /\ opens' = [opens EXCEPT ![h] = OpensAfterFree(p.fd, n)]
            /\ fd' = [fd EXCEPT ![h] = NoFd]
       ELSE /\ opens' = [opens EXCEPT ![h] = n]
            /\ fd' = [fd EXCEPT ![h] = p.fd]
            /\ UNCHANGED <<lastDriver, driver, envs>>

EjectMedia(h) ==
  /\ UNCHANGED registry
  /\ \/ /\ ~live(h)
        /\ last' = Call("eject", h, OpUninit)
        /\ UNCHANGED <<lastDriver, driver, envs, fd, opens>>
     \/ /\ driver[h] \in DeviceDrivers \cap EjectOn
        /\ \E p \in EjectPaths(fd[h]) :
             /\ EjectedDevice(h, p)
             /\ last' = Call("eject", h, p.rc)
     \/ /\ driver[h] \in ImageDrivers \cap EjectOn /\ envs[h] = 1
        /\ envs' = [envs EXCEPT ![h] = @ - 1]
        /\ last' = Call("eject", h, Unsupported)
        /\ UNCHANGED <<lastDriver, driver, fd, opens>>

(* cdio_eject_media_drive: cdio_open(DRIVER_DEVICE), cdio_eject_media and  *)
(* cdio_destroy of what is left, on a pointer of its own; h stands for it. *)
EjectMediaDrive(h) ==
  /\ ~live(h) /\ envs[h] = 0
  /\ registry' = RegistryOnceInit
  /\ UNCHANGED <<driver, fd>>
  /\ \/ /\ lastDriver' = LastDriverOnceInit
        /\ last' = Call("eject_drive", h, OpUninit)
        /\ UNCHANGED <<envs, opens>>
     \/ /\ DeviceDrivers # {}
        /\ \E p \in EjectPaths(AnFd) :
             /\ lastDriver' = Uninit
             /\ envs' = [envs EXCEPT ![h] = @ + 1 - 1]
             /\ opens' = [opens EXCEPT ![h] =
                            OpensAfterFree(p.fd, @ + 1 + p.opened - p.closed)]
             /\ last' = Call("eject_drive", h, p.rc)

-----------------------------------------------------------------------------
(* cdio_get_devices_ret for DRIVER_DEVICE and DRIVER_UNKNOWN: the first    *)
(* driver that opens its default device lists the devices; the handle is   *)
(* destroyed.  cdio_init is not called.                                    *)
GetDevices(id) ==
  /\ UNCHANGED <<registry, driver, envs, fd, opens>>
  /\ \/ /\ lastDriver' = lastDriver
        /\ last' = Call("devices", id, "NULL")
     \/ /\ Candidates(id) # {}
        /\ lastDriver' = Uninit
        /\ last' = Call("devices", id, Success)

(* cdio_close_tray for a drive the caller names.  With DRIVER_DEVICE or    *)
(* DRIVER_UNKNOWN the scan for a driver walks the list with the pointer    *)
(* that named the caller's variable, so the variable keeps what it held:   *)
(* "of" in the record of the call is its value afterwards.                 *)
CloseTray(id) ==
  /\ UNCHANGED <<lastDriver, registry, driver, envs, fd, opens>>
  /\ IF Candidates(id) \cap CanClose = {}
       THEN last' = Call("tray", id, Unsupported)
       ELSE \E rc \in {Success, Error} : last' = Call("tray", id, rc)

-----------------------------------------------------------------------------
Init ==
  /\ lastDriver = Uninit
  /\ registry = 0
  /\ driver = [h \in Handles |-> NoDriver]
  /\ envs = [h \in Handles |-> 0]
  /\ fd = [h \in Handles |-> NoFd]
  /\ opens = [h \in Handles |-> 0]
  /\ last = Call("init", NoDriver, "false")

DriverArgs == Drivers \cup {Device, NoDriver}

Next ==
  \/ CdioInit
  \/ \E h \in Handles :
       \/ \E id \in DriverArgs : OpenAm(h, id)
       \/ Destroy(h)
       \/ EjectMedia(h)
       \/ EjectMediaDrive(h)
  \/ \E id \in {Device, NoDriver} : GetDevices(id)
  \/ \E id \in DriverArgs : CloseTray(id)

Spec == Init /\ [][Next]_vars

-----------------------------------------------------------------------------
(* No environment is leaked or freed behind a handle's back: one that      *)
(* exists belongs to a live handle, and a live handle has its own, save    *)
(* that of an image that was passed to eject.                              *)
EnvOwned ==
  \A h \in Handles :
    /\ envs[h] > 0 => live(h) /\ envs[h] = 1
    /\ live(h) /\ driver[h] \notin ImageDrivers \cap EjectOn => envs[h] = 1

(* "If the CD is ejected *p_cdio is free'd and p_cdio set to NULL", so     *)
(* also an image's handle never outlives its environment.                  *)
OneEnvPerHandle == \A h \in Handles : envs[h] = IF live(h) THEN 1 ELSE 0

(* Each descriptor opened for a handle is closed once, over the closing    *)
(* and reopening an eject does, and gen.fd says whether there is one.      *)
DescriptorsBalance ==
  \A h \in Handles :
    /\ opens[h] = IF fd[h] = AnFd THEN 1 ELSE 0
    /\ ~live(h) => fd[h] = NoFd

(* CdIo_last_driver, when it says the table is filled, is the index of its *)
(* last entry: no sequence of destroys and opens fills it twice over.      *)
RegistryFilledOnce == lastDriver # Uninit => registry = lastDriver + 1

(* cdio_eject_media of a device's handle leaves the caller either a NULL   *)
(* pointer and success or a handle that still owns its environment.        *)
EjectFreesOrKeeps ==
  [][\A h \in Handles :
       last' = Call("eject", h, last'.rc) /\ driver[h] \in DeviceDrivers =>
         IF last'.rc = Success
           THEN ~live(h)' /\ envs'[h] = envs[h] - 1
           ELSE live(h)' /\ envs'[h] = envs[h]]_vars
=============================================================================
