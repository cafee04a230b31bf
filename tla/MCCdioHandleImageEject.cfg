SPECIFICATION SpecSides
CONSTANTS
  Handles = {h1, h2}
  DeviceDrivers <- MCDeviceDrivers
  ImageDrivers <- MCImageDrivers
  CanClose <- MCCanClose
  EjectOn <- MCEjectOn
  Machines <- MCMachines
  Numbers = 2
INVARIANTS
  OneEnvPerHandle
