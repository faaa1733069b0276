SPECIFICATION Spec
CONSTANTS
  d1 = d1
  d2 = d2
  Dirs <- MCDirs
  NULL = NULL
  MaxFrames = 5
  Devices <- MCDevices
  CallPages <- MCCallPages
  DevicePages <- MCDevicePages
  DirSize = 3
  UserSize = 2
  TableSize = 2
  FirstUserPage = 1
  MaxCount = 2
  MaxVmas = 1
SYMMETRY Symmetric
INVARIANTS FramesHaveOneUse RegionIsFirstFree
PROPERTY NoCrossTalk
