SPECIFICATION Spec
CONSTANTS
  Devices <- MCDevices
  Boot = "boot"
  Paths <- MCPaths
  InitPath = "/bin/init"
  Programs <- MCPrograms
  Disks <- MCDisks
  Writable <- MCWritable
  Volatile <- MCVolatile
  Texts <- MCTexts
  Capacity = 2
  NoDevice = NoDevice
  NoVolume = NoVolume
  Closed = Closed
  Off = Off
  Root = "/"
  BadBuffer = BadBuffer
  Nothing = Nothing
  Folder = Folder
  Rubbish = Rubbish
  Damaged = Damaged
  Cleared = Cleared
  Nobody = Nobody
CHECK_DEADLOCK FALSE
INVARIANTS TypeOK SessionHeld
PROPERTY ImplementsProcesses
