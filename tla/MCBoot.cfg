SPECIFICATION Spec
CONSTANTS
  IPv6s <- MCIPv6s
  Names <- MCNames
  Links <- MCLinks
  Net <- MCNet
  Configured <- MCConfigured
  DHCPLinks <- MCDHCPLinks
  Machines <- MCMachines
  Strangers <- MCStrangers
  MaxFaults = 2
INVARIANT TypeOK
INVARIANT PacketsReadBack
INVARIANT DownloadsAreWhole
INVARIANT PreparedIsWhole
INVARIANT RightBinary
INVARIANT CalmBoots
PROPERTY BootEnds
CHECK_DEADLOCK FALSE
