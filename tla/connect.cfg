SPECIFICATION FairSpec

CONSTANTS
  Addresses = 2
  Levels = {"rejected", "accepted", "requested", "required"}
  Channels = {"tcp", "tcps"}
  Sdus = {100, 200}
  HashSize = 32
  MaxHops = 1

INVARIANTS
  FailClosed
  UrgentOnlyInClear
  PacketsFit
  CapabilitiesAreServers
  SocketsAccounted

PROPERTIES
  DialEnds
