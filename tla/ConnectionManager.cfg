SPECIFICATION FairSpec
CONSTANTS
  Sockets = {s1, s2, r1}
  Devices = {d1, d2}
  Rebinders = {r1}
  NoSocket = NoSocket
  NoDevice = NoDevice
INVARIANTS TypeOK IndexAgrees NoOrphan DanglingOnlyByRebinding
PROPERTIES ImplementsDirectory SilentPeersAreDropped
