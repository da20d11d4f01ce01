SPECIFICATION Spec
CONSTANTS
  Sockets = {s1, s2, s3}
  Devices = {d1, d2}
  SessionIds = {x1}
  NoSocket = NoSocket
  NoDevice = NoDevice
  NoSession = NoSession
  Tasks = {t1, t2}
  Idle = Idle
  Hosts = {d1}
SYMMETRY Symmetry
INVARIANTS GatewayTypeOK NoDeadRoutes GatewayFramesReachTheirSide PresenceIsRecorded
PROPERTIES RouteIsLostToOlderSocket
