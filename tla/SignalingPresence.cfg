SPECIFICATION SignalingSpec
CONSTANTS
  s1 = s1
  s2 = s2
  s3 = s3
  d1 = d1
  d2 = d2
  x1 = x1
  x2 = x2
  ip1 = ip1
  Sockets = {s1, s2, s3}
  Devices = {d1, d2}
  Rebinders = {}
  SessionIds = {x1, x2}
  Ips = {ip1}
  IpOf <- MCIpOf
  NoSocket = NoSocket
  NoDevice = NoDevice
  NoSession = NoSession
  PASSCODE_RATE_LIMIT = 1
  MaxSubmissions = 2
PROPERTIES OnlyOnlineHostsAreAsked
SYMMETRY MCSymmetry
