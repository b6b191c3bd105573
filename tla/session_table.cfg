SPECIFICATION Spec
CONSTANTS
  Udp = {d1, h1, h2}
  Dns = {d1}
  Dhcp = {h1, h2}
  Answered = h2
  Icmp = {i1}
  Tcp = {t1}
  Ids = {e1}
  Pointers = {1, 2}
  MaxSessions = 1
  Fwd53 = FALSE
  UdpTimeout = 2
  DnsTimeout = 1
  IcmpTimeout = 1
  TcpTimeouts = {1, 2}
  Keep = 1
  MaxAge = 3
INVARIANTS
  TypeOK
  EventsHaveSessions
  OneSessionPerFlow
  SocketUntilClosed
PROPERTIES
  BusyIsKept
  OverLimitIsShed
  NoRevival
  EndedIsFreed
