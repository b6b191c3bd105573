SPECIFICATION Spec
CONSTANTS
  Udp = {}
  Dns = {}
  Dhcp = {}
  Answered = h2
  Icmp = {i1}
  Tcp = {}
  Ids = {e1, e2}
  Pointers = {1, 2}
  MaxSessions = 1
  Fwd53 = FALSE
  UdpTimeout = 1
  DnsTimeout = 1
  IcmpTimeout = 1
  TcpTimeouts = {1}
  Keep = 1
  MaxAge = 2
INVARIANTS
  AnswersKeepId
