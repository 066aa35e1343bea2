CONSTANTS
  IPs = {"me", "gate", "near", "far"}
  LocalIP = "me"
  LocalGate = "gate"
  LocalNet = {"me", "gate", "near"}
  ZeroIPs = {"0.0.0.0", "0.1.2.3"}
  MACs = {"card", "g", "n"}
  CardMAC = "card"
  Ports = {1}
  UDPPort = 1
  Bytes = {"a", "b"}
  Packets <- FewPackets
  Sends <- ToGate
  ReadSizes = {3}
  ARP_TABLE_LEN = 2
  PSTART = 1
  PSTOP = 5
  RcvRoom = 3
  TmpRoom = 2
  SndRoom = 2
  ETH_CRC_LEN = 1
  MaxAsks = 1
  MaxArrivals = 3
SPECIFICATION Spec
INVARIANT WaitingStay
CHECK_DEADLOCK FALSE
