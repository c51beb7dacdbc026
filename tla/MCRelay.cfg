CONSTANTS
  UpData <- Up4
  DownData <- Down4
  TCP_WND = 2
  TCP_SND_BUF = 2
  SocksRecvBuf = 3
  AuthInfo = {"none", "password"}
SPECIFICATION RelayFairSpec
INVARIANTS
  NothingCallsFreedMemory
  
  WindowIsBuffer
  NeverStalls
  TakenIsDelivered
  SocksResourcesBalanced
PROPERTIES
  ImplementsPipes
  SocksImplements
  EndsWhenOneSideEnds
  HandshakeSettles
CHECK_DEADLOCK FALSE
