CONSTANTS
  c1 = c1
  c2 = c2
  Conns <- TwoConns
  NUpstreams = 2
  MaxBytes <- OneAndNone
  Ports = {p1, p2}
  Locals = {a1, a2}
  Servers = {s1, s2}
  MaxQueries = 3
  Destinations <- TwoDestinations
  SrcPorts = {1, 30729, 47997, 47998, 47999, 48002, 65535}
  DestPorts = {53, 443}
  Bytes = {0, 1, 255}
  MaxLen = 3
SPECIFICATION DnsFairSpec
INVARIANTS
  AllIsCarried
  
  AnswersAreReaddressed
  ChecksumsAgree

  
CHECK_DEADLOCK FALSE
