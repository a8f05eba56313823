SPECIFICATION Spec
CONSTANTS
  Lengths = {0, 2}
  Tables <- MCTables
  Tails <- MCTails
  AbsSend = 66
  AbsRecv = 43
  MaxLabel = 2
  MaxName = 3
  MaxRdata = 1
  ShortLen = 1
  LongLen = 1
  SendMax = 9
  rm_r = 2
  rm_m = 4
  DnsInputs <- MCDnsInputs
  DeviceNames <- MCDeviceNames
  Answers <- MCAnswers
  MaxInt = 9
  MaxLong = 99
  Headers12 <- MCHeaders12
  Counts12 <- MCCounts12
  Data <- MCData
  RmMessages <- MCRmMessages
  CombN = 7
  MAX_HEADERS = 2
  Width = 3
  EnvSize = 12
  EnvVars = 5
  WebJobs <- MCWebJobs
 
INVARIANT DnsExact
INVARIANT CodesCorrect
INVARIANT RequestsExact
 
CHECK_DEADLOCK FALSE
