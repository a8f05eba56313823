SPECIFICATION Spec
CONSTANTS
  Conns = {c1}
  MaxQueries = 3
  Proxies = {0, 1}
  Lens = {1, 2, 3, 6}
  Streams <- MCStreams
  Header = 2
  RecvBuf = 3
  MaxDatagrams = 2
  Metrics = {1, 2, 3}
  SizeOf <- MCSizeOf
  MAX_BUF_SIZE = 3
INVARIANT IntakeRight
INVARIANT BatchRight
PROPERTY AllHandled
CHECK_DEADLOCK FALSE
