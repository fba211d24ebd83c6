\* One connection; the process was started with SIGPIPE at its default.
CONSTANTS
  Conns = {c1}
  NoConn = NoConn
  Models <- FloatOnly
  HeaderLen = 1
  SizeofFloat = 2
  BodySizes = {1, 2}
  MaxFrames = 1
  Backlog = 1
  SockBuf = 2
  Sigpipes = {"default"}
  Polite = FALSE
SPECIFICATION Spec
PROPERTY ServerOutlivesClients
CHECK_DEADLOCK FALSE
