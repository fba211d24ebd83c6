\* Two connections of clients that keep to the protocol, models with two
\* outputs.
CONSTANTS
  Conns = {c1, c2}
  NoConn = NoConn
  Models <- TwoModels
  HeaderLen = 2
  SizeofFloat = 3
  BodySizes = {1, 3}
  MaxFrames = 2
  Backlog = 2
  SockBuf = 2
  Sigpipes = {"ignored"}
  Polite = TRUE
SPECIFICATION FairSpec
INVARIANTS NoMutualWait NoReplyCutOff
PROPERTIES EveryFrameAnswered EveryConnectionEnds
CHECK_DEADLOCK FALSE
