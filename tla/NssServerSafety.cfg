\* Two connections, any behaviour of the clients, a float model with two
\* outputs or one.
CONSTANTS
  Conns = {c1, c2}
  NoConn = NoConn
  Models <- FloatModels
  HeaderLen = 2
  SizeofFloat = 2
  BodySizes = {1, 2}
  MaxFrames = 2
  Backlog = 2
  SockBuf = 2
  Sigpipes = {"default", "ignored"}
  Polite = FALSE
SPECIFICATION Spec
INVARIANTS TypeOK RunsOnWholeFrame FramingKept ReplyStream NoValueLeak
PROPERTY ImplementsService
SYMMETRY Symmetry
CHECK_DEADLOCK FALSE
