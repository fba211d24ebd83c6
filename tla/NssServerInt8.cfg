\* One connection; a model whose input tensor is int8.
CONSTANTS
  Conns = {c1}
  NoConn = NoConn
  Models <- Int8Only
  HeaderLen = 1
  SizeofFloat = 2
  BodySizes = {1, 2}
  MaxFrames = 1
  Backlog = 1
  SockBuf = 2
  Sigpipes = {"default"}
  Polite = FALSE
SPECIFICATION Spec
PROPERTY TensorSizedFrameTaken
CHECK_DEADLOCK FALSE
