SPECIFICATION Spec
CONSTANTS
  DataTypes = {VIDEO}
  VIDEO = VIDEO
  NoMessage = NoMessage
  H264 = H264
  H265 = H265
  Codec <- MCCodec
  Declared = {1}
  UNKNOWN = UNKNOWN
  DefaultCodec = H264
  MaxTotal = 3
  MaxMessages = 3
  MaxQueue = 2
INVARIANTS
  FramesPlayable
  NothingHeldBack
PROPERTIES
  MessagesInOrder
CHECK_DEADLOCK FALSE
