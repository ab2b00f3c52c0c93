SPECIFICATION Spec
CONSTANTS
  InBufSize = 3
  MaxPacket = 2
  MaxPayload = 2
  WinUnit = 2
  SeqSpace = 5
  DevBufSize = 2
  SockBufSize = 2
  DevSizes = {1, 2}
  AppSizes = {1}
  ChanBound = 1
INVARIANTS
  TypeOK
  WindowIsFreeSpace
  NoInputOverflow
  DeviceNotOverrun
  StreamsInOrder
  FlagsFresh
  StatesAgree
