SPECIFICATION FairSpec
CONSTANTS
  InBufSize = 2
  MaxPacket = 2
  MaxPayload = 1
  WinUnit = 1
  SeqSpace = 4
  DevBufSize = 1
  SockBufSize = 1
  DevSizes = {2}
  AppSizes = {1}
  ChanBound = 1
PROPERTIES
  PipeSpec
  WindowReopens
  InputDelivered
  AppUnblocked
  ConnectAnswered
