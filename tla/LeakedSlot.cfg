CONSTANTS
  SERVER_PORT = SERVER_PORT
  Client = {c1, c2}
  Port <- MCPort
  N = 2
  MAX_CLIENTS = 1
  MAX_FILESIZE = 1
  WAITING_QUEUE_LEN = 3
  DataLen <- MCDataLen
  PacketsLeft <- MCPacketsLeft
  Piece = {1}
  File <- MCWithLostTail
SPECIFICATION FairTransferSpec
PROPERTIES
  EveryoneFinishes
