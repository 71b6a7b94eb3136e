CONSTANTS
  SERVER_PORT = SERVER_PORT
  Client = {c1, c2, c3, c4}
  Port <- MCPort
  N = 2
  MAX_CLIENTS = 1
  MAX_FILESIZE = 1
  WAITING_QUEUE_LEN = 3
  DataLen <- MCDataLen
  PacketsLeft <- MCPacketsLeft
  Piece = {1}
  File <- MCShort
SPECIFICATION MCOneRefused
PROPERTIES
  EveryoneFinishes
  RevivedInOrder
