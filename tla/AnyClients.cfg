CONSTANTS
  SERVER_PORT = SERVER_PORT
  Client = {c1, c2, c3}
  Port <- MCPort
  N = 2
  MAX_CLIENTS = 1
  MAX_FILESIZE = 1
  WAITING_QUEUE_LEN = 2
  DataLen = {0, 8}
  PacketsLeft <- MCPacketsLeft
  Piece = {1}
SYMMETRY MCSymmetry
SPECIFICATION Spec
INVARIANTS
  TypeOK
  OneAnswerEach
  NoLostRevival
