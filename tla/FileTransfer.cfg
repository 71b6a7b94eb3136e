CONSTANTS
  SERVER_PORT = SERVER_PORT
  Client = {c1, c2, c3}
  Port <- MCPort
  N = 2
  MAX_CLIENTS = 2
  MAX_FILESIZE = 2
  WAITING_QUEUE_LEN = 2
  DataLen <- MCDataLen
  PacketsLeft <- MCPacketsLeft
  Piece = {1, 2, 3}
  File <- MCFiles
SYMMETRY MCSymmetry
SPECIFICATION TransferSpec
INVARIANTS
  NamesWholeOrRefused
  OneSlotEach
  FilesArriveWhole
PROPERTIES
  EntriesArePrivate
