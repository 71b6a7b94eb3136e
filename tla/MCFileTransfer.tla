--------------------------- MODULE MCFileTransfer ---------------------------
EXTENDS FileTransfer, TLC

MCPort == Client \cup {SERVER_PORT}

MCDataLen == 0..20

MCPacketsLeft == 0..5

F(name, pieces) == [name |-> name, pieces |-> pieces]

\* Good files, one that is too long, and names that the program mishandles.
MCFiles == {F(5, 2), F(11, 3), F(6, 1), F(14, 0), F(20, 0)}
MCWithLostTail == {F(5, 1), F(20, 0)}
MCShort == {F(5, 0), F(16, 0)}

\* One client, whichever, has a name that is refused with its third packet.
MCInitOneRefused ==
  LET unlucky == CHOOSE c \in Client : TRUE
  IN  /\ TransferInit
      /\ \A c \in Client : file[c] = IF c = unlucky THEN F(16, 0) ELSE F(5, 0)
MCOneRefused == MCInitOneRefused /\ [][TransferNext]_allVars /\ Fairness

MCSymmetry == Permutations(Client)
=============================================================================
