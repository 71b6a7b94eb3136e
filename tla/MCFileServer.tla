---------------------------- MODULE MCFileServer ----------------------------
EXTENDS FileServer, TLC

MCPort == Client \cup {SERVER_PORT}

MCPacketsLeft == {-1, 0, 1}

MCSymmetry == Permutations(Client)
=============================================================================
