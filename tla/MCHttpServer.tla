---------------------------- MODULE MCHttpServer ----------------------------
EXTENDS HttpServer, TLC

OneChunk == [c \in Clients |-> 1]

TwoChunks == [c \in Clients |-> 2]

\* One client has a second chunk to send after its request was first read.
OneOfTwoChunks == [c \in Clients |-> IF c = (CHOOSE d \in Clients : TRUE) THEN 2 ELSE 1]

TwoFds == 5..6

Symmetry == Permutations(Clients)
=============================================================================
