--------------------------- MODULE MCKeyService ---------------------------
EXTENDS KeyService

MCOffsets == {0, 1}
=============================================================================
