--------------------------- MODULE MCFileDelivery ---------------------------
EXTENDS FileDelivery

CONSTANTS f1, f2
=============================================================================
