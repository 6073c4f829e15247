--------------------------- MODULE MCConfirmation ---------------------------
EXTENDS Confirmation

CONSTANTS owner, guest
=============================================================================
