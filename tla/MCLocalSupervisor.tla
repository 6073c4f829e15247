--------------------------- MODULE MCLocalSupervisor ---------------------------
EXTENDS LocalSupervisor
=============================================================================
