--------------------------- MODULE MCArchiveSupervisor ---------------------------
EXTENDS ArchiveSupervisor
=================================================================================
