--------------------------------- MODULE MCDaemon ---------------------------------
EXTENDS Daemon

\* The first and the last extension a lookup tries.
FirstAndLast == {Ext("gzip", TRUE), Plain}
=================================================================================
