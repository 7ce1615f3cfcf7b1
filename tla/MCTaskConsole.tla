--------------------------- MODULE MCTaskConsole ---------------------------
EXTENDS TaskConsole
=============================================================================
