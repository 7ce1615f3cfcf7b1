--------------------------- MODULE MCDesktopAgent ---------------------------
EXTENDS DesktopAgent
=============================================================================
