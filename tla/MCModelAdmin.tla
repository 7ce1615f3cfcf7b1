--------------------------- MODULE MCModelAdmin ---------------------------
EXTENDS ModelAdmin
=============================================================================
