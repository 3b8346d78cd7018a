------------------------------- MODULE MCCursor -------------------------------
EXTENDS Cursor
=============================================================================
