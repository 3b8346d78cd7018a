---------------------------- MODULE MCAudioStream ----------------------------
EXTENDS AudioStream
CONSTANTS ima
MCOthers == {ima}
=============================================================================
