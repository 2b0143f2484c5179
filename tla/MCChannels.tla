----------------------------- MODULE MCChannels -----------------------------
EXTENDS Channels
=============================================================================
