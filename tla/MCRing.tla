-------------------------------- MODULE MCRing --------------------------------
EXTENDS RingBuffer
=============================================================================
