------------------------------- MODULE MCBipBuffer -------------------------------
EXTENDS BipBufferCalls

UpToSize == 0 .. SIZE
=============================================================================
