--------------------------- MODULE MCSocketStream ---------------------------
\* Two units come from the peer.
EXTENDS SocketStream

CONSTANTS u1, u2
TwoUnits == <<u1, u2>>
=============================================================================
