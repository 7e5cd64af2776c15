------------------------------- MODULE MCPeer -------------------------------
\* Calls over one connection; the configurations give the bounds.
EXTENDS Peer
=============================================================================
