---------------------------- MODULE MCPeerSocket ----------------------------
EXTENDS PeerSocket, TLC

CONSTANTS a, big

\* A packet that fits between or before one that does not.
MCStreams == {<<a, a>>, <<a, big>>}

=============================================================================
