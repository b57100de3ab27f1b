--------------------------- MODULE MCMembership ---------------------------
EXTENDS Membership

\* Three peers, this node being peer 1.
MCPeers == {1, 2, 3}
MCSelf == 1
=============================================================================
