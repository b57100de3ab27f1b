CONSTANTS
  Peers <- MCPeers
  Self <- MCSelf
SPECIFICATION Spec
INVARIANT TypeOK
INVARIANT ListMembersMatchesSpec
