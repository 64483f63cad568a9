SPECIFICATION RegistryEdits
INVARIANTS
  OwnerServes
  QaFollowsProd
  LocalFollowsProd
CONSTANTS
  Names = {"organizeme", "library", "tiles"}
  HostName = "organizeme"
  HostPaths <- MCHostPaths
  HostNav <- MCHostNav
  NavPaths <- MCNavPaths
  ApiPrefixes <- MCPrefixes
  Static = "static"
  Ported = {"organizeme", "library"}
  Requests <- MCRequests
