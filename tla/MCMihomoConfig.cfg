SPECIFICATION Spec
CONSTANTS
  None = None
  Names <- MCNames
  Hosts <- MCHosts
  Apps <- MCApps
  GeoSites <- MCGeoSites
  Nets <- MCNets
  Docs <- MCDocs
  Settings <- MCSettings
INVARIANTS TypeOK CacheDoesNotChangeTheConnection RulesInOrder NamesFollowTraffic
