SPECIFICATION FiltersSpec
CONSTANTS
  Addresses <- MCEdges
  Servers <- MCServers
INVARIANTS FilterTypes Sealed StaysOpen
