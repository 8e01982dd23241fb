CONSTANTS
  Ip = {a, b}
  ItemId = {i1, i2, i3}
  NoJob = NoJob
SPECIFICATION Spec
SYMMETRY Symmetry
INVARIANTS TypeOK CacheMatchesTable FirewallMatchesTable
PROPERTIES SharedAddressStaysBlocked ImplementsBlockList
