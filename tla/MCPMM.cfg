SPECIFICATION Spec
CONSTANTS
  MaxPage = 3
  MaxRegions = 3
  Slack = 1
  FirmwareMaps <- MCMaps
  Clients = {heap, tables}
  Words <- MCWords
INVARIANTS
  TypeOK
  TableIsFirmwareMap
  FreeListSound
  NoPageShared
  CountersTrue
PROPERTIES
  ContentsPrivate
  ImplementsPageAllocator
