SPECIFICATION HostSpec
CONSTANTS
  Games = {"g1", "g2"}
  States = {"poorC", "richC", "richT", "poorT"}
  Absent = Absent
  Lost = Lost
  Scenario <- MCScenario
  EngineScenario <- MCEngineScenario
  Slots = {"quicksave"}
  Names = {"", "../other"}
  Pieces <- MCPieces
  Doc <- MCDoc
  MinRoom = 1
  Daemons = {"d1", "d2"}
  NoDaemon = NoDaemon
  Clients = {"c1"}
  OwnerOf <- MCOwnerOf
INVARIANTS SlotHoldsLastSave ServesAlone
PROPERTY ImplementsStore
CHECK_DEADLOCK FALSE
