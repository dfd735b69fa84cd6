SPECIFICATION Spec

CONSTANTS
  Modes = {"create", "append", "replace", "create_append"}
  Ends <- Given
  BatchRows = 2
  MaxBinds = 2
  MaxFaults = 2

INVARIANTS
  RowsInOrder
  IngestComplete

PROPERTIES
  CommitsOnRequest
