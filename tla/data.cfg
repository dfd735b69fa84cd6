SPECIFICATION Spec
CONSTANTS
  MaxDigits = 4
  MaxBytes = 3
  MaxPoint = 126
  MinPoint <- MCMinPoint
  Numerals <- MCNumerals
  SqlTexts <- MCSqlTexts
  Letters = {"X", "Q", "BEGIN", "INSERT", "CREATE"}
  Width = 9
  Mantissa53 = 6
  IntDigits = 2
  MaxPrecision = 4
  SmallParts = 2
  ClockParts = 2
  YearDays = 4
  MinDay <- MCMinDay
  MaxDay = 11
  MaxString = 2
  Journeys <- MCJourneys
  Geometries <- MCGeometries
  Types = {"A", "B", "C", "XMLTYPE"}
  XmlType = "XMLTYPE"
  Dictionaries <- MCDictionaries
  MaxLookups = 3
  MaxFaults = 1
  Requests <- MCRequests
  DefaultBatch = 6
  MaxPrefetch = 6
  Base = 16
  SignBit = 8
  MaxShortLength = 3
  LongLength = 14
  NullLength = 15
  ChunkSize = 5
  PacketSize = 5
  MaxPackets = 3
  Messages <- MCMessages
  ByteValues = 16
  Documents <- MCDocuments
INVARIANTS
  SameNumberBack
  QmarksAreBinds
  SameValueBack
  SameGeometryBack
  TypesAreWhole
  ExplicitWins
  SameMessageBack
  SameJsonBack
CHECK_DEADLOCK FALSE
