SPECIFICATION RecSpec
CONSTANTS
  MaxId = 2
  MaxFlights = 3
  MaxNow = 9
  PerSecond = 3
  Limit = 1
INVARIANTS OnlyItsRecordingsLost RecordingsListed
