SPECIFICATION LogSpec
CONSTANTS
  Events <- MCEvents
  HomeEvents <- MCHomeEvents
  WindowEvents <- MCWindowEvents
  Stable = 2
  States <- MCStates
  Gaps <- MCGaps
  Hold = 2
  Open = 2
  Clear = 1
  SampleInterval = 1
  MinDistance = 5
  SampleLimit = 3
  MaxSessions = 2
  MaxRaced = 1
  MaxAsked = 1
  MaxNow = 4
CHECK_DEADLOCK FALSE
INVARIANTS PhaseRowsTile RowsOfTheirSession DebriefMatchesLive
PROPERTIES HeldForSamples PathKeepsItsStart
