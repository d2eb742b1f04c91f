SPECIFICATION Spec
CONSTANTS
  Units <- MCUnits
  Files <- MCFiles
  Updates <- MCUpdates
INVARIANTS SavedIsUsed ShownIsUsed OllamaIsScheduled LiveIsLive
