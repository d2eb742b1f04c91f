SPECIFICATION Spec
CONSTANTS
  c1 = c1
  c2 = c2
  Clients <- MCClients
  MaxTakes = 1
  MaxSessions = 2
SYMMETRY MCSymmetry
INVARIANTS CameraHeldCauses DetectionsOfTheirSession OneTickAfterStop
