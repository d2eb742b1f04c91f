SPECIFICATION Spec
CONSTANTS
  p1 = p1
  r1 = r1
  r2 = r2
  Pages <- MCPages
  Requests <- MCRequests
  Seqs <- MCSeqs
  Timeout = 1
  MaxMessages = 3
  MaxStops = 1
  MaxNow = 2
CHECK_DEADLOCK FALSE
PROPERTIES FreshWhenTaken StopHolds Delivered
