CONSTANTS
  r1 = r1
  r2 = r2
  Rule = {r1, r2}
  First = r1
  MaxThread = 2
  MaxCommand = 3
  MaxEdit = 1
  MaxEvent = 5
SPECIFICATION Spec
INVARIANTS TypeOK FeedbackComes
PROPERTY StopEndsIfFed
CHECK_DEADLOCK FALSE
