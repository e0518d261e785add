\* A plan of three steps, one request open at a time, four events.
SPECIFICATION Spec
CONSTANTS
  r1 = r1
  N = 3
  Reopenable = {1, 2, 3}
  Deps <- Fork
  Requests = {r1}
  StartFrom = {"awaiting_assist", "awaiting_decision"}
  MaxEvents = 4
 
 
PROPERTY CompletesWhole
CHECK_DEADLOCK FALSE
