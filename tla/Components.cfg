\* An umbrella of two components, two slots and a client; two outside events.
SPECIFICATION FairWorkflowSpec
CONSTANTS
  solo = solo  part1 = part1  part2 = part2  chain1 = chain1  chain2 = chain2  client = client
  Nobody = Nobody
  Jobs <- Parts
  Components <- Parts
  Chains <- None
  Requests <- Client
  Slots = 2
  MaxRevisions = 0
  MaxEvents = 2
PROPERTY ImplementsRollup
PROPERTY SweptUp
CHECK_DEADLOCK FALSE
