\* One job, one revision, two chains and a client; two outside events.
SPECIFICATION FairWorkflowSpec
CONSTANTS
  solo = solo  part1 = part1  part2 = part2  chain1 = chain1  chain2 = chain2  client = client
  Nobody = Nobody
  Jobs <- Solo
  Components <- None
  Chains <- TwoChains
  Requests <- Client
  Slots = 1
  MaxRevisions = 1
  MaxEvents = 2
INVARIANT WorkflowInv
INVARIANT OneAtATime
PROPERTY NotResurrected
PROPERTY NoneStranded
CHECK_DEADLOCK FALSE
