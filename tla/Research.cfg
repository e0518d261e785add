\* Two sessions, two readers and one scheduled run; one upset.
SPECIFICATION FairResearchSpec
CONSTANTS
  s1 = s1  s2 = s2  r1 = r1  r2 = r2  cron = cron
  Sessions <- TwoSessions
  Pipes <- Readers
  Fired <- Cron
  MaxIter = 2
  MaxUpsets = 1
  NoSession = NoSession
INVARIANT ResearchInv
INVARIANT OneAtWork
INVARIANT FreshSnapshot
PROPERTY SessionEnds
PROPERTY FiredEnds
CHECK_DEADLOCK FALSE
