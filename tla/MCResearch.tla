----------------------------- MODULE MCResearch -----------------------------
(* Instances of Research: two sessions, readers and a scheduled run.          *)
EXTENDS Research
CONSTANTS s1, s2, r1, r2, cron
TwoSessions == { s1, s2 }
Readers     == { r1, r2, cron }
Cron        == { cron }
=============================================================================
