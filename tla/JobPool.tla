------------------------------ MODULE JobPool --------------------------------
(* What the database layer promises whoever sends a request: a message that  *)
(* was taken is executed at most once, and until then it is not forgotten.   *)
CONSTANT Message

VARIABLES waiting, finished

jobVars == <<waiting, finished>>

JobInit == waiting = {} /\ finished = {}

Accept(m) ==
  /\ m \notin waiting \cup finished
  /\ waiting' = waiting \cup {m}
  /\ UNCHANGED finished

Finish(m) ==
  /\ m \in waiting
  /\ waiting' = waiting \ {m}
  /\ finished' = finished \cup {m}

JobNext == \E m \in Message : Accept(m) \/ Finish(m)

JobSpec == JobInit /\ [][JobNext]_jobVars
=============================================================================
