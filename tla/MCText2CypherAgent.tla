------------------------- MODULE MCText2CypherAgent -------------------------
\* Instances of Text2CypherAgent.  A run of AgentSpec is of one of two kinds:
\* calls one after another, with all resumes and a project that changes
\* meanwhile, or calls that may overlap, with fewer resumes.
EXTENDS Text2CypherAgent

CONSTANT SharedResumes       \* bound on the resumes of overlapping calls

VARIABLE shared              \* whether calls may overlap

AgentInit == Init /\ shared \in BOOLEAN

AgentNext ==
  /\ Next /\ UNCHANGED shared
  /\ IF shared THEN resumes' <= SharedResumes /\ UNCHANGED queryable
               ELSE ~overlapped'

AgentSpec == AgentInit /\ [][AgentNext]_<<vars, shared>> /\ Fairness
============================================================================
