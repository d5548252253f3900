--------------------------- MODULE MCGraphLoading ---------------------------
\* What changes the graph and what tells of it: loads and dataset intakes side
\* by side, and the job scripts of the onboarding pages.  The two models share
\* no state, so one run takes them one at a time: part is the one that moves,
\* the other keeps its initial state.
EXTENDS GraphLoading, PipelineJobs

VARIABLE part

loadingVars == <<part, vars, jobVars>>

LoadingInit ==
  /\ part \in {"loading", "jobs"}
  /\ Init /\ JobsInit

LoadingNext ==
  \/ part = "loading" /\ Next /\ UNCHANGED <<part, jobVars>>
  \/ part = "jobs" /\ JobsNext /\ UNCHANGED <<part, vars>>

\* In its initial state a part owes no step (neither fairness asks for one).
LoadingSpec == LoadingInit /\ [][LoadingNext]_loadingVars /\ Fairness /\ JobsFairness
============================================================================
