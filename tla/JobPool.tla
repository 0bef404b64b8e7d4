------------------------------- MODULE JobPool -------------------------------
(***************************************************************************)
(* What the thread pool promises to the code that uses it (ThreadPool.h):  *)
(* an accepted job is run once, by one of a bounded number of threads,     *)
(* unless it is removed or the pool shut down before it has started.       *)
(***************************************************************************)
EXTENDS Integers, FiniteSets

CONSTANTS Jobs, MaxRunning

VARIABLES status, open

jobVars == <<status, open>>

In(s) == {j \in Jobs : status[j] = s}

Init == status = [j \in Jobs |-> "new"] /\ open = FALSE

Open == ~open /\ open' = TRUE /\ In("new") = Jobs /\ UNCHANGED status

Accept(j) ==
  /\ open /\ status[j] = "new"
  /\ status' = [status EXCEPT ![j] = "queued"]
  /\ UNCHANGED open

\* One thread ends its job, starts another one, or both.
Work(ended, started) ==
  /\ ended \subseteq In("running") /\ started \subseteq In("queued")
  /\ ended \cup started # {}
  /\ Cardinality(ended) <= 1 /\ Cardinality(started) <= 1
  /\ status' = [j \in Jobs |-> IF j \in ended THEN "done"
                               ELSE IF j \in started THEN "running" ELSE status[j]]
  /\ Cardinality({j \in Jobs : status'[j] = "running"}) <= MaxRunning
  /\ UNCHANGED open

Remove(j) ==
  /\ open /\ status[j] = "queued"
  /\ status' = [status EXCEPT ![j] = "removed"]
  /\ UNCHANGED open

\* What has not started is discarded; what runs may end.
Close ==
  /\ open /\ open' = FALSE
  /\ status' = [j \in Jobs |-> IF status[j] = "queued" THEN "discarded" ELSE status[j]]

Next ==
  \/ Open \/ Close
  \/ \E j \in Jobs : Accept(j) \/ Remove(j)
  \/ \E e, s \in SUBSET Jobs : Work(e, s)

Spec == Init /\ [][Next]_jobVars
=============================================================================
