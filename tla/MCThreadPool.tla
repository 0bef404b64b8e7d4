---------------------------- MODULE MCThreadPool ----------------------------
(* Small instances of ThreadPool for TLC. *)
EXTENDS ThreadPool, TLC

\* A pool as upnpapi.c:249-273 sets it up, scaled down.
OneToTwo == [minThreads |-> 1, maxThreads |-> 2]
OneToOne == [minThreads |-> 1, maxThreads |-> 1]

\* A minimum that cannot be reached with two workers.
TooMany == [minThreads |-> 3, maxThreads |-> 3]

NoAttrs == {}
OtherAttrs == {OneToOne, TooMany}

\* Workers, clients and jobs are interchangeable.
Interchangeable == Permutations(Workers) \cup Permutations(Clients) \cup Permutations(Jobs)
=============================================================================
