------------------------------ MODULE EventFeed ------------------------------
(***************************************************************************)
(* What the device side of GENA promises its subscribers: each gets the    *)
(* events that were accepted for it, in that order, none twice, and the    *)
(* first of them is the initial state table.                               *)
(***************************************************************************)
EXTENDS Integers, Sequences

CONSTANTS
  Subscribers,
  Events        \* the numbers of the events, ascending in time

VARIABLES
  initial,      \* per subscriber the event that carries its initial state table, or 0
  accepted,     \* per subscriber the events accepted for it
  notified      \* per subscriber the events whose NOTIFY has been begun

feed == <<initial, accepted, notified>>

Init ==
  /\ initial = [s \in Subscribers |-> 0]
  /\ accepted = [s \in Subscribers |-> <<>>]
  /\ notified = [s \in Subscribers |-> <<>>]

IsNew(s, e) == \A i \in DOMAIN accepted[s] : accepted[s][i] < e

Welcome(s, e) ==
  /\ accepted[s] = <<>>
  /\ initial' = [initial EXCEPT ![s] = e]
  /\ accepted' = [accepted EXCEPT ![s] = <<e>>]
  /\ UNCHANGED notified

Publish(to, e) ==
  /\ \A s \in to : IsNew(s, e)
  /\ accepted' = [s \in Subscribers |->
                    IF s \in to THEN Append(accepted[s], e) ELSE accepted[s]]
  /\ UNCHANGED <<initial, notified>>

\* The next event, and none at all unless the first is the initial state table.
Notify(s) ==
  /\ Len(notified[s]) < Len(accepted[s])
  /\ accepted[s][1] = initial[s]
  /\ notified' = [notified EXCEPT ![s] = Append(@, accepted[s][Len(@) + 1])]
  /\ UNCHANGED <<initial, accepted>>

Next ==
  \/ \E s \in Subscribers, e \in Events : Welcome(s, e)
  \/ \E to \in SUBSET Subscribers, e \in Events : Publish(to, e)
  \/ \E s \in Subscribers : Notify(s)

Spec == Init /\ [][Next]_feed
=============================================================================
