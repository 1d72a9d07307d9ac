-------------------------- MODULE MCHealthMonitor --------------------------
(* Instances of HealthMonitor for TLC. *)
EXTENDS HealthMonitor

\* PopulateCache: NewCheckHandler() for every rehydrated pod.
OwnHandler == [p \in Pods |-> p]

\* CreatePod: every pod is given p.defaultHandler.
SharedHandler == [p \in Pods |-> "default"]

CONSTANT p1

\* Two statuses of the first pod, so that one can overtake the other, and as
\* few of a second pod as leave the two to share a channel.
UnevenStatus == [p \in Pods |-> IF p = p1 THEN 2 ELSE 1]
TwoStatuses  == [p \in Pods |-> 2]
=============================================================================
