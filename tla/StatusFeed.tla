----------------------------- MODULE StatusFeed -----------------------------
(***************************************************************************)
(* What a health service promises its subscribers, whatever locks, channels *)
(* and goroutines it is built from: a subscriber is offered the status of   *)
(* its service when it subscribes and after every change; an offer replaces *)
(* an earlier one that it has not looked at; it is shown offers that differ *)
(* from what it was shown last; statuses do not change while the service is *)
(* shut down.                                                               *)
(***************************************************************************)
CONSTANTS Services, Statuses, Subscribers, None, Unknown, First

VARIABLES
  status,  \* of every service, None if it has never been set
  closed,  \* the service is shut down
  sub,     \* what a subscriber subscribes to, or None
  offer,   \* the status that a subscriber has yet to look at, or None
  shown    \* the status that a subscriber was shown last, or None

feedVars == <<status, closed, sub, offer, shown>>

\* What a new subscriber is offered.
Current(s) == IF status[s] = None THEN Unknown ELSE status[s]

Init ==
  /\ status = First
  /\ closed = FALSE
  /\ sub = [w \in Subscribers |-> None]
  /\ offer = [w \in Subscribers |-> None]
  /\ shown = [w \in Subscribers |-> None]

\* The services change one by one.
Change(s, st) ==
  /\ closed => st = "NOT_SERVING"
  /\ status' = [status EXCEPT ![s] = st]
  /\ UNCHANGED <<closed, sub, offer, shown>>

OpenOrClose == closed' \in BOOLEAN /\ UNCHANGED <<status, sub, offer, shown>>

Offer(w) ==
  /\ sub[w] # None
  /\ offer' = [offer EXCEPT ![w] = Current(sub[w])]
  /\ UNCHANGED <<status, closed, sub, shown>>

\* A subscriber looks at its offer.  It is shown what is new to it.
Look(w) ==
  /\ offer[w] # None
  /\ offer' = [offer EXCEPT ![w] = None]
  /\ shown' = [shown EXCEPT ![w] = offer[w]]
  /\ UNCHANGED <<status, closed, sub>>

Subscribe(w, s) ==
  /\ sub[w] = None
  /\ sub' = [sub EXCEPT ![w] = s]
  /\ offer' = [offer EXCEPT ![w] = Current(s)]
  /\ UNCHANGED <<status, closed, shown>>

Unsubscribe(w) ==
  /\ sub' = [sub EXCEPT ![w] = None]
  /\ offer' = [offer EXCEPT ![w] = None]
  /\ shown' = [shown EXCEPT ![w] = None]
  /\ UNCHANGED <<status, closed>>

\* The service starts anew and knows none of its subscribers.
Restart == Init'

Next ==
  \/ OpenOrClose \/ Restart
  \/ \E s \in Services, st \in Statuses : Change(s, st)
  \/ \E w \in Subscribers :
       Offer(w) \/ Look(w) \/ Unsubscribe(w) \/ \E s \in Services : Subscribe(w, s)

Spec == Init /\ [][Next]_feedVars
=============================================================================
