---------------------------- MODULE MCEventStream ----------------------------
(* EventStream on a small instance.  The instances are interchangeable, but  *)
(* liveness rules symmetry out: with one fault it is enough, instead, to let *)
(* a given instance have it.  The same one has its late handlers subscribed, *)
(* the other is still on its way through the start.                          *)
EXTENDS EventStream

CONSTANT Unsteady   \* the instances that change while their loop runs

UnsteadyNext ==
    \/ Publish
    \/ \E c \in Consumer : Start(c) \/ Step(c)
    \/ \E c \in Unsteady :
          \/ Subscribe(c)
          \/ Stop(c) \/ ReadRaises(c) \/ ClaimRaises(c) \/ CaughtOnTheWay(c)
    \/ \E e \in Event : Age(e)

UnsteadySpec == Init /\ [][UnsteadyNext]_vars /\ Fairness
=============================================================================
