------------------------------- MODULE JobPool -------------------------------
(***************************************************************************)
(* What "atomic job claiming" promises (titan.jobs.queue): a submitted job *)
(* is waiting, or in the hands of one worker, or neither (finished, dead,  *)
(* cancelled or lost), and a worker gets it only from the waiting ones.    *)
(* So no job is ever in the hands of two workers.                          *)
(***************************************************************************)
CONSTANTS Job, Worker,
          Nothing   \* what an idle worker holds: no job

VARIABLES new,      \* jobs nobody has submitted
          waiting,  \* jobs a worker may take
          holds     \* [Worker -> Job or Nothing]

vars == <<new, waiting, holds>>

Init ==
    /\ new = Job
    /\ waiting = {}
    /\ holds = [w \in Worker |-> Nothing]

Lose(j) ==
    /\ j \in new
    /\ new' = new \ {j}
    /\ UNCHANGED <<waiting, holds>>

Submit(j) ==
    /\ j \in new
    /\ new' = new \ {j}
    /\ waiting' = waiting \cup {j}
    /\ UNCHANGED holds

Take(w, j) ==
    /\ holds[w] = Nothing
    /\ j \in waiting
    /\ waiting' = waiting \ {j}
    /\ holds' = [holds EXCEPT ![w] = j]
    /\ UNCHANGED new

Finish(w) ==
    /\ holds[w] # Nothing
    /\ holds' = [holds EXCEPT ![w] = Nothing]
    /\ UNCHANGED <<new, waiting>>

Return(w) ==
    /\ holds[w] # Nothing
    /\ waiting' = waiting \cup {holds[w]}
    /\ holds' = [holds EXCEPT ![w] = Nothing]
    /\ UNCHANGED new

Withdraw(j) ==
    /\ j \in waiting
    /\ waiting' = waiting \ {j}
    /\ UNCHANGED <<new, holds>>

Next ==
    \/ \E j \in Job : Lose(j) \/ Submit(j) \/ Withdraw(j)
    \/ \E w \in Worker : Finish(w) \/ Return(w) \/ \E j \in Job : Take(w, j)

Spec == Init /\ [][Next]_vars
=============================================================================
