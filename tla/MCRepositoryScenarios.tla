------------------------ MODULE MCRepositoryScenarios ------------------------
(* Two scenarios of Repository that share one liveness run.                  *)
EXTENDS Repository

\* "race": all clients at once over the Submodels only, the other tables being
\* empty from the start; "alone": one client only, over every key.
Racing == \A k \in Key \ Submodel : history[k] = {}

Alone(c) ==
    /\ ~Racing
    /\ c = CHOOSE o \in Client : TRUE
    /\ HttpRequest(c) \/ QuietRequest(c)

Race(c) ==
    /\ Racing
    /\ \E m \in Submodel :
          \/ SubmodelRequest(c, m)
          \/ CreateSubmodelMutation(c, m) \/ UpdateSubmodelMutation(c, m)
          \/ DeleteSubmodelMutation(c, m) \/ MqttUpdateElementValue(c, m)

ScenarioNext ==
    \/ \E c \in Client : Alone(c) \/ Race(c) \/ Step(c) \/ Abort(c)
    \/ Expiry

ScenarioSpec == Init /\ [][ScenarioNext]_vars /\ Fairness
=============================================================================
