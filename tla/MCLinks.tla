------------------------------- MODULE MCLinks -------------------------------
(* The links to the outside, one at a time: the connection of a connector, the *)
(* batches on their way to PostgreSQL, the edge controller and its hub, and    *)
(* the registers of a Modbus device.  `part` is chosen at the start and the    *)
(* other parts stand still.                                                    *)
EXTENDS Connection, BatchWriter, ModbusSync

CONSTANTS EdgeTask, MaxQueued, MaxOfflineQueue, RetryAttempts, AutoReconnect, MaxCalls

VARIABLES part,
          link, started, changes, pending, attempts, task, syncTask, reconnectTask, taken, calls

\* A change of high priority, and one of low priority that has no request.
ChangeKinds == {[pushable |-> TRUE, priority |-> "high"], [pushable |-> FALSE, priority |-> "low"]}

Edge == INSTANCE EdgeSync WITH Change <- ChangeKinds, waiting <- pending, accepted <- taken

\* Two elements of one register, which is read at half its value for the first.
Mapping(e, direction, scale) ==
    [element |-> e, register |-> CHOOSE r \in Register : TRUE, direction |-> direction,
     scale |-> scale, offset |-> 0]

LinkedMappings ==
    <<Mapping("temperature", "both", <<1, 2>>), Mapping("copy", "read", <<1, 1>>)>>

edgeVars == <<link, started, changes, pending, attempts, task, syncTask, reconnectTask, taken, calls>>
linkVars == <<part, connectionVars, batchVars, edgeVars, modbusVars>>

LinksInit ==
    /\ Init /\ BatchInit /\ Edge!EdgeInit /\ ModbusInit
    /\ part \in {"connection", "batches", "edge", "registers"}
    /\ part # "registers" => \A r \in Register : register[r] = 0

\* A step of a part; the others keep still.
OfConnection(A) == part = "connection" /\ A /\ UNCHANGED <<part, batchVars, edgeVars, modbusVars>>
OfBatches(A) == part = "batches" /\ A /\ UNCHANGED <<part, connectionVars, edgeVars, modbusVars>>
OfEdge(A) == part = "edge" /\ A /\ UNCHANGED <<part, connectionVars, batchVars, modbusVars>>
OfRegisters(A) == part = "registers" /\ A /\ UNCHANGED <<part, connectionVars, batchVars, edgeVars>>

LinksNext ==
    \/ OfConnection(Next)
    \/ OfBatches(BatchNext)
    \/ OfEdge(Edge!EdgeNext)
    \/ OfRegisters(ModbusNext)

\* The fairness of the FairSpec of each module, part by part.
LinksSpec ==
    /\ LinksInit /\ [][LinksNext]_linkVars
    /\ \A t \in Task : WF_linkVars(OfConnection(ConnectionStep(t)))
    /\ WF_linkVars(OfBatches(BusStep)) /\ WF_linkVars(OfBatches(TimerStep))
    /\ \A t \in EdgeTask :
          /\ WF_linkVars(OfEdge(Edge!TaskStep(t)))
          /\ SF_linkVars(OfEdge(Edge!ConnectSucceeds(t)))
    /\ \A r \in Register : WF_linkVars(OfRegisters(PollRead(r)))

-----------------------------------------------------------------------------
\* The variables of the parts keep their types (those of the edge controller are
\* checked in MCServices).
LinksTypeOK == TypeOK /\ BatchTypeOK /\ ModbusTypeOK

\* See EveryChangeTried of EdgeSync, NoiseStaysOut and StableArrives of ModbusSync.
EveryChangeTried == Edge!EveryChangeTried
RegistersFollowed == NoiseStaysOut /\ StableArrives
=============================================================================
