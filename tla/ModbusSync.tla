------------------------------ MODULE ModbusSync ------------------------------
(***************************************************************************)
(* Values between Modbus registers and Submodel elements                   *)
(* (titan.connectors.modbus): a poll per register publishes what has       *)
(* changed for long enough, and element events are written to registers.   *)
(***************************************************************************)
EXTENDS Integers, Sequences, SequencesExt, FiniteSetsExt, Absence

CONSTANTS
    Register,       \* registers of the device, of any type
    Mappings,       \* sequence of RegisterMappings: [element, register,
                    \*  direction, scale, offset], the scale as <<num, den>>
    Reading,        \* the values a register takes
    RegisterMax,    \* 65535
    Debounce,       \* debounce_count
    MaxChanges,     \* bound on the changes of the registers
    MaxSyncs        \* bound on start_sync and stop_sync

\* A change takes one read at least; the code says 2.  A scale may be negative.
ASSUME ModbusAssumption ==
    /\ Debounce \in Nat \ {0} /\ RegisterMax \in Nat /\ Reading \subseteq 0 .. RegisterMax
    /\ Mappings \in Seq(Range(Mappings))
    /\ \A i \in DOMAIN Mappings :
          /\ Mappings[i].register \in Register /\ Mappings[i].offset \in Int
          /\ Mappings[i].scale[1] \in Int /\ Mappings[i].scale[2] \in Nat \ {0}

VARIABLES
    register,       \* [Register -> Reading]: the device
    poll,           \* [Register -> its poll, or Off]
    elementValue,   \* [element -> the value published last, or Nothing]
    reads,          \* [Register -> the last Debounce values its poll has read]
    changesMade, syncs

modbusVars == <<register, poll, elementValue, reads, changesMade, syncs>>

Element == {Mappings[i].element : i \in DOMAIN Mappings}

-----------------------------------------------------------------------------
(* RegisterMapping and ModbusMapper.                                       *)

CanRead(m) == m.direction \in {"read", "both"}
CanWrite(m) == m.direction \in {"write", "both"}

\* int(): towards zero.
Truncated(n, d) == IF n < 0 THEN -((-n) \div d) ELSE n \div d

RegisterToValue(m, r) == Truncated(r * m.scale[1] + m.offset * m.scale[2], m.scale[2])

\* The value without the offset, times what the scale is divided by.
Unscaled(m, v) == (v - m.offset) * m.scale[2]

\* Whether the quotient by the scale is a register's value; by 0 there is none.
InRange(m, v) ==
    /\ m.scale[1] # 0
    /\ Unscaled(m, v) * m.scale[1] \in 0 .. RegisterMax * m.scale[1] * m.scale[1]
ValueToRegister(m, v) == (Unscaled(m, v) * m.scale[1]) \div (m.scale[1] * m.scale[1])

\* The last mapping of an element is the one that counts.
GetByElement(e) == Mappings[Max({i \in DOMAIN Mappings : Mappings[i].element = e})]

-----------------------------------------------------------------------------
(* ModbusPoller.                                                           *)

Off == [mapping |-> Nothing, last |-> Nothing, pending |-> Nothing, counter |-> 0]
Polled == {r \in Register : poll[r] # Off}

\* A register has one poll, for the first mapping that asks for it.
Asking(r) == {i \in DOMAIN Mappings : Mappings[i].register = r /\ CanRead(Mappings[i])}

StartSync ==
    /\ syncs < MaxSyncs /\ syncs' = syncs + 1
    /\ poll' = [r \in Register |->
                  IF r \in Polled \/ Asking(r) = {} THEN poll[r]
                  ELSE [Off EXCEPT !.mapping = Mappings[Min(Asking(r))]]]
    /\ reads' = [r \in Register |-> IF r \in Polled THEN reads[r] ELSE <<>>]
    /\ UNCHANGED <<register, elementValue, changesMade>>

\* The task is cancelled where it is, its last value is forgotten.
StopSync ==
    /\ syncs < MaxSyncs /\ syncs' = syncs + 1
    /\ poll' = [r \in Register |-> Off]
    /\ UNCHANGED <<register, elementValue, reads, changesMade>>

\* Mutant of Settled: a value that comes back leaves the count as it is.
SettledCounting(p) == p

Settled(p) == [p EXCEPT !.pending = Nothing, !.counter = 0]

\* What a poll knows when it has read v.
Observed(p, v) ==
    CASE p.last = Nothing -> [p EXCEPT !.last = v]
      [] v = p.last -> Settled(p)
      [] v # p.last /\ v = p.pending -> [p EXCEPT !.counter = @ + 1]
      [] OTHER -> [p EXCEPT !.pending = v, !.counter = 1]

Changed(p, v) == p.last \notin {Nothing, v} /\ Observed(p, v).counter >= Debounce

Latest(s) == IF Len(s) > Debounce THEN Tail(s) ELSE s

\* A read succeeds; the callback publishes a value that has lasted.
PollRead(r) ==
    LET p == poll[r]
        v == register[r]
    IN /\ r \in Polled
       /\ \/ /\ Changed(p, v)
             /\ poll' = [poll EXCEPT ![r] = [Off EXCEPT !.mapping = p.mapping, !.last = v]]
             /\ elementValue' = [elementValue EXCEPT ![p.mapping.element] = RegisterToValue(p.mapping, v)]
          \/ /\ ~Changed(p, v)
             /\ poll' = [poll EXCEPT ![r] = Observed(p, v)]
             /\ UNCHANGED elementValue
       /\ reads' = [reads EXCEPT ![r] = Latest(Append(@, v))]
       /\ UNCHANGED <<register, changesMade, syncs>>

\* Mutant of Missed: a read that fails starts the count anew.
MissedSettling(p) == [p EXCEPT !.pending = Nothing, !.counter = 0]

Missed(p) == p

\* The client is not connected, the answer is an error, or it raises.
ReadFails(r) ==
    /\ r \in Polled
    /\ poll' = [poll EXCEPT ![r] = Missed(@)]
    /\ UNCHANGED <<register, elementValue, reads, changesMade, syncs>>

-----------------------------------------------------------------------------
(* The device, and what element events write on it.                        *)

RegisterChanges(r, v) ==
    /\ changesMade < MaxChanges /\ changesMade' = changesMade + 1
    /\ register[r] # v
    /\ register' = [register EXCEPT ![r] = v]
    /\ UNCHANGED <<poll, elementValue, reads, syncs>>

\* An element event whose value the mapping can write, on a device that takes
\* it; in all other cases nothing is written.
HandleElementEvent(e, v) ==
    LET m == GetByElement(e) IN
    /\ CanWrite(m) /\ InRange(m, v)
    /\ RegisterChanges(m.register, ValueToRegister(m, v))

-----------------------------------------------------------------------------
ModbusInit ==
    /\ register \in [Register -> Reading]
    /\ poll = [r \in Register |-> Off]
    /\ elementValue = [e \in Element |-> Nothing]
    /\ reads = [r \in Register |-> <<>>]
    /\ changesMade = 0 /\ syncs = 0

ModbusNext ==
    \/ StartSync \/ StopSync
    \/ \E r \in Register : PollRead(r) \/ ReadFails(r) \/ \E v \in Reading : RegisterChanges(r, v)
    \/ \E e \in Element, v \in Reading : HandleElementEvent(e, v)

ModbusSpec == ModbusInit /\ [][ModbusNext]_modbusVars

\* Reads succeed now and then.
ModbusFairSpec == ModbusSpec /\ \A r \in Register : WF_modbusVars(PollRead(r))

-----------------------------------------------------------------------------
(* Properties.                                                             *)

ModbusTypeOK ==
    /\ register \in [Register -> 0 .. RegisterMax]
    /\ \A r \in Polled :
          /\ poll[r].mapping \in Range(Mappings) /\ poll[r].mapping.register = r
          /\ {poll[r].last, poll[r].pending} \subseteq 0 .. RegisterMax \cup {Nothing}
          /\ poll[r].counter \in 0 .. Debounce - 1
    /\ reads \in [Register -> UNION {[1 .. n -> 0 .. RegisterMax] : n \in 0 .. Debounce}]

\* handler.py:152, "Require 2 consecutive changes to avoid noise": a value is
\* published only when the register has had it at every one of the last reads,
\* values that flicker, reads that fail and restarts in between or not.
NoiseStaysOut ==
    [][\A r \in Register :
          elementValue' # elementValue /\ PollRead(r)
          => \A i \in 1 .. Debounce : i <= Len(reads'[r]) /\ reads'[r][i] = register[r]]_modbusVars

\* What a register keeps arrives at the poll, however many reads fail, and so at
\* the element if it is a change.
Behind(r) == r \in Polled /\ poll[r].last # register[r]

StableArrives == \A r \in Register : Behind(r) ~> ~Behind(r)
=============================================================================
