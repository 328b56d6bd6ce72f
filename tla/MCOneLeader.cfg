\* Two instances that may be late, no faults.
SPECIFICATION Spec
CONSTANTS
    Instance = {i1, i2}
    LeaseTtl = 6
    Interval = 2
    Latency = 1
    BodyTime = 3
    MaxFaults = 0
    Nobody = nobody
INVARIANT OneLeader
