SPECIFICATION MCSpec
CONSTANTS
    None = None
    \* Redundancy
    p = p
    s = s
    Node = {p, s}
    TakeoverAfter = 2
    CommandRoom = 1
    ProbeRoom = 1
    Scenario <- Disturbances
    \* BusUnitSync
    Field = {address, applicationActive}
    Val = {v0, v1}
    Factory = v0
    Wrap = 24
    QueueCap = 2
    MaxPatch = 2
    MaxWire = 2
    MaxLoss = 1
INVARIANTS RolesKept CopiesAgree
PROPERTIES BusIsOwned LaterWriterHolds UnitSettles
