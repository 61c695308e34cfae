SPECIFICATION Spec
CONSTANTS
    lampA = lampA
    lampB = lampB
    short = short
    group = group
    all = all
    Lamp = {lampA, lampB}
    Target = {short, group, all}
    Broadcast = all
    Reach <- MCReach
    Scenarios <- RestScenarios
    Units = 2
    Retries = 1
INVARIANTS
    LampsEndInPublishOrder
CHECK_DEADLOCK FALSE
