---------------------------- MODULE MCDaliWorker ----------------------------
(***************************************************************************)
(* Small instances of DaliWorker: two lamps, a short address, a group of   *)
(* both and the broadcast address.                                         *)
(***************************************************************************)
EXTENDS DaliWorker, TLC

CONSTANTS lampA, lampB, short, group, all

MCReach ==
    (short :> {lampA}) @@ (group :> {lampA, lampB}) @@ (all :> {lampA, lampB})

\* A setpoint command: kind, target and origin, and what it states.
Light(kind, target, origin, power, level, colour) ==
    [kind |-> kind, target |-> target, origin |-> origin, hold |-> FALSE, scene |-> 0,
     power |-> power, level |-> level, colour |-> colour]

Background(kind, origin) == Light(kind, all, origin, Unstated, "none", FALSE)

\* SetpointsOnly that state their power with their level, as the HCL plan does,
\* and a colour alone; with them holds, recalls of two scenes and a preset.
SetpointsOnly ==
    {Light("set", short, "rest", On, "some", FALSE),
     Light("set", short, "rest", Unstated, "none", TRUE),
     Light("set", group, "rest", Off, "zero", FALSE),
     Light("set", group, "rest", On, "some", TRUE)}
Whole == SetpointsOnly \cup
    {Light("set", short, "hcl", On, "some", TRUE),
     [Light("set", group, "rest", On, "some", FALSE) EXCEPT !.hold = TRUE],
     [Light("scene", group, "rest", On, "some", TRUE) EXCEPT !.scene = 1],
     [Light("scene", group, "rest", Off, "zero", FALSE) EXCEPT !.scene = 2],
     Light("preset", all, "rest", On, "some", FALSE)}

Mixed ==
    {Light("set", short, "rest", On, "some", FALSE),
     Light("set", short, "rest", Unstated, "none", TRUE),
     Light("set", group, "hcl", On, "some", TRUE),
     Background("read", "poller"), Background("read", "rest"),
     Background("scan", "rest"), Background("probe", "poller")}

\* Four setpoints or three lamp commands of any kind with the wire free, and three
\* commands of every class with the gates closing and opening at any moment.
MCScenarios ==
    {[menu |-> SetpointsOnly, arrivals |-> 4, gates |-> {"open"}],
     [menu |-> Whole, arrivals |-> 3, gates |-> {"open"}],
     [menu |-> Mixed, arrivals |-> 3, gates |-> {"open", "passive", "quiescent", "disabled"}]}

\* What a REST body may state: a level without a power, a power without a
\* level, a colour beside either.
Halves ==
    {Light("set", short, "rest", Off, "none", FALSE),
     Light("set", short, "rest", On, "none", FALSE),
     Light("set", short, "rest", Unstated, "some", FALSE),
     Light("set", short, "rest", On, "some", TRUE)}

RestScenarios == {[menu |-> Halves, arrivals |-> 2, gates |-> {"open"}]}
=============================================================================
