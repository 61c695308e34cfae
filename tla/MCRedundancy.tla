---------------------------- MODULE MCRedundancy ----------------------------
(* Scenarios of Redundancy: a primary and a standby, or two standbys.      *)
EXTENDS Redundancy

CONSTANTS p, s

Quiet == [standby |-> {s}, active |-> {p}, handovers |-> 0,
          crash |-> 0, lapse |-> 0, lost |-> 0, unsent |-> 0, refused |-> 0]

Lossy == [Quiet EXCEPT !.lost = 3, !.unsent = 2]
Failover == [Quiet EXCEPT !.crash = 1, !.handovers = 1]
Lapsing == [Quiet EXCEPT !.lapse = 1, !.lost = 1, !.refused = 1]
TwoStandbys == [Quiet EXCEPT !.standby = {p, s}, !.active = {}]
Switchover == [Quiet EXCEPT !.handovers = 1]

Disturbances == {Lossy, Failover, Lapsing, TwoStandbys}
OnlySwitchover == {Switchover}
=============================================================================
