---------------------------- MODULE MCMessageBus ----------------------------
(* MessageBus for TLC: a command with two handlers, one nobody declared,   *)
(* and an event.                                                           *)
EXTENDS MessageBus

CONSTANTS w1, w2

MCHandles == [commands |-> [both |-> {w1, w2}, none |-> {}], events |-> [changed |-> {w2}]]
MCRoom == [commands |-> 1, events |-> 1, confirmations |-> 1]
MCSchedule == <<1, 1, 0>>
=============================================================================
