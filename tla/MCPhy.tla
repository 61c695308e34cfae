------------------------------- MODULE MCPhy -------------------------------
(***************************************************************************)
(* The interrupt side of the controller for TLC: the lock-free ring, the   *)
(* answer path and the transmit exchanges.  They share no word of memory   *)
(* that matters to their properties, so a behaviour exercises one of them, *)
(* `part`, and leaves the others in their initial state.                   *)
(***************************************************************************)
EXTENDS SpscRing, AnswerPath

CONSTANTS MaxExchanges, RunLength, EventRoom

VARIABLES
    part,
    \* PhyExchange
    isr, cell, queue, pending, onLine, cancelling, activeEpoch, activeExpects, session,
    rxStarted, requested, acknowledged, batchAborted, events, line, exchange,
    unacknowledged, task, asked, sent

exchangeVars == <<isr, cell, queue, pending, onLine, cancelling, activeEpoch, activeExpects,
    session, rxStarted, requested, acknowledged, batchAborted, events, line, exchange,
    unacknowledged, task, asked, sent>>

PX == INSTANCE PhyExchange

ASSUME ExchangeAssumption == MaxExchanges \in Nat /\ RunLength \in Nat /\ EventRoom \in Nat

MCInit ==
    /\ part \in {"ring", "answer", "exchange"}
    /\ Init /\ AnswerInit /\ PX!Init
    /\ part # "ring" => {prod.item, cons.item} = {CHOOSE i \in Item : TRUE}
    /\ part # "answer" => truth = CHOOSE v \in Value : TRUE

MCNext ==
    \/ part = "ring" /\ Next /\ UNCHANGED <<part, answerVars, exchangeVars>>
    \/ part = "answer" /\ AnswerNext /\ UNCHANGED <<part, vars, exchangeVars>>
    \/ part = "exchange" /\ PX!Next /\ UNCHANGED <<part, vars, answerVars>>

MCSpec == MCInit /\ [][MCNext]_<<part, vars, answerVars, exchangeVars>>

----------------------------------------------------------------------------
\* PhyExchange: what the task takes as the outcome of a frame is about that
\* frame, and it never waits for a frame of which nothing is left.
TaskIsTold == part = "exchange" => PX!TaskIsTold

\* PhyExchange: after an acknowledged cancel no frame of the exchange is left to
\* go out, and no backward window stays open.
CancelIsClean == part = "exchange" => PX!CancelIsClean

\* PhyExchange: a cancel erases no frame of a later exchange.
CancelErasesOnlyItsOwn == PX!CancelErasesOnlyItsOwn
=============================================================================
