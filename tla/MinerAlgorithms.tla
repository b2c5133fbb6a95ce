-------------------------- MODULE MinerAlgorithms ---------------------------
(***************************************************************************)
(* The parts of the miner that one thread runs by itself, side by side:    *)
(* the spans of a batch, the number a candidate is judged by, the body a   *)
(* job's root is made of, the band a kernel selects, and the rates the     *)
(* coordinator adds up.  They share no state, so that a behaviour is one   *)
(* of one part, while the others are at their beginning.                   *)
(***************************************************************************)
EXTENDS SpanMining, JanusShare, BlockBody, SelectionBand, WorkerRates

(* Of all the beginnings of SpanMining one is enough.                      *)
SpansAtRest == Begin([s \in 1 .. 2 |-> 2 - s], [offset |-> 0, len |-> 1])

InitParts == Init /\ InitShare /\ InitBody /\ InitBand /\ InitRates

SpansStep ==
    /\ InitShare /\ InitBody /\ InitBand /\ InitRates
    /\ Next
    /\ UNCHANGED <<share, bodyVars, band, workerVars>>
ShareStep ==
    /\ SpansAtRest /\ InitBody /\ InitBand /\ InitRates
    /\ NextShare
    /\ UNCHANGED <<vars, bodyVars, band, workerVars>>
BodyStep ==
    /\ SpansAtRest /\ InitShare /\ InitBand /\ InitRates
    /\ NextBody
    /\ UNCHANGED <<vars, share, band, workerVars>>
BandStep ==
    /\ SpansAtRest /\ InitShare /\ InitBody /\ InitRates
    /\ NextBand
    /\ UNCHANGED <<vars, share, bodyVars, workerVars>>
RatesStep ==
    /\ SpansAtRest /\ InitShare /\ InitBody /\ InitBand
    /\ NextRates
    /\ UNCHANGED <<vars, share, bodyVars, band>>

NextPart == SpansStep \/ ShareStep \/ BodyStep \/ BandStep \/ RatesStep

SpecParts == InitParts /\ [][NextPart]_<<vars, share, bodyVars, band, workerVars>>
=============================================================================
