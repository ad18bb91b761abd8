------------------------------- MODULE MCFlights -------------------------------
(***************************************************************************)
(* Instances of the shared evaluations for TLC.                            *)
(***************************************************************************)
EXTENDS EvaluationFlights

CONSTANTS r1, r2, r4

\* Every request asks for the same key; r4 runs a complete_response.
SharedKey == [r \in Requests |-> "btc"]
===============================================================================
