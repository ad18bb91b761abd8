------------------------------- MODULE MCWorker -------------------------------
(***************************************************************************)
(* Instances of the observation worker for TLC.                            *)
(***************************************************************************)
EXTENDS ObservationWorker

OneOrderEach == [o1 |-> 1, o2 |-> 2]

\* o1 rests until the price is 2, o2 is a market order.
Limits == [o1 |-> {2}, o2 |-> {1, 2}]

\* The provider corrects the second minute; the third one may rise.
RevisedProvider == [m \in 1..MaxMinute |-> IF m \in {2, 3} THEN {1, 2} ELSE {1}]
===============================================================================
