----------------------------- MODULE SignalContract ----------------------------
(* What every record of a signal's life promises its readers: it is opened once,*)
(* an entry is written once, a closed signal never changes, a win or a loss is  *)
(* the end of an entered trade, and a cancelled signal was never entered.       *)
CONSTANTS Id, None
VARIABLES status, entry, exit
vars == << status, entry, exit >>

Init == status = [s \in Id |-> "ABSENT"] /\ entry = [s \in Id |-> None]

\* The signal is recorded; one the validation turned down never has a lifecycle,
\* one whose structure is already lost is born cancelled.
Record(s) == /\ status[s] = "ABSENT" /\ status'[s] \in {"WAITING", "NULL", "CANCELLED"}
             /\ entry'[s] = None

\* The entry is filled.
Enter(s) == /\ status[s] = "WAITING" /\ status'[s] = "ACTIVE"
            /\ entry'[s] # None /\ exit'[s] = exit[s]

\* The signal ends; a reader that was away may see entry and end in one step.
End(s, outcome) ==
    /\ status[s] \in {"WAITING", "ACTIVE"} /\ status'[s] = outcome
    /\ entry[s] # None => entry'[s] = entry[s]
    /\ outcome \in {"TP_HIT", "SL_HIT"} => entry'[s] # None
    /\ outcome = "CANCELLED" => entry[s] = None /\ entry'[s] = None

Rest(s) == status'[s] = status[s] /\ entry'[s] = entry[s] /\ exit'[s] = exit[s]

Next == \A s \in Id :
            \/ Record(s) \/ Enter(s) \/ Rest(s)
            \/ \E o \in {"TP_HIT", "SL_HIT", "CANCELLED", "AMBIGUOUS"} : End(s, o)
Spec == Init /\ [][Next]_vars
===============================================================================
