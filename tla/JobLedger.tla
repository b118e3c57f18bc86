----------------------------- MODULE JobLedger -----------------------------
(***************************************************************************)
(* What a ClowdJobInvocation promises to a reader of status.jobMap: the    *)
(* names of the invoked Jobs appear in one step and are never withdrawn or *)
(* replaced, and an outcome, once recorded, is never changed.              *)
(***************************************************************************)
CONSTANT JobIds

VARIABLE ledger   \* per Job name: "none", "Invoked", "Complete" or "Failed"

Blank == [i \in JobIds |-> "none"]

Init == ledger = Blank

\* The Jobs are entered; one that is already over may be entered with its outcome.
Enter ==
    /\ ledger = Blank
    /\ ledger' \in [JobIds -> {"none", "Invoked", "Complete", "Failed"}]

\* Some running Jobs are over.
Settle ==
    /\ ledger' \in [JobIds -> {"none", "Invoked", "Complete", "Failed"}]
    /\ \A i \in JobIds :
         ledger'[i] # ledger[i] => ledger[i] = "Invoked" /\ ledger'[i] \in {"Complete", "Failed"}

Next == Enter \/ Settle

Spec == Init /\ [][Next]_ledger

=============================================================================
