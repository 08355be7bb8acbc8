----------------------------- MODULE JobLedger -----------------------------
(***************************************************************************)
(* What the plugin promises SkyPortal of each job it has submitted,        *)
(* without sweeps, queries or records: until it is restarted, it tells how *)
(* the job ended and tells it again until SkyPortal answers, never after,  *)
(* or knows that it owes it; it says so only of a job that is over, and    *)
(* success only of one that ran to its end; and the products staged for a  *)
(* job are there until then.  Poller implements it.                        *)
(***************************************************************************)
CONSTANTS
    Jobs,
    Staging,       \* jobs with products staged for them
    Blind,         \* a removal may fail unnoticed
    Lossy          \* a sweep may break off between the end of a job and its report

VARIABLES
    fate,          \* what has become of each job: none, alive, ran, gone
    account,       \* where the plugin stands with SkyPortal over it
    heard,         \* the verdicts that reached SkyPortal
    inputs         \* jobs whose staged products are there

Over(j) == fate[j] \in {"ran", "gone"}
Ended(j) == Over(j) \/ (Blind /\ fate[j] # "none")
Becomes(S, a) == account' = [j \in Jobs |-> IF j \in S THEN a ELSE account[j]]

Init ==
    /\ fate = [j \in Jobs |-> "none"] /\ account = [j \in Jobs |-> "none"]
    /\ heard = [j \in Jobs |-> {}] /\ inputs = {}

-----------------------------------------------------------------------------
\* A cluster of jobs, with what was staged for them; then the job's account.
Submit(S) ==
    /\ S # {} /\ S \subseteq {j \in Jobs : fate[j] = "none"}
    /\ fate' = [j \in Jobs |-> IF j \in S THEN "alive" ELSE fate[j]]
    /\ inputs' = inputs \cup (S \cap Staging)
    /\ UNCHANGED <<account, heard>>
Open(j) ==
    /\ fate[j] = "alive" /\ account[j] \in {"none", "open"}
    /\ Becomes({j}, "open")
    /\ UNCHANGED <<fate, heard, inputs>>

\* The job ends by itself, or is removed, by its owner or as held too long.
End(j) ==
    /\ fate[j] = "alive"
    /\ \E f \in {"ran", "gone"} : fate' = [fate EXCEPT ![j] = f]
    /\ UNCHANGED <<account, heard, inputs>>
Evict(j) ==
    /\ account[j] # "none" /\ "success" \notin heard[j]
    /\ \/ Over(j) /\ UNCHANGED fate
       \/ fate' = [fate EXCEPT ![j] = "gone"]
       \/ Blind /\ UNCHANGED fate
    /\ IF account[j] = "open" THEN Becomes({j}, "ended") ELSE UNCHANGED account
    /\ UNCHANGED <<heard, inputs>>

\* The plugin sees that the job is over.
Notice(j) ==
    /\ account[j] = "open" /\ Over(j)
    /\ Becomes({j}, "ended")
    /\ UNCHANGED <<fate, heard, inputs>>

Unsettled(j) == account[j] \in {"open", "ended", "owed"}
Says(j) == \E v \in {"success", "failure"} :
    /\ v = "success" => fate[j] = "ran"
    /\ heard' = [heard EXCEPT ![j] = @ \cup {v}]
\* SkyPortal answers; or it does not, and what was said may have reached it.
Tell(j) == Unsettled(j) /\ Ended(j) /\ Says(j) /\ Becomes({j}, "told")
Owe(j) == /\ Unsettled(j) /\ Ended(j) /\ Becomes({j}, "owed")
          /\ Says(j) \/ UNCHANGED heard
Clean(j) == Ended(j) /\ inputs' = inputs \ {j}

\* One report, and what it may delete.
Report(j) ==
    /\ Tell(j) \/ Owe(j) \/ UNCHANGED <<account, heard>>
    /\ Clean(j) \/ UNCHANGED inputs
    /\ UNCHANGED fate

\* The sweep breaks off: what it had closed and not reported, nobody will report.
Lose(S) ==
    /\ Lossy /\ S \subseteq {j \in Jobs : account[j] = "ended"}
    /\ Becomes(S, "dropped")
    /\ UNCHANGED <<fate, heard, inputs>>

\* A new run has no accounts, but for the jobs it finds again: those in the queue and,
\* closed, some of those that are over.
Restart ==
    /\ account' = [j \in Jobs |-> "none"]
    /\ UNCHANGED <<fate, heard, inputs>>
Restore(q, h) ==
    /\ q \cup h \subseteq {j \in Jobs : account[j] = "none" /\ fate[j] # "none"}
    /\ q \cap h = {} /\ \A j \in h : Over(j)
    /\ account' = [j \in Jobs |-> IF j \in q THEN "open" ELSE IF j \in h THEN "dropped" ELSE account[j]]
    /\ UNCHANGED <<fate, heard, inputs>>

Next ==
    \/ \E j \in Jobs : Open(j) \/ End(j) \/ Evict(j) \/ Notice(j) \/ Report(j)
    \/ \E S \in SUBSET Jobs : Submit(S) \/ Lose(S)
    \/ Restart
    \/ \E q, h \in SUBSET Jobs : Restore(q, h)

Spec == Init /\ [][Next]_<<fate, account, heard, inputs>>
=============================================================================
