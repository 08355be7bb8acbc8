---------------------------- MODULE PollerProofs ----------------------------
(***************************************************************************)
(* Proofs about Poller, for every set of jobs, clusters and APs and for    *)
(* any number of outages, lost answers and restarts: the types, that a     *)
(* run sends nothing of a job once SkyPortal has answered, that a success  *)
(* told is true, and that no record is reopened; under a hypothesis each,  *)
(* that no closed record is forgotten, no input deleted early, that a      *)
(* restart finds every job with a callback URL in the queue and what was   *)
(* staged for it, and that a failure told is true; and, under none, that   *)
(* Poller implements JobLedger.                                            *)
(*                                                                         *)
(* All rest on one inductive invariant, PollInv.  It is preserved action   *)
(* by action, one lemma each.                                              *)
(***************************************************************************)
EXTENDS Poller, TLAPS

\* A job a submit thread has committed and not recorded is not over, and no
\* loop of the sweep that closes or posts a record has it, although
\* rehydrate_jobs may have adopted it.
Uncommitted(j) ==
    /\ cond[j] \in {"running", "held"} /\ status[j] \in {"idle", "held"}
    /\ j \notin closed \cup posted \cup failed \cup overdue
    /\ pc \in {"retry", "history"} => j \notin todo
CommittingInv == \A j \in committing : Uncommitted(j)

\* A job that was never committed has left no trace.
FreshInv == \A j \in Jobs : cond[j] = "none" =>
                j \notin known \cup committing /\ status[j] = "idle"

\* What the loops work on is in JOBS, and the retries are of callbacks that failed.
SweepInv == /\ overdue \subseteq known
            /\ pc # "history" => overdue = {}
            /\ pc \in {"boot", "sleep", "retry", "group"} => cur = {}
            /\ pc = "retry" => todo \subseteq failed \ posted

\* An answer is why a record is posted, and the last that is sent of its job.
CountInv == \A j \in Jobs : told[j] = "no" \/ (told[j] = "answered" /\ j \in posted)

\* A status read from the schedd stays true, and so does a success told.
TruthInv ==
    /\ \A j \in Jobs : status[j] = "completed" => cond[j] \in {"done", "completed"}
    /\ \A j \in overdue : "success" \notin heard[j]
    /\ SuccessIsTrue

PollInv == TypeOK /\ CommittingInv /\ FreshInv /\ SweepInv /\ CountInv /\ TruthInv
-----------------------------------------------------------------------------

USE DEF vars, schedd, outside, record, sweep, heardv, bounds
USE DEF SweepInv, CommittingInv, Uncommitted, FreshInv, CountInv, TruthInv, SuccessIsTrue

\* The plugin starts with an empty table and an idle poller.
LEMMA PollInit == Init => PollInv
BY PollerAssumption DEF Init, PollInv, TypeOK, Aps

\* A step that changes nothing preserves it.
LEMMA StutterInv ==
  ASSUME PollInv, UNCHANGED vars
  PROVE  PollInv'
BY DEF PollInv, TypeOK

-----------------------------------------------------------------------------
(***************************************************************************)
(* The schedd, the submit threads, SkyPortal and the clock                 *)
(***************************************************************************)
\* The schedd puts a job on hold.
LEMMA HoldInv ==
  ASSUME PollInv, NEW j \in Jobs, Hold(j)
  PROVE  PollInv'
BY PollerAssumption DEF PollInv, TypeOK, Hold, Moves

\* A held job is released.
LEMMA ReleaseInv ==
  ASSUME PollInv, NEW j \in Jobs, Release(j)
  PROVE  PollInv'
BY PollerAssumption DEF PollInv, TypeOK, Release, Moves

\* A job that has its record runs to its end.
LEMMA FinishInv ==
  ASSUME PollInv, NEW j \in Jobs, Finish(j)
  PROVE  PollInv'
BY PollerAssumption DEF PollInv, TypeOK, Finish, Moves

\* A job that has its record is removed by its owner.
LEMMA RemoveInv ==
  ASSUME PollInv, NEW j \in Jobs, Remove(j)
  PROVE  PollInv'
BY PollerAssumption DEF PollInv, TypeOK, Remove, Moves

\* A retrieved job leaves the queue: it is as completed as before.
LEMMA LeaveQueueInv ==
  ASSUME PollInv, NEW j \in Jobs, LeaveQueue(j)
  PROVE  PollInv'
BY PollerAssumption DEF PollInv, TypeOK, LeaveQueue, Moves

\* The history forgets a job: the condition stays what it was.
LEMMA RotateInv ==
  ASSUME PollInv, NEW j \in Jobs, Rotate(j)
  PROVE  PollInv'
BY PollerAssumption DEF PollInv, TypeOK, Rotate

\* A submit thread commits fresh jobs, of which the plugin holds nothing.
LEMMA CommitInv ==
  ASSUME PollInv, NEW c, Commit(c)
  PROVE  PollInv'
BY PollerAssumption DEF PollInv, TypeOK, Commit

\* A submit thread replaces a record: the new one is open and unposted.
LEMMA RecordJobInv ==
  ASSUME PollInv, NEW j \in Jobs, RecordJob(j)
  PROVE  PollInv'
BY PollerAssumption DEF PollInv, TypeOK, RecordJob

\* The retry window of a failed callback ends.
LEMMA ExpireInv ==
  ASSUME PollInv, NEW j \in Jobs, Expire(j)
  PROVE  PollInv'
BY PollerAssumption DEF PollInv, TypeOK, Expire

\* SkyPortal goes down, at most MaxOutages times.
LEMMA OutageInv ==
  ASSUME PollInv, Outage
  PROVE  PollInv'
<1>1. outages' \in 0 .. MaxOutages
  <2>1. outages \in 0 .. MaxOutages /\ outages < MaxOutages /\ outages' = outages + 1
    BY DEF PollInv, TypeOK, Outage
  <2>2. MaxOutages \in Nat
    BY PollerAssumption
  <2> QED
    BY <2>1, <2>2
<1>2. UNCHANGED <<schedd, objects, committing, record, sweep, heardv, crashes>> /\ up' = FALSE
  BY DEF Outage
<1>3. TypeOK'
  BY <1>1, <1>2 DEF PollInv, TypeOK
<1> QED
  BY <1>2, <1>3 DEF PollInv

\* SkyPortal comes back.
LEMMA RecoverInv ==
  ASSUME PollInv, Recover
  PROVE  PollInv'
BY PollerAssumption DEF PollInv, TypeOK, Recover

\* A restart empties the table, and with it the verdicts of this run.
LEMMA CrashInv ==
  ASSUME PollInv, Crash
  PROVE  PollInv'
BY PollerAssumption DEF PollInv, TypeOK, Crash

-----------------------------------------------------------------------------
(***************************************************************************)
(* A verdict told                                                          *)
(***************************************************************************)
\* What sending the callback of an unposted record does: the first answer of this
\* run, or none; and a success only of a job the schedd called completed.
LEMMA SentFacts ==
  ASSUME PollInv, NEW j \in Jobs, j \in known \ posted, NEW answer \in BOOLEAN, Sent(j, answer)
  PROVE  /\ heard' \in [Jobs -> SUBSET {"success", "failure"}]
         /\ told' \in [Jobs -> {"no", "answered", "again"}]
         /\ told'[j] = IF answer THEN "answered" ELSE "no"
         /\ \A k \in Jobs \ {j} : heard'[k] = heard[k] /\ told'[k] = told[k]
         /\ "success" \in heard'[j] => cond[j] \in {"done", "completed"}
<1>1. told[j] = "no"
  BY DEF PollInv
<1>2. told \in [Jobs -> {"no", "answered", "again"}]
  BY DEF PollInv, TypeOK
<1>3. heard \in [Jobs -> SUBSET {"success", "failure"}]
  BY DEF PollInv, TypeOK
<1>4. told' = [told EXCEPT ![j] = IF answer THEN "answered" ELSE "no"]
  BY <1>1, <1>2 DEF Sent
<1>5. heard' = [heard EXCEPT ![j] = heard[j] \cup {Verdict(j)}]
  BY DEF Sent
<1>6. Verdict(j) \in {"success", "failure"}
  BY DEF Verdict
<1>7. Verdict(j) = "success" => cond[j] \in {"done", "completed"}
  BY DEF Verdict, PollInv
<1>8. "success" \in heard[j] => cond[j] \in {"done", "completed"}
  BY DEF PollInv
<1>9. heard'[j] = heard[j] \cup {Verdict(j)} /\ \A k \in Jobs \ {j} : heard'[k] = heard[k]
  BY <1>3, <1>5
<1>10. heard' \in [Jobs -> SUBSET {"success", "failure"}]
  BY <1>3, <1>5, <1>6
<1>11. /\ told' \in [Jobs -> {"no", "answered", "again"}]
       /\ told'[j] = IF answer THEN "answered" ELSE "no"
       /\ \A k \in Jobs \ {j} : told'[k] = told[k]
  BY <1>2, <1>4
<1>12. "success" \in heard'[j] => cond[j] \in {"done", "completed"}
  BY <1>7, <1>8, <1>9
<1> QED
  BY <1>9, <1>10, <1>11, <1>12

\* The same of a callback without an answer, which may not have been sent at all.
LEMMA UnansweredFacts ==
  ASSUME PollInv, NEW j \in Jobs, j \in known \ posted, NotDelivered(j)
  PROVE  /\ heard' \in [Jobs -> SUBSET {"success", "failure"}]
         /\ told' \in [Jobs -> {"no", "answered", "again"}]
         /\ told'[j] = "no"
         /\ \A k \in Jobs \ {j} : heard'[k] = heard[k] /\ told'[k] = told[k]
         /\ "success" \in heard'[j] => cond[j] \in {"done", "completed"}
<1>1. CASE Sent(j, FALSE)
  BY <1>1, SentFacts
<1>2. CASE UNCHANGED heardv
  BY <1>2 DEF PollInv, TypeOK
<1> QED
  BY <1>1, <1>2 DEF NotDelivered

\* A retry: the first answer to the record of this run, or the end of the retries.
LEMMA RetryOneInv ==
  ASSUME PollInv, NEW j \in Jobs, RetryOne(j)
  PROVE  PollInv'
<1>1. j \in known \ posted
  BY DEF PollInv, TypeOK, RetryOne
<1>2. j \notin committing
  BY DEF PollInv, RetryOne
<1>3. /\ j \in todo /\ pc = "retry"
      /\ UNCHANGED <<outside, known, status, closed, failed, hold, left, expired, pc,
                     groups, keys, cur, overdue, bounds>>
  BY DEF RetryOne
<1>4. overdue = {}
  BY <1>3 DEF PollInv
<1>5. CASE Delivered(j) /\ todo' = todo \ {j}
  <2>1. posted' = posted \cup {j} /\ Sent(j, TRUE)
    BY <1>5 DEF Delivered, MarkPosted
  <2>2. /\ heard' \in [Jobs -> SUBSET {"success", "failure"}]
        /\ told' \in [Jobs -> {"no", "answered", "again"}] /\ told'[j] = "answered"
        /\ \A k \in Jobs \ {j} : heard'[k] = heard[k] /\ told'[k] = told[k]
        /\ "success" \in heard'[j] => cond[j] \in {"done", "completed"}
    BY <1>1, <2>1, SentFacts
  <2>3. TypeOK'
    BY <1>1, <1>3, <1>5, <2>1, <2>2 DEF PollInv, TypeOK
  <2>4. CommittingInv' /\ FreshInv'
    BY <1>2, <1>3, <1>5, <2>1 DEF PollInv, TypeOK
  <2>5. SweepInv' /\ CountInv'
    BY <1>3, <1>5, <2>1, <2>2 DEF PollInv
  <2>6. TruthInv'
    BY <1>3, <1>4, <2>2 DEF PollInv
  <2> QED
    BY <2>3, <2>4, <2>5, <2>6 DEF PollInv
<1>6. CASE NotDelivered(j) /\ todo' = {} /\ UNCHANGED posted
  <2>1. /\ heard' \in [Jobs -> SUBSET {"success", "failure"}]
        /\ told' \in [Jobs -> {"no", "answered", "again"}] /\ told'[j] = "no"
        /\ \A k \in Jobs \ {j} : heard'[k] = heard[k] /\ told'[k] = told[k]
        /\ "success" \in heard'[j] => cond[j] \in {"done", "completed"}
    BY <1>1, <1>6, UnansweredFacts
  <2>2. TypeOK'
    BY <1>3, <1>6, <2>1 DEF PollInv, TypeOK
  <2>3. CommittingInv' /\ FreshInv' /\ SweepInv'
    BY <1>3, <1>6 DEF PollInv, TypeOK
  <2>4. CountInv'
    BY <1>6, <2>1 DEF PollInv
  <2>5. TruthInv'
    BY <1>3, <1>4, <2>1 DEF PollInv
  <2> QED
    BY <2>2, <2>3, <2>4, <2>5 DEF PollInv
<1> QED
  BY <1>5, <1>6 DEF RetryOne

\* The record of a job that is over and was not told: the callback is posted, or
\* its failure noted; the products staged for it may be deleted.
LEMMA ReportOneInv ==
  ASSUME PollInv, NEW j \in Jobs, ReportOne(j)
  PROVE  PollInv'
<1>1. /\ j \in known /\ j \in todo /\ todo' = todo \ {j} /\ pc = "report"
      /\ UNCHANGED <<cond, rotated, up, committing, known, status, closed, hold, expired, pc,
                     groups, keys, cur, overdue, bounds>>
  BY DEF PollInv, TypeOK, ReportOne
<1>2. left' \subseteq left /\ objects' \subseteq objects
  BY DEF ReportOne, Cleanup
<1>3. retrieved' \subseteq Jobs
  BY DEF ReportOne, Retrieve, PollInv, TypeOK
<1>4. CASE Due(j) /\ Delivered(j) /\ failed' = failed
  <2>1. posted' = posted \cup {j} /\ Sent(j, TRUE)
    BY <1>4 DEF Delivered, MarkPosted
  <2>2. j \notin posted /\ status[j] \in {"completed", "removed"}
    BY <1>4 DEF Due, Terminal
  <2>3. j \notin committing
    BY <2>2 DEF PollInv
  <2>4. /\ heard' \in [Jobs -> SUBSET {"success", "failure"}]
        /\ told' \in [Jobs -> {"no", "answered", "again"}] /\ told'[j] = "answered"
        /\ \A k \in Jobs \ {j} : heard'[k] = heard[k] /\ told'[k] = told[k]
        /\ "success" \in heard'[j] => cond[j] \in {"done", "completed"}
    BY <1>1, <2>1, <2>2, SentFacts
  <2>5. TypeOK'
    BY <1>1, <1>2, <1>3, <1>4, <2>1, <2>4 DEF PollInv, TypeOK
  <2>6. CommittingInv' /\ FreshInv'
    BY <1>1, <1>4, <2>1, <2>3, <2>4 DEF PollInv, TypeOK
  <2>7. SweepInv' /\ CountInv'
    BY <1>1, <2>1, <2>4 DEF PollInv
  <2>8. overdue = {}
    BY <1>1 DEF PollInv
  <2>9. TruthInv'
    BY <1>1, <2>4, <2>8 DEF PollInv
  <2> QED
    BY <2>5, <2>6, <2>7, <2>9 DEF PollInv
<1>5. CASE Due(j) /\ NotDelivered(j) /\ posted' = posted \ {j} /\ failed' = failed \cup {j}
  <2>1. j \notin posted /\ status[j] \in {"completed", "removed"} /\ posted' = posted
    BY <1>5 DEF Due, Terminal
  <2>2. j \notin committing
    BY <2>1 DEF PollInv
  <2>3. /\ heard' \in [Jobs -> SUBSET {"success", "failure"}]
        /\ told' \in [Jobs -> {"no", "answered", "again"}] /\ told'[j] = "no"
        /\ \A k \in Jobs \ {j} : heard'[k] = heard[k] /\ told'[k] = told[k]
        /\ "success" \in heard'[j] => cond[j] \in {"done", "completed"}
    BY <1>1, <1>5, <2>1, UnansweredFacts
  <2>4. TypeOK'
    BY <1>1, <1>2, <1>3, <1>5, <2>1, <2>3 DEF PollInv, TypeOK
  <2>5. CommittingInv' /\ FreshInv' /\ SweepInv'
    BY <1>1, <1>5, <2>1, <2>2 DEF PollInv, TypeOK
  <2>6. CountInv'
    BY <2>1, <2>3 DEF PollInv
  <2>7. overdue = {}
    BY <1>1 DEF PollInv
  <2>8. TruthInv'
    BY <1>1, <2>3, <2>7 DEF PollInv
  <2> QED
    BY <2>4, <2>5, <2>6, <2>8 DEF PollInv
<1>6. CASE ~Due(j)
  <2>1. UNCHANGED <<posted, failed, heardv>>
    BY <1>6 DEF ReportOne
  <2> QED
    BY <1>1, <1>2, <1>3, <2>1 DEF PollInv, TypeOK
<1> QED
  BY <1>4, <1>5, <1>6 DEF ReportOne, NoteFailure

-----------------------------------------------------------------------------
(***************************************************************************)
(* The other steps of a sweep, and of a start                              *)
(***************************************************************************)
\* The retries are of closed records that were not posted.
LEMMA PollStartInv ==
  ASSUME PollInv, PollStart
  PROVE  PollInv'
BY PollerAssumption DEF PollInv, TypeOK, PollStart, Retriable

\* A sweep takes the records that are open.
LEMMA SweepStartInv ==
  ASSUME PollInv, SweepStart
  PROVE  PollInv'
BY PollerAssumption DEF PollInv, TypeOK, SweepStart, OpenKeys, Aps

\* The sweep has done every group.
LEMMA SweepEndInv ==
  ASSUME PollInv, SweepEnd
  PROVE  PollInv'
BY PollerAssumption DEF PollInv, TypeOK, SweepEnd

\* A schedd that cannot be reached is left out.
LEMMA GroupSkipInv ==
  ASSUME PollInv, NEW a, GroupSkip(a)
  PROVE  PollInv'
BY PollerAssumption DEF PollInv, TypeOK, GroupSkip, WithoutGroup

\* The sweep comes to one AP's jobs.
LEMMA GroupStartInv ==
  ASSUME PollInv, NEW a, GroupStart(a)
  PROVE  PollInv'
BY PollerAssumption DEF PollInv, TypeOK, GroupStart

\* The query raises and the sweep ends.
LEMMA QueryFailsInv ==
  ASSUME PollInv, QueryFails
  PROVE  PollInv'
BY PollerAssumption DEF PollInv, TypeOK, QueryFails, Abort

\* The history raises and the sweep ends.
LEMMA HistoryFailsInv ==
  ASSUME PollInv, HistoryFails
  PROVE  PollInv'
BY PollerAssumption DEF PollInv, TypeOK, HistoryFails, Abort

\* The query gives the jobs in the queue their status.
LEMMA QueryOkInv ==
  ASSUME PollInv, QueryOk
  PROVE  PollInv'
BY PollerAssumption DEF PollInv, TypeOK, QueryOk, Live, StatusOf, InQueue

\* A job held too long counts as removed, and had told no success.
LEMMA RemoveHeldInv ==
  ASSUME PollInv, NEW j \in Jobs, RemoveHeld(j)
  PROVE  PollInv'
BY PollerAssumption DEF PollInv, TypeOK, RemoveHeld, InQueue

\* A job that left the queue gets its status from the history.
LEMMA HistoryOneInv ==
  ASSUME PollInv, NEW j \in Jobs, HistoryOne(j)
  PROVE  PollInv'
BY PollerAssumption DEF PollInv, TypeOK, HistoryOne, HistoryStatus, InHistory, StatusOf

\* The reports begin, of every job of the group.
LEMMA HistoryDoneInv ==
  ASSUME PollInv, HistoryDone
  PROVE  PollInv'
BY PollerAssumption DEF PollInv, TypeOK, HistoryDone

\* The group's jobs are reported.
LEMMA ReportDoneInv ==
  ASSUME PollInv, ReportDone
  PROVE  PollInv'
BY PollerAssumption DEF PollInv, TypeOK, ReportDone

\* A start adopts what the schedd shows, with the status it shows.
LEMMA RehydrateInv ==
  ASSUME PollInv, Rehydrate
  PROVE  PollInv'
BY PollerAssumption DEF PollInv, TypeOK, Rehydrate, Adopt, Asked, Queued, Past, StatusOf, InQueue,
   InHistory, StagedOf

-----------------------------------------------------------------------------
(***************************************************************************)
(* The invariant, and what follows from it                                 *)
(***************************************************************************)
\* Every step of the poller preserves it.
LEMMA PollerInv ==
  ASSUME PollInv, Poller
  PROVE  PollInv'
<1>1. CASE Rehydrate
  BY <1>1, RehydrateInv
<1>2. CASE QueryFails \/ HistoryFails
  BY <1>2, QueryFailsInv, HistoryFailsInv
<1>3. CASE PollStart \/ SweepStart \/ SweepEnd
  BY <1>3, PollStartInv, SweepStartInv, SweepEndInv
<1>4. CASE QueryOk \/ HistoryDone \/ ReportDone
  BY <1>4, QueryOkInv, HistoryDoneInv, ReportDoneInv
<1>5. CASE \E a \in Aps : GroupStart(a) \/ GroupSkip(a)
  BY <1>5, GroupStartInv, GroupSkipInv
<1>6. CASE \E j \in Jobs : RetryOne(j) \/ RemoveHeld(j) \/ HistoryOne(j) \/ ReportOne(j)
  BY <1>6, RetryOneInv, RemoveHeldInv, HistoryOneInv, ReportOneInv
<1> QED
  BY <1>1, <1>2, <1>3, <1>4, <1>5, <1>6 DEF Poller, Sweep

\* So does every step of the world around it.
LEMMA WorldInv ==
  ASSUME PollInv, World
  PROVE  PollInv'
<1>1. CASE Outage \/ Recover \/ Crash
  BY <1>1, OutageInv, RecoverInv, CrashInv
<1>2. CASE \E c \in {ClusterOf[j] : j \in Jobs} : Commit(c)
  BY <1>2, CommitInv
<1>3. CASE \E j \in Jobs : Hold(j) \/ Release(j) \/ Finish(j) \/ Remove(j)
  BY <1>3, HoldInv, ReleaseInv, FinishInv, RemoveInv
<1>4. CASE \E j \in Jobs : LeaveQueue(j) \/ Rotate(j) \/ RecordJob(j) \/ Expire(j)
  BY <1>4, LeaveQueueInv, RotateInv, RecordJobInv, ExpireInv
<1> QED
  BY <1>1, <1>2, <1>3, <1>4 DEF World

\* The invariant holds in every reachable state.
THEOREM PollSafe == Spec => []PollInv
<1>1. PollInv /\ [Next]_vars => PollInv'
  <2> SUFFICES ASSUME PollInv, [Next]_vars PROVE PollInv'
    OBVIOUS
  <2>1. CASE Poller
    BY <2>1, PollerInv
  <2>2. CASE World
    BY <2>2, WorldInv
  <2>3. CASE UNCHANGED vars
    BY <2>3, StutterInv
  <2> QED
    BY <2>1, <2>2, <2>3 DEF Next
<1> QED
  BY <1>1, PollInit, PTL DEF Spec

\* Every variable of the poller keeps its type: a record's fields are those of a
\* record, and the sweep's sets are parts of the sweep.
THEOREM PollTypes == Spec => []TypeOK
<1>1. PollInv => TypeOK
  BY DEF PollInv
<1> QED
  BY <1>1, PollSafe, PTL

\* Once post_callback has returned True for a job, this run of the plugin sends no other
\* callback of it, by a sweep or by _retry_callbacks, though it sends again, and SkyPortal
\* may get again, every callback whose answer was lost.
THEOREM PollSilent == Spec => []SilentOnceAnswered
<1>1. PollInv => SilentOnceAnswered
  BY DEF PollInv, SilentOnceAnswered
<1> QED
  BY <1>1, PollSafe, PTL

\* No sweep, retry or restart tells success of a job that was removed, that is
\* still running or of which the schedd knows nothing.
THEOREM PollSuccess == Spec => []SuccessIsTrue
<1>1. PollInv => SuccessIsTrue
  BY DEF PollInv
<1> QED
  BY <1>1, PollSafe, PTL DEF SuccessIsTrue
-----------------------------------------------------------------------------
(***************************************************************************)
(* What a sweep takes, and what it has closed                              *)
(***************************************************************************)
\* A sweep closes only records of its current group, which it takes open and
\* which stay closed with a terminal status until it comes to report them.
LoopInv ==
    /\ overdue \subseteq cur \cup closed
    /\ \A j \in cur : ApOf[j] \notin groups
    /\ \A j \in keys : ApOf[j] \in groups => j \notin closed
    /\ pc = "query" => cur \cap closed = {}
    /\ pc \in {"history", "report"} => \A j \in cur \cap closed : Terminal(status[j])

USE DEF LoopInv, Terminal

\* It holds of the empty table.
LEMMA LoopInit == Init => LoopInv
BY DEF Init

\* The schedd, the submit threads and SkyPortal close no record; a restart ends
\* the sweep.
LEMMA WorldLoops ==
  ASSUME PollInv, LoopInv, World
  PROVE  LoopInv'
<1>1. CASE Outage
  BY <1>1 DEF PollInv, TypeOK, Outage
<1>2. CASE Recover
  BY <1>2 DEF PollInv, TypeOK, Recover
<1>3. CASE Crash
  BY <1>3 DEF PollInv, TypeOK, Crash
<1>4. CASE \E c \in {ClusterOf[j] : j \in Jobs} : Commit(c)
  BY <1>4 DEF PollInv, TypeOK, Commit
<1>5. CASE \E j \in Jobs : Hold(j) \/ Release(j) \/ Finish(j) \/ Remove(j) \/ LeaveQueue(j)
  BY <1>5 DEF PollInv, TypeOK, Hold, Release, Finish, Remove, LeaveQueue, Moves
<1>6. CASE \E j \in Jobs : Rotate(j)
  BY <1>6 DEF PollInv, TypeOK, Rotate
<1>7. CASE \E j \in Jobs : RecordJob(j)
  BY <1>7 DEF PollInv, TypeOK, RecordJob
<1>8. CASE \E j \in Jobs : Expire(j)
  BY <1>8 DEF PollInv, TypeOK, Expire
<1> QED
  BY <1>1, <1>2, <1>3, <1>4, <1>5, <1>6, <1>7, <1>8 DEF World

\* What a start adopts no sweep has taken, and an exception ends the sweep.
LEMMA StartLoops ==
  ASSUME PollInv, LoopInv, Rehydrate \/ QueryFails \/ HistoryFails
  PROVE  LoopInv'
<1>1. CASE Rehydrate
  BY <1>1 DEF PollInv, TypeOK, Rehydrate, Adopt, Asked, Queued, Past, InQueue, InHistory
<1>2. CASE QueryFails
  BY <1>2 DEF PollInv, TypeOK, QueryFails, Abort
<1>3. CASE HistoryFails
  BY <1>3 DEF PollInv, TypeOK, HistoryFails, Abort
<1> QED
  BY <1>1, <1>2, <1>3

\* A group is taken once in a sweep, and closed in its history part.
LEMMA SweepLoops ==
  ASSUME PollInv, LoopInv, Sweep
  PROVE  LoopInv'
<1>1. CASE PollStart \/ SweepStart \/ SweepEnd
  BY <1>1 DEF PollInv, TypeOK, PollStart, SweepStart, SweepEnd, OpenKeys
<1>2. CASE QueryOk
  BY <1>2 DEF PollInv, TypeOK, QueryOk
<1>3. CASE HistoryDone
  BY <1>3 DEF PollInv, TypeOK, HistoryDone
<1>4. CASE ReportDone
  BY <1>4 DEF PollInv, TypeOK, ReportDone
<1>5. CASE \E a \in Aps : GroupStart(a)
  BY <1>5 DEF PollInv, TypeOK, GroupStart
<1>6. CASE \E a \in Aps : GroupSkip(a)
  BY <1>6 DEF PollInv, TypeOK, GroupSkip, WithoutGroup
<1>7. CASE \E j \in Jobs : RetryOne(j)
  BY <1>7 DEF PollInv, TypeOK, RetryOne
<1>8. CASE \E j \in Jobs : RemoveHeld(j)
  BY <1>8 DEF PollInv, TypeOK, RemoveHeld
<1>9. CASE \E j \in Jobs : HistoryOne(j)
  BY <1>9 DEF PollInv, TypeOK, HistoryOne, HistoryStatus, InHistory, StatusOf
<1>10. CASE \E j \in Jobs : ReportOne(j)
  BY <1>10 DEF PollInv, TypeOK, ReportOne
<1> QED
  BY <1>1, <1>2, <1>3, <1>4, <1>5, <1>6, <1>7, <1>8, <1>9, <1>10 DEF Sweep

\* The bookkeeping of the sweeps, in every reachable state.
LEMMA LoopSafe == Spec => []LoopInv
<1>1. PollInv /\ LoopInv /\ [Next]_vars => LoopInv'
  <2> SUFFICES ASSUME PollInv, LoopInv, [Next]_vars PROVE LoopInv'
    OBVIOUS
  <2>1. CASE World
    BY <2>1, WorldLoops
  <2>2. CASE Rehydrate \/ QueryFails \/ HistoryFails
    BY <2>2, StartLoops
  <2>3. CASE Sweep
    BY <2>3, SweepLoops
  <2>4. CASE UNCHANGED vars
    BY <2>4
  <2> QED
    BY <2>1, <2>2, <2>3, <2>4 DEF Next, Poller
<1> QED
  BY <1>1, LoopInit, PollSafe, PTL DEF Spec

-----------------------------------------------------------------------------
(***************************************************************************)
(* While the plugin runs, a closed record is reported or noted             *)
(***************************************************************************)
\* No restart, and a history that does not raise: the hypotheses of the theorem.
Unbroken == MaxCrashes = 0 /\ HistoryFaulty = {}

\* Then every job the schedd has is in JOBS or about to be, too.
ReportInv ==
    /\ \A j \in Jobs : cond[j] = "none" \/ j \in known \cup committing
    /\ ClosedIsReported

USE DEF ReportInv, ClosedIsReported, YetToReport

\* It holds of the empty table.
LEMMA ReportInit == Init => ReportInv
BY DEF Init

\* The schedd, the submit threads and SkyPortal close no record.
LEMMA WorldReports ==
  ASSUME PollInv, LoopInv, ReportInv, Unbroken, World
  PROVE  ReportInv'
<1>1. CASE Outage
  BY <1>1 DEF PollInv, TypeOK, Outage
<1>2. CASE Recover
  BY <1>2 DEF PollInv, TypeOK, Recover
<1>3. CASE Crash
  BY <1>3 DEF PollInv, TypeOK, Crash, Unbroken
<1>4. CASE \E c \in {ClusterOf[j] : j \in Jobs} : Commit(c)
  BY <1>4 DEF PollInv, TypeOK, Commit
<1>5. CASE \E j \in Jobs : Hold(j) \/ Release(j) \/ Finish(j) \/ Remove(j) \/ LeaveQueue(j)
  BY <1>5 DEF PollInv, TypeOK, Hold, Release, Finish, Remove, LeaveQueue, Moves
<1>6. CASE \E j \in Jobs : Rotate(j)
  BY <1>6 DEF PollInv, TypeOK, Rotate
<1>7. CASE \E j \in Jobs : RecordJob(j)
  BY <1>7 DEF PollInv, TypeOK, RecordJob
<1>8. CASE \E j \in Jobs : Expire(j)
  BY <1>8 DEF PollInv, TypeOK, Expire
<1> QED
  BY <1>1, <1>2, <1>3, <1>4, <1>5, <1>6, <1>7, <1>8 DEF World

\* Between the groups, and when a query raises, no record waits for its report.
LEMMA LoopReports ==
  ASSUME PollInv, LoopInv, ReportInv, Unbroken, Rehydrate \/ QueryFails \/ HistoryFails
  PROVE  ReportInv'
<1>1. CASE Rehydrate
  BY <1>1 DEF PollInv, TypeOK, Rehydrate, Adopt, Asked, Queued, Past, InQueue, InHistory
<1>2. CASE QueryFails
  BY <1>2 DEF PollInv, TypeOK, QueryFails, Abort
<1>3. CASE HistoryFails
  BY <1>3 DEF PollInv, TypeOK, HistoryFails, Abort, Raises, Unbroken
<1> QED
  BY <1>1, <1>2, <1>3

\* A group's records are closed by the history part and left to the reports.
LEMMA GroupReports ==
  ASSUME PollInv, LoopInv, ReportInv, Sweep
  PROVE  ReportInv'
<1>1. CASE PollStart \/ SweepStart \/ SweepEnd
  BY <1>1 DEF PollInv, TypeOK, PollStart, SweepStart, SweepEnd, OpenKeys
<1>2. CASE QueryOk
  BY <1>2 DEF PollInv, TypeOK, QueryOk
<1>3. CASE HistoryDone
  BY <1>3 DEF PollInv, TypeOK, HistoryDone
<1>4. CASE ReportDone
  BY <1>4 DEF PollInv, TypeOK, ReportDone
<1>5. CASE \E a \in Aps : GroupStart(a)
  BY <1>5 DEF PollInv, TypeOK, GroupStart
<1>6. CASE \E a \in Aps : GroupSkip(a)
  BY <1>6 DEF PollInv, TypeOK, GroupSkip, WithoutGroup
<1>7. CASE \E j \in Jobs : RetryOne(j)
  BY <1>7 DEF PollInv, TypeOK, RetryOne, Delivered, MarkPosted
<1>8. CASE \E j \in Jobs : RemoveHeld(j)
  BY <1>8 DEF PollInv, TypeOK, RemoveHeld
<1>9. CASE \E j \in Jobs : HistoryOne(j)
  BY <1>9 DEF PollInv, TypeOK, HistoryOne, HistoryStatus, InHistory, StatusOf
<1>10. CASE \E j \in Jobs : ReportOne(j)
  <2> SUFFICES ASSUME NEW j \in Jobs, ReportOne(j) PROVE ReportInv'
    BY <1>10
  <2>1. posted \cup failed \subseteq posted' \cup failed' /\ (Due(j) => j \in posted' \cup failed')
    BY DEF ReportOne, Due, Delivered, MarkPosted, NoteFailure
  <2>2. UNCHANGED <<cond, known, committing, closed, status, pc, cur>> /\ todo' = todo \ {j}
    BY DEF ReportOne
  <2>3. j \in closed \ (posted \cup failed) => Due(j)
    BY DEF ReportOne, Due, PollInv, TypeOK
  <2> QED
    BY <2>1, <2>2, <2>3
<1> QED
  BY <1>1, <1>2, <1>3, <1>4, <1>5, <1>6, <1>7, <1>8, <1>9, <1>10 DEF Sweep

\* The hypotheses hold of the code while the plugin runs and schedd.history does
\* not raise: then no record is closed and forgotten, whatever the queries, the
\* removals, the deletes and SkyPortal do.  Without them TLC finds records that are.
THEOREM PollReports ==
  ASSUME Unbroken
  PROVE  Spec => []ClosedIsReported
<1>1. Init => ReportInv
  BY ReportInit
<1>2. PollInv /\ LoopInv /\ ReportInv /\ [Next]_vars => ReportInv'
  <2> SUFFICES ASSUME PollInv, LoopInv, ReportInv, [Next]_vars PROVE ReportInv'
    OBVIOUS
  <2>1. CASE World
    BY <2>1, WorldReports
  <2>2. CASE Rehydrate \/ QueryFails \/ HistoryFails
    BY <2>2, LoopReports
  <2>3. CASE Sweep
    BY <2>3, GroupReports
  <2>4. CASE UNCHANGED vars
    BY <2>4
  <2> QED
    BY <2>1, <2>2, <2>3, <2>4 DEF Next, Poller
<1>3. ReportInv => ClosedIsReported
  OBVIOUS
<1> QED
  BY <1>1, <1>2, <1>3, PollSafe, LoopSafe, PTL DEF Spec

-----------------------------------------------------------------------------
(***************************************************************************)
(* Staged products outlive their job                                       *)
(***************************************************************************)
\* The history part closes jobs that have left the queue.  If every removal is done
\* or noticed, a terminal status and a closed record are the truth about the job,
\* and so is the delete that they allow.
KeptInv ==
    /\ pc = "history" => \A j \in todo : ~InQueue(j)
    /\ ActMayFail = FALSE =>
         /\ \A j \in Jobs : Terminal(status[j]) \/ j \in closed =>
                                cond[j] \notin {"running", "held"}
         /\ InputsKept

USE DEF KeptInv, InputsKept, InQueue

\* It holds of the empty table.
LEMMA KeptInit == Init => KeptInv
BY PollerAssumption DEF Init

\* Submit threads stage products with the job; nothing else here deletes them.
LEMMA WorldKeeps ==
  ASSUME PollInv, KeptInv, World
  PROVE  KeptInv'
<1>1. CASE Outage \/ Recover \/ Crash
  BY <1>1 DEF PollInv, TypeOK, Outage, Recover, Crash
<1>2. CASE \E c \in {ClusterOf[j] : j \in Jobs} : Commit(c)
  BY <1>2, PollerAssumption DEF PollInv, TypeOK, Commit
<1>3. CASE \E j \in Jobs : Hold(j) \/ Release(j) \/ Finish(j) \/ Remove(j) \/ LeaveQueue(j)
  BY <1>3, PollerAssumption DEF PollInv, TypeOK, Hold, Release, Finish, Remove, LeaveQueue,
     Moves
<1>4. CASE \E j \in Jobs : Rotate(j)
  BY <1>4 DEF PollInv, TypeOK, Rotate
<1>5. CASE \E j \in Jobs : RecordJob(j)
  BY <1>5 DEF PollInv, TypeOK, RecordJob
<1>6. CASE \E j \in Jobs : Expire(j)
  BY <1>6 DEF PollInv, TypeOK, Expire
<1> QED
  BY <1>1, <1>2, <1>3, <1>4, <1>5, <1>6 DEF World

\* A start reads the status of what it adopts; an exception reads and deletes nothing.
LEMMA StartKeeps ==
  ASSUME PollInv, KeptInv, Rehydrate \/ QueryFails \/ HistoryFails
  PROVE  KeptInv'
<1>1. CASE Rehydrate
  BY <1>1 DEF PollInv, TypeOK, Rehydrate, Adopt, Asked, Queued, Past, StatusOf, InHistory
<1>2. CASE QueryFails
  BY <1>2 DEF PollInv, TypeOK, QueryFails, Abort
<1>3. CASE HistoryFails
  BY <1>3 DEF PollInv, TypeOK, HistoryFails, Abort
<1> QED
  BY <1>1, <1>2, <1>3

\* A sweep closes a job the queue did not show, or one it has removed itself.
LEMMA SweepKeeps ==
  ASSUME PollInv, KeptInv, Sweep
  PROVE  KeptInv'
<1>1. CASE PollStart \/ SweepStart \/ SweepEnd
  BY <1>1 DEF PollInv, TypeOK, PollStart, SweepStart, SweepEnd
<1>2. CASE QueryOk
  BY <1>2 DEF PollInv, TypeOK, QueryOk, Live, StatusOf
<1>3. CASE HistoryDone \/ ReportDone
  BY <1>3 DEF PollInv, TypeOK, HistoryDone, ReportDone
<1>4. CASE \E a \in Aps : GroupStart(a) \/ GroupSkip(a)
  BY <1>4 DEF PollInv, TypeOK, GroupStart, GroupSkip
<1>5. CASE \E j \in Jobs : RetryOne(j)
  BY <1>5 DEF PollInv, TypeOK, RetryOne
<1>6. CASE \E j \in Jobs : RemoveHeld(j)
  BY <1>6, PollerAssumption DEF PollInv, TypeOK, RemoveHeld
<1>7. CASE \E j \in Jobs : HistoryOne(j)
  BY <1>7 DEF PollInv, TypeOK, HistoryOne, HistoryStatus, InHistory, StatusOf
<1>8. CASE \E j \in Jobs : ReportOne(j)
  BY <1>8 DEF PollInv, TypeOK, ReportOne, Cleanup, CleanupDue
<1> QED
  BY <1>1, <1>2, <1>3, <1>4, <1>5, <1>6, <1>7, <1>8 DEF Sweep

\* What the deletes rest on, in every reachable state.
LEMMA KeptSafe == Spec => []KeptInv
<1>1. Init => KeptInv
  BY KeptInit
<1>2. PollInv /\ KeptInv /\ [Next]_vars => KeptInv'
  <2> SUFFICES ASSUME PollInv, KeptInv, [Next]_vars PROVE KeptInv'
    OBVIOUS
  <2>1. CASE World
    BY <2>1, WorldKeeps
  <2>2. CASE Rehydrate \/ QueryFails \/ HistoryFails
    BY <2>2, StartKeeps
  <2>3. CASE Sweep
    BY <2>3, SweepKeeps
  <2>4. CASE UNCHANGED vars
    BY <2>4
  <2> QED
    BY <2>1, <2>2, <2>3, <2>4 DEF Next, Poller
<1> QED
  BY <1>1, <1>2, PollSafe, PTL DEF Spec

\* If the schedd removes what it is told to remove, _cleanup_osdf_inputs never
\* deletes the inputs of a job that has yet to run or may still be released, over
\* any number of restarts: "Only terminal jobs reach here".
THEOREM PollKeepsInputs ==
  ASSUME ActMayFail = FALSE
  PROVE  Spec => []InputsKept
<1>1. KeptInv => InputsKept
  OBVIOUS
<1> QED
  BY <1>1, KeptSafe, PTL

-----------------------------------------------------------------------------
(***************************************************************************)
(* A record is never reopened                                              *)
(***************************************************************************)
\* _poll_group and _retry_callbacks only add to the closed and the posted: the
\* one step that takes a record out of the posted, the report of a failed
\* callback, takes a record that was not among them.
THEOREM PollNeverReopens == Spec => NothingReopens
<1>1. ASSUME Next, ~Crash, \A j \in Jobs : ~RecordJob(j)
      PROVE  closed \subseteq closed' /\ posted \subseteq posted'
  <2>1. CASE Rehydrate
    BY <2>1 DEF Rehydrate, Adopt
  <2>2. CASE QueryFails \/ HistoryFails
    BY <2>2 DEF QueryFails, HistoryFails, Abort
  <2>3. CASE PollStart \/ SweepStart \/ SweepEnd
    BY <2>3 DEF PollStart, SweepStart, SweepEnd
  <2>4. CASE QueryOk
    BY <2>4 DEF QueryOk
  <2>5. CASE HistoryDone \/ ReportDone
    BY <2>5 DEF HistoryDone, ReportDone
  <2>6. CASE \E a \in Aps : GroupStart(a) \/ GroupSkip(a)
    BY <2>6 DEF GroupStart, GroupSkip
  <2>7. CASE \E j \in Jobs : RetryOne(j)
    BY <2>7 DEF RetryOne, Delivered, MarkPosted
  <2>8. CASE \E j \in Jobs : RemoveHeld(j)
    BY <2>8 DEF RemoveHeld
  <2>9. CASE \E j \in Jobs : HistoryOne(j)
    BY <2>9 DEF HistoryOne
  <2>10. CASE \E j \in Jobs : ReportOne(j)
    BY <2>10 DEF ReportOne, Due, Delivered, MarkPosted
  <2>11. CASE Outage \/ Recover
    BY <2>11 DEF Outage, Recover
  <2>12. CASE \E c \in {ClusterOf[j] : j \in Jobs} : Commit(c)
    BY <2>12 DEF Commit
  <2>13. CASE \E j \in Jobs : Hold(j) \/ Release(j) \/ Finish(j) \/ Remove(j) \/ LeaveQueue(j)
    BY <2>13 DEF Hold, Release, Finish, Remove, LeaveQueue, Moves
  <2>14. CASE \E j \in Jobs : Rotate(j)
    BY <2>14 DEF Rotate
  <2>15. CASE \E j \in Jobs : Expire(j)
    BY <2>15 DEF Expire
  <2> QED
    BY <1>1, <2>1, <2>2, <2>3, <2>4, <2>5, <2>6, <2>7, <2>8, <2>9, <2>10, <2>11, <2>12, <2>13,
       <2>14, <2>15 DEF Next, Poller, Sweep, World
<1>2. ASSUME UNCHANGED vars
      PROVE  closed \subseteq closed' /\ posted \subseteq posted'
  BY <1>2
<1>3. [Next]_vars => [~Crash /\ (\A j \in Jobs : ~RecordJob(j)) =>
                         closed \subseteq closed' /\ posted \subseteq posted']_vars
  BY <1>1, <1>2
<1> QED
  BY <1>3, PTL DEF Spec, NothingReopens

-----------------------------------------------------------------------------
(***************************************************************************)
(* What a restart finds again                                              *)
(***************************************************************************)
\* No restart, or a rehydrate_jobs that comes through its query of the queue.
Rebuilt == MaxCrashes = 0 \/ RehydrateMayFail = FALSE

\* Every job of the default AP with a callback URL in the queue is in JOBS or about to
\* be, once JOBS is rebuilt; and until the plugin is restarted, every job ever committed.
SeenInv ==
    /\ \A j \in Jobs \ NoCallback : pc # "boot" /\ ApOf[j] = DefaultAp /\ InQueue(j) =>
                                         j \in known \cup committing
    /\ crashes = 0 => \A j \in Jobs : cond[j] = "none" \/ j \in known \cup committing

\* A staged object of which JOBS knows the job is in the job's record.
NotedInv == objects \subseteq Staging /\ objects \cap known \subseteq left

USE DEF SeenInv, NotedInv

\* Both hold of the empty table and the empty origin.
LEMMA SeenInit == Init => SeenInv /\ NotedInv
BY DEF Init

\* A submit thread commits and then records; a restart forgets, and starts again.
LEMMA WorldSeen ==
  ASSUME PollInv, SeenInv, World
  PROVE  SeenInv'
<1>1. CASE Outage
  BY <1>1, PollerAssumption DEF PollInv, TypeOK, Outage
<1>2. CASE Recover
  BY <1>2, PollerAssumption DEF PollInv, TypeOK, Recover
<1>3. CASE Crash
  BY <1>3, PollerAssumption DEF PollInv, TypeOK, Crash
<1>4. CASE \E c \in {ClusterOf[j] : j \in Jobs} : Commit(c)
  BY <1>4, PollerAssumption DEF PollInv, TypeOK, Commit
<1>5. CASE \E j \in Jobs : Hold(j) \/ Release(j) \/ Finish(j) \/ Remove(j) \/ LeaveQueue(j)
  BY <1>5, PollerAssumption DEF PollInv, TypeOK, Hold, Release, Finish, Remove, LeaveQueue,
     Moves
<1>6. CASE \E j \in Jobs : Rotate(j)
  BY <1>6, PollerAssumption DEF PollInv, TypeOK, Rotate
<1>7. CASE \E j \in Jobs : RecordJob(j)
  BY <1>7, PollerAssumption DEF PollInv, TypeOK, RecordJob
<1>8. CASE \E j \in Jobs : Expire(j)
  BY <1>8, PollerAssumption DEF PollInv, TypeOK, Expire
<1> QED
  BY <1>1, <1>2, <1>3, <1>4, <1>5, <1>6, <1>7, <1>8 DEF World

\* A submit thread's record has what it staged.
LEMMA WorldNotes ==
  ASSUME PollInv, NotedInv, World
  PROVE  NotedInv'
<1>1. CASE Outage
  BY <1>1 DEF PollInv, TypeOK, Outage
<1>2. CASE Recover
  BY <1>2 DEF PollInv, TypeOK, Recover
<1>3. CASE Crash
  BY <1>3 DEF PollInv, TypeOK, Crash
<1>4. CASE \E c \in {ClusterOf[j] : j \in Jobs} : Commit(c)
  BY <1>4 DEF PollInv, TypeOK, Commit
<1>5. CASE \E j \in Jobs : Hold(j) \/ Release(j) \/ Finish(j) \/ Remove(j) \/ LeaveQueue(j)
  BY <1>5 DEF PollInv, TypeOK, Hold, Release, Finish, Remove, LeaveQueue, Moves
<1>6. CASE \E j \in Jobs : Rotate(j)
  BY <1>6 DEF PollInv, TypeOK, Rotate
<1>7. CASE \E j \in Jobs : RecordJob(j)
  BY <1>7 DEF PollInv, TypeOK, RecordJob
<1>8. CASE \E j \in Jobs : Expire(j)
  BY <1>8 DEF PollInv, TypeOK, Expire
<1> QED
  BY <1>1, <1>2, <1>3, <1>4, <1>5, <1>6, <1>7, <1>8 DEF World

\* rehydrate_jobs takes all of the queue that calls back, or nothing was lost.
LEMMA LoopSeen ==
  ASSUME PollInv, SeenInv, Rebuilt, Rehydrate \/ QueryFails \/ HistoryFails
  PROVE  SeenInv'
<1>1. CASE Rehydrate
  BY <1>1, PollerAssumption DEF PollInv, TypeOK, Rehydrate, Adopt, Asked, Queued, Past, StatusOf,
     InHistory, StagedOf, Rebuilt
<1>2. CASE QueryFails
  BY <1>2, PollerAssumption DEF PollInv, TypeOK, QueryFails, Abort, Rebuilt
<1>3. CASE HistoryFails
  BY <1>3, PollerAssumption DEF PollInv, TypeOK, HistoryFails, Abort, Rebuilt
<1> QED
  BY <1>1, <1>2, <1>3

\* An adopted record has the staged products of its job.
LEMMA LoopNotes ==
  ASSUME PollInv, NotedInv, Rehydrate \/ QueryFails \/ HistoryFails
  PROVE  NotedInv'
<1>1. CASE Rehydrate
  BY <1>1 DEF PollInv, TypeOK, Rehydrate, Adopt, Asked, Queued, Past, StatusOf, InHistory, StagedOf
<1>2. CASE QueryFails
  BY <1>2 DEF PollInv, TypeOK, QueryFails, Abort
<1>3. CASE HistoryFails
  BY <1>3 DEF PollInv, TypeOK, HistoryFails, Abort
<1> QED
  BY <1>1, <1>2, <1>3

\* A sweep drops no record, and puts no job into the queue.
LEMMA SweepSeen ==
  ASSUME PollInv, SeenInv, Sweep
  PROVE  SeenInv'
<1>1. CASE PollStart \/ SweepStart \/ SweepEnd
  BY <1>1 DEF PollInv, TypeOK, PollStart, SweepStart, SweepEnd, OpenKeys, Retriable
<1>2. CASE QueryOk
  BY <1>2 DEF PollInv, TypeOK, QueryOk, Live, StatusOf
<1>3. CASE HistoryDone \/ ReportDone
  BY <1>3 DEF PollInv, TypeOK, HistoryDone, ReportDone
<1>4. CASE \E a \in Aps : GroupStart(a) \/ GroupSkip(a)
  BY <1>4 DEF PollInv, TypeOK, GroupStart, GroupSkip
<1>5. CASE \E j \in Jobs : RetryOne(j)
  BY <1>5 DEF PollInv, TypeOK, RetryOne, Delivered, NotDelivered, Sent, MarkPosted, Verdict
<1>6. CASE \E j \in Jobs : RemoveHeld(j)
  BY <1>6 DEF PollInv, TypeOK, RemoveHeld
<1>7. CASE \E j \in Jobs : HistoryOne(j)
  BY <1>7 DEF PollInv, TypeOK, HistoryOne, HistoryStatus, InHistory, StatusOf
<1>8. CASE \E j \in Jobs : ReportOne(j)
  BY <1>8 DEF PollInv, TypeOK, ReportOne, Cleanup, CleanupDue, Due, Delivered, NotDelivered,
     Sent, MarkPosted, Verdict, Retrieve, NoteFailure
<1> QED
  BY <1>1, <1>2, <1>3, <1>4, <1>5, <1>6, <1>7, <1>8 DEF Sweep

\* A sweep forgets only the products it has deleted.
LEMMA SweepNotes ==
  ASSUME PollInv, NotedInv, Sweep
  PROVE  NotedInv'
<1>1. CASE PollStart \/ SweepStart \/ SweepEnd
  BY <1>1 DEF PollInv, TypeOK, PollStart, SweepStart, SweepEnd, OpenKeys, Retriable
<1>2. CASE QueryOk
  BY <1>2 DEF PollInv, TypeOK, QueryOk, Live, StatusOf
<1>3. CASE HistoryDone \/ ReportDone
  BY <1>3 DEF PollInv, TypeOK, HistoryDone, ReportDone
<1>4. CASE \E a \in Aps : GroupStart(a) \/ GroupSkip(a)
  BY <1>4 DEF PollInv, TypeOK, GroupStart, GroupSkip
<1>5. CASE \E j \in Jobs : RetryOne(j)
  BY <1>5 DEF PollInv, TypeOK, RetryOne, Delivered, NotDelivered, Sent, MarkPosted, Verdict
<1>6. CASE \E j \in Jobs : RemoveHeld(j)
  BY <1>6 DEF PollInv, TypeOK, RemoveHeld
<1>7. CASE \E j \in Jobs : HistoryOne(j)
  BY <1>7 DEF PollInv, TypeOK, HistoryOne, HistoryStatus, InHistory, StatusOf
<1>8. CASE \E j \in Jobs : ReportOne(j)
  BY <1>8 DEF PollInv, TypeOK, ReportOne, Cleanup, CleanupDue, Due, Delivered, NotDelivered,
     Sent, MarkPosted, Verdict, Retrieve, NoteFailure
<1> QED
  BY <1>1, <1>2, <1>3, <1>4, <1>5, <1>6, <1>7, <1>8 DEF Sweep

\* The table is complete, and its records are of what was staged, in every
\* reachable state.
LEMMA RebuiltSafe ==
  ASSUME Rebuilt
  PROVE  Spec => [](SeenInv /\ NotedInv)
<1>1. PollInv /\ SeenInv /\ NotedInv /\ [Next]_vars => (SeenInv /\ NotedInv)'
  <2> SUFFICES ASSUME PollInv, SeenInv, NotedInv, [Next]_vars PROVE SeenInv' /\ NotedInv'
    OBVIOUS
  <2>1. CASE World
    BY <2>1, WorldSeen, WorldNotes
  <2>2. CASE Rehydrate \/ QueryFails \/ HistoryFails
    BY <2>2, LoopSeen, LoopNotes
  <2>3. CASE Sweep
    BY <2>3, SweepSeen, SweepNotes
  <2>4. CASE UNCHANGED vars
    BY <2>4
  <2> QED
    BY <2>1, <2>2, <2>3, <2>4 DEF Next, Poller
<1> QED
  BY <1>1, SeenInit, PollSafe, PTL DEF Spec

\* "rehydrate_jobs rebuilds the in-memory table on restart", over any number of
\* restarts at any moment, between a commit and its record too, for every job with a
\* callback URL; the others are known until the first restart.  The hypotheses are its
\* code's: it reads the queue of one AP, and logs an exception and goes on.
THEOREM PollSeesQueue ==
  ASSUME MaxCrashes = 0 \/ (RehydrateMayFail = FALSE /\ \A j \in Jobs : ApOf[j] = DefaultAp)
  PROVE  Spec => []QueueIsKnown
<1>1. PollInv /\ SeenInv => QueueIsKnown
  BY PollerAssumption DEF QueueIsKnown, Findable, PollInv, TypeOK
<1>2. Rebuilt
  BY DEF Rebuilt
<1> QED
  BY <1>1, <1>2, RebuiltSafe, PollSafe, PTL

\* What _adopt_ad reads back from a job's ad, with what a submit thread noted in
\* the record, is all that is staged for a job in the queue: no restart makes the
\* plugin forget what it has yet to delete for a job with a callback URL.
THEOREM PollNotesStaged ==
  ASSUME Rebuilt
  PROVE  Spec => []LeftIsNoted
<1>1. PollInv /\ SeenInv /\ NotedInv => LeftIsNoted
  BY DEF LeftIsNoted, Findable, PollInv, TypeOK
<1> QED
  BY <1>1, RebuiltSafe, PollSafe, PTL

-----------------------------------------------------------------------------
(***************************************************************************)
(* A failure told is true                                                  *)
(***************************************************************************)
\* A job held stays held; or a job that is over stays in the queue until the
\* plugin has seen it there, and is removed when the plugin removes it.
HoldLasts == Resumes = FALSE \/ (Spooled = TRUE /\ ActMayFail = FALSE)

\* A job that will not run to its end.
Final(j) == cond[j] = "removed" \/ (cond[j] = "held" /\ Resumes = FALSE)

\* What the sweep calls removed or held, and what it told a failure of, is final;
\* a record keeps no hold reason beside a completed status.
FailInv ==
    /\ rotated = {}
    /\ \A j \in Jobs : status[j] = "removed" \/ "failure" \in heard[j] => Final(j)
    /\ \A j \in Jobs : status[j] = "completed" => j \notin hold
    /\ Resumes = FALSE => \A j \in hold \cup overdue : Final(j)
    /\ \A j \in closed : Final(j) \/ (Terminal(status[j]) /\ ~InQueue(j))
    /\ pc = "history" => \A j \in todo : ~InQueue(j)

\* A job that may be released leaves the queue only after its results were
\* retrieved, and those of a held job are not.
PulledInv ==
    Resumes = TRUE =>
        /\ retrieved \cap (hold \cup overdue) = {}
        /\ \A j \in retrieved : cond[j] \in {"done", "completed"}
        /\ \A j \in Jobs : cond[j] = "completed" => j \in retrieved

USE DEF HoldLasts, Final, FailInv, PulledInv

\* Both hold of the empty table.
LEMMA FailInit == Init => FailInv /\ PulledInv
BY DEF Init

\* Outside the plugin nothing ends well that is final, and no history is lost.
LEMMA WorldFails ==
  ASSUME PollInv, FailInv, PulledInv, HoldLasts, HistoryRotates = FALSE, World
  PROVE  FailInv'
<1>1. CASE Outage
  BY <1>1, PollerAssumption DEF PollInv, TypeOK, Outage
<1>2. CASE Recover
  BY <1>2, PollerAssumption DEF PollInv, TypeOK, Recover
<1>3. CASE Crash
  BY <1>3, PollerAssumption DEF PollInv, TypeOK, Crash
<1>4. CASE \E c \in {ClusterOf[j] : j \in Jobs} : Commit(c)
  BY <1>4, PollerAssumption DEF PollInv, TypeOK, Commit
<1>5. CASE \E j \in Jobs : Hold(j) \/ Release(j) \/ Finish(j) \/ Remove(j) \/ LeaveQueue(j)
  BY <1>5, PollerAssumption DEF PollInv, TypeOK, Hold, Release, Finish, Remove, LeaveQueue,
     Moves
<1>6. CASE \E j \in Jobs : Rotate(j)
  BY <1>6, PollerAssumption DEF PollInv, TypeOK, Rotate
<1>7. CASE \E j \in Jobs : RecordJob(j)
  BY <1>7, PollerAssumption DEF PollInv, TypeOK, RecordJob
<1>8. CASE \E j \in Jobs : Expire(j)
  BY <1>8, PollerAssumption DEF PollInv, TypeOK, Expire
<1> QED
  BY <1>1, <1>2, <1>3, <1>4, <1>5, <1>6, <1>7, <1>8 DEF World

\* A spooled job stays in the queue until it is retrieved.
LEMMA WorldPulls ==
  ASSUME PollInv, FailInv, PulledInv, HoldLasts, HistoryRotates = FALSE, World
  PROVE  PulledInv'
<1>1. CASE Outage
  BY <1>1, PollerAssumption DEF PollInv, TypeOK, Outage
<1>2. CASE Recover
  BY <1>2, PollerAssumption DEF PollInv, TypeOK, Recover
<1>3. CASE Crash
  BY <1>3, PollerAssumption DEF PollInv, TypeOK, Crash
<1>4. CASE \E c \in {ClusterOf[j] : j \in Jobs} : Commit(c)
  BY <1>4, PollerAssumption DEF PollInv, TypeOK, Commit
<1>5. CASE \E j \in Jobs : Hold(j) \/ Release(j) \/ Finish(j) \/ Remove(j) \/ LeaveQueue(j)
  BY <1>5, PollerAssumption DEF PollInv, TypeOK, Hold, Release, Finish, Remove, LeaveQueue,
     Moves
<1>6. CASE \E j \in Jobs : Rotate(j)
  BY <1>6, PollerAssumption DEF PollInv, TypeOK, Rotate
<1>7. CASE \E j \in Jobs : RecordJob(j)
  BY <1>7, PollerAssumption DEF PollInv, TypeOK, RecordJob
<1>8. CASE \E j \in Jobs : Expire(j)
  BY <1>8, PollerAssumption DEF PollInv, TypeOK, Expire
<1> QED
  BY <1>1, <1>2, <1>3, <1>4, <1>5, <1>6, <1>7, <1>8 DEF World

\* A start takes the hold reason and the status from one ad.
LEMMA LoopFails ==
  ASSUME PollInv, FailInv, PulledInv, HoldLasts, HistoryRotates = FALSE, Rehydrate \/
         QueryFails \/ HistoryFails
  PROVE  FailInv'
<1>1. CASE Rehydrate
  BY <1>1, PollerAssumption DEF PollInv, TypeOK, Rehydrate, Adopt, Asked, Queued, Past, StatusOf,
     InHistory, StagedOf
<1>2. CASE QueryFails
  BY <1>2, PollerAssumption DEF PollInv, TypeOK, QueryFails, Abort
<1>3. CASE HistoryFails
  BY <1>3, PollerAssumption DEF PollInv, TypeOK, HistoryFails, Abort
<1> QED
  BY <1>1, <1>2, <1>3

\* No retrieved job is adopted as held.
LEMMA LoopPulls ==
  ASSUME PollInv, FailInv, PulledInv, HoldLasts, HistoryRotates = FALSE, Rehydrate \/
         QueryFails \/ HistoryFails
  PROVE  PulledInv'
<1>1. CASE Rehydrate
  BY <1>1, PollerAssumption DEF PollInv, TypeOK, Rehydrate, Adopt, Asked, Queued, Past, StatusOf,
     InHistory, StagedOf
<1>2. CASE QueryFails
  BY <1>2, PollerAssumption DEF PollInv, TypeOK, QueryFails, Abort
<1>3. CASE HistoryFails
  BY <1>3, PollerAssumption DEF PollInv, TypeOK, HistoryFails, Abort
<1> QED
  BY <1>1, <1>2, <1>3

\* A sweep tells a failure of a job that is final.
LEMMA SweepFails ==
  ASSUME PollInv, FailInv, PulledInv, HoldLasts, HistoryRotates = FALSE, Sweep
  PROVE  FailInv'
<1>1. CASE PollStart \/ SweepStart \/ SweepEnd
  BY <1>1, PollerAssumption DEF PollInv, TypeOK, PollStart, SweepStart, SweepEnd, OpenKeys,
     Retriable
<1>2. CASE QueryOk
  BY <1>2, PollerAssumption DEF PollInv, TypeOK, QueryOk, Live, StatusOf
<1>3. CASE HistoryDone \/ ReportDone
  BY <1>3, PollerAssumption DEF PollInv, TypeOK, HistoryDone, ReportDone
<1>4. CASE \E a \in Aps : GroupStart(a) \/ GroupSkip(a)
  BY <1>4, PollerAssumption DEF PollInv, TypeOK, GroupStart, GroupSkip
<1>5. CASE \E j \in Jobs : RetryOne(j)
  BY <1>5, PollerAssumption DEF PollInv, TypeOK, RetryOne, Delivered, NotDelivered, Sent, MarkPosted, Verdict
<1>6. CASE \E j \in Jobs : RemoveHeld(j)
  BY <1>6, PollerAssumption DEF PollInv, TypeOK, RemoveHeld
<1>7. CASE \E j \in Jobs : HistoryOne(j)
  BY <1>7, PollerAssumption DEF PollInv, TypeOK, HistoryOne, HistoryStatus, InHistory, StatusOf
<1>8. CASE \E j \in Jobs : ReportOne(j)
  BY <1>8, PollerAssumption DEF PollInv, TypeOK, ReportOne, Cleanup, CleanupDue, Due,
     Delivered, NotDelivered, Sent, MarkPosted, Verdict, Retrieve, NoteFailure
<1> QED
  BY <1>1, <1>2, <1>3, <1>4, <1>5, <1>6, <1>7, <1>8 DEF Sweep

\* A sweep retrieves what completed, which has no hold reason.
LEMMA SweepPulls ==
  ASSUME PollInv, FailInv, PulledInv, HoldLasts, HistoryRotates = FALSE, Sweep
  PROVE  PulledInv'
<1>1. CASE PollStart \/ SweepStart \/ SweepEnd
  BY <1>1, PollerAssumption DEF PollInv, TypeOK, PollStart, SweepStart, SweepEnd, OpenKeys,
     Retriable
<1>2. CASE QueryOk
  BY <1>2, PollerAssumption DEF PollInv, TypeOK, QueryOk, Live, StatusOf
<1>3. CASE HistoryDone \/ ReportDone
  BY <1>3, PollerAssumption DEF PollInv, TypeOK, HistoryDone, ReportDone
<1>4. CASE \E a \in Aps : GroupStart(a) \/ GroupSkip(a)
  BY <1>4, PollerAssumption DEF PollInv, TypeOK, GroupStart, GroupSkip
<1>5. CASE \E j \in Jobs : RetryOne(j)
  BY <1>5, PollerAssumption DEF PollInv, TypeOK, RetryOne, Delivered, NotDelivered, Sent, MarkPosted, Verdict
<1>6. CASE \E j \in Jobs : RemoveHeld(j)
  BY <1>6, PollerAssumption DEF PollInv, TypeOK, RemoveHeld
<1>7. CASE \E j \in Jobs : HistoryOne(j)
  BY <1>7, PollerAssumption DEF PollInv, TypeOK, HistoryOne, HistoryStatus, InHistory, StatusOf
<1>8. CASE \E j \in Jobs : ReportOne(j)
  BY <1>8, PollerAssumption DEF PollInv, TypeOK, ReportOne, Cleanup, CleanupDue, Due,
     Delivered, NotDelivered, Sent, MarkPosted, Verdict, Retrieve, NoteFailure
<1> QED
  BY <1>1, <1>2, <1>3, <1>4, <1>5, <1>6, <1>7, <1>8 DEF Sweep

\* A job told a failure has not run to its end and will not, over any number of
\* restarts and outages, if the schedd's history keeps a job until the poller has
\* read it, and HoldLasts: a hold the plugin has seen is the job's last, or the
\* job, spooled, waits in the queue until the plugin sees that it resumed.
THEOREM PollFailure ==
  ASSUME HoldLasts, HistoryRotates = FALSE
  PROVE  Spec => []FailureIsTrue
<1>1. PollInv /\ FailInv /\ PulledInv /\ [Next]_vars => (FailInv /\ PulledInv)'
  <2> SUFFICES ASSUME PollInv, FailInv, PulledInv, [Next]_vars PROVE FailInv' /\ PulledInv'
    OBVIOUS
  <2>1. CASE World
    BY <2>1, WorldFails, WorldPulls
  <2>2. CASE Rehydrate \/ QueryFails \/ HistoryFails
    BY <2>2, LoopFails, LoopPulls
  <2>3. CASE Sweep
    BY <2>3, SweepFails, SweepPulls
  <2>4. CASE UNCHANGED vars
    BY <2>4
  <2> QED
    BY <2>1, <2>2, <2>3, <2>4 DEF Next, Poller
<1>2. PollInv /\ FailInv => FailureIsTrue
  BY DEF FailureIsTrue
<1> QED
  BY <1>1, <1>2, FailInit, PollSafe, PTL DEF Spec

-----------------------------------------------------------------------------
(***************************************************************************)
(* Poller implements JobLedger: every step of the sweeps, the submit       *)
(* threads, the schedd, SkyPortal and the restarts is a step of the        *)
(* ledger or leaves it alone.                                              *)
(***************************************************************************)
Fates == [j \in Jobs |-> Fate(j)]
Accounts == [j \in Jobs |-> Account(j)]
JobStep == [Ledger!Next]_<<Fates, Accounts, heard, objects>>

\* All that the refinement rests on.
JobInv == PollInv /\ LoopInv /\ KeptInv

\* A step that the ledger sees as a change of some accounts, or of none.
Turns(S, a) == \A k \in Jobs : Account(k)' = IF k \in S THEN a ELSE Account(k)
AccountsStay == \A k \in Jobs : Account(k)' = Account(k)
FatesStay == \A k \in Jobs : Fate(k)' = Fate(k)

\* Such a step is the ledger's Becomes.
LEMMA TurnsBecomes ==
  ASSUME NEW S, NEW a, Turns(S, a)
  PROVE  Ledger!Becomes(S, a)
BY DEF Turns, Ledger!Becomes

\* The ledger sees nothing of a step that leaves fates, accounts, verdicts and
\* inputs what they were.
LEMMA JobStays ==
  ASSUME FatesStay, AccountsStay, UNCHANGED <<heard, objects>>
  PROVE  JobStep
<1>1. Fates' = Fates /\ Accounts' = Accounts
  BY DEF FatesStay, AccountsStay, Fates, Accounts
<1> QED
  BY <1>1 DEF JobStep

\* A job's fate depends on what the schedd did with it.
LEMMA SameFates ==
  ASSUME cond' = cond
  PROVE  FatesStay
BY DEF FatesStay, Fate

\* Its account depends on its record and, once closed, on the sweep.
LEMMA SameAccounts ==
  ASSUME UNCHANGED <<known, posted, failed, closed>>,
         \A k \in closed \ (posted \cup failed) : YetToReport(k)' <=> YetToReport(k)
  PROVE  AccountsStay
BY DEF AccountsStay, Account

HIDE DEF YetToReport

\* What each account says of the record.
Table == \A j \in Jobs :
    /\ Account(j) = "none" <=> j \notin known
    /\ Account(j) = "told" <=> j \in posted
    /\ Account(j) = "owed" <=> j \in failed \ posted
    /\ Account(j) = "open" <=> j \in known \ (posted \cup failed \cup closed)
    /\ Account(j) = "ended" <=> j \in closed \ (posted \cup failed) /\ YetToReport(j)
    /\ Account(j) = "dropped" <=> j \in closed \ (posted \cup failed) /\ ~YetToReport(j)
    /\ Account(j) \in {"none", "told", "owed", "open", "ended", "dropped"}

\* So it is in every state.
LEMMA AccountTable == TypeOK => Table
BY DEF TypeOK, Table, Account

\* And in the next.
LEMMA AccountTableNext == TypeOK' => Table'
BY AccountTable, PTL

\* What has become of a job, for the ledger.
LEMMA FateTable ==
  ASSUME TypeOK, NEW j \in Jobs
  PROVE  /\ Fates[j] = Fate(j)
         /\ Fate(j) = "none" <=> cond[j] = "none"
         /\ Fate(j) = "alive" <=> cond[j] \in {"running", "held"}
         /\ Fate(j) = "ran" <=> cond[j] \in {"done", "completed"}
         /\ Fate(j) = "gone" <=> cond[j] = "removed"
BY DEF TypeOK, Fate, Fates

-----------------------------------------------------------------------------
(***************************************************************************)
(* The steps of the world                                                  *)
(***************************************************************************)
\* The schedd changes nothing that the ledger sees, but for the end of a job.
LEMMA WorldStays ==
  ASSUME PollInv, NEW j \in Jobs,
         Hold(j) \/ Release(j) \/ LeaveQueue(j) \/ Rotate(j) \/ Expire(j)
  PROVE  JobStep
<1>1. AccountsStay
  BY SameAccounts
     DEF YetToReport, Hold, Release, LeaveQueue, Moves, Rotate, Expire
<1>2. FatesStay
  BY DEF PollInv, TypeOK, FatesStay, Fate, Hold, Release, LeaveQueue, Moves, Rotate, Expire
<1>3. UNCHANGED <<heard, objects>>
  BY DEF Hold, Release, LeaveQueue, Moves, Rotate, Expire
<1> QED
  BY <1>1, <1>2, <1>3, JobStays

\* Nor does SkyPortal, when it goes down or comes back.
LEMMA OutageRefines ==
  ASSUME Outage \/ Recover
  PROVE  JobStep
<1>1. AccountsStay /\ FatesStay /\ UNCHANGED <<heard, objects>>
  BY SameAccounts, SameFates DEF YetToReport, Outage, Recover
<1> QED
  BY <1>1, JobStays

\* A job that runs to its end or is removed by its owner is the ledger's End.
LEMMA EndRefines ==
  ASSUME PollInv, NEW j \in Jobs, Finish(j) \/ Remove(j)
  PROVE  JobStep
<1>1. Accounts' = Accounts
  <2>1. AccountsStay
    BY SameAccounts DEF YetToReport, Finish, Remove, Moves
  <2> QED
    BY <2>1 DEF AccountsStay, Accounts
<1>2. UNCHANGED <<heard, objects>>
  BY DEF Finish, Remove, Moves
<1>3. Fates[j] = "alive"
  BY DEF Fates, Fate, Finish, Remove, Moves
<1>4. PICK c \in {"done", "completed", "removed"} : cond' = [cond EXCEPT ![j] = c]
  BY DEF Finish, Remove, Moves
<1>5. \E f \in {"ran", "gone"} : Fates' = [Fates EXCEPT ![j] = f]
  <2>1. \A k \in Jobs \ {j} : Fate(k)' = Fate(k)
    BY <1>4 DEF PollInv, TypeOK, Fate
  <2>2. Fate(j)' \in {"ran", "gone"}
    BY <1>4 DEF PollInv, TypeOK, Fate
  <2>3. Fates' = [Fates EXCEPT ![j] = Fate(j)']
    BY <2>1 DEF Fates
  <2> QED
    BY <2>2, <2>3
<1>6. Ledger!End(j)
  BY <1>1, <1>2, <1>3, <1>5 DEF Ledger!End, Fates, Accounts
<1> QED
  BY <1>6 DEF JobStep, Ledger!Next, Fates, Accounts

\* A committed cluster is the ledger's Submit.
LEMMA CommitRefines ==
  ASSUME PollInv, NEW i \in Jobs, Commit(ClusterOf[i])
  PROVE  JobStep
<1> DEFINE S == {j \in Jobs : ClusterOf[j] = ClusterOf[i]}
<1>1. Accounts' = Accounts
  <2>1. AccountsStay
    BY SameAccounts DEF YetToReport, Commit
  <2> QED
    BY <2>1 DEF AccountsStay, Accounts
<1>2. heard' = heard /\ objects' = objects \cup (S \cap Staging)
  BY DEF Commit
<1>3. S # {} /\ S \subseteq {j \in Jobs : Fates[j] = "none"}
  BY DEF Commit, Fates, Fate
<1>4. Fates' = [j \in Jobs |-> IF j \in S THEN "alive" ELSE Fates[j]]
  BY DEF Commit, Fates, Fate
<1>5. S \in SUBSET Jobs
  OBVIOUS
<1> HIDE DEF S
<1>6. Ledger!Submit(S)
  BY <1>1, <1>2, <1>3, <1>4 DEF Ledger!Submit, Fates, Accounts
<1> QED
  BY <1>5, <1>6 DEF JobStep, Ledger!Next, Fates, Accounts

\* A new record opens the job's account, or leaves it open after rehydrate_jobs.
LEMMA RecordRefines ==
  ASSUME PollInv, NEW j \in Jobs, RecordJob(j)
  PROVE  JobStep
<1>1. FatesStay /\ UNCHANGED <<heard, objects>>
  BY SameFates DEF RecordJob
<1>2. Table /\ Table'
  BY RecordJobInv, AccountTable, AccountTableNext DEF PollInv
<1>3. Fates[j] = "alive"
  BY DEF RecordJob, PollInv, Fates, Fate
<1>4. Account(j) \in {"none", "open"}
  BY <1>2 DEF RecordJob, PollInv, Table
<1>5. Turns({j}, "open")
  <2>1. Account(j)' = "open"
    BY <1>2 DEF RecordJob, Table
  <2>2. ASSUME NEW k \in Jobs, k # j PROVE Account(k)' = Account(k)
    BY <2>2 DEF RecordJob, Account, YetToReport
  <2> QED
    BY <2>1, <2>2 DEF Turns
<1>6. Fates' = Fates
  BY <1>1 DEF FatesStay, Fates
<1>7. Accounts[j] \in {"none", "open"}
  BY <1>4 DEF Accounts
<1>8. Ledger!Open(j)
  BY <1>1, <1>3, <1>5, <1>6, <1>7, TurnsBecomes DEF Ledger!Open, Fates, Accounts
<1> QED
  BY <1>8 DEF JobStep, Ledger!Next, Fates, Accounts

\* A restart forgets the accounts.
LEMMA CrashRefines ==
  ASSUME PollInv, Crash
  PROVE  JobStep
<1>1. FatesStay /\ UNCHANGED <<heard, objects>>
  BY SameFates DEF Crash
<1>2. Accounts' = [j \in Jobs |-> "none"]
  BY DEF Crash, Accounts, Account
<1>3. Fates' = Fates
  BY <1>1 DEF FatesStay, Fates
<1>4. Ledger!Restart
  BY <1>1, <1>2, <1>3 DEF Ledger!Restart, Fates, Accounts
<1> QED
  BY <1>4 DEF JobStep, Ledger!Next, Fates, Accounts

-----------------------------------------------------------------------------
(***************************************************************************)
(* The steps of a start and of a sweep                                     *)
(***************************************************************************)
\* rehydrate_jobs finds the queue, open, and closed what it reads of the history.
LEMMA RehydrateRefines ==
  ASSUME PollInv, Rehydrate
  PROVE  JobStep
<1>1. FatesStay /\ UNCHANGED <<heard, objects>>
  BY SameFates DEF Rehydrate
<1>2. CASE UNCHANGED record
  <2>1. AccountsStay
    BY <1>2, SameAccounts DEF YetToReport, Rehydrate
  <2> QED
    BY <1>1, <2>1, JobStays
<1>3. ASSUME NEW h \in SUBSET Past, Adopt(Queued, h)
      PROVE  JobStep
  <2>1. Queued \in SUBSET Jobs /\ h \in SUBSET Jobs /\ (Queued \cup h) \cap known = {}
    BY DEF Asked, Queued, Past
  <2>2. Queued \cap h = {} /\ \A j \in Queued \cup h : cond[j] # "none"
    BY DEF Asked, Queued, Past, InHistory
  <2>3. \A j \in h : cond[j] \in {"completed", "removed"}
    BY DEF Past, InHistory
  <2>4. Table /\ Table'
    BY RehydrateInv, AccountTable, AccountTableNext DEF PollInv
  <2>5. \A j \in Queued \cup h : Accounts[j] = "none" /\ Fates[j] # "none"
    BY <2>1, <2>2, <2>4 DEF Table, Accounts, Fates, Fate, PollInv, TypeOK
  <2>6. \A j \in h : Fates[j] \in {"ran", "gone"}
    BY <2>1, <2>3 DEF Fates, Fate
  <2>7. /\ known' = known \cup Queued \cup h /\ closed' = closed \cup h
        /\ UNCHANGED <<posted, failed>> /\ pc = "boot" /\ pc' = "sleep"
    BY <1>3 DEF Adopt, Rehydrate
  <2>8. posted \subseteq known /\ failed \subseteq known /\ closed \subseteq known
    BY DEF PollInv, TypeOK
  <2>9. \A j \in Queued : Account(j)' = "open"
    BY <2>1, <2>2, <2>4, <2>7, <2>8 DEF Table
  <2>10. \A j \in h : Account(j)' = "dropped"
    BY <2>1, <2>4, <2>7, <2>8 DEF Table, YetToReport
  <2>11. \A j \in Jobs \ (Queued \cup h) : Account(j)' = Account(j)
    BY <2>7 DEF Account, YetToReport
  <2>12. Accounts' = [j \in Jobs |-> IF j \in Queued THEN "open"
                                     ELSE IF j \in h THEN "dropped" ELSE Accounts[j]]
    BY <2>9, <2>10, <2>11 DEF Accounts
  <2>13. Fates' = Fates
    BY <1>1 DEF FatesStay, Fates
  <2>14. Ledger!Restore(Queued, h)
    BY <1>1, <2>1, <2>2, <2>5, <2>6, <2>12, <2>13
       DEF Ledger!Restore, Ledger!Over, Fates, Accounts
  <2> QED
    BY <2>1, <2>14 DEF JobStep, Ledger!Next, Fates, Accounts
<1> QED
  BY <1>2, <1>3 DEF Rehydrate

\* Between the groups, and up to the history part of one, no account changes.
LEMMA LoopRefines ==
  ASSUME JobInv,
         \/ PollStart \/ SweepStart \/ SweepEnd \/ QueryOk \/ QueryFails \/ HistoryDone
         \/ ReportDone \/ \E a \in Aps : GroupStart(a) \/ GroupSkip(a)
  PROVE  JobStep
<1>1. FatesStay /\ UNCHANGED <<heard, objects, known, posted, failed, closed>>
  BY SameFates DEF PollStart, SweepStart, SweepEnd, QueryOk, QueryFails, Abort, HistoryDone,
     ReportDone, GroupStart, GroupSkip
<1>2. CASE PollStart \/ SweepStart \/ SweepEnd \/ QueryFails \/ ReportDone
  BY <1>1, <1>2, SameAccounts, JobStays
     DEF YetToReport, PollStart, SweepStart, SweepEnd, QueryFails, Abort, ReportDone
<1>3. CASE \E a \in Aps : GroupStart(a) \/ GroupSkip(a)
  BY <1>1, <1>3, SameAccounts, JobStays DEF YetToReport, GroupStart, GroupSkip
<1>4. CASE QueryOk
  BY <1>1, <1>4, SameAccounts, JobStays DEF YetToReport, QueryOk, JobInv
<1>5. CASE HistoryDone
  BY <1>1, <1>5, SameAccounts, JobStays DEF YetToReport, HistoryDone
<1> QED
  BY <1>2, <1>3, <1>4, <1>5

\* A history that raises loses the account of what the sweep has closed.
LEMMA HistoryFailsRefines ==
  ASSUME JobInv, HistoryFails
  PROVE  JobStep
<1> DEFINE S == {j \in Jobs : Account(j) = "ended"}
<1>1. FatesStay /\ UNCHANGED <<heard, objects, known, posted, failed, closed>>
  BY SameFates DEF HistoryFails, Abort
<1>2. Table /\ Table'
  BY HistoryFailsInv, AccountTable, AccountTableNext DEF JobInv, PollInv
<1>3. HistoryFaulty # {}
  BY DEF HistoryFails, Raises
<1>4. Turns(S, "dropped")
  <2>1. \A k \in S : Account(k)' = "dropped"
    BY <1>1, <1>2 DEF Table, YetToReport, HistoryFails, Abort
  <2>2. \A k \in Jobs \ S : Account(k)' = Account(k)
    BY <1>1, <1>2 DEF Table, YetToReport, HistoryFails, Abort
  <2> QED
    BY <2>1, <2>2 DEF Turns
<1>5. Fates' = Fates
  BY <1>1 DEF FatesStay, Fates
<1>6. S \subseteq {j \in Jobs : Accounts[j] = "ended"} /\ S \in SUBSET Jobs
  BY DEF Accounts
<1> HIDE DEF S
<1>7. Ledger!Lose(S)
  BY <1>1, <1>3, <1>4, <1>5, <1>6, TurnsBecomes DEF Ledger!Lose, Fates, Accounts
<1> QED
  BY <1>6, <1>7 DEF JobStep, Ledger!Next, Fates, Accounts

\* A record closed by the history part is the ledger's Notice, if it was open.
LEMMA HistoryOneRefines ==
  ASSUME JobInv, NEW j \in Jobs, HistoryOne(j)
  PROVE  JobStep
<1>1. FatesStay /\ UNCHANGED <<heard, objects, known, posted, failed>>
  BY SameFates DEF HistoryOne
<1>2. Table /\ Table'
  BY HistoryOneInv, AccountTable, AccountTableNext DEF JobInv, PollInv
<1>3. j \in todo /\ j \in cur /\ j \in known /\ pc = "history"
  BY DEF HistoryOne, JobInv, PollInv, TypeOK
<1>4. closed' = closed \cup {j} /\ UNCHANGED <<pc, cur>>
  BY DEF HistoryOne
<1>5. \A k \in Jobs \ {j} : Account(k)' = Account(k)
  BY <1>1, <1>3, <1>4 DEF Account, YetToReport
<1>6. CASE Account(j) = "open"
  <2>1. Account(j)' = "ended"
    BY <1>1, <1>2, <1>3, <1>4, <1>6 DEF Table, YetToReport
  <2>2. Turns({j}, "ended")
    BY <1>5, <2>1 DEF Turns
  <2>3. Fates[j] \in {"ran", "gone"}
    BY <1>3 DEF JobInv, PollInv, TypeOK, Fates, Fate
  <2>4. Accounts[j] = "open"
    BY <1>6 DEF Accounts
  <2>5. Fates' = Fates
    BY <1>1 DEF FatesStay, Fates
  <2>6. Ledger!Notice(j)
    BY <1>1, <2>2, <2>3, <2>4, <2>5, TurnsBecomes
       DEF Ledger!Notice, Ledger!Over, Fates, Accounts
  <2> QED
    BY <2>6 DEF JobStep, Ledger!Next, Fates, Accounts
<1>7. CASE Account(j) # "open"
  <2>1. Account(j)' = Account(j)
    BY <1>1, <1>2, <1>3, <1>4, <1>7 DEF Table, YetToReport
  <2>2. AccountsStay
    BY <1>5, <2>1 DEF AccountsStay
  <2> QED
    BY <1>1, <2>2, JobStays
<1> QED
  BY <1>6, <1>7

\* A job removed as held too long is the ledger's Evict.
LEMMA RemoveHeldRefines ==
  ASSUME JobInv, NEW j \in Jobs, RemoveHeld(j)
  PROVE  JobStep
<1>1. UNCHANGED <<heard, objects, known, posted, failed, pc, cur>>
  BY DEF RemoveHeld
<1>2. Table /\ Table'
  BY RemoveHeldInv, AccountTable, AccountTableNext DEF JobInv, PollInv
<1>3. /\ j \in known /\ j \in cur \cup closed /\ pc = "history"
      /\ "success" \notin heard[j] /\ cond[j] # "none"
  BY DEF RemoveHeld, JobInv, PollInv, TypeOK
<1>4. closed' = closed \cup {j}
  BY DEF RemoveHeld
<1>5. \A k \in Jobs \ {j} : Account(k)' = Account(k)
  BY <1>1, <1>3, <1>4 DEF Account, YetToReport
<1>6. Accounts[j] # "none"
  BY <1>2, <1>3 DEF Table, Accounts
<1>7. IF Accounts[j] = "open" THEN Ledger!Becomes({j}, "ended") ELSE Accounts' = Accounts
  <2>1. CASE Account(j) = "open"
    <3>1. Account(j)' = "ended"
      BY <1>1, <1>2, <1>3, <1>4, <2>1 DEF Table, YetToReport
    <3>2. Turns({j}, "ended")
      BY <1>5, <3>1 DEF Turns
    <3> QED
      BY <2>1, <3>2, TurnsBecomes DEF Accounts
  <2>2. CASE Account(j) # "open"
    <3>1. Account(j)' = Account(j)
      BY <1>1, <1>2, <1>3, <1>4, <2>2 DEF Table, YetToReport
    <3> QED
      BY <1>5, <2>2, <3>1 DEF Accounts
  <2> QED
    BY <2>1, <2>2
<1>8. \/ Fates[j] \in {"ran", "gone"} /\ Fates' = Fates
      \/ Fates' = [Fates EXCEPT ![j] = "gone"]
      \/ ActMayFail /\ Fates' = Fates
  <2>1. CASE ActMayFail /\ UNCHANGED cond
    BY <2>1 DEF Fates, Fate
  <2>2. CASE cond' = [cond EXCEPT ![j] = IF InQueue(j) THEN "removed" ELSE @]
    <3>1. CASE InQueue(j)
      <4>1. cond' = [cond EXCEPT ![j] = "removed"]
        BY <2>2, <3>1
      <4>2. \A k \in Jobs \ {j} : Fate(k)' = Fate(k)
        BY <4>1 DEF JobInv, PollInv, TypeOK, Fate
      <4>3. Fate(j)' = "gone"
        BY <4>1 DEF JobInv, PollInv, TypeOK, Fate
      <4> QED
        BY <4>2, <4>3 DEF Fates
    <3>2. CASE ~InQueue(j)
      <4>1. cond' = cond /\ cond[j] \in {"completed", "removed"}
        BY <1>3, <2>2, <3>2 DEF JobInv, PollInv, TypeOK
      <4> QED
        BY <4>1 DEF Fates, Fate
    <3> QED
      BY <3>1, <3>2
  <2> QED
    BY <2>1, <2>2 DEF RemoveHeld
<1>9. Ledger!Evict(j)
  BY <1>1, <1>3, <1>6, <1>7, <1>8 DEF Ledger!Evict, Ledger!Over, Fates, Accounts
<1> QED
  BY <1>9 DEF JobStep, Ledger!Next, Fates, Accounts

-----------------------------------------------------------------------------
(***************************************************************************)
(* Reports and retries                                                     *)
(***************************************************************************)
\* Of a job with a record that is closed or terminal, the ledger knows that it is over.
LEMMA OverForLedger ==
  ASSUME JobInv, NEW j \in known, Terminal(status[j]) \/ j \in closed
  PROVE  Ledger!Ended(j)
<1>1. j \in Jobs /\ cond[j] # "none"
  BY DEF JobInv, PollInv, TypeOK
<1>2. Fates[j] # "none"
  BY <1>1, FateTable DEF JobInv, PollInv
<1>3. ActMayFail = FALSE => Fates[j] \in {"ran", "gone"}
  BY <1>1 DEF JobInv, PollInv, TypeOK, Fates, Fate
<1>4. ActMayFail \in BOOLEAN
  BY PollerAssumption
<1> QED
  BY <1>1, <1>2, <1>3, <1>4 DEF Ledger!Ended, Ledger!Over, Fates

\* What the plugin sends is what the ledger says.
LEMMA SentRefines ==
  ASSUME JobInv, NEW j \in Jobs, NEW answer, Sent(j, answer)
  PROVE  Ledger!Says(j)
<1>1. heard' = [heard EXCEPT ![j] = heard[j] \cup {Verdict(j)}]
  BY DEF Sent
<1>2. Verdict(j) \in {"success", "failure"} /\ (Verdict(j) = "success" => Fates[j] = "ran")
  BY DEF Verdict, JobInv, PollInv, Fates, Fate
<1> QED
  BY <1>1, <1>2 DEF Ledger!Says, Fates

\* A callback that is answered is the ledger's Tell.
LEMMA DeliveredRefines ==
  ASSUME JobInv, TypeOK', NEW j \in known \ posted, Delivered(j),
         Terminal(status[j]) \/ j \in closed,
         Account(j) \in {"open", "ended", "owed"},
         UNCHANGED <<cond, known, failed, closed, pc, cur>>,
         \A k \in Jobs \ {j} : k \in todo' <=> k \in todo
  PROVE  Ledger!Tell(j)
<1>1. j \in Jobs /\ j \notin posted
  BY DEF JobInv, PollInv, TypeOK
<1>2. Ledger!Ended(j)
  BY OverForLedger
<1>3. posted' = posted \cup {j} /\ Sent(j, TRUE)
  BY DEF Delivered, MarkPosted
<1>4. Table'
  BY AccountTableNext
<1>5. Account(j)' = "told"
  BY <1>1, <1>3, <1>4 DEF Table
<1>6. \A k \in Jobs \ {j} : Account(k)' = Account(k)
  BY <1>3 DEF Account, YetToReport
<1>7. Ledger!Becomes({j}, "told")
  BY <1>5, <1>6, TurnsBecomes DEF Turns
<1>8. Ledger!Says(j)
  BY <1>1, <1>3, SentRefines
<1>9. Accounts[j] \in {"open", "ended", "owed"}
  BY <1>1 DEF Accounts
<1> QED
  BY <1>2, <1>7, <1>8, <1>9 DEF Ledger!Tell, Ledger!Unsettled, Accounts

\* One that is not is its Owe, if the record is not posted and notes the failure.
LEMMA NotDeliveredRefines ==
  ASSUME JobInv, TypeOK', NEW j \in known \ posted, NotDelivered(j),
         Terminal(status[j]) \/ j \in closed,
         Account(j) \in {"open", "ended", "owed"},
         posted' = posted, failed' = failed \cup {j},
         UNCHANGED <<cond, known, closed, pc, cur>>,
         \A k \in Jobs \ {j} : (k \in todo' <=> k \in todo) \/ pc = "retry"
  PROVE  Ledger!Owe(j)
<1>1. j \in Jobs /\ j \notin posted
  BY DEF JobInv, PollInv, TypeOK
<1>2. Ledger!Ended(j)
  BY OverForLedger
<1>3. Table'
  BY AccountTableNext
<1>4. Account(j)' = "owed"
  BY <1>1, <1>3 DEF Table
<1>5. \A k \in Jobs \ {j} : Account(k)' = Account(k)
  BY DEF Account, YetToReport
<1>6. Ledger!Becomes({j}, "owed")
  BY <1>4, <1>5, TurnsBecomes DEF Turns
<1>7. Ledger!Says(j) \/ heard' = heard
  BY <1>1, SentRefines DEF NotDelivered
<1>8. Accounts[j] \in {"open", "ended", "owed"}
  BY <1>1 DEF Accounts
<1> QED
  BY <1>2, <1>6, <1>7, <1>8 DEF Ledger!Owe, Ledger!Unsettled, Accounts

\* A retry tells what was owed, or owes it still.
LEMMA RetryOneRefines ==
  ASSUME JobInv, NEW j \in Jobs, RetryOne(j)
  PROVE  JobStep
<1>1. /\ FatesStay
      /\ UNCHANGED <<objects, cond, known, failed, closed, pc, cur>> /\ pc = "retry"
  BY SameFates DEF RetryOne
<1>2. j \in known \ posted /\ j \in closed /\ j \in failed
  BY DEF RetryOne, JobInv, PollInv, TypeOK
<1>3. Account(j) = "owed" /\ TypeOK'
  BY <1>2, RetryOneInv, AccountTable DEF Table, JobInv, PollInv
<1>4. ASSUME Delivered(j), todo' = todo \ {j} PROVE Ledger!Tell(j)
  <2>1. \A k \in Jobs \ {j} : k \in todo' <=> k \in todo
    BY <1>4
  <2> QED
    BY <1>1, <1>2, <1>3, <1>4, <2>1, DeliveredRefines
<1>5. ASSUME NotDelivered(j), UNCHANGED posted PROVE Ledger!Owe(j)
  <2>1. failed' = failed \cup {j}
    BY <1>1, <1>2
  <2> QED
    BY <1>1, <1>2, <1>3, <1>5, <2>1, NotDeliveredRefines
<1>6. Ledger!Tell(j) \/ Ledger!Owe(j)
  BY <1>4, <1>5 DEF RetryOne
<1>7. Fates' = Fates
  BY <1>1 DEF FatesStay, Fates
<1>8. Ledger!Report(j)
  BY <1>1, <1>6, <1>7 DEF Ledger!Report, Fates, Accounts
<1> QED
  BY <1>8 DEF JobStep, Ledger!Next, Fates, Accounts

\* A report tells the job's end, owes it, or has nothing to tell; and what it deletes
\* is of a job that is over.
LEMMA ReportOneRefines ==
  ASSUME JobInv, NEW j \in Jobs, ReportOne(j)
  PROVE  JobStep
<1>1. /\ FatesStay /\ UNCHANGED <<cond, known, status, closed, pc, cur>>
      /\ pc = "report" /\ j \in todo /\ todo' = todo \ {j}
  BY SameFates DEF ReportOne
<1>2. Table /\ Table' /\ TypeOK'
  BY ReportOneInv, AccountTable, AccountTableNext DEF JobInv, PollInv
<1>3. j \in known /\ j \in cur
  BY <1>1 DEF JobInv, PollInv, TypeOK
<1>4. objects' = objects \/ (Ledger!Ended(j) /\ objects' = objects \ {j})
  <2>1. objects' = objects \/ (Terminal(status[j]) /\ objects' = objects \ {j})
    BY DEF ReportOne, Cleanup, CleanupDue
  <2> QED
    BY <1>3, <2>1, OverForLedger
<1>5. Ledger!Tell(j) \/ Ledger!Owe(j) \/ (AccountsStay /\ heard' = heard)
  <2>1. CASE Due(j)
    <3>1. Terminal(status[j]) /\ j \notin posted
      BY <2>1 DEF Due
    <3>2. Account(j) \in {"open", "ended", "owed"}
      BY <1>1, <1>2, <1>3, <3>1 DEF Table, YetToReport
    <3>3. CASE Delivered(j) /\ failed' = failed
      BY <1>1, <1>2, <1>3, <3>1, <3>2, <3>3, DeliveredRefines
    <3>4. CASE NotDelivered(j) /\ posted' = posted \ {j} /\ failed' = failed \cup {j}
      <4>1. posted' = posted
        BY <3>1, <3>4
      <4> QED
        BY <1>1, <1>2, <1>3, <3>1, <3>2, <3>4, <4>1, NotDeliveredRefines
    <3> QED
      BY <2>1, <3>3, <3>4 DEF ReportOne, NoteFailure
  <2>2. CASE ~Due(j)
    <3>1. UNCHANGED <<posted, failed, heard>>
      BY <2>2 DEF ReportOne
    <3>2. j \notin closed \ (posted \cup failed)
      BY <1>1, <1>3, <2>2 DEF Due, JobInv
    <3>3. AccountsStay
      BY <1>1, <3>1, <3>2, SameAccounts DEF YetToReport
    <3> QED
      BY <3>1, <3>3
  <2> QED
    BY <2>1, <2>2
<1>6. Fates' = Fates /\ (AccountsStay => Accounts' = Accounts)
  BY <1>1 DEF FatesStay, AccountsStay, Fates, Accounts
<1>7. Ledger!Report(j)
  BY <1>4, <1>5, <1>6 DEF Ledger!Report, Ledger!Clean, Fates, Accounts
<1> QED
  BY <1>7 DEF JobStep, Ledger!Next, Fates, Accounts

-----------------------------------------------------------------------------
\* The empty table is the ledger's.
LEMMA JobInit == Init => Ledger!Init
BY DEF Init, Ledger!Init, Fate, Account

\* Every step of the poller and of the world around it is one of the ledger's.
LEMMA NextRefines ==
  ASSUME JobInv, [Next]_vars
  PROVE  JobStep
<1>1. CASE Rehydrate
  BY <1>1, RehydrateRefines DEF JobInv
<1>2. CASE QueryFails \/ HistoryFails
  BY <1>2, LoopRefines, HistoryFailsRefines
<1>3. CASE Sweep
  BY <1>3, LoopRefines, RetryOneRefines, RemoveHeldRefines, HistoryOneRefines,
     ReportOneRefines DEF Sweep
<1>4. CASE Outage \/ Recover
  BY <1>4, OutageRefines DEF JobInv
<1>5. CASE Crash
  BY <1>5, CrashRefines DEF JobInv
<1>6. CASE \E c \in {ClusterOf[j] : j \in Jobs} : Commit(c)
  BY <1>6, CommitRefines DEF JobInv
<1>7. CASE \E j \in Jobs : Hold(j) \/ Release(j) \/ LeaveQueue(j) \/ Rotate(j) \/ Expire(j)
  BY <1>7, WorldStays DEF JobInv
<1>8. CASE \E j \in Jobs : Finish(j) \/ Remove(j) \/ RecordJob(j)
  BY <1>8, EndRefines, RecordRefines DEF JobInv
<1>9. CASE UNCHANGED vars
  BY <1>9, SameFates, SameAccounts, JobStays DEF YetToReport
<1> QED
  BY <1>1, <1>2, <1>3, <1>4, <1>5, <1>6, <1>7, <1>8, <1>9 DEF Next, Poller, World

\* For any jobs, clusters and APs, whichever calls raise, whatever the schedd and SkyPortal
\* do and however often the plugin is restarted: the poller keeps JobLedger's account of
\* every job.  It owes the end of a job until SkyPortal has answered a callback, and sends
\* nothing of it after; it says success only of one that ran to its end; and only when the
\* job is over does it delete its inputs.
THEOREM PollerKeepsLedger == Spec => ImplementsJobLedger
<1>1. Spec => []JobInv
  BY PollSafe, LoopSafe, KeptSafe, PTL DEF JobInv
<1>2. JobInv /\ [Next]_vars => JobStep
  BY NextRefines
<1> QED
  BY <1>1, <1>2, JobInit, PTL DEF Spec, ImplementsJobLedger, Ledger!Spec, JobStep, Fates, Accounts

-----------------------------------------------------------------------------
(***************************************************************************)
(* What the ledger's account is worth, whatever implements it              *)
(***************************************************************************)
\* A success is told of a job that ran, and what ran stays so; the products staged
\* for a job are there while it lives, if no removal fails unnoticed.
PromiseInv ==
    /\ heard \in [Jobs -> SUBSET {"success", "failure"}]
    /\ \A j \in Jobs : "success" \in heard[j] => Fates[j] = "ran"
    /\ ActMayFail = FALSE => \A j \in Jobs \cap Staging : Fates[j] = "alive" => j \in objects

\* The ledger opens empty.
LEMMA PromiseInit == Ledger!Init => PromiseInv
BY DEF Ledger!Init, PromiseInv, Fates

\* No action of the ledger takes a truth back, or the inputs of a job that lives.
LEMMA PromiseNext ==
  ASSUME PromiseInv, Ledger!Next
  PROVE  PromiseInv'
<1>1. CASE \E j \in Jobs : Ledger!Open(j) \/ Ledger!Notice(j)
  BY <1>1 DEF Ledger!Open, Ledger!Notice, PromiseInv, Fates
<1>2. ASSUME NEW j \in Jobs, Ledger!End(j)
      PROVE  PromiseInv'
  <2>1. PICK f \in {"ran", "gone"} : Fates' = [Fates EXCEPT ![j] = f]
    BY <1>2 DEF Ledger!End, Fates
  <2>2. Fates[j] = "alive" /\ heard' = heard /\ objects' = objects
    BY <1>2 DEF Ledger!End, Fates
  <2>3. DOMAIN Fates = Jobs /\ Fates = [k \in Jobs |-> Fates[k]]
    BY DEF Fates
  <2> QED
    BY <2>1, <2>2, <2>3 DEF PromiseInv
<1>3. ASSUME NEW j \in Jobs, Ledger!Evict(j)
      PROVE  PromiseInv'
  <2>1. Fates' = Fates \/ Fates' = [Fates EXCEPT ![j] = "gone"]
    BY <1>3 DEF Ledger!Evict, Fates
  <2>2. "success" \notin heard[j] /\ heard' = heard /\ objects' = objects
    BY <1>3 DEF Ledger!Evict
  <2>3. Fates = [k \in Jobs |-> Fates[k]]
    BY DEF Fates
  <2> QED
    BY <2>1, <2>2, <2>3 DEF PromiseInv
<1>4. ASSUME NEW j \in Jobs, Ledger!Report(j)
      PROVE  PromiseInv'
  <2>1. Fates' = Fates
    BY <1>4 DEF Ledger!Report, Fates
  <2>2. \/ heard' = heard
        \/ \E v \in {"success", "failure"} :
             /\ v = "success" => Fates[j] = "ran"
             /\ heard' = [heard EXCEPT ![j] = heard[j] \cup {v}]
    BY <1>4 DEF Ledger!Report, Ledger!Tell, Ledger!Owe, Ledger!Says, Fates
  <2>3. \/ objects' = objects
        \/ /\ objects' = objects \ {j}
           /\ Fates[j] \in {"ran", "gone"} \/ ActMayFail
    BY <1>4 DEF Ledger!Report, Ledger!Clean, Ledger!Ended, Ledger!Over, Fates
  <2> QED
    BY <2>1, <2>2, <2>3 DEF PromiseInv
<1>5. ASSUME NEW S \in SUBSET Jobs, Ledger!Submit(S)
      PROVE  PromiseInv'
  <2>1. /\ \A j \in S : Fates[j] = "none"
        /\ Fates' = [j \in Jobs |-> IF j \in S THEN "alive" ELSE Fates[j]]
        /\ heard' = heard /\ objects' = objects \cup (S \cap Staging)
    BY <1>5 DEF Ledger!Submit, Fates
  <2> QED
    BY <2>1 DEF PromiseInv
<1>6. CASE Ledger!Restart \/ (\E S \in SUBSET Jobs : Ledger!Lose(S))
           \/ \E q, h \in SUBSET Jobs : Ledger!Restore(q, h)
  BY <1>6 DEF Ledger!Restart, Ledger!Lose, Ledger!Restore, PromiseInv, Fates
<1> QED
  BY <1>1, <1>2, <1>3, <1>4, <1>5, <1>6 DEF Ledger!Next

\* It holds of whatever keeps the ledger's account.
LEMMA PromiseKept == ImplementsJobLedger => []PromiseInv
<1>1. PromiseInv /\ JobStep => PromiseInv'
  <2> SUFFICES ASSUME PromiseInv, JobStep PROVE PromiseInv'
    OBVIOUS
  <2>1. CASE Ledger!Next
    BY <2>1, PromiseNext
  <2>2. CASE UNCHANGED <<Fates, Accounts, heard, objects>>
    BY <2>2 DEF PromiseInv
  <2> QED
    BY <2>1, <2>2 DEF JobStep
<1> QED
  BY <1>1, PromiseInit, PTL DEF ImplementsJobLedger, Ledger!Spec, JobStep, Fates, Accounts

\* The ledger alone, without a sweep or a record, promises the two things SkyPortal and
\* the worker rely on: a success told is of a job that ran to its end, and, if no removal
\* fails unnoticed, a job that has yet to run, or is held, has its staged inputs.
THEOREM LedgerPromises ==
  ImplementsJobLedger => [](SuccessIsTrue /\ (ActMayFail = FALSE => InputsKept))
<1>1. PromiseInv => SuccessIsTrue /\ (ActMayFail = FALSE => InputsKept)
  <2> SUFFICES ASSUME PromiseInv
               PROVE  SuccessIsTrue /\ (ActMayFail = FALSE => InputsKept)
    OBVIOUS
  <2>1. \A j \in Jobs : Fates[j] = Fate(j)
    BY DEF Fates
  <2>2. \A j \in Jobs : Fate(j) = "ran" => cond[j] \in {"done", "completed"}
    BY DEF Fate
  <2>3. \A j \in Jobs : cond[j] \in {"running", "held"} => Fate(j) = "alive"
    BY DEF Fate
  <2>4. Staging \subseteq Jobs
    BY PollerAssumption
  <2> QED
    BY <2>1, <2>2, <2>3, <2>4 DEF PromiseInv
<1> QED
  BY <1>1, PromiseKept, PTL
=============================================================================
