------------------------------- MODULE Poller -------------------------------
(***************************************************************************)
(* The poller of main.py: one thread (_POLL_POOL) that rebuilds JOBS from  *)
(* the schedd at startup, then sweeps the schedd again and again, closes   *)
(* the records of jobs that are over, posts their results to SkyPortal,    *)
(* resends the ones SkyPortal did not take, removes jobs held too long and *)
(* deletes the products staged to OSDF for jobs that are over.             *)
(*                                                                         *)
(* Between any two steps of a sweep the schedd moves its jobs, a submit    *)
(* thread adds a job, SkyPortal goes down or comes back, and the plugin    *)
(* may be killed and started again.  An exception ends the sweep where it  *)
(* is: poller_loop logs it and sleeps.  A callback may reach SkyPortal and *)
(* its answer be lost: the plugin counts it as failed and sends it again.  *)
(*                                                                         *)
(* The schedd, SkyPortal and the OSDF origin are modelled from how main.py *)
(* uses them.  A job with a wrapper bundle reports what the bundle says;   *)
(* the verdict here is that of a job without one.                          *)
(***************************************************************************)
EXTENDS Naturals, FiniteSets

CONSTANTS
    Jobs,            \* (cluster, proc) keys
    ClusterOf,       \* [Jobs -> cluster]
    ApOf,            \* [Jobs -> the AP it is submitted to]
    DefaultAp,
    Staging,         \* jobs with products staged to OSDF
    NoCallback,      \* jobs without a callback URL
    NotPost,         \* jobs with one, whose callback method is not POST
    Spooled,         \* htcondor.spool: a completed job waits in the queue for retrieve
    ConnectFaulty, QueryFaulty, HistoryFaulty,   \* APs whose calls may raise
    Resumes,         \* a held job may be released
    ActMayFail, RetrieveMayFail, DeleteMayFail,  \* calls whose exceptions are caught
    AnswersLost,     \* the answer to a callback that reached SkyPortal may be lost, or a 5xx
    RehydrateMayFail, HistoryRotates, WindowEnds,
    MaxOutages,      \* bound: how often SkyPortal goes down
    MaxCrashes       \* bound: how often the plugin is restarted

Aps == {ApOf[j] : j \in Jobs}

ASSUME PollerAssumption ==
    /\ IsFiniteSet(Jobs)
    /\ \A S \in {Staging, NoCallback, NotPost} : S \subseteq Jobs
    /\ \A S \in {ConnectFaulty, QueryFaulty, HistoryFaulty} : S \subseteq Aps
    /\ {Spooled, Resumes, ActMayFail, RetrieveMayFail, DeleteMayFail, AnswersLost,
        RehydrateMayFail, HistoryRotates, WindowEnds} \subseteq BOOLEAN
    /\ {MaxOutages, MaxCrashes} \subseteq Nat

VARIABLES
    cond,       \* what has become of each job
    retrieved,  \* jobs whose sandbox has been pulled back
    rotated,    \* jobs the schedd's history has forgotten
    objects,    \* jobs whose staged products are at the OSDF origin
    up,         \* SkyPortal takes callbacks
    committing, \* jobs a submit thread has committed and not yet put in JOBS
    known,      \* the keys of JOBS
    status,     \* rec.status
    closed,     \* records with completed_at
    posted,     \* records with callback_posted
    failed,     \* records with callback_failed_at
    hold,       \* records with a hold_reason
    left,       \* records with osdf_staged
    pc,         \* where the poller thread is
    groups,     \* the APs this sweep has not come to yet
    keys,       \* poll_once's open_keys
    cur,        \* _poll_group's open_keys
    overdue,    \* jobs the query found held too long and not yet removed
    todo,       \* what the current loop of the sweep has left
    expired,    \* records whose callback_retry_seconds are over
    heard,      \* the verdicts that reached SkyPortal for each job
    told,       \* in this run: no callback answered, one answered, more sent after it
    outages, crashes

schedd == <<cond, retrieved, rotated>>
outside == <<schedd, objects, up, committing>>
record == <<known, status, closed, posted, failed, hold, left, expired>>
sweep  == <<pc, groups, keys, cur, overdue, todo>>
heardv == <<heard, told>>
bounds == <<outages, crashes>>
vars   == <<outside, record, sweep, heardv, bounds>>

InQueue(j) == cond[j] \in {"running", "held", "done"}
InHistory(j) == cond[j] \in {"completed", "removed"} /\ j \notin rotated
Over(j) == cond[j] \in {"done", "completed", "removed"}
Terminal(s) == s \in {"completed", "removed"}

\* CONDOR_STATUS of a job's JobStatus; "idle" also stands for running.
StatusOf(c) ==
    CASE c = "running" -> "idle"
      [] c = "held" -> "held"
      [] c \in {"done", "completed"} -> "completed"
      [] OTHER -> "removed"

-----------------------------------------------------------------------------
(***************************************************************************)
(* The schedd, the submit threads, SkyPortal and the clock                 *)
(***************************************************************************)
Moves(j, from, to) ==
    /\ cond[j] \in from
    /\ cond' = [cond EXCEPT ![j] = to]
    /\ UNCHANGED <<retrieved, rotated, objects, up, committing, record, sweep,
                   heardv, bounds>>

Hold(j) == Moves(j, {"running"}, "held")
Release(j) == Resumes /\ Moves(j, {"held"}, "running")
\* A job is not over in the moment between its commit and its record.
Finish(j) == j \notin committing /\ Moves(j, {"running"}, IF Spooled THEN "done" ELSE "completed")
Remove(j) == j \notin committing /\ Moves(j, {"running", "held"}, "removed")
LeaveQueue(j) == j \in retrieved /\ Moves(j, {"done"}, "completed")
Rotate(j) ==
    /\ HistoryRotates /\ InHistory(j)
    /\ rotated' = rotated \cup {j}
    /\ UNCHANGED <<cond, retrieved, objects, up, committing, record, sweep, heardv,
                   bounds>>

\* submit_job, submit_jobs_batch: the schedd has the cluster's jobs, then JOBS
\* has a record for each.
Commit(c) ==
    LET new == {j \in Jobs : ClusterOf[j] = c} IN
    /\ \A j \in new : cond[j] = "none"
    /\ cond' = [j \in Jobs |-> IF j \in new THEN "running" ELSE cond[j]]
    /\ committing' = committing \cup new
    /\ objects' = objects \cup (new \cap Staging)
    /\ UNCHANGED <<retrieved, rotated, up, record, sweep, heardv, bounds>>
\* A new JobRecord, whatever was under its key.
RecordJob(j) ==
    /\ j \in committing
    /\ committing' = committing \ {j}
    /\ known' = known \cup {j}
    /\ status' = [status EXCEPT ![j] = "idle"]
    /\ closed' = closed \ {j} /\ posted' = posted \ {j} /\ failed' = failed \ {j}
    /\ hold' = hold \ {j} /\ expired' = expired \ {j}
    /\ left' = left \cup ({j} \cap Staging)
    /\ UNCHANGED <<schedd, objects, up, sweep, heardv, bounds>>

Outage ==
    /\ up /\ outages < MaxOutages
    /\ up' = FALSE /\ outages' = outages + 1
    /\ UNCHANGED <<schedd, objects, committing, record, sweep, heardv, crashes>>
Recover ==
    /\ ~up /\ up' = TRUE
    /\ UNCHANGED <<schedd, objects, committing, record, sweep, heardv, bounds>>
Expire(j) ==
    /\ WindowEnds /\ j \in failed \ expired
    /\ expired' = expired \cup {j}
    /\ UNCHANGED <<outside, known, status, closed, posted, failed, hold, left, sweep,
                   heardv, bounds>>

-----------------------------------------------------------------------------
(***************************************************************************)
(* post_callback and _cleanup_osdf_inputs                                  *)
(***************************************************************************)
\* build_callback_body, for a job without a bundle.
Bug_AnyEndIsSuccess(j) == IF j \notin hold THEN "success" ELSE "failure"
Verdict(j) == IF status[j] = "completed" /\ j \notin hold THEN "success" ELSE "failure"

Callable(j) == j \notin NoCallback \cup NotPost

\* The verdict reaches SkyPortal, once or in each of the tries of post_callback, which
\* send one body; "answer" is whether the plugin sees a status below 500.
Sent(j, answer) ==
    /\ heard' = [heard EXCEPT ![j] = @ \cup {Verdict(j)}]
    /\ told' = [told EXCEPT ![j] = IF @ # "no" THEN "again"
                                   ELSE IF answer THEN "answered" ELSE "no"]

Bug_NotMarked(j) == posted' = posted
MarkPosted(j) == posted' = posted \cup {j}

\* post_callback returns True; or False, though SkyPortal may have had the callback
\* (a read timeout, a 502 of its proxy).
Delivered(j) == up /\ Callable(j) /\ Sent(j, TRUE) /\ MarkPosted(j)
NotDelivered(j) ==
    \/ AnswersLost /\ Callable(j) /\ Sent(j, FALSE)
    \/ (~up \/ ~Callable(j)) /\ UNCHANGED heardv

Bug_NotNoted(j) == failed
NoteFailure(j) == failed \cup {j}

Bug_CleanupWhenHeld(j) == (Terminal(status[j]) \/ status[j] = "held") /\ j \in left
Bug_CleanupWhenPosted(j) == Terminal(status[j]) /\ j \in left /\ j \in posted
CleanupDue(j) == Terminal(status[j]) /\ j \in left

\* A delete that fails leaves the object and the record's note of it.  The
\* attempts are counted and nothing depends on the count.
Cleanup(j) ==
    IF CleanupDue(j)
      THEN \/ left' = left \ {j} /\ objects' = objects \ {j}
           \/ DeleteMayFail /\ UNCHANGED <<left, objects>>
      ELSE UNCHANGED <<left, objects>>

-----------------------------------------------------------------------------
(***************************************************************************)
(* poll_once                                                               *)
(***************************************************************************)
\* _retry_callbacks: one try each, stopping at the first failure.
Bug_RetryOpen == {j \in failed \ posted : Callable(j) /\ j \notin expired}
Retriable == {j \in closed \cap (failed \ posted) : Callable(j) /\ j \notin expired}

PollStart ==
    /\ pc = "sleep" /\ known # {}
    /\ pc' = "retry" /\ todo' = Retriable
    /\ UNCHANGED <<outside, record, groups, keys, cur, overdue, heardv, bounds>>
RetryOne(j) ==
    /\ pc = "retry" /\ j \in todo
    /\ \/ Delivered(j) /\ todo' = todo \ {j}
       \/ NotDelivered(j) /\ todo' = {} /\ UNCHANGED posted
    /\ UNCHANGED <<outside, known, status, closed, failed, hold, left, expired, pc,
                   groups, keys, cur, overdue, bounds>>

Bug_OpenByStatus == {j \in known : ~Terminal(status[j])}
OpenKeys == known \ closed

SweepStart ==
    /\ pc = "retry" /\ todo = {}
    /\ keys' = OpenKeys
    /\ groups' = {ApOf[j] : j \in OpenKeys}
    /\ pc' = IF OpenKeys = {} THEN "sleep" ELSE "group"
    /\ UNCHANGED <<outside, record, cur, overdue, todo, heardv, bounds>>

Bug_DeadApEndsSweep(a) == {}
WithoutGroup(a) == groups \ {a}

\* get_schedd raises: the group is left out of this sweep.
GroupSkip(a) ==
    /\ pc = "group" /\ a \in groups \cap ConnectFaulty
    /\ groups' = WithoutGroup(a)
    /\ UNCHANGED <<outside, record, pc, keys, cur, overdue, todo, heardv, bounds>>
GroupStart(a) ==
    /\ pc = "group" /\ a \in groups
    /\ groups' = groups \ {a}
    /\ cur' = {j \in keys : ApOf[j] = a}
    /\ pc' = "query"
    /\ UNCHANGED <<outside, record, keys, overdue, todo, heardv, bounds>>
SweepEnd ==
    /\ pc = "group" /\ groups = {}
    /\ pc' = "sleep" /\ keys' = {}
    /\ UNCHANGED <<outside, record, groups, cur, overdue, todo, heardv, bounds>>

\* An exception that nothing in the sweep catches.
Abort ==
    /\ pc' = "sleep" /\ groups' = {} /\ keys' = {} /\ cur' = {} /\ overdue' = {} /\ todo' = {}
    /\ UNCHANGED <<outside, record, heardv, bounds>>
Raises(S) == \E j \in cur : ApOf[j] \in S
QueryFails == pc = "query" /\ Raises(QueryFaulty) /\ Abort
HistoryFails == pc = "history" /\ overdue = {} /\ todo # {} /\ Raises(HistoryFaulty) /\ Abort

-----------------------------------------------------------------------------
(***************************************************************************)
(* _poll_group                                                             *)
(***************************************************************************)
\* The query is by cluster: it also returns jobs that share one with an open
\* job and are themselves closed or newer than the sweep.
Live == {j \in known : InQueue(j) /\ \E k \in cur : /\ ClusterOf[k] = ClusterOf[j]
                                                     /\ ApOf[k] = ApOf[j]}

\* Any job held may have been held for held_timeout_seconds, but for one whose
\* record is younger than the sweep or still to come: neither takes that long.
QueryOk ==
    /\ pc = "query"
    /\ overdue' \in SUBSET {j \in (Live \cap (cur \cup closed)) \ committing : cond[j] = "held"}
    /\ status' = [j \in Jobs |-> IF j \in Live THEN StatusOf(cond[j]) ELSE status[j]]
    /\ hold' = (hold \ Live) \cup {j \in Live : cond[j] = "held"}
    /\ todo' = cur \ Live
    /\ pc' = "history"
    /\ UNCHANGED <<outside, known, closed, posted, failed, left, expired, groups,
                   keys, cur, heardv, bounds>>

\* _remove_held: the job counts as removed whether or not the schedd removed it.
RemoveHeld(j) ==
    /\ pc = "history" /\ j \in overdue
    /\ overdue' = overdue \ {j}
    /\ status' = [status EXCEPT ![j] = "removed"]
    /\ closed' = closed \cup {j} /\ hold' = hold \cup {j}
    /\ \/ cond' = [cond EXCEPT ![j] = IF InQueue(j) THEN "removed" ELSE @]
       \/ ActMayFail /\ UNCHANGED cond
    /\ UNCHANGED <<retrieved, rotated, objects, up, committing, known, posted,
                   failed, left, expired, pc, groups, keys, cur, todo, heardv,
                   bounds>>

\* A job in neither the queue nor the history counts as removed.
Bug_NotLiveIsRemoved(j) == "removed"
HistoryStatus(j) == IF InHistory(j) THEN StatusOf(cond[j]) ELSE "removed"

HistoryOne(j) ==
    /\ pc = "history" /\ overdue = {} /\ j \in todo
    /\ todo' = todo \ {j}
    /\ status' = [status EXCEPT ![j] = HistoryStatus(j)]
    /\ closed' = closed \cup {j}
    /\ UNCHANGED <<outside, known, posted, failed, hold, left, expired, pc, groups,
                   keys, cur, overdue, heardv, bounds>>
HistoryDone ==
    /\ pc = "history" /\ overdue = {} /\ todo = {}
    /\ pc' = "report" /\ todo' = cur
    /\ UNCHANGED <<outside, record, groups, keys, cur, overdue, heardv, bounds>>

\* A failed retrieve only costs the callback its attachments.
Retrieve(j) ==
    IF status[j] = "completed" /\ Spooled /\ cond[j] = "done"
      THEN \/ retrieved' = retrieved \cup {j}
           \/ RetrieveMayFail /\ UNCHANGED retrieved
      ELSE UNCHANGED retrieved

Bug_DueAgain(j) == Terminal(status[j])
Due(j) == Terminal(status[j]) /\ j \notin posted

ReportOne(j) ==
    /\ pc = "report" /\ j \in todo
    /\ todo' = todo \ {j}
    /\ IF Due(j)
         THEN /\ Retrieve(j)
              /\ \/ Delivered(j) /\ UNCHANGED failed
                 \/ NotDelivered(j) /\ posted' = posted \ {j} /\ failed' = NoteFailure(j)
         ELSE UNCHANGED <<retrieved, posted, failed, heardv>>
    /\ Cleanup(j)
    /\ UNCHANGED <<cond, rotated, up, committing, known, status, closed, hold,
                   expired, pc, groups, keys, cur, overdue, bounds>>
ReportDone ==
    /\ pc = "report" /\ todo = {}
    /\ pc' = "group" /\ cur' = {}
    /\ UNCHANGED <<outside, record, groups, keys, overdue, todo, heardv, bounds>>

-----------------------------------------------------------------------------
(***************************************************************************)
(* Restarts and rehydrate_jobs                                             *)
(***************************************************************************)
Crash ==
    /\ crashes < MaxCrashes /\ crashes' = crashes + 1
    /\ pc' = "boot" /\ groups' = {} /\ keys' = {} /\ cur' = {} /\ overdue' = {} /\ todo' = {}
    /\ known' = {} /\ closed' = {} /\ posted' = {} /\ failed' = {} /\ hold' = {}
    /\ left' = {} /\ expired' = {} /\ committing' = {}
    /\ status' = [j \in Jobs |-> "idle"]
    /\ told' = [j \in Jobs |-> "no"]
    /\ UNCHANGED <<schedd, objects, up, heard, outages>>

\* The jobs of the default AP with a callback URL, of the queue and of the history,
\* less those a submit thread has recorded.
Asked == {j \in Jobs \ NoCallback : ApOf[j] = DefaultAp} \ known
Bug_NotDone == {j \in Asked : cond[j] \in {"running", "held"}}
Queued == {j \in Asked : InQueue(j)}
Past == {j \in Asked : InHistory(j)}

Bug_StagedForgotten(S) == {}
StagedOf(S) == Staging \cap S

\* _adopt_ad for each ad.  Of the history it sees a part: a cutoff, a limit, and
\* a failure it goes on after.
Adopt(q, h) ==
    /\ known' = known \cup q \cup h
    /\ status' = [j \in Jobs |-> IF j \in q \cup h THEN StatusOf(cond[j]) ELSE status[j]]
    /\ hold' = hold \cup {j \in q : cond[j] = "held"}
    /\ closed' = closed \cup h
    /\ left' = left \cup StagedOf(q \cup h)
    /\ UNCHANGED <<posted, failed, expired>>
Rehydrate ==
    /\ pc = "boot" /\ pc' = "sleep"
    /\ \/ \E h \in SUBSET Past : Adopt(Queued, h)
       \/ RehydrateMayFail /\ UNCHANGED record
    /\ UNCHANGED <<outside, groups, keys, cur, overdue, todo, heardv, bounds>>

-----------------------------------------------------------------------------
Init ==
    /\ cond = [j \in Jobs |-> "none"] /\ retrieved = {} /\ rotated = {}
    /\ objects = {} /\ up = TRUE /\ committing = {}
    /\ known = {} /\ closed = {} /\ posted = {} /\ failed = {} /\ hold = {} /\ left = {}
    /\ expired = {} /\ status = [j \in Jobs |-> "idle"]
    /\ pc = "boot" /\ groups = {} /\ keys = {} /\ cur = {} /\ overdue = {} /\ todo = {}
    /\ heard = [j \in Jobs |-> {}] /\ told = [j \in Jobs |-> "no"]
    /\ outages = 0 /\ crashes = 0

Sweep ==
    \/ PollStart \/ SweepStart \/ SweepEnd \/ QueryOk \/ HistoryDone \/ ReportDone
    \/ \E a \in Aps : GroupStart(a) \/ GroupSkip(a)
    \/ \E j \in Jobs : RetryOne(j) \/ RemoveHeld(j) \/ HistoryOne(j) \/ ReportOne(j)
Poller == Rehydrate \/ Sweep \/ QueryFails \/ HistoryFails
World ==
    \/ Outage \/ Recover \/ Crash
    \/ \E c \in {ClusterOf[j] : j \in Jobs} : Commit(c)
    \/ \E j \in Jobs : \/ Hold(j) \/ Release(j) \/ Finish(j) \/ Remove(j) \/ LeaveQueue(j)
                       \/ Rotate(j) \/ RecordJob(j) \/ Expire(j)
Next == Poller \/ World

Spec == Init /\ [][Next]_vars

\* The poller's loop never stops, a submit thread goes on, an outage ends.
Fairness == /\ WF_vars(Poller) /\ WF_vars(Recover)
            /\ WF_vars(\E j \in Jobs : RecordJob(j))
FairSpec == Spec /\ Fairness

-----------------------------------------------------------------------------
(***************************************************************************)
(* Properties                                                              *)
(***************************************************************************)
\* Every variable has its type, a record's fields are those of a record, and
\* the sweep's sets are parts of the sweep.
TypeOK ==
    /\ cond \in [Jobs -> {"none", "running", "held", "done", "completed", "removed"}]
    /\ \A S \in {retrieved, rotated, objects, committing, known, keys, overdue} : S \subseteq Jobs
    /\ \A S \in {closed, posted, failed, hold, left} : S \subseteq known
    /\ expired \subseteq failed /\ cur \subseteq keys /\ keys \subseteq known
    /\ status \in [Jobs -> {"idle", "held", "completed", "removed"}]
    /\ pc \in {"boot", "sleep", "retry", "group", "query", "history", "report"}
    /\ groups \subseteq Aps /\ up \in BOOLEAN
    /\ todo \subseteq (IF pc = "retry" THEN closed ELSE cur)
    /\ heard \in [Jobs -> SUBSET {"success", "failure"}]
    /\ told \in [Jobs -> {"no", "answered", "again"}]
    /\ outages \in 0 .. MaxOutages /\ crashes \in 0 .. MaxCrashes

\* A closed record is never polled again, so by then its verdict was posted,
\* or the post failed and is noted for _retry_callbacks, or this sweep has
\* yet to report it: there is no other way for SkyPortal to hear of the job.
YetToReport(j) == \/ pc = "history" /\ j \in cur
                  \/ pc = "report" /\ j \in todo
ClosedIsReported == \A j \in closed \ (posted \cup failed) : YetToReport(j)

\* Once SkyPortal has answered a callback of a job, this run of the plugin sends no
\* other of it, though the job is polled in several sweeps and a callback whose
\* answer was lost is sent again, by the sweeps and by the retries between them.
SilentOnceAnswered == \A j \in Jobs : told[j] # "again"

\* "success" is told only of a job that ran to its end.
SuccessIsTrue == \A j \in Jobs : "success" \in heard[j] => cond[j] \in {"done", "completed"}

\* "failure" is told only of a job that did not.
FailureIsTrue == \A j \in Jobs : "failure" \in heard[j] => cond[j] \notin {"done", "completed"}

\* The products staged for a job stay at the origin until it is over: "Only
\* terminal jobs reach here, so the worker has had them."
InputsKept == \A j \in Staging : cond[j] \in {"running", "held"} => j \in objects

\* A restart finds the jobs with a callback URL; until there is one, none is lost.
Findable(j) == j \notin NoCallback \/ crashes = 0

\* What is left at the origin for a job that is not closed is in its record,
\* unless the record is still to come: a closed record is not cleaned again.
LeftIsNoted == \A j \in objects \ committing :
    ApOf[j] = DefaultAp /\ Findable(j) /\ InQueue(j) /\ pc # "boot" => j \in left

\* "rehydrate_jobs rebuilds the in-memory table on restart": from then on every such
\* job in the queue has a record, or a submit thread about to make it.
QueueIsKnown == pc # "boot" =>
    \A j \in Jobs : InQueue(j) /\ Findable(j) => j \in known \cup committing

\* A record stays closed, and posted, until the plugin stops or a submit thread
\* replaces the record: no later sweep reopens a verdict.
NothingReopens ==
    [][~Crash /\ (\A j \in Jobs : ~RecordJob(j)) =>
        closed \subseteq closed' /\ posted \subseteq posted']_vars

-----------------------------------------------------------------------------
(***************************************************************************)
(* Refinement of JobLedger                                                 *)
(***************************************************************************)
Fate(j) ==
    CASE cond[j] \in {"running", "held"} -> "alive"
      [] cond[j] \in {"done", "completed"} -> "ran"
      [] cond[j] = "removed" -> "gone"
      [] OTHER -> "none"

Account(j) ==
    CASE j \notin known -> "none"
      [] j \in posted -> "told"
      [] j \in failed \ posted -> "owed"
      [] j \in known \ (posted \cup failed \cup closed) -> "open"
      [] j \in closed \ (posted \cup failed) /\ YetToReport(j) -> "ended"
      [] OTHER -> "dropped"

Ledger == INSTANCE JobLedger WITH
    Blind <- ActMayFail, Lossy <- HistoryFaulty # {},
    fate <- [j \in Jobs |-> Fate(j)], account <- [j \in Jobs |-> Account(j)], inputs <- objects

\* Over any interleaving of sweeps, submits, outages, lost answers and restarts, the end
\* of a job is owed until SkyPortal has answered a callback, nothing is told of it after,
\* and nothing of a job still going; its inputs outlive it (_poll_group, post_callback,
\* _cleanup_osdf_inputs); only a restart, or a history that raises in the middle of a
\* sweep, loses an account.
ImplementsJobLedger == Ledger!Spec

-----------------------------------------------------------------------------
\* SkyPortal is told the end of every job with a callback: "poll until done,
\* then POST results back to callback_url".  A job on an AP that never answers
\* cannot be; it must not keep the jobs of the others from being told.  A callback
\* answered 5xx at every retry keeps those behind it from being sent again: not so
\* if one of the retries is answered now and then.
AnswersArrive == SF_vars(\E j \in Jobs : RetryOne(j) /\ Delivered(j))
Answers(a) == a \notin ConnectFaulty \cup QueryFaulty \cup HistoryFaulty
EveryFinishedIsHeard == AnswersArrive => \A j \in Jobs :
    Callable(j) /\ Answers(ApOf[j]) => (Over(j) ~> heard[j] # {})

\* Once the restarts are over, so is told every job the plugin holds as open,
\* though calls to the schedds raise now and then: the "poller must outlive any
\* single error".
NowAndThen ==
    /\ \A a \in Aps : SF_vars(QueryOk /\ \E j \in cur : ApOf[j] = a)
    /\ SF_vars(\E j \in Jobs : HistoryOne(j))
OpenIsHeard == NowAndThen /\ AnswersArrive => \A j \in Jobs : Callable(j) =>
    ((Over(j) /\ j \in known \ closed /\ crashes = MaxCrashes) ~> heard[j] # {})

\* "Staged products are removed when the job reaches a terminal state".
FinishedIsCleaned == \A j \in Staging :
    Answers(ApOf[j]) => (Over(j) ~> j \notin objects)
=============================================================================
