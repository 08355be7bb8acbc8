------------------------------ MODULE Admission ------------------------------
(***************************************************************************)
(* How main.py turns a POST to /analysis/<name> into an HTCondor job, from *)
(* the handler to JOBS: the caps, the waiting list and its drainer, the    *)
(* batch queue and its flusher, the two submit pools, and the graceful     *)
(* shutdown.                                                               *)
(*                                                                         *)
(* Three kinds of actor interleave.  The asyncio event loop runs one       *)
(* callback at a time; pc says which callback is in the middle of a cap    *)
(* check, and every other event-loop action waits for pc = "idle".  The    *)
(* pool threads run submits, and the poller thread closes jobs: both may   *)
(* step between any two steps of the event loop, so check_caps, which      *)
(* reads JOBS first and _SUBMITTING after, is two steps.                   *)
(*                                                                         *)
(* A request is a value; what the code derives from its JSON (analysis,    *)
(* resource, wrapper, submit signature) is given by functions.             *)
(***************************************************************************)
EXTENDS Naturals, Sequences, FiniteSets, Functions

CONSTANTS
    Requests,      \* the requests SkyPortal may send, and the jobs it sent before
    NoRequest,     \* no callback of the event loop holds a request
    AnalysisOf,    \* [Requests -> analysis_name]
    ResourceOf,    \* [Requests -> resource_id], NoResource when there is none
    WrapperOf,     \* [Requests -> wrapper], as _wrapper_of derives it
    SignatureOf,   \* [Requests -> value of _submit_signature]
    NoResource,
    Invalid,       \* requests the handler rejects before the caps (401, 400, 422)
    Malformed,     \* requests whose _submit_signature raises
    Faulty,        \* requests whose submit raises
    Unreachable,   \* requests whose failure callback cannot be delivered
    Lingering,     \* requests on connections still open when the listener closes
    Inherited,     \* open jobs of an earlier run of the plugin, in the schedd
    BatchEnabled, IgwnWrappers,                      \* batch.enabled, igwn.wrappers
    MaxTotal, MaxPerAnalysis, MaxPerResource,        \* caps; 0 is no limit
    MaxWaiting, MaxBatch,                            \* caps.max_waiting, batch.max_size
    SubmitWorkers, AlmaWorkers                       \* the sizes of the two pools

ASSUME RequestsAssumption ==
    /\ IsFiniteSet(Requests)
    /\ NoRequest \notin Requests
    /\ \A S \in {Invalid, Malformed, Faulty, Unreachable, Lingering, Inherited} :
           S \subseteq Requests
    /\ Inherited \cap (Invalid \cup Malformed \cup Lingering) = {}
ASSUME LimitsAssumption ==
    /\ BatchEnabled \in BOOLEAN
    /\ {MaxTotal, MaxPerAnalysis, MaxPerResource, MaxWaiting} \subseteq Nat
    /\ {MaxBatch, SubmitWorkers, AlmaWorkers} \subseteq Nat \ {0}

VARIABLES
    waiting,       \* _WAITING, a deque
    submitting,    \* _SUBMITTING
    queue,         \* _BATCH_QUEUE
    jobs, open,    \* the keys of JOBS, and those with completed_at None and not TERMINAL
    stage,         \* where a request's own pool task is
    fpc,           \* where batch_flusher is
    batch, group,  \* the flusher's requests, and those of the RPC it awaits
    final,         \* the flusher is in its last drain, after the loop
    pc,            \* the event-loop callback that is in the middle of its work
    item, seen, blocked,   \* its locals: the request, the open jobs it read, the blocked ones
    unbatched,     \* what _release_waiting could not give to the flusher
    phase,         \* how far the shutdown is
    timedOut,      \* the 25 s the shutdown gives the flusher ran out
    answer,        \* what the HTTP client was told
    told, mute,    \* failures reported to SkyPortal; failures whose report was lost
    arrivals       \* history: the accepted requests, oldest first

pool  == <<stage, jobs, open>>
flush == <<fpc, batch, group, final>>
loop  == <<pc, item, seen, blocked>>
down  == <<unbatched, phase, timedOut>>
news  == <<answer, told, mute, arrivals>>
vars  == <<waiting, submitting, queue, pool, flush, loop, down, news>>

(***************************************************************************)
(* Routes.  A batchable request goes to the flusher; ALMA has a pool of    *)
(* its own; the four staging wrappers never make the client wait.          *)
(***************************************************************************)
Batchable(r) ==
    /\ BatchEnabled
    /\ WrapperOf[r] # "alma"
    /\ WrapperOf[r] \notin IgwnWrappers
Staged(r) == WrapperOf[r] \in {"alma", "oracle", "fleet", "flare"}

Bug_OnePool(r) == "submit"
PoolOf(r) == IF WrapperOf[r] = "alma" THEN "alma" ELSE "submit"

\* A background task keeps its worker until it has left _SUBMITTING.
Busy(p) ==
    Cardinality({r \in Requests : /\ PoolOf(r) = p
                                  /\ \/ stage[r] = "running"
                                     \/ /\ stage[r] \in {"submitted", "failed"}
                                        /\ r \in submitting})
      + (IF p = "submit" /\ fpc = "rpc" THEN 1 ELSE 0)
Workers(p) == IF p = "alma" THEN AlmaWorkers ELSE SubmitWorkers

-----------------------------------------------------------------------------
(***************************************************************************)
(* check_caps.  S is what it read of JOBS; _SUBMITTING is read when it     *)
(* decides.  A request in both is counted twice, as in the code.           *)
(***************************************************************************)
OfAnalysis(S, a) == {r \in S : AnalysisOf[r] = a}
OfPair(S, a, x)  == {r \in OfAnalysis(S, a) : ResourceOf[r] = x}

Bug_CountOnlyJobs(S, T) == Cardinality(S)
Count(S, T) == Cardinality(S) + Cardinality(T)

GlobalCapReached(S) == MaxTotal > 0 /\ Count(S, submitting) >= MaxTotal
AnalysisCapReached(S, r) ==
    /\ MaxPerAnalysis > 0
    /\ Count(OfAnalysis(S, AnalysisOf[r]), OfAnalysis(submitting, AnalysisOf[r]))
         >= MaxPerAnalysis
ResourceCapReached(S, r) ==
    /\ MaxPerResource > 0
    /\ ResourceOf[r] # NoResource
    /\ Count(OfPair(S, AnalysisOf[r], ResourceOf[r]),
             OfPair(submitting, AnalysisOf[r], ResourceOf[r])) >= MaxPerResource
CapReached(S, r) ==
    \/ GlobalCapReached(S)
    \/ AnalysisCapReached(S, r)
    \/ ResourceCapReached(S, r)

\* _dispatch
Dispatch(r) ==
    /\ submitting' = submitting \cup {r}
    /\ IF Batchable(r)
         THEN queue' = Append(queue, r) /\ UNCHANGED stage
         ELSE stage' = [stage EXCEPT ![r] = "pooled"] /\ UNCHANGED queue
    /\ UNCHANGED <<jobs, open>>

-----------------------------------------------------------------------------
(***************************************************************************)
(* AnalysisHandler.post                                                    *)
(***************************************************************************)
Reachable(r) ==
    /\ answer[r] = "new"
    /\ \/ phase = "serving"
       \/ phase # "stopped" /\ r \in Lingering

PostInvalid(r) ==
    /\ pc = "idle" /\ Reachable(r) /\ r \in Invalid
    /\ answer' = [answer EXCEPT ![r] = "refused"]
    /\ UNCHANGED <<waiting, submitting, queue, pool, flush, loop, down, told, mute, arrivals>>

\* check_caps reads JOBS.
PostRead(r) ==
    /\ pc = "idle" /\ Reachable(r) /\ r \notin Invalid
    /\ pc' = "post" /\ item' = r /\ seen' = open
    /\ UNCHANGED <<waiting, submitting, queue, pool, flush, blocked, down, news>>

Accept(a) ==
    /\ answer' = [answer EXCEPT ![item] = a]
    /\ arrivals' = Append(arrivals, item)
    /\ UNCHANGED <<told, mute>>
PostEnds == pc' = "idle" /\ item' = NoRequest /\ seen' = {} /\ UNCHANGED <<blocked, down, flush>>

MustWait(r) == CapReached(seen, r) \/ waiting # <<>>

PostRefused ==
    /\ pc = "post" /\ MustWait(item) /\ Len(waiting) >= MaxWaiting
    /\ answer' = [answer EXCEPT ![item] = "refused"]
    /\ PostEnds
    /\ UNCHANGED <<waiting, submitting, queue, pool, told, mute, arrivals>>
PostWaits ==
    /\ pc = "post" /\ MustWait(item) /\ Len(waiting) < MaxWaiting
    /\ waiting' = Append(waiting, item)
    /\ Accept("pending")
    /\ PostEnds
    /\ UNCHANGED <<submitting, queue, pool>>
PostDispatched ==
    /\ pc = "post" /\ ~MustWait(item) /\ (Batchable(item) \/ Staged(item))
    /\ Dispatch(item)
    /\ Accept("pending")
    /\ PostEnds
    /\ UNCHANGED waiting
\* The handler awaits submit_job itself; nothing enters _SUBMITTING.
PostDirect ==
    /\ pc = "post" /\ ~MustWait(item) /\ ~Batchable(item) /\ ~Staged(item)
    /\ stage' = [stage EXCEPT ![item] = "pooled"]
    /\ Accept("posted")
    /\ PostEnds
    /\ UNCHANGED <<waiting, submitting, queue, jobs, open>>

Post == PostRefused \/ PostWaits \/ PostDispatched \/ PostDirect

-----------------------------------------------------------------------------
(***************************************************************************)
(* _drain_waiting, once per tick of waiting_drainer                        *)
(***************************************************************************)
DrainStart ==
    /\ pc = "idle" /\ phase # "stopped" /\ waiting # <<>>
    /\ pc' = "drain" /\ blocked' = <<>>
    /\ UNCHANGED <<waiting, submitting, queue, pool, flush, item, seen, down, news>>
\* popleft, and check_caps reads JOBS.
DrainPop ==
    /\ pc = "drain" /\ waiting # <<>>
    /\ item' = Head(waiting) /\ waiting' = Tail(waiting)
    /\ pc' = "drainCheck" /\ seen' = open
    /\ UNCHANGED <<submitting, queue, pool, flush, blocked, down, news>>
DrainDispatch ==
    /\ pc = "drainCheck" /\ ~CapReached(seen, item)
    /\ Dispatch(item)
    /\ pc' = "drain" /\ item' = NoRequest /\ seen' = {}
    /\ UNCHANGED <<waiting, flush, blocked, down, news>>
DrainBlocked ==
    /\ pc = "drainCheck" /\ CapReached(seen, item) /\ ~GlobalCapReached(seen)
    /\ blocked' = Append(blocked, item)
    /\ pc' = "drain" /\ item' = NoRequest /\ seen' = {}
    /\ UNCHANGED <<waiting, submitting, queue, pool, flush, down, news>>

Bug_BlockedToTheBack(b) == waiting' = waiting \o b
PutBack(b) == waiting' = b \o waiting

DrainStop ==
    /\ pc = "drainCheck" /\ GlobalCapReached(seen)
    /\ PutBack(Append(blocked, item))
    /\ pc' = "idle" /\ item' = NoRequest /\ seen' = {} /\ blocked' = <<>>
    /\ UNCHANGED <<submitting, queue, pool, flush, down, news>>
DrainEnd ==
    /\ pc = "drain" /\ waiting = <<>>
    /\ PutBack(blocked)
    /\ pc' = "idle" /\ blocked' = <<>>
    /\ UNCHANGED <<submitting, queue, pool, flush, item, seen, down, news>>

Drain == DrainStart \/ DrainPop \/ DrainDispatch \/ DrainBlocked \/ DrainStop \/ DrainEnd

-----------------------------------------------------------------------------
(***************************************************************************)
(* Pool tasks: submit_job under _submit_in_background, or awaited by the   *)
(* handler.  A worker takes any pooled task; the pools' FIFO order is not  *)
(* modelled.  These steps go on after the event loop has stopped: the      *)
(* interpreter joins the pools' threads before it exits.                   *)
(***************************************************************************)
TaskStart(r) ==
    /\ stage[r] = "pooled" /\ Busy(PoolOf(r)) < Workers(PoolOf(r))
    /\ stage' = [stage EXCEPT ![r] = "running"]
    /\ UNCHANGED <<waiting, submitting, queue, jobs, open, flush, loop, down, news>>

Bug_NotOpenYet(S) == jobs' = jobs /\ open' = open \cup S
\* JOBS[...] = JobRecord(...), status "idle", for each of S.
Record(S) == jobs' = jobs \cup S /\ open' = open \cup S

TaskSubmit(r) ==
    /\ stage[r] = "running"
    /\ stage' = [stage EXCEPT ![r] = "submitted"]
    /\ Record({r})
    /\ UNCHANGED <<waiting, submitting, queue, flush, loop, down, news>>

Bug_NoReport(S) == UNCHANGED <<told, mute>>
\* _post_failure_callbacks: one attempt each, a lost one is only logged.
ReportFailure(S) ==
    /\ told' = told \cup (S \ Unreachable)
    /\ mute' = mute \cup (S \cap Unreachable)

TaskFail(r) ==
    /\ stage[r] = "running" /\ r \in Faulty
    /\ stage' = [stage EXCEPT ![r] = "failed"]
    /\ IF r \in submitting THEN ReportFailure({r}) ELSE UNCHANGED <<told, mute>>
    /\ UNCHANGED <<waiting, submitting, queue, jobs, open, flush, loop, down, answer, arrivals>>

Bug_ForgetNothing(S) == submitting
Bug_ForgetEverything(S) == {}
Forget(S) == submitting \ S

TaskForget(r) ==
    /\ stage[r] \in {"submitted", "failed"} /\ r \in submitting
    /\ stage' = [stage EXCEPT ![r] = "done"]
    /\ submitting' = Forget({r})
    /\ UNCHANGED <<waiting, queue, jobs, open, flush, loop, down, news>>

\* The handler resumes with the cluster id, or answers 500.
DirectReply(r) ==
    /\ pc = "idle" /\ phase # "stopped"
    /\ stage[r] \in {"submitted", "failed"} /\ answer[r] = "posted"
    /\ answer' = [answer EXCEPT ![r] = IF stage[r] = "submitted" THEN "pending" ELSE "error"]
    /\ told' = IF stage[r] = "failed" THEN told \cup {r} ELSE told
    /\ stage' = [stage EXCEPT ![r] = "done"]
    /\ UNCHANGED <<waiting, submitting, queue, jobs, open, flush, loop, down, mute, arrivals>>

-----------------------------------------------------------------------------
(***************************************************************************)
(* batch_flusher and _flush_batch.  The order in which a batch's groups    *)
(* are submitted is not modelled, nor is the window's length: it may end   *)
(* at any time.                                                            *)
(***************************************************************************)
Draining == phase \in {"draining", "stopped"}      \* _SHUTDOWN is set
FlusherTurn == BatchEnabled /\ pc = "idle" /\ phase # "stopped"

\* _flush_batch computes every signature before its try.
FlushOrDie(B) == fpc' = IF B \cap Malformed = {} THEN "flush" ELSE "dead"

FlushTake ==
    /\ FlusherTurn /\ fpc = "first" /\ queue # <<>>
    /\ batch' = {Head(queue)} /\ queue' = Tail(queue) /\ fpc' = "gather"
    /\ UNCHANGED <<waiting, submitting, pool, group, final, loop, down, news>>
FlushGather ==
    /\ FlusherTurn /\ fpc = "gather" /\ ~Draining
    /\ queue # <<>> /\ Cardinality(batch) < MaxBatch
    /\ batch' = batch \cup {Head(queue)} /\ queue' = Tail(queue)
    /\ UNCHANGED <<waiting, submitting, pool, fpc, group, final, loop, down, news>>

Bug_QueueKept(q) == batch' = batch \cup Range(q) /\ queue' = q
\* On shutdown the batch takes everything else still queued.
TakeAll(q) == batch' = batch \cup Range(q) /\ queue' = <<>>

FlushClose ==
    /\ FlusherTurn /\ fpc = "gather"
    /\ IF Draining THEN TakeAll(queue) ELSE UNCHANGED <<batch, queue>>
    /\ FlushOrDie(batch')
    /\ UNCHANGED <<waiting, submitting, pool, group, final, loop, down, news>>

GroupStart ==
    /\ FlusherTurn /\ fpc = "flush" /\ Busy("submit") < Workers("submit")
    /\ \E r \in batch : group' = {q \in batch : SignatureOf[q] = SignatureOf[r]}
    /\ fpc' = "rpc"
    /\ UNCHANGED <<waiting, submitting, queue, pool, batch, final, loop, down, news>>
\* submit_jobs_batch, in the pool.
GroupSubmit ==
    /\ fpc = "rpc"
    /\ Record(group)
    /\ fpc' = "recorded"
    /\ UNCHANGED <<waiting, submitting, queue, stage, batch, group, final, loop, down, news>>
\* The flusher posts the failures itself, so not once the loop has stopped.
GroupFail ==
    /\ fpc = "rpc" /\ group \cap Faulty # {}
    /\ IF phase # "stopped" THEN ReportFailure(group) ELSE UNCHANGED <<told, mute>>
    /\ fpc' = "recorded"
    /\ UNCHANGED <<waiting, submitting, queue, pool, batch, group, final, loop, down,
                   answer, arrivals>>

\* The last drain, once, after the flusher's loop.
LastDrain ==
    IF ~final /\ queue # <<>>
      THEN batch' = Range(queue) /\ queue' = <<>> /\ FlushOrDie(batch') /\ final' = TRUE
      ELSE batch' = {} /\ fpc' = "exited" /\ UNCHANGED <<queue, final>>

\* The group leaves _SUBMITTING; the next one, the next batch or the end follows.
GroupForget ==
    /\ FlusherTurn /\ fpc = "recorded"
    /\ submitting' = Forget(group) /\ group' = {}
    /\ LET rest == batch \ group IN
       IF rest = {} /\ Draining
         THEN LastDrain
         ELSE /\ batch' = rest
              /\ fpc' = IF rest = {} THEN "first" ELSE "flush"
              /\ UNCHANGED <<queue, final>>
    /\ UNCHANGED <<waiting, pool, loop, down, news>>
\* Woken by _SHUTDOWN while it awaits a first item.
FlushStop ==
    /\ FlusherTurn /\ fpc = "first" /\ Draining
    /\ LastDrain
    /\ UNCHANGED <<waiting, submitting, pool, group, loop, down, news>>

Flusher == FlushTake \/ FlushGather \/ FlushClose \/ GroupStart \/ GroupForget \/ FlushStop
GroupRpc == GroupSubmit \/ GroupFail

-----------------------------------------------------------------------------
(***************************************************************************)
(* _graceful and _release_waiting                                          *)
(***************************************************************************)
Sigterm ==
    /\ pc = "idle" /\ phase = "serving"
    /\ phase' = "releasing" /\ pc' = "release"
    /\ UNCHANGED <<waiting, submitting, queue, pool, flush, item, seen, blocked,
                   unbatched, timedOut, news>>

Bug_ReleaseNowhere(r) == UNCHANGED <<queue, unbatched>>
HandOver(r) ==
    IF Batchable(r) THEN queue' = Append(queue, r) /\ UNCHANGED unbatched
                    ELSE unbatched' = unbatched \cup {r} /\ UNCHANGED queue

ReleaseOne ==
    /\ pc = "release" /\ waiting # <<>>
    /\ HandOver(Head(waiting))
    /\ waiting' = Tail(waiting)
    /\ UNCHANGED <<submitting, pool, flush, loop, phase, timedOut, news>>
ReleaseEnd ==
    /\ pc = "release" /\ waiting = <<>>
    /\ pc' = "idle"
    /\ phase' = IF unbatched = {} THEN "draining" ELSE phase
    /\ UNCHANGED <<waiting, submitting, queue, pool, flush, item, seen, blocked,
                   unbatched, timedOut, news>>
ReportUnbatched ==
    /\ pc = "idle" /\ phase = "releasing"
    /\ Busy("submit") < Workers("submit")
    /\ ReportFailure(unbatched)
    /\ unbatched' = {} /\ phase' = "draining"
    /\ UNCHANGED <<waiting, submitting, queue, pool, flush, loop, timedOut, answer, arrivals>>

StopLoop ==
    /\ pc = "idle" /\ phase = "draining"
    /\ ~BatchEnabled \/ fpc \in {"exited", "dead"}
    /\ phase' = "stopped"
    /\ UNCHANGED <<waiting, submitting, queue, pool, flush, loop, unbatched, timedOut, news>>
\* asyncio.wait_for gives up after 25 s.
DrainTimeout ==
    /\ pc = "idle" /\ phase = "draining"
    /\ BatchEnabled /\ fpc \notin {"exited", "dead"}
    /\ phase' = "stopped" /\ timedOut' = TRUE
    /\ UNCHANGED <<waiting, submitting, queue, pool, flush, loop, unbatched, news>>

Shutdown == ReleaseOne \/ ReleaseEnd \/ ReportUnbatched \/ StopLoop

-----------------------------------------------------------------------------
(***************************************************************************)
(* The poller thread: rehydrate_jobs, once, after the listener is up, and  *)
(* poll_once closing a record.                                             *)
(***************************************************************************)
Rehydrate ==
    /\ ~(Inherited \subseteq jobs)
    /\ Record(Inherited)
    /\ UNCHANGED <<waiting, submitting, queue, stage, flush, loop, down, news>>
JobCloses(r) ==
    /\ r \in open
    /\ open' = open \ {r}
    /\ UNCHANGED <<waiting, submitting, queue, stage, jobs, flush, loop, down, news>>

-----------------------------------------------------------------------------
Init ==
    /\ waiting = <<>> /\ submitting = {} /\ queue = <<>>
    /\ jobs = {} /\ open = {}
    /\ stage = [r \in Requests |-> "none"]
    /\ fpc = "first" /\ batch = {} /\ group = {} /\ final = FALSE
    /\ pc = "idle" /\ item = NoRequest /\ seen = {} /\ blocked = <<>>
    /\ unbatched = {} /\ phase = "serving" /\ timedOut = FALSE
    /\ answer = [r \in Requests |-> IF r \in Inherited THEN "pending" ELSE "new"]
    /\ told = {} /\ mute = {} /\ arrivals = <<>>

Next ==
    \/ \E r \in Requests :
          \/ PostInvalid(r) \/ PostRead(r) \/ DirectReply(r)
          \/ TaskStart(r) \/ TaskSubmit(r) \/ TaskFail(r) \/ TaskForget(r)
          \/ JobCloses(r)
    \/ Post \/ Drain \/ Flusher \/ GroupRpc
    \/ Sigterm \/ Shutdown \/ DrainTimeout
    \/ Rehydrate

Spec == Init /\ [][Next]_vars

(***************************************************************************)
(* Fairness.  A callback that is running goes on (weak).  asyncio runs its *)
(* ready callbacks in FIFO order, so one that is ready again and again     *)
(* between two drains gets its turn (strong).  A free worker takes a task, *)
(* an RPC returns, and so do the submits of S; the jobs of S end.          *)
(* SkyPortal need not send anything, nor anybody SIGTERM.  FairSpec says   *)
(* nothing of the ALMA submits, which stream for hours: AlmaReturns does.  *)
(***************************************************************************)
Alma == {r \in Requests : WrapperOf[r] = "alma"}
TaskEnd(r) == TaskSubmit(r) \/ TaskFail(r) \/ TaskForget(r)
Returns(S) ==
    /\ WF_vars(\E r \in S : TaskEnd(r))
    /\ WF_vars(\E r \in S : JobCloses(r))
Fairness ==
    /\ WF_vars(Post) /\ WF_vars(Drain)
    /\ SF_vars(Flusher) /\ WF_vars(GroupRpc)
    /\ SF_vars(Shutdown)
    /\ SF_vars(\E r \in Requests : DirectReply(r))
    /\ WF_vars(\E r \in Requests : TaskStart(r))
    /\ Returns(Requests \ Alma)
AlmaReturns == Returns(Alma)

FairSpec == Spec /\ Fairness

-----------------------------------------------------------------------------
(***************************************************************************)
(* Properties                                                              *)
(***************************************************************************)

\* Every variable holds what the program's variable can hold.
TypeOK ==
    /\ waiting \in Seq(Requests) /\ queue \in Seq(Requests) /\ blocked \in Seq(Requests)
    /\ submitting \subseteq Requests /\ jobs \subseteq Requests /\ open \subseteq jobs
    /\ stage \in [Requests -> {"none", "pooled", "running", "submitted", "failed", "done"}]
    /\ fpc \in {"first", "gather", "flush", "rpc", "recorded", "exited", "dead"}
    /\ batch \subseteq Requests /\ group \subseteq Requests /\ final \in BOOLEAN
    /\ pc \in {"idle", "post", "drain", "drainCheck", "release"}
    /\ item \in Requests \cup {NoRequest}
    /\ pc \in {"post", "drainCheck"} => item \in Requests
    /\ seen \subseteq Requests /\ unbatched \subseteq Requests
    /\ phase \in {"serving", "releasing", "draining", "stopped"} /\ timedOut \in BOOLEAN
    /\ answer \in [Requests -> {"new", "refused", "posted", "pending", "error"}]
    /\ told \subseteq Requests /\ mute \subseteq Requests
    /\ arrivals \in Seq(Requests)

\* What occupies the pool: the open jobs, those in _SUBMITTING, those the
\* restarted plugin has not yet adopted, and direct submits under way.
InFlight ==
    open \cup submitting \cup (Inherited \ jobs)
      \cup {r \in Requests : stage[r] \in {"pooled", "running"}}

\* S is within the caps of config.yaml, at each of their three levels.
TotalCapHolds(S) == MaxTotal > 0 => Cardinality(S) <= MaxTotal
AnalysisCapHolds(S) ==
    MaxPerAnalysis > 0 =>
        \A r \in S : Cardinality(OfAnalysis(S, AnalysisOf[r])) <= MaxPerAnalysis
ResourceCapHolds(S) ==
    MaxPerResource > 0 =>
        \A r \in S :
            ResourceOf[r] # NoResource =>
                Cardinality(OfPair(S, AnalysisOf[r], ResourceOf[r])) <= MaxPerResource
WithinCaps(S) == TotalCapHolds(S) /\ AnalysisCapHolds(S) /\ ResourceCapHolds(S)

\* The caps of config.yaml hold of what is really in flight, at each of their
\* three levels, while the plugin serves: a burst cannot overshoot them
\* (check_caps, _SUBMITTING).  At shutdown the waiting list is released.
CapsHold == phase = "serving" => WithinCaps(InFlight)

\* No request is twice on the lists of the event loop: the waiting list, the
\* drainer's locals, the batch queue and the flusher's batch share no request,
\* repeat none, and hold none that the handler has not taken on yet.
Checked == IF pc = "drainCheck" THEN {item} ELSE {}
Disjoint(S, T) == S \cap T = {}
EachOnce ==
    /\ IsInjective(waiting) /\ IsInjective(blocked) /\ IsInjective(queue)
    /\ Disjoint(Range(waiting), Range(blocked) \cup Checked \cup Range(queue) \cup batch)
    /\ Disjoint(Range(blocked), Checked \cup Range(queue) \cup batch)
    /\ Disjoint(Checked, Range(queue) \cup batch)
    /\ Disjoint(Range(queue), batch)
    /\ \A r \in Range(waiting) \cup Range(blocked) \cup Checked \cup Range(queue) \cup batch :
           answer[r] # "new"
    /\ pc = "post" => answer[item] = "new"
    /\ pc \notin {"drain", "drainCheck"} => blocked = <<>>

\* Why CapsHold holds when every request is batchable: what the flusher handles
\* is still in _SUBMITTING, and nothing a cap check has missed in JOBS can be
\* missing from _SUBMITTING when it reads that.
CapInv ==
    /\ \A r \in Requests : stage[r] = "none"
    /\ pc = "release" => phase = "releasing"
    /\ phase = "serving" =>
          /\ Range(queue) \cup batch \subseteq submitting
          /\ fpc \in {"rpc", "recorded"} => group \subseteq batch
          /\ pc \in {"post", "drainCheck"} => open \subseteq seen \cup submitting
          /\ WithinCaps(open \cup submitting)

\* The waiting list as it is put together again when a drain ends.
Line == blocked \o (IF pc = "drainCheck" THEN <<item>> ELSE <<>>) \o waiting

\* Where a request is, once its handler has taken it on.
Places == {"line", "queue", "batch", "pool", "unbatched", "jobs", "reported"}
At(r, p) ==
    CASE p = "line"      -> r \in Range(Line)
      [] p = "queue"     -> r \in Range(queue)
      [] p = "batch"     -> r \in batch /\ ~(r \in group /\ fpc = "recorded")
      [] p = "pool"      -> \/ stage[r] \in {"pooled", "running"}
                            \/ stage[r] = "failed" /\ answer[r] = "posted"
      [] p = "unbatched" -> r \in unbatched
      [] p = "jobs"      -> r \in jobs
      [] p = "reported"  -> r \in told \cup mute
Accepted(r) == answer[r] \in {"pending", "posted", "error"} /\ r \notin Inherited

\* A request the plugin took on is in exactly one place, as long as the event
\* loop runs: none is submitted twice, none is both submitted and reported as
\* failed, none is dropped between the lists.
OnePlace ==
    \A r \in Requests \ Inherited :
        phase # "stopped" =>
            Cardinality({p \in Places : At(r, p)}) = IF Accepted(r) THEN 1 ELSE 0

\* _SUBMITTING is exactly what has been dispatched and has no outcome yet: an
\* entry that stays behind would hold a cap for ever, one that goes early would
\* let a burst overshoot.
SubmittingAccounts ==
    phase = "serving" =>
        submitting = Range(queue) \cup batch
            \cup {r \in Requests : /\ stage[r] \in {"pooled", "running", "submitted", "failed"}
                                   /\ answer[r] = "pending"}

\* Requests leave the waiting list in the order in which they were accepted
\* (_drain_waiting: "oldest first"), new ones behind "earlier requests".
OldestFirst ==
    \A i, j \in DOMAIN arrivals :
        i < j /\ arrivals[i] \in Range(Line) => arrivals[j] \in Range(Line)

\* When the plugin exits within its 25 s, every request it answered is a job, is
\* reported as failed, or is in a pool thread the interpreter still joins: "a
\* rolling restart never drops buffered requests" (batch_flusher).
NothingDropped ==
    phase = "stopped" /\ ~timedOut =>
        \A r \in Requests :
            Accepted(r) => At(r, "jobs") \/ At(r, "reported") \/ At(r, "pool")

\* batch_flusher outlives any failing submit ("keep the loop alive").  The code does not
\* satisfy it: with a request in Malformed TLC finds a counterexample.
FlusherAlive == fpc # "dead"

\* It is a job, its failure was reported (or the report lost), or its caller,
\* still waiting for an answer, was disconnected by the exit.
Settled(r) ==
    \/ r \in jobs \cup told \cup mute
    \/ answer[r] = "posted" /\ phase = "stopped"

\* A request that was accepted becomes a job or its failure is reported, unless
\* the drain of a shutdown runs out of time: no request waits for ever behind
\* the caps, in a queue or in a pool.
EveryAcceptedIsSettled ==
    AlmaReturns => \A r \in Requests : Accepted(r) ~> (Settled(r) \/ timedOut)

\* However long the ALMA transfers take, the other requests get their outcome
\* ("keeps them from starving every other analysis's submission").
OthersSettleDespiteAlma ==
    \A r \in Requests \ Alma : Accepted(r) ~> (Settled(r) \/ timedOut)

-----------------------------------------------------------------------------
(***************************************************************************)
(* The refinement: where a request is, as the ledger sees it.              *)
(***************************************************************************)
Status(r) ==
    CASE r \in told \cup mute   -> "failed"
      [] r \in open             -> "job"
      [] r \in jobs \ open      -> "over"
      [] answer[r] = "refused"  -> "refused"
      [] r \in Range(Line)   -> "waiting"
      [] answer[r] = "new"      -> "new"
      [] OTHER                  -> "inflight"

Ledger == INSTANCE RequestLedger WITH
    status   <- [r \in Requests |-> Status(r)],
    stopping <- phase # "serving",
    Limit    <- MaxTotal

\* The front end keeps the ledger's promise, the global cap included.
ImplementsLedger == Ledger!Spec
=============================================================================
