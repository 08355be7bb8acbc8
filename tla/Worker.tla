------------------------------- MODULE Worker -------------------------------
(***************************************************************************)
(* What happens to one analysis between HTCondor starting its job and      *)
(* SkyPortal hearing of it: the wrapper script on the worker               *)
(* (fiesta_wrapper.py; the other wrappers are its single-fit case), the    *)
(* sandbox and the OSDF bundle it leaves behind, and the poller's delivery *)
(* (retrieve, _merge_jax_cache, build_callback_body, post_callback).       *)
(* When the poller looks at a job at all is module Poller's subject.       *)
(***************************************************************************)
EXTENDS Naturals, FiniteSets

CONSTANTS
    Jobs,
    Grouped,    \* jobs of the fiesta wrapper, which reads analysis_parameters.sources
    Models,     \* light-curve models a grouped fit may ask for
    Kernels,    \* JAX kernels a fit may compile
    Spooled,    \* htcondor.spool: outputs come back by retrieve
    HasUrl,     \* osdf.output_prefix is set: the wrapper is given OSDF_OUTPUT_URL
    MayDie,     \* a wrapper can be killed by a signal (SIGILL, SIGSEGV)
    MayRefuse,  \* a bridge may return a value json cannot encode
    MaxRuns,    \* bound: starts of one job (once one has had them, no job is evicted)
    MaxOutages, \* bound: callbacks that fail
    MaxCrashes  \* bound: restarts of the plugin in the middle of a merge

ASSUME WorkerAssumption ==
    /\ IsFiniteSet(Jobs) /\ IsFiniteSet(Models) /\ IsFiniteSet(Kernels)
    /\ Grouped \subseteq Jobs
    /\ {Spooled, HasUrl, MayDie, MayRefuse} \subseteq BOOLEAN
    /\ MaxRuns \in Nat \ {0} /\ {MaxOutages, MaxCrashes} \subseteq Nat

\* What a call of a bridge comes to: "curve" and "empty" are both a success,
\* with and without a model light curve.
Fits == {"raises", "failure", "empty", "curve"}
\* What the result is worth to json: "nan" holds a non-finite float, "object"
\* a value json.dumps raises on.
Worths == {"plain", "nan"} \cup IF MayRefuse THEN {"object"} ELSE {}

Bundles == [status : {"success", "failure"}, worth : Worths, run : 1 .. MaxRuns]
None == [status |-> "none", worth |-> "plain", run |-> 0]
Bodies == Bundles \cup [status : {"success", "failure"}, worth : {"plain"}, run : {0}]

VARIABLES
    asked,    \* analysis_parameters.sources: {} asks for a single fit
    queue,    \* the schedd: "idle", "running", "completed", "removed"
    step,     \* where the wrapper's process is
    run,      \* how often the job has been started
    fitted,   \* the runs of which some fit gave a curve, or the single fit a result
    bundle,   \* the bundle in the wrapper's hands
    stdout,   \* the last line of the running job's stdout
    spool,    \* the stdout the AP holds for a completed job
    osdf,     \* the object at OSDF_OUTPUT_URL
    local,    \* job.<cluster>.<proc>.out in the plugin's directory
    made,     \* kernels the job's sandbox came back with
    poller,   \* where the poll loop is
    cur,      \* {} or the job it delivers
    returned, \* kernels retrieved into the plugin's directory and not merged yet
    shared,   \* jax_cache_dir: "absent", "torn" or "whole"
    posted,   \* records with callback_posted
    tried,    \* records with callback_failed_at
    told,     \* the bodies POSTed for each job
    outages, crashes

wrapper == <<asked, queue, step, run, fitted, bundle, stdout, spool, osdf, made>>
delivery == <<local, poller, cur, returned, shared, posted, tried, told, outages, crashes>>
vars == <<wrapper, delivery>>

Init ==
    /\ asked \in {a \in [Jobs -> SUBSET Models] : \A j \in Jobs \ Grouped : a[j] = {}}
    /\ queue = [j \in Jobs |-> "idle"] /\ step = [j \in Jobs |-> "off"]
    /\ run = [j \in Jobs |-> 0] /\ fitted = [j \in Jobs |-> {}]
    /\ bundle = [j \in Jobs |-> None] /\ stdout = bundle /\ spool = bundle
    /\ osdf = bundle /\ local = bundle
    /\ made = [j \in Jobs |-> {}]
    /\ poller = "sweep" /\ cur = {} /\ returned = {}
    /\ shared \in [Kernels -> {"absent", "whole"}]
    /\ posted = {} /\ tried = {} /\ told = [j \in Jobs |-> {}]
    /\ outages = 0 /\ crashes = 0

-----------------------------------------------------------------------------
(***************************************************************************)
(* The wrapper                                                             *)
(***************************************************************************)
Start(j) ==
    /\ queue[j] = "idle" /\ run[j] < MaxRuns
    /\ queue' = [queue EXCEPT ![j] = "running"]
    /\ step' = [step EXCEPT ![j] = "analyse"]
    /\ run' = [run EXCEPT ![j] = @ + 1]
    /\ UNCHANGED <<asked, fitted, bundle, stdout, spool, osdf, made, delivery>>

Failed(r) == [status |-> "failure", worth |-> "plain", run |-> r]
Fitted(w, r) == [status |-> "success", worth |-> w, run |-> r]

\* The single path: run_fit's failure and its exception are both a failure bundle.
BundleOne(fit, w, r) == IF fit \in {"raises", "failure"} THEN Failed(r) ELSE Fitted(w, r)
\* The grouped path: each model's failure is put aside, and the curves decide.
Bug_MostModels(fit, w, r) ==
    IF \A m \in DOMAIN fit : fit[m] = "curve" THEN Fitted(w, r) ELSE Failed(r)
BundleGroup(fit, w, r) ==
    IF \E m \in DOMAIN fit : fit[m] = "curve" THEN Fitted(w, r) ELSE Failed(r)

Built(j, b, good) ==
    /\ bundle' = [bundle EXCEPT ![j] = b]
    /\ fitted' = [fitted EXCEPT ![j] = IF good THEN @ \cup {run[j]} ELSE @]
    /\ step' = [step EXCEPT ![j] = "print"]
    /\ \E K \in SUBSET Kernels : made' = [made EXCEPT ![j] = IF good THEN K ELSE {}]
    /\ UNCHANGED <<asked, queue, run, stdout, spool, osdf, delivery>>

\* load_inputs raises, or count_detections finds fewer than two.
TooFew(j) == step[j] = "analyse" /\ Built(j, Failed(run[j]), FALSE)

FitOne(j) ==
    /\ step[j] = "analyse" /\ asked[j] = {}
    /\ \E f \in Fits, w \in Worths :
         Built(j, BundleOne(f, w, run[j]), f \in {"empty", "curve"})

FitGroup(j) ==
    /\ step[j] = "analyse" /\ asked[j] # {}
    /\ \E f \in [asked[j] -> Fits], w \in Worths :
         Built(j, BundleGroup(f, w, run[j]), \E m \in asked[j] : f[m] = "curve")

\* print(json.dumps(bundle)), which lets NaN through.
PrintBundle(j) ==
    /\ step[j] = "print" /\ bundle[j].worth # "object"
    /\ stdout' = [stdout EXCEPT ![j] = bundle[j]]
    /\ step' = [step EXCEPT ![j] = "upload"]
    /\ UNCHANGED <<asked, queue, run, fitted, bundle, spool, osdf, made, delivery>>

Upload(j) ==
    /\ step[j] = "upload" /\ HasUrl
    /\ osdf' = [osdf EXCEPT ![j] = bundle[j]]
    /\ step' = [step EXCEPT ![j] = "exit"]
    /\ UNCHANGED <<asked, queue, run, fitted, bundle, stdout, spool, made, delivery>>

\* No URL, no requests module, or the PUT raises: a warning on stderr.
UploadFails(j) ==
    /\ step[j] = "upload"
    /\ step' = [step EXCEPT ![j] = "exit"]
    /\ UNCHANGED <<asked, queue, run, fitted, bundle, stdout, spool, osdf, made, delivery>>

(***************************************************************************)
(* The process ends: by sys.exit, by an exception outside main's try (a    *)
(* bundle json cannot encode), or by a signal.  HTCondor calls all three   *)
(* completed, and sends back what stdout holds.                            *)
(***************************************************************************)
Leave(j) ==
    /\ queue' = [queue EXCEPT ![j] = "completed"]
    /\ step' = [step EXCEPT ![j] = "off"]
    /\ bundle' = [bundle EXCEPT ![j] = None]
    /\ stdout' = [stdout EXCEPT ![j] = None]
    /\ spool' = [spool EXCEPT ![j] = stdout[j]]
    /\ local' = IF Spooled THEN local ELSE [local EXCEPT ![j] = stdout[j]]
    /\ UNCHANGED <<asked, run, fitted, osdf, made, poller, cur, returned,
                   shared, posted, tried, told, outages, crashes>>
Exit(j) == step[j] = "exit" /\ Leave(j)
PrintRaises(j) == step[j] = "print" /\ bundle[j].worth = "object" /\ Leave(j)
Die(j) == MayDie /\ step[j] \in {"analyse", "print", "upload"} /\ Leave(j)

\* The sandbox is lost with the slot; an uploaded bundle is not.
Lost(j, becomes) ==
    /\ queue' = [queue EXCEPT ![j] = becomes]
    /\ step' = [step EXCEPT ![j] = "off"]
    /\ bundle' = [bundle EXCEPT ![j] = None]
    /\ stdout' = [stdout EXCEPT ![j] = None]
    /\ made' = [made EXCEPT ![j] = {}]
    /\ UNCHANGED <<asked, run, fitted, spool, osdf, delivery>>
Evict(j) == queue[j] = "running" /\ (\A i \in Jobs : run[i] < MaxRuns) /\ Lost(j, "idle")

\* A user, or the poller's held timeout.
Remove(j) == queue[j] \in {"idle", "running"} /\ Lost(j, "removed")

-----------------------------------------------------------------------------
(***************************************************************************)
(* The poller's delivery                                                   *)
(***************************************************************************)
\* _retrieve_outputs, whose failure leaves whatever is on disk.
Collect(j) ==
    /\ poller = "sweep" /\ j \notin posted \cup tried
    /\ queue[j] \in {"completed", "removed"}
    /\ cur' = {j}
    /\ poller' = IF queue[j] = "completed" THEN "merge" ELSE "post"
    /\ \/ /\ queue[j] = "completed" /\ Spooled
          /\ local' = [local EXCEPT ![j] = spool[j]]
          /\ returned' = returned \cup made[j]
       \/ UNCHANGED <<local, returned>>
    /\ UNCHANGED <<wrapper, shared, posted, tried, told, outages, crashes>>

\* _retry_callbacks: the sandbox is not pulled again, the body is built anew.
\* (That the retry window can run out first is in module Poller.)
Retry(j) ==
    /\ poller = "sweep" /\ j \in tried \ posted
    /\ cur' = {j} /\ poller' = "post"
    /\ UNCHANGED <<wrapper, local, returned, shared, posted, tried, told, outages, crashes>>

\* _merge_jax_cache: copy2 of one kernel the shared directory has no file for.
Missing(k) == shared[k] = "absent"
CopyStart(k) ==
    /\ poller = "merge" /\ k \in returned /\ Missing(k)
    /\ shared' = [shared EXCEPT ![k] = "torn"]
    /\ poller' = "copy"
    /\ UNCHANGED <<wrapper, local, cur, returned, posted, tried, told, outages, crashes>>

CopyEnd(k) ==
    /\ poller = "copy" /\ k \in returned /\ shared[k] = "torn"
    /\ shared' = [shared EXCEPT ![k] = "whole"]
    /\ poller' = "merge"
    /\ UNCHANGED <<wrapper, local, cur, returned, posted, tried, told, outages, crashes>>

MergeEnd ==
    /\ poller = "merge" /\ ~ \E k \in returned : Missing(k)
    /\ returned' = {} /\ poller' = "post"
    /\ UNCHANGED <<wrapper, local, cur, shared, posted, tried, told, outages, crashes>>

\* A full disk: the exception is logged, the half-written target stays.
MergeRaises ==
    /\ poller = "copy"
    /\ poller' = "post"
    /\ UNCHANGED <<wrapper, local, cur, returned, shared, posted, tried, told, outages, crashes>>

\* The pod is replaced: what is on disk stays, and a job still in the queue is
\* adopted again (module Poller has the job that is not).
Crash ==
    /\ crashes < MaxCrashes /\ poller \in {"merge", "copy", "post"} /\ cur \cap tried = {}
    /\ crashes' = crashes + 1 /\ poller' = "sweep" /\ cur' = {}
    /\ UNCHANGED <<wrapper, local, returned, shared, posted, tried, told, outages>>

\* build_callback_body: OSDF first, then stdout, then the record's own status.
BareBody(j) == [status |-> IF queue[j] = "completed" THEN "success" ELSE "failure",
                worth |-> "plain", run |-> 0]
FallBack(j) == IF local[j] # None THEN local[j] ELSE BareBody(j)
Bug_EitherChannel(j, reached) ==
    IF osdf[j] # None /\ reached THEN osdf[j]
    ELSE IF HasUrl THEN BareBody(j) ELSE FallBack(j)
BuildBody(j, reached) == IF reached /\ osdf[j] # None THEN osdf[j] ELSE FallBack(j)

Bug_AsIs(b) == b
JsonSafe(b) == [b EXCEPT !.worth = IF @ = "nan" THEN "plain" ELSE @]

\* requests encodes with allow_nan=False: a body with a NaN is never sent.
Sends(b) == b.worth = "plain"

Deliver(j, b) ==
    /\ Sends(b)
    /\ told' = [told EXCEPT ![j] = @ \cup {b}]
    /\ posted' = posted \cup {j}
    /\ local' = [local EXCEPT ![j] = None]
    /\ poller' = "sweep" /\ cur' = {}
    /\ UNCHANGED <<wrapper, returned, shared, tried, outages, crashes>>

\* The POST times out or gets a 5xx: SkyPortal may have taken it all the same.
\* The outputs stay, and a later sweep builds the body again.
NotDelivered(j, b) ==
    /\ Sends(b) => outages < MaxOutages
    /\ outages' = IF Sends(b) THEN outages + 1 ELSE outages
    /\ told' \in {told} \cup IF Sends(b) THEN {[told EXCEPT ![j] = @ \cup {b}]} ELSE {}
    /\ tried' = tried \cup {j}
    /\ poller' = "sweep" /\ cur' = {}
    /\ UNCHANGED <<wrapper, local, returned, shared, posted, crashes>>

Post ==
    /\ poller = "post"
    /\ \E j \in cur, reached \in BOOLEAN :
         LET b == JsonSafe(BuildBody(j, reached))
         IN  Deliver(j, b) \/ NotDelivered(j, b)

-----------------------------------------------------------------------------
Wrapper(j) == Start(j) \/ TooFew(j) \/ FitOne(j) \/ FitGroup(j) \/ PrintBundle(j)
                \/ PrintRaises(j) \/ Upload(j) \/ UploadFails(j) \/ Exit(j)
Delivery == \/ \E j \in Jobs : Collect(j) \/ Retry(j)
            \/ \E k \in Kernels : CopyStart(k) \/ CopyEnd(k)
            \/ MergeEnd \/ MergeRaises \/ Post
Faults == Crash \/ \E j \in Jobs : Die(j) \/ Evict(j) \/ Remove(j)
Next == Delivery \/ Faults \/ \E j \in Jobs : Wrapper(j)

Spec == Init /\ [][Next]_vars

\* A slot is found and the wrapper's process goes on; the poll loop never stops.
Fairness == WF_vars(Delivery) /\ \A j \in Jobs : WF_vars(Wrapper(j))
FairSpec == Spec /\ Fairness

-----------------------------------------------------------------------------
TypeOK ==
    /\ asked \in [Jobs -> SUBSET Models]
    /\ queue \in [Jobs -> {"idle", "running", "completed", "removed"}]
    /\ step \in [Jobs -> {"off", "analyse", "print", "upload", "exit"}]
    /\ run \in [Jobs -> 0 .. MaxRuns] /\ fitted \in [Jobs -> SUBSET (1 .. MaxRuns)]
    /\ {bundle, stdout, spool, osdf, local} \subseteq [Jobs -> Bundles \cup {None}]
    /\ \A j \in Jobs : (step[j] = "off") = (queue[j] # "running")
    /\ made \in [Jobs -> SUBSET Kernels] /\ returned \subseteq Kernels
    /\ poller \in {"sweep", "merge", "copy", "post"}
    /\ cur \in IF poller = "sweep" THEN {{}} ELSE {{j} : j \in Jobs}
    /\ shared \in [Kernels -> {"absent", "torn", "whole"}]
    /\ posted \subseteq Jobs /\ tried \subseteq Jobs /\ told \in [Jobs -> SUBSET Bodies]
    /\ outages \in 0 .. MaxOutages /\ crashes \in 0 .. MaxCrashes

Wrapped(j) == {b \in told[j] : b.run # 0}

(***************************************************************************)
(* A bundle SkyPortal is given was built by a run of this very job, and it *)
(* says success exactly when that run fitted something: one model that     *)
(* fails does not sink a grouped fit, no curve at all is never a success,  *)
(* whichever run and whichever channel the bundle came by.                 *)
(***************************************************************************)
AnswerIsTrue ==
    \A j \in Jobs : \A b \in Wrapped(j) :
        b.run \in 1 .. run[j] /\ (b.status = "success" <=> b.run \in fitted[j])

(***************************************************************************)
(* Outputs outlive the callback: once a bundle is in the plugin's          *)
(* directory, no answer leaves without one -- an unreachable OSDF falls    *)
(* back to it, a failed POST and its retries find it -- and it goes only   *)
(* with the callback SkyPortal took.                                       *)
(***************************************************************************)
OutputsOutlive ==
    [][\A j \in Jobs : local[j] # None =>
          /\ \A b \in told'[j] \ told[j] : b.run # 0
          /\ local'[j] # local[j] => j \in posted']_vars

(***************************************************************************)
(* A kernel that is whole in the shared cache stays so, whatever jobs,     *)
(* full disks and restarts in the middle of a merge bring back.            *)
(***************************************************************************)
KernelsKept == [][\A k \in Kernels : shared[k] = "whole" => shared'[k] = "whole"]_vars

(***************************************************************************)
(* Every job that ended is answered: no value a fit returns (a NaN in a    *)
(* posterior), no merge that breaks down and no outage keeps its callback  *)
(* from being sent for good.                                               *)
(***************************************************************************)
Answered == \A j \in Jobs : queue[j] \in {"completed", "removed"} ~> j \in posted

(***************************************************************************)
(* fiesta_wrapper.py:284: "every failure becomes a SkyPortal "failure"     *)
(* response".  A job of which no run fitted anything is not told as a      *)
(* success.  The code does not satisfy it: TLC finds the counterexample.   *)
(***************************************************************************)
FailureTold == \A j \in Jobs : \A b \in told[j] : b.status = "success" => fitted[j] # {}

(***************************************************************************)
(* Whatever kills, evicts or removes the job and whichever channel its     *)
(* bundle comes by, the state is well formed and the answer true.          *)
(***************************************************************************)
BundlesAreTrue == TypeOK /\ AnswerIsTrue

(***************************************************************************)
(* Delivery loses nothing it was given: neither the outputs of a job nor   *)
(* the kernels of the jobs before it.                                      *)
(***************************************************************************)
DeliveryKeeps == OutputsOutlive /\ KernelsKept
=============================================================================
