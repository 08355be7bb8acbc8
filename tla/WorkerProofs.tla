---------------------------- MODULE WorkerProofs ----------------------------
(***************************************************************************)
(* Proofs about Worker, for every set of jobs, models and kernels, any     *)
(* configuration, and any number of runs, outages and restarts: the types, *)
(* that a bundle SkyPortal is given is of a run of its job and says        *)
(* success exactly when that run fitted something, that outputs stay until *)
(* the callback was taken, and that whole kernels stay whole.              *)
(*                                                                         *)
(* The first three rest on one inductive invariant, WorkInv, preserved     *)
(* action by action, one lemma each.                                       *)
(***************************************************************************)
EXTENDS Worker, TLAPS

\* The runs of job j whose fits are over: the run in hand only once it has a bundle.
Over(j) == IF step[j] = "analyse" THEN run[j] - 1 ELSE run[j]

\* A process at work belongs to a run, and only a run that is over has fitted something.
RunInv == \A j \in Jobs : /\ step[j] # "off" => run[j] >= 1
                          /\ fitted[j] \subseteq 1 .. Over(j)

\* A bundle is true of its run; it was built when that run was over, so no later
\* fit changes what it says.
TrueOf(j, b) == b.run \in 1 .. Over(j) /\ (b.status = "success" <=> b.run \in fitted[j])

\* Every copy of a bundle is true, wherever it has got to.
Copies(j) == {bundle[j], stdout[j], spool[j], osdf[j], local[j]}
BundleInv == \A j \in Jobs : /\ \A b \in Copies(j) : b # None => TrueOf(j, b)
                             /\ \A b \in Wrapped(j) : TrueOf(j, b)

\* The plugin's copy of a job's stdout is that of the AP, which has one of a
\* completed job only; so nothing ever replaces it by another.
OutputInv == \A j \in Jobs : /\ local[j] = None \/ local[j] = spool[j]
                             /\ spool[j] # None => queue[j] = "completed"

WorkInv == TypeOK /\ RunInv /\ BundleInv /\ OutputInv

-----------------------------------------------------------------------------
USE DEF vars, wrapper, delivery

\* What is no bundle is none.
LEMMA BundleOrNone ==
  ASSUME NEW b \in Bundles \cup {None}, b # None
  PROVE  b \in Bundles /\ b.run \in 1 .. MaxRuns /\ b.run # 0
BY WorkerAssumption DEF Bundles, None

\* The system starts with idle jobs and no bundle anywhere.
LEMMA WorkInit == Init => WorkInv
<1> SUFFICES ASSUME Init PROVE WorkInv
  OBVIOUS
<1>1. TypeOK
  BY WorkerAssumption DEF Init, TypeOK
<1>2. RunInv /\ BundleInv /\ OutputInv
  BY WorkerAssumption DEF Init, RunInv, Over, BundleInv, Copies, Wrapped, OutputInv
<1> QED
  BY <1>1, <1>2 DEF WorkInv

\* A step that changes nothing preserves it.
LEMMA StutterInv ==
  ASSUME WorkInv, UNCHANGED vars
  PROVE  WorkInv'
BY DEF WorkInv, TypeOK, RunInv, Over, BundleInv, TrueOf, Copies, Wrapped, OutputInv

-----------------------------------------------------------------------------
(***************************************************************************)
(* The wrapper                                                             *)
(***************************************************************************)
\* A job gets a slot: its next run is not over, and no bundle is of it.
LEMMA StartInv ==
  ASSUME WorkInv, NEW j \in Jobs, Start(j)
  PROVE  WorkInv'
<1> USE WorkerAssumption DEF WorkInv
<1>1. TypeOK'
  BY DEF TypeOK, Start
<1>2. RunInv'
  BY DEF TypeOK, RunInv, Over, Start
<1>3. BundleInv'
  BY DEF TypeOK, BundleInv, TrueOf, Over, Copies, Wrapped, Start
<1>4. OutputInv'
  BY DEF TypeOK, OutputInv, Start
<1> QED
  BY <1>1, <1>2, <1>3, <1>4

\* A fit is over: its bundle is the first of its run, and true.
LEMMA BuiltInv ==
  ASSUME WorkInv, NEW j \in Jobs, step[j] = "analyse", NEW b \in Bundles, NEW good \in BOOLEAN,
         b.run = run[j], b.status = "success" <=> good, Built(j, b, good)
  PROVE  WorkInv'
<1> USE WorkerAssumption DEF WorkInv
<1>1. run[j] \in 1 .. MaxRuns
  BY DEF TypeOK, RunInv
<1>2. TypeOK'
  BY <1>1 DEF TypeOK, Built
<1>3. RunInv'
  BY <1>1 DEF TypeOK, RunInv, Over, Built
<1>4. run[j] \notin fitted[j]
  BY <1>1 DEF RunInv, Over
<1>5. ASSUME NEW i \in Jobs, NEW c, TrueOf(i, c)
      PROVE  TrueOf(i, c)'
  BY <1>1, <1>5 DEF TypeOK, TrueOf, Over, Built
<1>6. TrueOf(j, b)'
  BY <1>1, <1>4 DEF TypeOK, TrueOf, Over, Built
<1>7. ASSUME NEW i \in Jobs, NEW c \in Copies(i)', c # None
      PROVE  TrueOf(i, c)'
  <2>1. c \in Copies(i) \/ (i = j /\ c = b)
    BY DEF TypeOK, Copies, Built
  <2>2. CASE c \in Copies(i)
    <3>1. TrueOf(i, c)
      BY <1>7, <2>2 DEF BundleInv
    <3> QED
      BY <1>5, <3>1
  <2> QED
    BY <1>6, <2>1, <2>2
<1>8. ASSUME NEW i \in Jobs, NEW c \in Wrapped(i)'
      PROVE  TrueOf(i, c)'
  <2>1. TrueOf(i, c)
    BY <1>8 DEF BundleInv, Wrapped, Built
  <2> QED
    BY <1>5, <2>1
<1>9. BundleInv'
  BY <1>7, <1>8 DEF BundleInv
<1>10. OutputInv'
  BY DEF TypeOK, OutputInv, Built
<1> QED
  BY <1>2, <1>3, <1>9, <1>10

\* What the two paths of the wrapper make of their fits are bundles of the run.
LEMMA BundleOf ==
  ASSUME NEW r \in 1 .. MaxRuns, NEW w \in Worths
  PROVE  /\ Failed(r) \in Bundles /\ Failed(r).run = r /\ Failed(r).status = "failure"
         /\ Fitted(w, r) \in Bundles /\ Fitted(w, r).run = r /\ Fitted(w, r).status = "success"
BY DEF Bundles, Worths, Failed, Fitted

\* Too few detections, or inputs that cannot be read: a failure bundle.
LEMMA TooFewInv ==
  ASSUME WorkInv, NEW j \in Jobs, TooFew(j)
  PROVE  WorkInv'
<1>1. run[j] \in 1 .. MaxRuns
  BY WorkerAssumption DEF WorkInv, TypeOK, RunInv, TooFew
<1>2. /\ Failed(run[j]) \in Bundles /\ Failed(run[j]).run = run[j]
      /\ Failed(run[j]).status = "failure"
  BY <1>1, BundleOf DEF Worths
<1> QED
  BY <1>2, BuiltInv DEF TooFew

\* A single fit: a success exactly when it returned one.
LEMMA FitOneInv ==
  ASSUME WorkInv, NEW j \in Jobs, FitOne(j)
  PROVE  WorkInv'
<1>1. run[j] \in 1 .. MaxRuns
  BY WorkerAssumption DEF WorkInv, TypeOK, RunInv, FitOne
<1>2. PICK f \in Fits, w \in Worths : Built(j, BundleOne(f, w, run[j]), f \in {"empty", "curve"})
  BY DEF FitOne
<1> DEFINE b == BundleOne(f, w, run[j])
           good == f \in {"empty", "curve"}
<1>3. b \in Bundles /\ b.run = run[j] /\ (b.status = "success" <=> good)
  BY <1>1, BundleOf DEF BundleOne, Fits
<1>4. step[j] = "analyse" /\ good \in BOOLEAN
  BY DEF FitOne
<1>5. Built(j, b, good)
  BY <1>2
<1> HIDE DEF b, good
<1> QED
  BY <1>3, <1>4, <1>5, BuiltInv

\* A grouped fit: a success exactly when some model gave a curve.
LEMMA FitGroupInv ==
  ASSUME WorkInv, NEW j \in Jobs, FitGroup(j)
  PROVE  WorkInv'
<1>1. run[j] \in 1 .. MaxRuns
  BY WorkerAssumption DEF WorkInv, TypeOK, RunInv, FitGroup
<1>2. PICK f \in [asked[j] -> Fits], w \in Worths :
        Built(j, BundleGroup(f, w, run[j]), \E m \in asked[j] : f[m] = "curve")
  BY DEF FitGroup
<1> DEFINE b == BundleGroup(f, w, run[j])
           good == \E m \in asked[j] : f[m] = "curve"
<1>3. b \in Bundles /\ b.run = run[j] /\ (b.status = "success" <=> good)
  <2>1. CASE good
    BY <1>1, <2>1, BundleOf DEF BundleGroup
  <2>2. CASE ~good
    BY <1>1, <2>2, BundleOf DEF BundleGroup
  <2> QED
    BY <2>1, <2>2
<1>4. step[j] = "analyse" /\ good \in BOOLEAN
  BY DEF FitGroup
<1>5. Built(j, b, good)
  BY <1>2
<1> HIDE DEF b, good
<1> QED
  BY <1>3, <1>4, <1>5, BuiltInv

\* Printing and uploading copy a bundle that is true.
LEMMA PrintBundleInv ==
  ASSUME WorkInv, NEW j \in Jobs, PrintBundle(j)
  PROVE  WorkInv'
<1> USE WorkerAssumption DEF WorkInv
<1>1. TypeOK'
  BY DEF TypeOK, PrintBundle
<1>2. RunInv'
  BY DEF TypeOK, RunInv, Over, PrintBundle
<1>3. BundleInv'
  BY DEF TypeOK, BundleInv, TrueOf, Over, Copies, Wrapped, PrintBundle
<1>4. OutputInv'
  BY DEF TypeOK, OutputInv, PrintBundle
<1> QED
  BY <1>1, <1>2, <1>3, <1>4

\* The upload leaves the same bundle at the origin.
LEMMA UploadInv ==
  ASSUME WorkInv, NEW j \in Jobs, Upload(j)
  PROVE  WorkInv'
<1> USE WorkerAssumption DEF WorkInv
<1>1. TypeOK'
  BY DEF TypeOK, Upload
<1>2. RunInv'
  BY DEF TypeOK, RunInv, Over, Upload
<1>3. BundleInv'
  BY DEF TypeOK, BundleInv, TrueOf, Over, Copies, Wrapped, Upload
<1>4. OutputInv'
  BY DEF TypeOK, OutputInv, Upload
<1> QED
  BY <1>1, <1>2, <1>3, <1>4

\* An upload that fails moves nothing.
LEMMA UploadFailsInv ==
  ASSUME WorkInv, NEW j \in Jobs, UploadFails(j)
  PROVE  WorkInv'
<1> USE WorkerAssumption DEF WorkInv
<1>1. TypeOK'
  BY DEF TypeOK, UploadFails
<1>2. RunInv' /\ OutputInv'
  BY DEF TypeOK, RunInv, Over, OutputInv, UploadFails
<1>3. BundleInv'
  BY DEF TypeOK, BundleInv, TrueOf, Over, Copies, Wrapped, UploadFails
<1> QED
  BY <1>1, <1>2, <1>3

\* The process ends, in whichever way: the AP gets its stdout, and without a spool
\* the plugin does, which had nothing of this job before.
LEMMA LeaveInv ==
  ASSUME WorkInv, NEW j \in Jobs, step[j] # "off", Leave(j)
  PROVE  WorkInv'
<1> USE WorkerAssumption DEF WorkInv
<1>1. local' \in [Jobs -> Bundles \cup {None}] /\ spool' \in [Jobs -> Bundles \cup {None}]
  BY DEF TypeOK, Leave
<1>2. TypeOK'
  BY <1>1 DEF TypeOK, Leave
<1>3. RunInv'
  BY DEF TypeOK, RunInv, Over, Leave
<1>4. ASSUME NEW i \in Jobs, NEW c, TrueOf(i, c)
      PROVE  TrueOf(i, c)'
  BY <1>4 DEF TypeOK, RunInv, TrueOf, Over, Leave
<1>5. ASSUME NEW i \in Jobs, NEW c \in Copies(i)', c # None
      PROVE  TrueOf(i, c)'
  <2>1. c \in Copies(i)
    BY <1>5 DEF TypeOK, Copies, Leave
  <2> QED
    BY <1>4, <1>5, <2>1 DEF BundleInv
<1>6. ASSUME NEW i \in Jobs, NEW c \in Wrapped(i)'
      PROVE  TrueOf(i, c)'
  <2>1. TrueOf(i, c)
    BY <1>6 DEF BundleInv, Wrapped, Leave
  <2> QED
    BY <1>4, <2>1
<1>7. BundleInv'
  BY <1>5, <1>6 DEF BundleInv
<1>8. OutputInv'
  <2>1. spool[j] = None /\ local[j] = None
    BY DEF TypeOK, OutputInv
  <2>2. CASE Spooled
    BY <2>1, <2>2 DEF TypeOK, OutputInv, Leave
  <2>3. CASE ~Spooled
    BY <2>1, <2>3 DEF TypeOK, OutputInv, Leave
  <2> QED
    BY <2>2, <2>3
<1> QED
  BY <1>2, <1>3, <1>7, <1>8

\* The slot is lost: what the AP and the plugin hold is untouched.
LEMMA LostInv ==
  ASSUME WorkInv, NEW j \in Jobs, queue[j] \in {"idle", "running"},
         NEW becomes \in {"idle", "removed"}, Lost(j, becomes)
  PROVE  WorkInv'
<1> USE WorkerAssumption DEF WorkInv
<1>1. TypeOK'
  BY DEF TypeOK, Lost
<1>2. RunInv'
  BY DEF TypeOK, RunInv, Over, Lost
<1>3. BundleInv'
  <2>1. ASSUME NEW i \in Jobs, NEW c, TrueOf(i, c)
        PROVE  TrueOf(i, c)'
    BY <2>1 DEF TypeOK, TrueOf, Over, Lost
  <2>2. ASSUME NEW i \in Jobs, NEW c \in Copies(i)', c # None
        PROVE  c \in Copies(i)
    BY <2>2 DEF TypeOK, Copies, Lost
  <2>3. ASSUME NEW i \in Jobs
        PROVE  Wrapped(i)' = Wrapped(i)
    BY DEF Wrapped, Lost
  <2> QED
    BY <2>1, <2>2, <2>3 DEF BundleInv
<1>4. OutputInv'
  BY DEF TypeOK, OutputInv, Lost
<1> QED
  BY <1>1, <1>2, <1>3, <1>4

-----------------------------------------------------------------------------
(***************************************************************************)
(* The poller's delivery                                                   *)
(***************************************************************************)
\* The poller pulls the sandbox: what it gets is what the AP holds.
LEMMA CollectInv ==
  ASSUME WorkInv, NEW j \in Jobs, Collect(j)
  PROVE  WorkInv'
<1> USE WorkerAssumption DEF WorkInv
<1>1. /\ UNCHANGED <<wrapper, shared, posted, tried, told, outages, crashes>>
      /\ cur' = {j} /\ poller' \in {"merge", "post"}
      /\ \/ local' = [local EXCEPT ![j] = spool[j]] /\ returned' = returned \cup made[j]
         \/ UNCHANGED <<local, returned>>
  BY DEF Collect
<1>2. TypeOK'
  BY <1>1 DEF TypeOK
<1>3. RunInv'
  BY <1>1 DEF RunInv, Over
<1>4. BundleInv'
  BY <1>1 DEF TypeOK, BundleInv, TrueOf, Over, Copies, Wrapped
<1>5. OutputInv'
  BY <1>1 DEF TypeOK, OutputInv
<1> QED
  BY <1>2, <1>3, <1>4, <1>5

\* A retry, a step of the merge or a restart touches no bundle.
LEMMA NoBundleMoves ==
  ASSUME WorkInv, UNCHANGED <<wrapper, local, told>>
  PROVE  RunInv' /\ BundleInv' /\ OutputInv'
<1>1. RunInv' /\ OutputInv'
  BY DEF WorkInv, RunInv, Over, OutputInv
<1>2. BundleInv'
  BY DEF WorkInv, BundleInv, TrueOf, Over, Copies, Wrapped
<1> QED
  BY <1>1, <1>2

\* A callback is tried again.
LEMMA RetryInv ==
  ASSUME WorkInv, NEW j \in Jobs, Retry(j)
  PROVE  WorkInv'
<1>1. TypeOK'
  BY WorkerAssumption DEF WorkInv, TypeOK, Retry
<1> QED
  BY <1>1, NoBundleMoves DEF WorkInv, Retry

\* A copy of a kernel begins.
LEMMA CopyStartInv ==
  ASSUME WorkInv, NEW k \in Kernels, CopyStart(k)
  PROVE  WorkInv'
<1>1. TypeOK'
  BY WorkerAssumption DEF WorkInv, TypeOK, CopyStart
<1> QED
  BY <1>1, NoBundleMoves DEF WorkInv, CopyStart

\* A copy of a kernel is whole.
LEMMA CopyEndInv ==
  ASSUME WorkInv, NEW k \in Kernels, CopyEnd(k)
  PROVE  WorkInv'
<1>1. TypeOK'
  BY WorkerAssumption DEF WorkInv, TypeOK, CopyEnd
<1> QED
  BY <1>1, NoBundleMoves DEF WorkInv, CopyEnd

\* All kernels are merged.
LEMMA MergeEndInv ==
  ASSUME WorkInv, MergeEnd
  PROVE  WorkInv'
<1>1. TypeOK'
  BY WorkerAssumption DEF WorkInv, TypeOK, MergeEnd
<1> QED
  BY <1>1, NoBundleMoves DEF WorkInv, MergeEnd

\* The merge gives up.
LEMMA MergeRaisesInv ==
  ASSUME WorkInv, MergeRaises
  PROVE  WorkInv'
<1>1. TypeOK'
  BY WorkerAssumption DEF WorkInv, TypeOK, MergeRaises
<1> QED
  BY <1>1, NoBundleMoves DEF WorkInv, MergeRaises

\* The plugin restarts.
LEMMA CrashInv ==
  ASSUME WorkInv, Crash
  PROVE  WorkInv'
<1>1. crashes' \in 0 .. MaxCrashes
  BY WorkerAssumption DEF WorkInv, TypeOK, Crash
<1>2. TypeOK'
  BY <1>1 DEF WorkInv, TypeOK, Crash
<1> QED
  BY <1>2, NoBundleMoves DEF WorkInv, Crash

\* The body of a callback is a bundle some run left, as json can send it, or the
\* poller's own verdict; it is the latter only if the plugin has no bundle.
LEMMA BodyIsTrue ==
  ASSUME WorkInv, NEW j \in Jobs, NEW reached \in BOOLEAN,
         NEW b, b = JsonSafe(BuildBody(j, reached)), Sends(b)
  PROVE  b \in Bodies /\ (b.run # 0 => TrueOf(j, b)) /\ (local[j] # None => b.run # 0)
<1> DEFINE c == BuildBody(j, reached)
<1>1. CASE c = BareBody(j) /\ local[j] = None
  BY <1>1 DEF JsonSafe, BareBody, Sends, Bodies
<1>2. CASE c \in {osdf[j], local[j]} /\ c # None
  <2>1. c \in Bundles /\ TrueOf(j, c)
    BY <1>2 DEF WorkInv, TypeOK, BundleInv, Copies
  <2>2. /\ c = [status |-> c.status, worth |-> c.worth, run |-> c.run]
        /\ c.status \in {"success", "failure"} /\ c.run \in 1 .. MaxRuns
    BY <2>1 DEF Bundles
  <2> HIDE DEF c
  <2>3. b = [status |-> c.status, worth |-> "plain", run |-> c.run]
    BY <2>2 DEF JsonSafe, Sends, c
  <2>4. b \in Bodies /\ b.run # 0
    BY <2>2, <2>3 DEF Bodies, Bundles, Worths
  <2>5. TrueOf(j, b)
    BY <2>1, <2>3 DEF TrueOf
  <2> QED
    BY <2>4, <2>5
<1>3. (c = BareBody(j) /\ local[j] = None) \/ (c \in {osdf[j], local[j]} /\ c # None)
  BY DEF BuildBody, FallBack
<1> QED
  BY <1>1, <1>2, <1>3

\* A callback is POSTed and taken, or not: what it tells is true either way.
LEMMA PostInv ==
  ASSUME WorkInv, Post
  PROVE  WorkInv'
<1> USE WorkerAssumption DEF WorkInv
<1>1. PICK j \in cur, reached \in BOOLEAN :
        \/ Deliver(j, JsonSafe(BuildBody(j, reached)))
        \/ NotDelivered(j, JsonSafe(BuildBody(j, reached)))
  BY DEF Post
<1>2. j \in Jobs
  BY DEF TypeOK
<1> DEFINE b == JsonSafe(BuildBody(j, reached))
<1>3. Sends(b) => b \in Bodies /\ (b.run # 0 => TrueOf(j, b))
  BY <1>2, BodyIsTrue
<1>4. Deliver(j, b) \/ NotDelivered(j, b)
  BY <1>1
<1> HIDE DEF b
<1>5. /\ UNCHANGED <<wrapper, returned, shared, crashes>> /\ poller' = "sweep" /\ cur' = {}
      /\ told' = told \/ (Sends(b) /\ told' = [told EXCEPT ![j] = @ \cup {b}])
      /\ local' = local \/ local' = [local EXCEPT ![j] = None]
  BY <1>4 DEF Deliver, NotDelivered
<1>6. outages' \in 0 .. MaxOutages /\ posted' \subseteq Jobs /\ tried' \subseteq Jobs
  BY <1>2, <1>4 DEF Deliver, NotDelivered, TypeOK
<1>7. told' \in [Jobs -> SUBSET Bodies] /\ local' \in [Jobs -> Bundles \cup {None}]
  BY <1>2, <1>3, <1>5 DEF TypeOK
<1>8. TypeOK'
  BY <1>5, <1>6, <1>7 DEF TypeOK
<1>9. RunInv'
  BY <1>5 DEF RunInv, Over
<1>10. ASSUME NEW i \in Jobs, NEW c
       PROVE  TrueOf(i, c)' <=> TrueOf(i, c)
  BY <1>5 DEF TrueOf, Over
<1>11. ASSUME NEW i \in Jobs, NEW c \in Copies(i)', c # None
       PROVE  TrueOf(i, c)'
  <2>1. c \in Copies(i)
    BY <1>5, <1>11 DEF TypeOK, Copies
  <2> QED
    BY <1>10, <1>11, <2>1 DEF BundleInv
<1>12. ASSUME NEW i \in Jobs, NEW c \in Wrapped(i)'
       PROVE  TrueOf(i, c)'
  <2>1. c \in Wrapped(i) \/ (i = j /\ c = b /\ Sends(b) /\ b.run # 0)
    BY <1>2, <1>5, <1>12 DEF TypeOK, Wrapped
  <2> QED
    BY <1>3, <1>10, <2>1 DEF BundleInv
<1>13. BundleInv'
  BY <1>11, <1>12 DEF BundleInv
<1>14. OutputInv'
  BY <1>5 DEF TypeOK, OutputInv
<1> QED
  BY <1>8, <1>9, <1>13, <1>14

-----------------------------------------------------------------------------
(***************************************************************************)
(* The theorems                                                            *)
(***************************************************************************)
\* One step of the wrapper of any job.
LEMMA WrapperInv ==
  ASSUME WorkInv, NEW j \in Jobs, Wrapper(j)
  PROVE  WorkInv'
<1>1. CASE Start(j)
  BY <1>1, StartInv
<1>2. CASE TooFew(j)
  BY <1>2, TooFewInv
<1>3. CASE FitOne(j)
  BY <1>3, FitOneInv
<1>4. CASE FitGroup(j)
  BY <1>4, FitGroupInv
<1>5. CASE PrintBundle(j)
  BY <1>5, PrintBundleInv
<1>6. CASE PrintRaises(j) \/ Exit(j)
  BY <1>6, LeaveInv DEF PrintRaises, Exit
<1>7. CASE Upload(j)
  BY <1>7, UploadInv
<1>8. CASE UploadFails(j)
  BY <1>8, UploadFailsInv
<1> QED
  BY <1>1, <1>2, <1>3, <1>4, <1>5, <1>6, <1>7, <1>8 DEF Wrapper

\* Any step.
LEMMA NextInv == WorkInv /\ [Next]_vars => WorkInv'
<1> SUFFICES ASSUME WorkInv, [Next]_vars PROVE WorkInv'
  OBVIOUS
<1>1. ASSUME NEW j \in Jobs, Wrapper(j)
      PROVE  WorkInv'
  BY <1>1, WrapperInv
<1>2. CASE Delivery
  BY <1>2, CollectInv, RetryInv, CopyStartInv, CopyEndInv, MergeEndInv, MergeRaisesInv, PostInv
     DEF Delivery
<1>3. CASE Faults
  <2>1. ASSUME NEW j \in Jobs, Die(j)
        PROVE  WorkInv'
    BY <2>1, LeaveInv DEF Die
  <2>2. ASSUME NEW j \in Jobs, Evict(j)
        PROVE  WorkInv'
    BY <2>2, LostInv DEF Evict
  <2>3. ASSUME NEW j \in Jobs, Remove(j)
        PROVE  WorkInv'
    BY <2>3, LostInv DEF Remove
  <2> QED
    BY <1>3, <2>1, <2>2, <2>3, CrashInv DEF Faults
<1>4. CASE UNCHANGED vars
  BY <1>4, StutterInv
<1> QED
  BY <1>1, <1>2, <1>3, <1>4 DEF Next

\* Every reachable state has the types, true bundles and untouched outputs, whatever
\* the jobs, their evictions, outages and restarts.
THEOREM WorkSafe == Spec => []WorkInv
<1>1. Init => WorkInv
  BY WorkInit
<1>2. WorkInv /\ [Next]_vars => WorkInv'
  BY NextInv
<1> QED
  BY <1>1, <1>2, PTL DEF Spec

\* The invariant says so of what SkyPortal is told, too.
LEMMA InvIsTrue == WorkInv => BundlesAreTrue
<1> SUFFICES ASSUME WorkInv PROVE TypeOK /\ AnswerIsTrue
  BY DEF BundlesAreTrue
<1>1. ASSUME NEW j \in Jobs, NEW b \in Wrapped(j)
      PROVE  b.run \in 1 .. run[j] /\ (b.status = "success" <=> b.run \in fitted[j])
  <2>1. TrueOf(j, b)
    BY DEF WorkInv, BundleInv
  <2>2. run[j] \in Nat
    BY WorkerAssumption DEF WorkInv, TypeOK
  <2> QED
    BY <2>1, <2>2 DEF TrueOf, Over
<1> QED
  BY <1>1 DEF WorkInv, AnswerIsTrue

\* A bundle SkyPortal is given was built by a run of its job and says success exactly
\* when that run fitted something (bundle_for_skyportal, build_callback_body).
THEOREM WorkIsTrue == Spec => []BundlesAreTrue
BY WorkSafe, InvIsTrue, PTL

\* One step keeps the outputs of every job until its callback was taken.
LEMMA StepKeepsOutputs ==
  ASSUME WorkInv, [Next]_vars, NEW j \in Jobs, local[j] # None
  PROVE  /\ \A b \in told'[j] \ told[j] : b.run # 0
         /\ local'[j] # local[j] => j \in posted'
<1> USE DEF WorkInv
<1>1. queue[j] = "completed" /\ step[j] = "off" /\ local[j] = spool[j]
  BY DEF TypeOK, OutputInv
<1>2. ASSUME NEW i \in Jobs, Wrapper(i) \/ Die(i) \/ Evict(i) \/ Remove(i)
      PROVE  told' = told /\ local'[j] = local[j]
  <2>1. i # j
    BY <1>1, <1>2 DEF Wrapper, Start, TooFew, FitOne, FitGroup, PrintBundle, PrintRaises,
                      Upload, UploadFails, Exit, Die, Evict, Remove
  <2> QED
    BY <1>2, <2>1 DEF TypeOK, Wrapper, Start, TooFew, FitOne, FitGroup, Built, PrintBundle,
                      PrintRaises, Upload, UploadFails, Exit, Die, Leave, Evict, Remove, Lost
<1>3. ASSUME NEW i \in Jobs, Collect(i)
      PROVE  told' = told /\ local'[j] = local[j]
  BY <1>1, <1>3 DEF TypeOK, Collect
<1>4. CASE Post
  <2>1. PICK i \in cur, reached \in BOOLEAN :
          \/ Deliver(i, JsonSafe(BuildBody(i, reached)))
          \/ NotDelivered(i, JsonSafe(BuildBody(i, reached)))
    BY <1>4 DEF Post
  <2>2. i \in Jobs
    BY DEF TypeOK
  <2> DEFINE b == JsonSafe(BuildBody(i, reached))
  <2>3. i = j /\ Sends(b) => b.run # 0
    BY <2>2, BodyIsTrue
  <2>4. Deliver(i, b) \/ NotDelivered(i, b)
    BY <2>1
  <2> HIDE DEF b
  <2>5. /\ told' = told \/ (Sends(b) /\ told' = [told EXCEPT ![i] = @ \cup {b}])
        /\ local' = local \/ (local' = [local EXCEPT ![i] = None] /\ i \in posted')
    BY <2>4 DEF Deliver, NotDelivered
  <2> QED
    BY <2>2, <2>3, <2>5 DEF TypeOK
<1>5. CASE \/ \E i \in Jobs : Retry(i)
           \/ \E k \in Kernels : CopyStart(k) \/ CopyEnd(k)
           \/ MergeEnd \/ MergeRaises \/ Crash
  BY <1>5 DEF Retry, CopyStart, CopyEnd, MergeEnd, MergeRaises, Crash
<1>6. CASE UNCHANGED vars
  BY <1>6
<1> QED
  BY <1>2, <1>3, <1>4, <1>5, <1>6 DEF Next, Delivery, Faults

\* One step leaves a whole kernel of the shared cache alone.
LEMMA StepKeepsKernels ==
  ASSUME WorkInv, [Next]_vars, NEW k \in Kernels, shared[k] = "whole"
  PROVE  shared'[k] = "whole"
<1>1. CASE \E i \in Kernels : CopyStart(i) \/ CopyEnd(i)
  BY <1>1 DEF WorkInv, TypeOK, CopyStart, CopyEnd, Missing
<1>2. CASE \E j \in Jobs : Wrapper(j) \/ Die(j) \/ Evict(j) \/ Remove(j)
  BY <1>2 DEF Wrapper, Start, TooFew, FitOne, FitGroup, Built, PrintBundle, PrintRaises,
              Upload, UploadFails, Exit, Die, Leave, Evict, Remove, Lost
<1>3. CASE Crash \/ MergeEnd \/ MergeRaises \/ Post \/ \E j \in Jobs : Collect(j) \/ Retry(j)
  BY <1>3 DEF Crash, MergeEnd, MergeRaises, Post, Deliver, NotDelivered, Collect, Retry
<1>4. CASE UNCHANGED vars
  BY <1>4
<1> QED
  BY <1>1, <1>2, <1>3, <1>4 DEF Next, Delivery, Faults

\* Outputs stay until SkyPortal took the callback, whatever fails before it
\* (_remove_job_outputs), and whole kernels stay whole (_merge_jax_cache).
THEOREM WorkKeeps == Spec => DeliveryKeeps
<1>1. WorkInv /\ [Next]_vars => [\A j \in Jobs : local[j] # None =>
          /\ \A b \in told'[j] \ told[j] : b.run # 0
          /\ local'[j] # local[j] => j \in posted']_vars
  BY StepKeepsOutputs
<1>2. WorkInv /\ [Next]_vars =>
          [\A k \in Kernels : shared[k] = "whole" => shared'[k] = "whole"]_vars
  BY StepKeepsKernels
<1> QED
  BY <1>1, <1>2, WorkSafe, PTL DEF Spec, DeliveryKeeps, OutputsOutlive, KernelsKept
=============================================================================
