# A TLA+ model of osg-skyportal-plugin

The plugin takes analysis requests from SkyPortal over HTTP, submits an HTCondor job
for each to the OSG, polls the schedd until the job is over, and posts the result to
the callback URL of the request.  Its concurrent control is in `src/main.py`: one
asyncio event loop, three thread pools, and a handful of module-level lists and
dictionaries they share.  Before the submit, staging modules gather a job's inputs; on
the worker, a wrapper and a bridge run the analysis and leave a bundle.  This directory
models that control and the decisions along a request's way, checks them with TLC and
proves part of them with TLAPS.

## 1. Inventory

| component | code | state | operations |
|---|---|---|---|
| request handler | `AnalysisHandler.post` | none of its own | validate, route by wrapper, check the caps; refuse, wait, dispatch, or submit and await |
| caps | `check_caps` | reads `JOBS`, `_SUBMITTING` | total, per analysis, per (analysis, resource) |
| waiting list | `_WAITING`, `_drain_waiting`, `waiting_drainer` | a deque | append, drain every 10 s, put the blocked back in front |
| dispatch and submit tasks | `_dispatch`, `_submit_in_background`, `_forget_submitting` | `_SUBMITTING`, `_SUBMIT_POOL` (8 threads), `_ALMA_POOL` (2) | enqueue or run in a pool; record in `JOBS` or report the failure; leave `_SUBMITTING` |
| batch flusher | `batch_flusher`, `_flush_batch`, `submit_jobs_batch` | `_BATCH_QUEUE`, the batch in hand | take a first request, gather until the window ends, group by submit signature, one RPC for each group, drain at shutdown |
| shutdown | `amain._graceful`, `_release_waiting` | `_SHUTDOWN` | close the listener, release the waiting list, report what cannot be batched, wait 25 s for the flusher, stop the loop |
| poller | `poller_loop`, `poll_once`, `_poll_group`, `_remove_held` | `JOBS` (shared), `_POLL_POOL` (one thread) | group open jobs by AP, query, look up history, remove held jobs, report |
| callbacks | `build_callback_body`, `post_callback`, `_retry_callbacks` | `callback_posted`, `callback_failed_at` | post, note a failure, retry one at a time until the window ends |
| rehydration | `rehydrate_jobs`, `_adopt_ad` | `JOBS` | at startup, adopt the default AP's queue and history |
| OSDF cleanup | `_cleanup_osdf_inputs` | `osdf_staged`, `osdf_cleanup_attempts` | delete the products staged for a job that is over |
| submit description | `submit_job`, `submit_jobs_batch`, `_submit_signature`, `_stage_wrapper_job`, `_fiesta_overrides`, `aframe_staging.py` | none | resources, image, input files, AP; which requests may share a cluster; what is to be deleted at the end |
| ALMA staging | `alma_staging.py` in `_ALMA_POOL`'s two threads | pod disk, products at the origin | choose datasets and products, spool the small, stream the large |
| OSDF client | `osdf.py` | `_write_origin_cache`, `_token_cache` | upload, stream, resolve the origin, mint a token, download, delete |
| context staging | `fleet_`, `oracle_`, `flare_staging.py` | the SkyPortal database, BOOM | look up a host, an alert, cross-matches; retry; go without |
| classifiers | `fleet_`, `oracle_`, `flare_bridge.py` | on the worker | choose rows and host, merge features, run a network, name a class |
| strain lookup | `igwn_strain.py` | on the worker | find frames, fetch them by the first client that can |
| GW searches | `pygrb_bridge.py`, `aframe_bridge.py` | on the worker | window, bank, segments, statistic, triggers, false-alarm rate |
| wrappers | `*_wrapper.py` | on the worker | run a bridge once or for each model of a group, turn its result or exception into a bundle, print and upload it |
| bundle and JAX cache | `build_callback_body`, `fetch_osdf_bundle`, `_merge_jax_cache`, `_remove_job_outputs` | output files, `jax_cache_dir` | read the bundle back, merge kernels, clean up after the callback |
| other bridges | `fiesta_`, `redback_`, `ngsf_`, `mosfit_`, `snid_`, `jax_snana_`, `periodfind_`, `alma_bridge.py` | on the worker | fits by numerical codes |
| tools | `register_analysis_service.py`, `bin/`, `slim_background.py`, `containers/` | -- | run by hand |

**How they interact.**  The handler, the drainer, the flusher and `_graceful` run on the
event loop, one callback at a time; they interleave only at an `await`.  The submit
threads add to `JOBS` and take from `_SUBMITTING` between any two steps of the loop.  The
poller thread closes records between any two steps of either.  Nothing is locked: the
code relies on single list and dict operations being atomic, and on the order of its
reads.  Nothing is persisted: the schedd is the state store, and a restart rebuilds
`JOBS` from the job ads.

**What is hard here.**
* A cap check is two reads of state other threads change, and what it decides becomes
  visible to the next check only through `_SUBMITTING`.
* A request passes through up to five lists before it is a job; each hand-over removes it
  from one and adds it to another, across awaits, failures and a shutdown.
* The shutdown races the flusher, which may be waiting, gathering or awaiting an RPC.
* The sweep reads the schedd, then acts, then reports; jobs move in between, each call
  may raise, and an exception ends the sweep where it is.
* SkyPortal may be down when a job ends, or take a callback whose answer is then lost; the
  plugin may be killed at any step.
* A job's description comes from four layers of defaults, floors and overrides, on two
  paths that must agree; a batch is described by its first member.
* Two ALMA threads share a disk, a token and an origin that moves; each call may fail in
  the middle of a dataset.
* A job may run more than once, be killed anywhere, and leave a bundle in two places.
* The bridges fit data with holes: halves of integers, missing markers, detectors that were
  off, edges of windows, files cut to their tail.

PROJECT.json lists the hazards line by line, with the properties that cover each.

**What makes each component correct.**  Admission: the caps hold of what is really in
flight; every accepted request becomes exactly one job or is reported, once; the waiting
list is served in order; slow ALMA transfers starve nobody; a shutdown drops nothing.
Poller: a record is closed only if its verdict was posted or is noted for a retry;
SkyPortal hears of every finished job, hears the truth, and hears nothing more from a run
whose callback it has answered; staged inputs are there until the job is over, and gone some
time after; a restart finds every job in the queue that has a callback URL again, with what
is to be cleaned up for it.  Submit descriptions: a
batched job gets what it would have got alone; an explicit parameter wins.  Staging: what a
job is told to take with it is whole and within its budget, and is in its record.  Worker: a
bundle is of this very job and says success exactly when something was fitted, and it is
there until SkyPortal has it.  Classifiers and searches: the best host, the loudest
candidate, an honest rate, and no missing value taken for a number.

## 2. Modules

| module | what it is |
|---|---|
| `RequestLedger` | the abstract specification of the front end: a request is new, refused, waiting, in flight, a job, over, or failed; while the plugin serves, a request is taken up only if there is room |
| `Admission` | handler, caps, waiting list, dispatch, submit pools, batch flusher, shutdown; implements `RequestLedger` |
| `MCAdmission` | instances of `Admission` for TLC |
| `AdmissionProofs` | theorems about `Admission`, with proofs: types, lists, caps; where a request is, the shutdown, the order; that `Admission` implements `RequestLedger` |
| `JobLedger` | the abstract specification of the poller: what has become of each job, where the plugin stands with SkyPortal over it (no account, open, ended, owed, told, dropped), the verdicts told, the inputs staged |
| `Poller` | sweep, history, held jobs, callbacks and retries, cleanup, rehydration, restarts; implements `JobLedger` |
| `MCPoller` | instances of `Poller` for TLC |
| `PollerProofs` | theorems about `Poller`, with proofs; that it implements `JobLedger` |
| `SubmitDesc`, `MCSubmitDesc` | both ways from a request to a submit description and a record; four configurations, nine wrappers, the knobs |
| `SubmitDescProofs` | theorems about `SubmitDesc`, with proofs |
| `Subsequence`, `Sums`, `ListLemmas` | part of a list by positions (`Picked`: what a comprehension or a loop with a condition makes of it); a sum as the size of a set (`Volume`) or as the last of the partial sums (`Total`); lemmas about both |
| `AlmaStaging`, `MCAlmaStaging` | the ALMA submits of two threads, with the OSDF client's writes; two requests over an archive of six datasets |
| `Worker` | wrapper, sandbox, OSDF bundle, and the delivery of the bundle by the poller |
| `AlmaStagingProofs`, `WorkerProofs` | theorems about the two, with proofs |
| `FleetHost`, `AlertContext` | pure: FLEET's light curve, host, catalogue, and the 64-bit ids as BOOM's BSON splits them (`Bson`); ORACLE's and FLARE's rows, features, context |
| `Classify`, `MCClassify` | one classification from the handler's check to the callback's analysis, over the two |
| `ClassifyProofs` | theorems about `Classify` and the pure operators under it, with proofs |
| `SearchPlan` | pure: pygrb's parameters, window, bank, segments, triggers; aframe's false-alarm rate; the choice of a client |
| `Search`, `MCSearch` | one search on a worker, step by step, over it |
| `SearchProofs` | theorems about `Search` and the pure operators under it, with proofs |

`Classify` and `Search` compose the pure modules with what may fail around them: the pure
operators are checked against reference definitions given with the properties (the nearest
row, the whole background, the maximum over all templates and segments), in every state
the surrounding steps bring about.

### Admission

A request is a model value; what the code derives from its JSON (analysis, resource,
wrapper, signature) is given by functions on requests.  Whether its signature can be
computed, its submit fails, or its failure report gets through, is given by sets
(`Malformed`, `Faulty`, `Unreachable`).

| code | model |
|---|---|
| `_WAITING`, `_SUBMITTING`, `_BATCH_QUEUE` | `waiting`, `submitting`, `queue` |
| keys of `JOBS`; those with `completed_at` None and not terminal | `jobs`, `open` |
| a request's own pool task | `stage[r]`: pooled, running, submitted or failed, done |
| where `batch_flusher` is; its batch; the group of the RPC it awaits | `fpc`, `batch`, `group`, `final` |
| the callback in the middle of a cap check, a drain or the release, and its locals | `pc`, `item`, `seen`, `blocked` |
| `_graceful` | `phase`, `unbatched`, `timedOut` |
| what the client and SkyPortal were told | `answer`, `told`, `mute` |

`check_caps` takes two steps: `PostRead` (or `DrainPop`) copies the open jobs into `seen`,
and the step that decides reads `submitting`.  Pool threads and the poller step in
between; other event-loop callbacks do not (`pc` is not "idle").  The release of the
waiting list goes request by request for the same reason.  An await is a point where
`pc = "idle"` or where the flusher's `fpc` says what it waits for.  A worker of a pool is
free when fewer tasks run in it than it has threads (`Busy`); the flusher's RPC takes
one too.  A background task records the job in one step and leaves `_SUBMITTING` in
another, and keeps its worker until then.  Threads go on after the loop has stopped:
the interpreter joins them.

Left out: the FIFO order within a pool; the length of the batch window (it may end at any
time); the order of the groups in a batch; the drainer's period.

### Poller

| code | model |
|---|---|
| the schedd: queue, history, sandbox | `cond[j]`, `rotated`, `retrieved` |
| objects at the OSDF origin, SkyPortal's webhook | `objects`, `up` |
| keys of `JOBS`, `rec.status` | `known`, `status` |
| `completed_at`, `callback_posted`, `callback_failed_at`, `hold_reason`, `osdf_staged` set or not | membership of `closed`, `posted`, `failed`, `hold`, `left` |
| `callback_retry_seconds` over | `expired` |
| the sweep: where it is, groups to come, `open_keys` of the sweep and of the group, held jobs to remove, what the current loop has left | `pc`, `groups`, `keys`, `cur`, `overdue`, `todo` |
| a submit thread between the commit and the record | `committing` |
| the verdicts that reached SkyPortal; whether it has answered one in this run, and whether another was sent after that | `heard`, `told` |

Every loop of the sweep is one action for each job, so that everything else may step in
between.  `Abort` is an exception that only `poller_loop` catches.  `ConnectFaulty`,
`QueryFaulty` and `HistoryFaulty` name the APs whose `get_schedd`, `query` and `history`
may raise.  A job that is `"done"` has completed and waits in the queue for `retrieve`
(`Spooled`).  A callback is `Delivered` if the plugin sees a status below 500.  Otherwise
(`NotDelivered`) it reached nobody, or SkyPortal had it in some of the tries and the answer was lost
or was a 5xx (`AnswersLost`): the plugin cannot tell, notes the failure and sends it again.  Jobs
without a callback URL (`NoCallback`), or with a method other than POST (`NotPost`), are never
told; a restart looks for those with a URL only (`Asked`).

Two timing assumptions keep out steps the clock rules out: a job is not over in the moment
between its commit and its record, and a job whose record is younger than the sweep has
not been held for `held_timeout_seconds`.  The verdict is that of a job without a wrapper
bundle; `Worker` has the others.  The schedd, SkyPortal and the origin are external, modelled
from how `main.py` uses them.

`JobLedger` has no sweep and no record. In it the end of a job stays owed until SkyPortal
answers (`Owe`: what was said may have reached it) and is not told after that (`Tell`). `Fate`
maps the job's condition at the schedd to alive, ran or gone; `Account` maps the record, and
where the sweep is, to an account. Its constants are what the faults cost: `Blind`
(`ActMayFail`: the plugin may take a held job for removed that is not) and `Lossy` (some AP's
history may raise: a sweep may break off between the end of a job and its report).

### SubmitDesc

A request is a record of its `analysis_parameters` (only the keys it sets), a configuration
a record of the settings the code reads.  `SingleAd` and `BatchAd` are the two descriptions;
text becomes the set of its parts (requirements, files).  `Request` is one POST that was
admitted: it goes to the batch queue or is submitted alone; `FlushGroup` takes the requests
that share the first one's `Signature`.  Order and interleaving are `Admission`'s subject.
Requests that differ in what the signature leaves out, models given as plain `osdf://` URLs, and
the other settings of which the properties do not hold (section 3) are described by seven
operators over `Configs` and `Items`, `ModelsKept` to `UnsignedAgree`; they are the hypotheses of
the theorems, and TLC evaluates them on the instance (`PassAssumption` of `MCSubmitDesc`).

### AlmaStaging

| code | model |
|---|---|
| where a thread of `_ALMA_POOL` is in `stage`, `upload_stream`, `submit_job` | `pc[t]` |
| `stage`'s locals | `uids`, `plan`, `anyStaged`, `taken`, `budget`, `bytes`, `transfer` |
| an upload: try, origin, what its token has left | `attempt`, `base`, `held` |
| `shutil.disk_usage`, the staging directory | `free`, `onDisk` |
| the origin's objects, `osdf_staged` | `objects`, `record` |
| `_write_origin_cache`, `_token_cache` | `cached`, `token` |

The look at the free disk and the download are two steps, so are the start of an upload, the
mint of its token and the PUT.  `Tick` lets tokens age, but not past a call in hand: a
transfer takes less than the margin.  Bytes are units of which a file has at most nine; the
volume of some files is the number of their bytes (`Volume`), so that sums need no recursion.
What the properties need of an archive, a request and the settings, and the code does not
enforce, is said by four operators: `Sensible`, `AsListed`, `DiskShared`, `NoRepeats`
(section 4).  They are the hypotheses of the theorems, and TLC evaluates them on the instance
(`PassAssumption` of `MCAlmaStaging`).

### Worker

The wrapper's process is a step for each fit, for printing, uploading and exit; a job may be
evicted and start again (`run`), be killed by a signal, or be removed.  A bundle remembers
the run it is of and whether `json` can encode it.  The poller retrieves, merges the JAX
cache kernel by kernel (a restart may cut a copy short), builds the body from OSDF, stdout
or its own verdict, and posts it.

### Classify and Search

Each behaviour is one case of the instance, chosen in `Init`; every lookup, fetch or detector is
a step that may fail. Magnitudes are the bands they were measured in, so that a catalogue filled
from the wrong row or band shows. Times are whole samples; the antenna projection is left out
(the coherent statistic is the sum of aligned outputs), and what the filters hear is given by
the case. A network may fail or give any likelihoods to any of the classes; FLARE's `analyze`
also predicts what it likes and returns what it likes (`RunFlare`), and which classes have a
label is a constant (`Labelled`). At each fetch any subset of the worker's clients works, and
the command line may hang or not start (`"stuck"` in `Worlds`). The high-pass filter takes `Fir`
samples off each end of the strain. Whether scipy is there is chosen for each segment; samples
of equal strength that numpy's sort may order either way are ranked by position. A series that
has no sample, as of a window of no width, ends the search (`LibraryRaises`: numpy has no argmax
of nothing). `OnlineIsTrue` speaks of strain asked of the OSDF; a named event's public strain is
not fetched by those clients. Strain or scores that are NaN are outside the hypotheses
(`WellHeard`), and so is the rounding of a tail's cut by `--float32`.

## 3. Runs

The runs of `Admission`, `Poller`, `AlmaStaging` and `Worker` use two to five requests, threads
or jobs.  That is enough because the hard cases need few actors: two requests under one cap,
one waiting and one passing it, one batch with two groups; a job that closes and one that
raises in the same sweep; two threads before the same disk or token.  The others run one
request or two over a set of cases chosen so that every branch and every edge is met.

| run | bounds | shows |
|---|---|---|
| `AdmissionBatch` | 4 batchable requests, caps 3 / 2 / 1, `MaxWaiting` 2 (so some are refused), `MaxBatch` 2, two signatures, one failing submit whose report is lost | `TypeOK`; `EachOnce`: the lists are disjoint and repeat nothing; `CapsHold` at all three levels; `ImplementsLedger`: refinement of `RequestLedger` |
| `AdmissionMixed` | one request on each of four routes and one inherited job, total cap 2 | `OnePlace`: one place for each request; `SubmittingAccounts`: `_SUBMITTING` is exact; `NothingDropped`; `OldestFirst` under the global cap |
| `AdmissionLive` | an ALMA, a batched, an awaited and an invalid request, per-analysis cap 1, one worker in each pool | `EveryAcceptedIsSettled`; `OthersSettleDespiteAlma`: those other than ALMA, even if ALMA submits never return |
| `PollerSweep` | a batch of two spooled jobs in one cluster, holds and releases, one outage, answers that are lost, expiring retries, query, retrieve, delete and rehydration that may fail, history that forgets | `TypeOK`; `ClosedIsReported` or noted; `SilentOnceAnswered`: no callback after one was answered; `SuccessIsTrue`; `InputsKept`: staged inputs outlive the job; `ImplementsJobLedger`: refinement of `JobLedger` |
| `PollerRestart` | two jobs on an AP each, the one of igwn without a callback URL, two restarts at any step, lost answers, at ospool a query and a history that raise now and then, history that forgets | `QueueIsKnown`: the queue is known again, but for the job without a URL; `LeftIsNoted`: with what is left to clean; `OpenIsHeard`: what is open is told in the end |
| `PollerLive` | two APs of which one refuses connections, not spooled, an outage, lost answers, removals that may fail | `EveryFinishedIsHeard`, `FinishedIsCleaned` for the jobs of the other AP; `FailureIsTrue`: a failure is told only of a job that did not complete |
| `Submit` | two requests of nine wrappers with one knob or two, with and without ALMA products, under four configurations | `BatchIsSingle`: a batched job is described as it would be alone; `ExplicitWins`; `RunsAsMeant`: floors and ALMA's volume are met, CUDA images go with GPUs, searches find their models; `RecordIsTrue`: searches go to the IGWN AP, and only a job's own objects are deleted |
| `AlmaStaging` | two threads; six datasets (small and large, placeholders, gzip, too large, unreadable); budget 7, disk 5; tokens of 3 ticks with margin 2; every call may fail; two moves of the origin | `NeverFull`: the disk; `StagingIsSound`: what is shipped is whole, sized right, within its limits and in the record, usable data are not stranded, probes are bounded; `FreshToken`; `StagingEnds` |
| `Worker` | a grouped job of two models, two runs, two kernels, two lost callbacks, a restart | `BundlesAreTrue`; `DeliveryKeeps`: outputs stay until delivered, kernels stay whole; `Answered`: every job that ended |
| `Classify` | all light curves of four points over two filters, a useless one and three days; hosts of up to two rows with signed halves; 39 ORACLE and 16 FLARE cases; BOOM may fail at any try, a network in any way | `HostIsTrue`: the best host, a sound catalogue, retries before going without; `ClassIsEarned`: no marker among the features, the headline stands, the analysis arrives |
| `Search` | windows that do and do not divide, fits with and without a live event, candidates at edges and joints, level tops, with scipy and without, every mix of clients, backgrounds whole and the loudest N of them, ties included | `SearchIsWhole`: the window is tiled, the loudest found and among the triggers, no zero fill read; `WindowHoldsFit`; `OnlineIsTrue`: no detector is given up while a client works, unless the command line hangs; `ScoreIsHonest`: scores of all detectors, rates of the whole background, but at a tail's very cut |

The bounds on counters are `MaxCrashes`, `MaxOutages`, `MaxRuns`, `MaxMoves`, `MaxTicks` and
`MaxRequests`.  Deadlock is checked except where the system may really stop: when the loop has
stopped, when `JOBS` is empty and a poll changes nothing, and when the last request, job or
case of an instance is done.

Some properties are conjunctions of named parts; each part has a comment of its own in the
module.  The inductive invariants of the proof modules (`CapInv`, `PlaceInv`, `PollInv`,
`ClassInv` and the others of section 4) are in no run: they are proved.

### Where the code and its comments disagree

One run checks a property that a comment states, and TLC finds it violated by what the code
does.

| run | what happens |
|---|---|
| `PollerQueryRaises` | an AP that fails after connecting ends every sweep before the other AP's group ("a dead AP shouldn't stall other groups", main.py:1440) |

Others, met while modelling, without a run in the project.  Where a property is named, it is in
the module and TLC refutes it on an instance that lets the case happen:
* A submit the handler awaits (a GW search; any request that is not staged, when batching is
  off) is in neither `JOBS` nor `_SUBMITTING` while it runs (main.py:1670), so two POSTs pass a
  cap of one, though the caps count what is "accepted but not in JOBS yet" so that "a burst
  can't overshoot" (main.py:124).  `CapsHold`, with every request awaited.
* `server.stop()` closes the listening socket only (main.py:1767); a request on a connection
  still open is put on the waiting list after it was released, is answered "pending" and lost
  ("never drops buffered requests", main.py:1069).
* A request whose signature raises ends `batch_flusher` for good: the signatures are computed
  (main.py:1044) outside the `try` that is to "keep the loop alive" (main.py:1053).
  `FlusherAlive`, with a request in `Malformed`.
* With batching off and a staging wrapper, `CapsHold` fails another way: a background submit
  that records its job and leaves `_SUBMITTING` between the two reads of `check_caps` is
  counted in neither.
* Requests served before `rehydrate_jobs` is done are checked against an empty `JOBS`.
* A job that closes in the middle of a drain lets a younger waiting request of the same
  analysis and resource pass an older one already put aside ("oldest first", main.py:1003).
* A job that ends between two runs of the plugin is adopted as closed, or not at all
  (main.py:1167), and SkyPortal is never told (README.md:105).
* A job seen held, then released and completed before the next sweep, keeps its `hold_reason`
  on the history path (main.py:1510) and is told as a failure (config.yaml.defaults:97).
* `schedd.history` that raises leaves jobs this sweep has already closed unreported for ever.
* A callback SkyPortal took and whose answer was lost, or was a 5xx of a proxy, is sent again in
  the three tries of `post_callback`, by `_retry_callbacks`, and by later sweeps, of this run or
  of the next, while the job is in the queue: SkyPortal may get one result several times.  A 4xx
  counts as told (main.py:1389).
* `_retry_callbacks` stops at the first callback that fails (main.py:1414): one that is answered 5xx
  every time keeps those behind it from being sent until its window is over, and theirs with it.
* `OpenIsHeard` with two jobs that are to be told fails if the history raises between them: the
  first is closed and never reported (as above).  In `PollerRestart` a raising history has one
  such job in its group.
* A restart forgets the jobs without a callback URL (main.py:1230), and with them what is staged
  for them at the origin.
* The 25 s of a shutdown may run out with requests still queued (main.py:1779); they are lost.
* A restart forgets the jobs of the IGWN AP: only the default AP is queried, and an adopted
  record has no AP.
* A failed delete of staged products is not retried once the record is closed
  (tests/test_osdf_cleanup.py:39: "kept for the next poll"); while the job stays in the queue
  it is retried in every sweep, beyond `OSDF_CLEANUP_MAX_ATTEMPTS`, because nobody looks at
  what `_cleanup_osdf_inputs` returns.
* A held job whose removal fails counts as removed, and its staged inputs are deleted while
  it may still be released.
* `_submit_signature` (main.py:747) leaves out `require_gpus` and other knobs that
  `submit_jobs_batch` takes from the group's first member ("Submit-level knobs that must match
  for jobs to share one itemdata cluster").  The batch path also ignores `use_wrapper: false`
  and ships no JAX cache.
* To the signature a request that spells out the default image and one that names none are the
  same (main.py:764), but where the wrapper has an image of its own only the second gets it
  (main.py:833): in one batch both get what the first of them asked for.
* A configuration without `cpu_requirements` makes the signature of `cpu_requirements: ""` that of a
  request that says nothing, although the second gets the built-in default (main.py:763, 823).
* Every `osdf://` input is listed for deletion (main.py:548), models that many jobs share
  included, though `osdf_staged` is for "products staged to OSDF for this job's inputs"
  (main.py:95).
* With `transfer_urls`, a model that is a local file under a name of its own is staged under
  its canonical name while the bridge is told the file's (main.py:402, "so it reads what was
  staged").
* fiesta's and fleet's floors replace a larger default of the operator's.
* `callback_method: null` passes the handler on the direct paths and raises in `post_callback`
  (main.py:1385), which ends that sweep and every later one.
* A submit that fails after products were streamed leaves them at the origin, and on the
  pod's disk ("Staged products are removed when the job reaches a terminal state",
  config.yaml.defaults:162).  `NoOrphans` of `AlmaStaging`.
* `min_free_bytes` keeps a download from filling the disk if the archive gave its length and the
  other threads' downloads fit in what is kept free: 5 GiB for one more file of 5 GB, with the
  default two threads, but not with three.  A length the archive leaves out counts as 0
  (alma_staging.py:48), whatever then comes ("a download can never fill the shared web pod's
  root filesystem", alma_staging.py:151).  `NeverFull`, without `DiskShared` or `AsListed`.
* A dataset named twice is staged and counted twice, and sizes the job for twice its volume.
  `SizedRight`, without `NoRepeats`.
* A wrapper that dies without a bundle (a signal) and completes is told as a success: the
  `ExitCode` main.py:1505 asks for is never looked at ("every failure becomes a SkyPortal
  failure", fiesta_wrapper.py:284).  `FailureTold` of `Worker`.
* A kernel copied in part into the JAX cache is never replaced (main.py:1278).
* The OSDF bundle of an evicted run is preferred to the stdout of the run that completed.
* igwn_strain.py:60 asks for the scitoken the AP delivers, but a job with an OSDF output has
  `BEARER_TOKEN_FILE` set to the write token's path (main.py:433), which is not shipped with it.
  `StrainToken` of `Search`.  The module's head lists pelicanfs before CVMFS; the code
  (igwn_strain.py:55) takes CVMFS first.
* ORACLE's docstring (oracle_bridge.py:272) describes missing values the code fills otherwise:
  an alert without AllWISE gets colours of 0, and a -999 of the alert is kept from the
  annotations' answer.
* FLEET takes the nearest row when BOOM names no host (fleet_bridge.py:213) and when the host it
  names is not among the rows (225-237); a named host whose photometry or position cannot be
  used leaves the far row alone.
* A pelican command line that runs into its 900 s or cannot be executed raises out of `_pelican_get`
  (igwn_strain.py:138) before pelicanfs is tried, and the detector is given up, though the function
  says "fall back to pelicanfs" (igwn_strain.py:135).  `OnlineIsTrue` excepts it.
* The second of margin kept for the shift to the earth's centre (pygrb_bridge.py:411) loses 512
  samples to `highpass_fir` (pygrb_bridge.py:426).  At the default 2048 Hz enough is left; with
  a `sample_rate` below some 535 Hz the end of the window reads the zero fill for a detector that
  hears late.  `NoZeroFill`, with a delay of more than `Edge` - `Fir`.
* A background file of the N loudest events (`--top-k`) drops others that are as loud as its cut
  (`np.partition` keeps exactly N, slim_background.py:49), and a score equal to the cut is counted
  without them and called exact (aframe_bridge.py:145; "valid for candidates at/above `tail_min`",
  slim_background.py:11).  `TailIsExact` of `Search`; `ScoreIsHonest` excepts it.
* pygrb reports the detectors asked for, not those used; rounding can leave one sample between
  two subsegments unsearched, and a peak at a subsegment's edge is never a trigger.

### Fairness

`Admission!Fairness`: a callback that runs goes on (weak); the flusher, the shutdown and the
handler that waits for its submit get their turn among other ready callbacks (strong:
asyncio's ready queue is FIFO, and a drain may come again and again in between); a free
worker takes a task, submits and RPCs return, jobs end.  Nothing is assumed of ALMA
submits; `EveryAcceptedIsSettled` takes `AlmaReturns` as its hypothesis.  SkyPortal need
send nothing, nor anybody SIGTERM.

`Poller!Fairness`: the poller thread goes on (`poller_loop` never exits), an outage ends, a
submit thread makes its records.  Which exception or branch the poller's step takes is not
fair, so an AP may fail in every sweep, and a callback may never be answered.
`EveryFinishedIsHeard` and `OpenIsHeard` take as a hypothesis that retries that are made
again and again are answered at some time (`AnswersArrive`), `OpenIsHeard` also that the
queries of each AP and history lookups succeed again and again (`NowAndThen`).  Jobs need
not end, nor releases happen.

`AlmaStaging!Fairness`: a thread of the pool runs until its request is submitted or fails; calls
over the network have timeouts.  `Worker!Fairness`: the poll loop goes on, a slot is found for
a job and its process goes on; an outage takes a callback at most `MaxOutages` times.
`Submit`, `Classify` and `Search` have no liveness.

### Mutants

Each property has a mutant: a definition whose name begins with `Bug_`, which changes one
mapped definition as a plausible bug would (a dropped term, a missing reset, the wrong end of
a list).  With the mutant in place TLC finds the property violated under the run's own cfg.

## 4. Theorems

Every theorem is about `Spec` and holds for every value of the constants its module's named
assumptions allow; what else it needs is a hypothesis of the theorem, given here.

### The front end

`AdmissionProofs`:

* `TypeCorrect`: `TypeOK`.  It is inductive.
* `ListedOnce`: `EachOnce`.  The waiting list, the drainer's locals, the batch queue
  and the flusher's batch are disjoint and repeat nothing.  Inductive together with `TypeOK`;
  the sequence lemmas at the head of the module (what Append, Tail and concatenation do to
  the range and to distinctness) carry the proof.
* `CapsNeverExceeded`: if every request is batchable and no job is inherited, `CapsHold`.
  The invariant is `CapInv`: what the flusher handles is still in
  `_SUBMITTING`, and whatever a check has missed in `JOBS` is in `_SUBMITTING` when it reads
  that (`open \subseteq seen \cup submitting`).  So the two reads together count at least
  what is in flight, and the request that passes makes at most the limit.  `GroupSubmit` adds
  to `open` only what is in `submitting`; `GroupForget` is on the event loop, so not between
  the reads.  The hypotheses are needed: with an awaited or a background submit, or an
  inherited job, TLC finds the violations above.

The others are about all routes.  Their invariant is `PlaceInv`, in six parts, because no property
here is inductive by itself: what waits has no task and a pending answer (`ListedInv`); what a
task's stage says of its outcome, and whether the handler or the task reports it (`TaskInv`);
what the flusher's place says of its group (`FlushInv`); the places, as sets, are disjoint and
cover every accepted request (`ApartInv`); what is in `_SUBMITTING` is queued, batched or a
task (`AccountInv`), and what is queued or batched is in `_SUBMITTING` (`CountedInv`).

* `SubmittingExact`: `SubmittingAccounts`.  No hypothesis.
* `PlacedOnce`: `OnePlace`.  No hypothesis.
* `NothingLost`: `NothingDropped`, if no connection outlives `server.stop()` and no batchable
  request has a signature that raises.  `ShutInv` says that nothing enters a list behind the
  step that emptied it.  Both hypotheses are needed (above).
* `ServedInOrder`: `OldestFirst`, with only the total cap set.  `OrderInv`: the line is always the
  end of the list of arrivals.  With another cap a drain puts requests aside, and a job
  that closes in the middle of it breaks the property (above).
* `FrontEndKeepsLedger`: `ImplementsLedger`, the refinement, step by step.  `Status` maps a request
  to the ledger's statuses; `View` is the same with the lists as sets, so that `PlaceInv` says
  what each is.  A step that changes the view of a set of requests is the ledger's `Becomes`
  (`MovesBecomes`); all others stutter.  That a request is taken up only when there is room
  rests on `CapInv`.  If there is a total cap every request must be batchable, since
  `check_caps` reads `JOBS`, then `_SUBMITTING`, and misses a background submit that leaves one
  for the other in between; without a cap any route will do.  No job is inherited: an inherited
  job is no request of this run.

### The poller

`PollerProofs`, for any jobs, clusters and APs, any faults, outages and restarts:

* `PollSafe`: `PollInv`, the inductive invariant the others rest on.  None of the
  properties is inductive by itself.  That nothing is sent after an answer needs that an answer
  marks the record posted (`CountInv`) and that a post is always of an unposted record: the retries
  of a sweep are computed before the sweep, so `SweepInv` says that they stay unposted until they
  are tried.  That a success is true needs that
  `"completed"` was read from the schedd (`TruthInv`), that nothing held has told success, and
  that a submit thread never replaces the record of a job that is over (`CommittingInv`, with
  `FreshInv` for the moment of the commit).
* `PollTypes`, `PollSilent`, `PollSuccess`: `TypeOK`, `SilentOnceAnswered`, `SuccessIsTrue` follow.
* `PollNeverReopens`: the action property `NothingReopens`, of every step but a restart.  No run
  checks it by itself: that a verdict posted stays posted is part of `ImplementsJobLedger`.
* `PollReports`: if the plugin is not restarted and `history` does not raise,
  `ClosedIsReported`.  `LoopInv`, which needs neither hypothesis, follows a record through the
  sweep: closed only in the group it was taken for, and terminal from then on.  A restart
  or a raising `history` breaks the property (above).
* `PollKeepsInputs`: if `schedd.act` does what it is told, `InputsKept`.  `KeptInv` says
  that a terminal status, and a closed record, are true of the job, which rests on the query's
  having shown every job of the group that is in the queue.
* `PollSeesQueue`: `QueueIsKnown`, without a restart, or if all jobs are on the default AP and
  its rehydration succeeds: `rehydrate_jobs` asks no other.  `QueueIsKnown` and `LeftIsNoted` are
  about all jobs while the plugin has not been restarted, and after that about those with a
  callback URL (`Findable`).  `SeenInv` counts what a submit thread is about to record.
* `PollNotesStaged`: `LeftIsNoted`, without a restart or if rehydration succeeds (`NotedInv`).
* `PollFailure`: `FailureIsTrue`, if the history keeps what it was given, and either a held job is
  never released, or jobs are spooled and removals succeed, so that the plugin sees a released
  job in the queue before it is gone.  `FailInv` says that what was told a failure is
  final, `PulledInv` that nothing held was retrieved.  Without the hypotheses a job may be told as
  failed and complete (above).
* `PollerKeepsLedger`: `ImplementsJobLedger`, under no hypothesis: what the faults may cost is
  in the ledger's constants. A lost answer leaves the end owed (`NotDeliveredRefines`), an
  answer settles it (`DeliveredRefines`). `PollerSweep` checks it of an instance without
  restarts and with a history that does not raise; the ledger's `Restart`, `Restore` and `Lose`
  are in the proof. A record or its report is one step of the ledger, most steps of a sweep are
  none. `PollInv` gives that a retry is of something owed and a success of a job that ran;
  `LoopInv` that the query closes nothing, that a held job is closed in the group that will
  report it and that no closed record's report is passed over; `KeptInv` that what is noticed,
  told or deleted is of a job that is over. `Table` reads the account off the record once, and
  the lemma of an action says which account it turns (`Turns`).
* `LedgerPromises`: whatever implements `JobLedger` has `SuccessIsTrue` and, if `schedd.act`
  does what it is told, `InputsKept`: the account alone carries them, with no sweep or record
  (`PromiseInv`).

### Submit descriptions

`SubmitDescProofs`, for any requests and any configurations:

* `DescriptionsKnown`: `DescInv`.  Every job in `jobs` was described by `SingleAd` from its own
  request, or by `BatchAd` from a leader whose signature is its own request's, and both were
  batchable.  For the second, `FlushGroup` takes the first of the queue and those that share its
  signature, and what is `Picked` is in the list it is picked from, its first being the list's
  first (`ListLemmas`).  With it each property becomes a statement about the description of one
  request and its leader; lemmas say field by field what `With` of defaults, floors, overrides and
  parameters leaves.
* `RecordsAreTrue`: `RecordIsTrue`, under `ModelsKept`: every input with the `osdf://` prefix is
  listed for deletion.
* `ExplicitAlwaysWins`: `ExplicitWins`, under `CpusRequired` and `ImagesDiffer`.  A batch has its
  leader's knobs, so an explicit value wins because the signature holds it; where it holds the
  same for an explicit value and a default that is not used, the two hypotheses are needed.
* `JobsRunAsMeant`: `RunsAsMeant`, under `ModelsNamed`, `Wrapped` and `CudaDiffers`: if the CUDA
  image is everybody's default, a job without a GPU has it too.
* `BatchesAreSingles`: `BatchIsSingle`, under `Wrapped`, `ImagesDiffer`, `CpusRequired` and
  `UnsignedAgree`.  Two different functions compute the descriptions, in a different order of
  steps, and the proof compares them.

### Worker, staging, classifiers

`WorkerProofs`, for any jobs, models and kernels, any configuration, and any
number of runs, outages and restarts:

* `WorkIsTrue`: `BundlesAreTrue`.  The inductive invariant is `WorkInv`: every copy of
  a bundle, wherever it has got to, is of a run that was over when it was built, so no later
  fit of the same job changes what it says (`BundleInv`, `RunInv`).
* `WorkKeeps`: `Spec => DeliveryKeeps`.  A step of a job cannot replace what the plugin holds of
  it, because the AP has one stdout of a completed job and a completed job never runs again
  (`OutputInv`).

`AlmaStagingProofs`, for any number of threads, any requests, archives, budgets and
failures, if a new token outlives the refresh margin and an upload is tried at all
(`Sensible`: `_OSDF_RETRIES` is 2 and the margin 300 s):

* `StagingIsFresh`: `FreshToken`.  What a token has left and the time it is in hand
  together exceed the margin (`TokenInv`).
* `StagingProbes`: an upload probes the director at most `Retries` times.  The first probe of an
  upload is due only while nothing is cached, and then nobody has probed (`ProbeInv`).
* `StagingIsRecorded`: a whole object is a file the request takes along by its URL until the
  submit, and is named by the record from then on (`ObjectInv`).
* `DiskNeverFull`: `NeverFull`, if no file that is spooled is longer than the archive says
  (`AsListed`) and what is kept free is enough for all threads but one (`DiskShared`).  The
  property is not inductive: between a thread's look and its last byte the others write.
  `DiskInv` says that among the threads that download there is one for whose file there is room
  besides a full share of each of the others: the one that looked last or, once it is done,
  any other, since it took no more than a share.
* `StagingSound`: `StagingIsSound`, under `AsListed` and `NoRepeats` (no request names a
  dataset twice, no archive lists a file twice).  `SoundInv` has five parts for each request:
  what is ahead is not yet taken and what is taken is of a dataset behind (`AheadAt`, so that a
  later truncated PUT cannot replace a whole object); what is taken is whole also while an upload
  is under way (`WholeAt`); what is left of the budget and the volume make `max_bytes`, and the
  files ahead fit in it (`SumAt`); all used datasets but the one in hand are counted, and that one
  is new (`CountAt`); as long as nothing is taken or noted, every dataset behind was unfit
  (`LeftAt`).  Sums are sizes of sets of bytes, and the lemmas about them (`VolumeSplit`,
  `VolumeShift`, `TotalTail`, `SumAdd`) come from those on finite sets.

  The other steps of a thread are reduced to five effects (`Effects`), so that each part is
  proved for an effect and not for twenty actions; a step of one thread leaves the others
  as they are (`OthersSame`, `Unmoved`).

`ClassifyProofs`, for light curves, rows and annotations of any length (`ClassifyAssumption`,
`BoomAssumption` and `FleetAssumption` say what an alert and a row are):

* `ClassSafe`: `ClassInv`, in three parts: what the listener let through and what staging left in
  the directory (`StagingInv`); the catalogue and the features are functions of the case and of
  what was staged (`GivenInv`); what the bridge returned and the callback forwards
  (`ResultInv`).  With it the properties become statements about operators.
* `FleetHostIsTrue`: `HostIsTrue`.  A 64-bit id survives its two signed halves
  (`BsonRoundTrip`), a band's magnitude was measured in it or is the fill (`RecordIsMeasured`),
  the row is the named or the nearest one (`CatalogIsMeasured`).
* `ClassesAreEarned`: `ClassIsEarned`.  A feature comes from the last annotation that has it
  (`VectorIsTrue`), and no marker is left among them.  `EarnedBy` says what a headline rests on, for
  whatever the network answered; of FLARE's only that the class it predicted has a label and a
  probability, since the bridge forwards what `analyze` says.

### The searches

`SearchProofs`, for any set of detectors and delays within the margin, any window, bank, sky,
background and worker. `SearchAssumption`: the delays are within what the high-pass filter
leaves of the margin at the end (`Edge` - `Fir`) and, at the start, of the padding and the half
of the PSD stretch that the crop keeps; a low sample rate does not keep to it (above). `Search`
ends with three operators over `Cases`, the hypotheses of the theorems; TLC evaluates them on
the instance (`PassAssumption` of `MCSearch`): `WellAsked` (a request names each detector once,
its bank has a template, its times are numbers and no width is negative), `WellHeard` (signals
are finitely many and have a strength, and a score is left after the warm-up), `Recorded` (the
background file holds the events or, in a tail, so many of the loudest, the least of them its
cut; others as loud as the cut may be missing). All theorems rest on `PlanInv`: once there is a
plan, it is what Begin or Target makes of the case, so its facts are those of pure operators
(`PlanFacts`).

* `OnlineAlways`: `OnlineIsTrue`, under `WellAsked`.  `OnlineInv` says that the detectors still to
  fetch are distinct and not yet online, so that the one fetched last is online only by that
  fetch.  A detector named twice could be online by its first fetch and fail in the second.
  `FramesCome` says when a client brings the frames; a command line that hangs is excepted.
* `ScoreAlwaysHonest`: `ScoreIsHonest`, under `WellHeard` and `Recorded`.  The blocks of a file part
  its rows (`BlocksPart`), so the counts of the blocks add up to the count of the rows
  (`LoudsCount`).  By the injection from a tail's rows into the events, the rows that are as loud
  as the score are all events that are, when the score is above the cut, and some of them when it is
  at the cut or below it (`CutCounts`); below it the code says so, at the cut it does not.
* `SearchAlwaysWhole`: `SearchIsWhole`, under `WellAsked` and `WellHeard`. No part of it but the
  types is inductive. `FoundInv` follows a search: the grid of the segment in hand has, at each
  time, the loudest of the templates filtered so far and which one (`GridOf`); the candidate and
  the triggers are those of the finished segments (`BestOf`, `TrigOf`), whose detectors no later
  fetch changes (`FinishedKept`). `GridMerge` is one template, `FoundScored` one segment. The
  tiling comes from rounding to the nearest sample (`RoundedNear`): two segments that meet miss
  or share at most one (`PiecesTile`, `CutTiles`). That no zero fill is read is arithmetic on
  both crops (`GridAligned`). That the loudest peak survives (`TriggersHold`): a peak is the
  middle of a level top and is in it (`Middle`); `Spread`, given by what it must satisfy, exists
  (`SpreadIs`, adding peaks from the loudest down) and keeps the loudest; without scipy every
  sample above the threshold is kept, so the top is; and the cap keeps at most `MaxTriggers`,
  since no two have the same rank (`CapHolds`), the loudest among them (`CappedHold`).

* `WindowAlwaysHoldsFit`: `WindowHoldsFit`, under `WellAsked`, for a fit with any number of merger
  times.  `ParamsKeep` says that a live event leaves the times and widths of the request alone.
  What is left is Chebyshev's bound about the median (`FewAreOff`).  The k-th of a list is
  given by what is below it, so it has to be shown to exist (`KthIs`), as has the rounded deviation
  (`PstdevIs`); half of the list lies on either side of the median (`MedianHalves`).  Sums are
  linear and monotone (`TotalLinear`, `TotalMore`, `TotalCount`), so a polynomial in the
  deviation from the mean that bounds something at each position bounds it in sum (`Weighed`).  One
  polynomial gives that mean and median are within a deviation of each other
  (`MeanNearMedian`), another the share of the samples that are off.  The bound is of
  `nsigma` - 1 deviations because the window is centred on the median and the deviation is
  about the mean.

### Induction, and what is only model-checked

The library's induction theorems take an operator, which the provers cannot instantiate.  Over
the naturals the same can be said in first-order terms: a non-empty set of naturals has a
least element (`LeastNat`, from `NatLessThanWellFounded` and `WFMin`).  Least and last positions
of a list, and hence nearest rows, likeliest classes and last annotations, rest on that.  So do the
partial sums of a list: a recursive function is what its equation says once some function is
known to satisfy it (`PartialsExist`), and what holds of all its values is shown by way of the
set of indices at which it holds (`UpTo`).

Only model-checked is all liveness, under fairness, which is out of the prover's reach.  Every
safety property of a passing run is proved.

## 5. Not modelled

* The fits of the numerical bridges (fiesta, redback, ngsf, mosfit, snid, jax_snana, periodfind,
  alma): calls into libraries, with formatting around them.
* The text of submit descriptions, notes and messages.
* The read-only handlers and the keepalive thread: they change nothing the others read.
* `callback_retry_seconds` and `held_timeout_seconds` as clocks; the ends may come at any time.
* Cluster numbers of two APs that coincide.
* A submit that succeeds and whose spool raises.
* Tools run by hand, containers, examples.

PROJECT.json gives the reason for each.

## 6. Plan

Done: `Admission`, `RequestLedger`, `Poller`, `JobLedger`, `SubmitDesc`, `AlmaStaging`,
`Worker`, `Classify`, `Search`; the proofs of every safety property the runs of them check, the
refinements of `RequestLedger` and `JobLedger` among them.

Next, in this order:
1. `Clocks`: `held_since` over a release and a new hold between two sweeps; the retry window and
   the head-of-line order of `_retry_callbacks`.
2. The control of the remaining bridges: fiesta's and redback's priors and data selection, ngsf's
   passes.
3. `Plugin`: `Admission` and `Poller` over one `JOBS`.
