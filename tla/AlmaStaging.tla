---------------------------- MODULE AlmaStaging ----------------------------
(***************************************************************************)
(* Submits of ALMA reductions: the threads of _ALMA_POOL each fetch the    *)
(* delivered products of a request's datasets (alma_staging.stage), spool  *)
(* the small ones by the pod's disk and stream the large ones from the     *)
(* archive into the OSDF origin (osdf.upload_stream), then submit the job. *)
(* When the job is over the poller deletes what was streamed.              *)
(*                                                                         *)
(* The threads share the pod's disk and osdf.py's two caches: the origin   *)
(* that takes writes, and the token minted from the keypair.  Meanwhile    *)
(* time passes, the origin moves, and every call over the network may      *)
(* fail.  A file is [id, role, offered, listed, size]: whether the archive *)
(* gives a URL for it, the length it gives, and its true one.              *)
(***************************************************************************)
EXTENDS Integers, Sequences, FiniteSets, SequencesExt, Subsequence, Sums

CONSTANTS
    Threads,           \* the workers of _ALMA_POOL, each with one request
    Asked,             \* [Threads -> [explicit, annotations]]
    RowsOf,            \* [dataset uid -> sequence of files the archive lists]
    Unreadable,        \* datasets whose datalink query raises
    MaxBytes, MaxDatasets, MaxFileBytes, MinFree, Disk,
    Settings,          \* configurations: [osdf, auxiliary, spool]
    TokenLife, Margin, \* life of a minted token, TOKEN_REFRESH_MARGIN_S, in ticks
    Retries,           \* _OSDF_RETRIES
    CallFails, SubmitFails, DeleteFails, \* what may go wrong
    MaxMoves, MaxTicks \* bounds: moves of the origin, ticks of the clock

Files == UNION {ToSet(RowsOf[d]) : d \in DOMAIN RowsOf}

ASSUME AlmaAssumption ==
    /\ IsFiniteSet(Threads)
    /\ {MaxBytes, MaxDatasets, MaxFileBytes, MinFree, Disk, TokenLife, Margin, Retries,
        MaxMoves, MaxTicks} \subseteq Nat
    /\ \A d \in DOMAIN RowsOf : RowsOf[d] \in Seq(Files)
    /\ \A f \in Files : f.size \in Nat /\ f.listed \in Nat
    /\ Asked \in [Threads -> [explicit : Seq(DOMAIN RowsOf),
                               annotations : Seq([origin : STRING,
                                                  datasets : Seq(DOMAIN RowsOf)])]]
    /\ Settings \subseteq [osdf : BOOLEAN, auxiliary : BOOLEAN, spool : BOOLEAN]
    /\ {CallFails, SubmitFails, DeleteFails} \subseteq BOOLEAN

VARIABLES
    conf,      \* the configuration
    pc,        \* where each thread is
    uids,      \* the datasets it has not come to yet
    plan,      \* the files of the dataset in hand it has not come to yet
    anyStaged, taken, budget, bytes, \* stage's locals
    transfer,  \* the files it ships: spooled, or by their URL at the origin
    attempt, base, held, waited, \* of an upload: the try, the origin, the token's life
                                 \* and how long it is in hand
    mishaps,   \* threads whose notes tell of a skipped or failed file
    free,      \* free bytes on the pod's disk
    onDisk,    \* [Threads -> files under staging/<uuid>/alma]
    objects,   \* [Threads -> what is under <url_base>/<uuid>: whole and partial files]
    record,    \* [Threads -> osdf_staged of the job's record]
    origin, cached,      \* where writes go; _write_origin_cache
    token,     \* what is left of the token in _token_cache, 0 if none
    moves, ticks, probes

local == <<uids, plan, anyStaged, taken, budget, bytes, transfer, mishaps>>
upload == <<attempt, base, held, waited, probes>>
pod == <<free, onDisk>>
store == <<objects, record>>
shared == <<conf, origin, cached, token, moves, ticks>>
vars == <<pc, local, upload, pod, store, shared>>

Goto(t, at) == pc' = [pc EXCEPT ![t] = at]
Set(f, t, v) == [f EXCEPT ![t] = v]

-----------------------------------------------------------------------------
(***************************************************************************)
(* dataset_uids, classify_products, staging_plan                           *)
(***************************************************************************)
DatasetUids(req) ==
    LET rows == req.annotations
        recorded == {i \in DOMAIN rows : rows[i].origin = "alma-archive" /\ rows[i].datasets # <<>>}
    IN IF req.explicit # <<>> THEN req.explicit
       ELSE IF recorded # {} THEN Head(Picked(rows, recorded)).datasets ELSE <<>>

StagingPlan(uid) ==
    LET rows == RowsOf[uid]
        offered(role) == Picked(rows, {i \in DOMAIN rows : rows[i].offered /\ rows[i].role = role})
    IN offered("#this") \o IF conf.auxiliary THEN offered("#auxiliary") ELSE <<>>

\* Sums over the files: a byte is a place in one of them.
TotalListed(files) == Volume([i \in DOMAIN files |-> files[i].listed])
SumOfSizes(files) == Volume([f \in files |-> f.size])
Oversized(f) == MaxFileBytes > 0 /\ f.listed > MaxFileBytes

-----------------------------------------------------------------------------
(***************************************************************************)
(* stage: datasets                                                         *)
(***************************************************************************)
Start(t) ==
    /\ pc[t] = "idle"
    /\ Goto(t, "dataset")
    /\ uids' = Set(uids, t, DatasetUids(Asked[t]))
    /\ UNCHANGED <<plan, anyStaged, taken, budget, bytes, transfer, mishaps, upload, pod,
                   store, shared>>

Enough(t) == MaxDatasets > 0 /\ taken[t] >= MaxDatasets

\* A dataset the archive cannot list, with nothing on offer, or over the budget.
DatasetSkipped(t) ==
    /\ pc[t] = "dataset" /\ uids[t] # <<>> /\ ~Enough(t)
    /\ \/ Head(uids[t]) \in Unreadable
       \/ StagingPlan(Head(uids[t])) = <<>>
       \/ TotalListed(StagingPlan(Head(uids[t]))) > budget[t]
    /\ uids' = [uids EXCEPT ![t] = Tail(@)]
    /\ UNCHANGED <<pc, plan, anyStaged, taken, budget, bytes, transfer, mishaps, upload, pod,
                   store, shared>>
DatasetChosen(t) ==
    /\ pc[t] = "dataset" /\ uids[t] # <<>> /\ ~Enough(t)
    /\ LET files == StagingPlan(Head(uids[t])) IN
         /\ Head(uids[t]) \notin Unreadable
         /\ files # <<>> /\ TotalListed(files) <= budget[t]
         /\ plan' = Set(plan, t, files)
    /\ anyStaged' = Set(anyStaged, t, FALSE)
    /\ uids' = [uids EXCEPT ![t] = Tail(@)]
    /\ Goto(t, "file")
    /\ UNCHANGED <<taken, budget, bytes, transfer, mishaps, upload, pod, store, shared>>
DatasetsEnd(t) ==
    /\ pc[t] = "dataset" /\ (uids[t] = <<>> \/ Enough(t))
    /\ Goto(t, "submit")
    /\ UNCHANGED <<local, upload, pod, store, shared>>

Bug_StuckDataset(t) ==
    /\ pc[t] = "file" /\ plan[t] = <<>> /\ anyStaged[t]
    /\ taken' = [taken EXCEPT ![t] = @ + 1]
    /\ Goto(t, "dataset")
    /\ UNCHANGED <<uids, plan, anyStaged, budget, bytes, transfer, mishaps, upload, pod,
                   store, shared>>
\* After the files of a dataset.
DatasetDone(t) ==
    /\ pc[t] = "file" /\ plan[t] = <<>>
    /\ taken' = [taken EXCEPT ![t] = @ + IF anyStaged[t] THEN 1 ELSE 0]
    /\ Goto(t, "dataset")
    /\ UNCHANGED <<uids, plan, anyStaged, budget, bytes, transfer, mishaps, upload, pod,
                   store, shared>>

-----------------------------------------------------------------------------
(***************************************************************************)
(* stage: files                                                            *)
(***************************************************************************)
File(t) == Head(plan[t])
AtFile(t) == pc[t] = "file" /\ plan[t] # <<>>

\* A note, and on to the next file.
Skip(t) ==
    /\ plan' = [plan EXCEPT ![t] = Tail(@)]
    /\ mishaps' = mishaps \cup {t}
    /\ Goto(t, "file")
    /\ UNCHANGED <<uids, anyStaged, taken, budget, bytes, transfer>>

\* The file is shipped; the budget loses `spent` bytes.
Took(t, sent, spent) ==
    /\ plan' = [plan EXCEPT ![t] = Tail(@)]
    /\ transfer' = [transfer EXCEPT ![t] = @ \cup {File(t)}]
    /\ bytes' = [bytes EXCEPT ![t] = @ + sent]
    /\ budget' = [budget EXCEPT ![t] = @ - spent]
    /\ anyStaged' = Set(anyStaged, t, TRUE)
    /\ Goto(t, "file")
    /\ UNCHANGED <<uids, taken, mishaps>>

FileTooLarge(t) ==
    /\ AtFile(t) /\ Oversized(File(t)) /\ ~conf.osdf
    /\ Skip(t)
    /\ UNCHANGED <<upload, pod, store, shared>>
NoRoomOnDisk(t) ==
    /\ AtFile(t) /\ ~Oversized(File(t)) /\ free < File(t).listed + MinFree
    /\ Skip(t)
    /\ UNCHANGED <<upload, pod, store, shared>>
Bug_NoMargin(t) ==
    /\ AtFile(t) /\ ~Oversized(File(t)) /\ free >= File(t).listed
    /\ Goto(t, "spool")
    /\ UNCHANGED <<local, upload, pod, store, shared>>
SpoolStart(t) ==
    /\ AtFile(t) /\ ~Oversized(File(t)) /\ free >= File(t).listed + MinFree
    /\ Goto(t, "spool")
    /\ UNCHANGED <<local, upload, pod, store, shared>>

\* The download is on disk; or the archive fails, with all or nothing written, and
\* the exception ends the whole submit.
SpoolDone(t) ==
    /\ pc[t] = "spool"
    /\ free' = free - File(t).size
    /\ onDisk' = [onDisk EXCEPT ![t] = @ \cup {File(t)}]
    /\ Took(t, File(t).size, File(t).size)
    /\ UNCHANGED <<upload, store, shared>>
SpoolRaises(t) ==
    /\ CallFails /\ pc[t] = "spool"
    /\ \/ UNCHANGED pod
       \/ /\ free' = free - File(t).size
          /\ onDisk' = [onDisk EXCEPT ![t] = @ \cup {File(t)}]
    /\ Goto(t, "failed")
    /\ UNCHANGED <<local, upload, store, shared>>

-----------------------------------------------------------------------------
(***************************************************************************)
(* _stream_to_osdf and osdf.upload_stream                                  *)
(***************************************************************************)
UploadStart(t) ==
    /\ AtFile(t) /\ Oversized(File(t)) /\ conf.osdf
    /\ attempt' = Set(attempt, t, 0)
    /\ Goto(t, "open")
    /\ UNCHANGED <<local, base, held, waited, probes, pod, store, shared>>

\* The upload returns or raises: its locals are gone.
UploadLeft(t) ==
    /\ attempt' = Set(attempt, t, 0) /\ base' = Set(base, t, "none")
    /\ held' = Set(held, t, 0) /\ waited' = Set(waited, t, 0) /\ probes' = Set(probes, t, 0)

\* The archive GET fails or the director's or the client's answer is no use.  Any
\* exception but UploadNeedsRetry goes to stage's except, which notes it.
UploadRaises(t) ==
    /\ \/ CallFails /\ pc[t] \in {"open", "resolveAgain"}
       \/ CallFails /\ pc[t] = "mint" /\ token <= Margin
    /\ Skip(t) /\ UploadLeft(t)
    /\ UNCHANGED <<pod, store, shared>>

\* The archive GET is open, its stream at the start; then resolve_origin_base, from
\* the cache or by a probe of the director.
ResolveCached(t) ==
    /\ pc[t] = "open" /\ cached # "none"
    /\ base' = Set(base, t, cached)
    /\ Goto(t, "mint")
    /\ UNCHANGED <<local, attempt, held, waited, probes, pod, store, shared>>
Probe(t) ==
    /\ cached' = origin
    /\ UNCHANGED <<conf, origin, token, moves, ticks>>
ResolveProbe(t) ==
    /\ pc[t] = "open" /\ cached = "none"
    /\ Probe(t)
    /\ probes' = [probes EXCEPT ![t] = @ + 1]
    /\ base' = Set(base, t, origin)
    /\ Goto(t, "mint")
    /\ UNCHANGED <<local, attempt, held, waited, pod, store>>

\* mint_token: the cached token if it lives beyond the margin, else a new one.
Bug_NoExpiry(t) ==
    /\ pc[t] = "mint" /\ token > 0
    /\ held' = Set(held, t, token) /\ waited' = Set(waited, t, 0)
    /\ Goto(t, "put")
    /\ UNCHANGED <<local, attempt, base, probes, pod, store, shared>>
MintCached(t) ==
    /\ pc[t] = "mint" /\ token > Margin
    /\ held' = Set(held, t, token) /\ waited' = Set(waited, t, 0)
    /\ Goto(t, "put")
    /\ UNCHANGED <<local, attempt, base, probes, pod, store, shared>>
Mint(t) ==
    /\ pc[t] = "mint" /\ token <= Margin
    /\ token' = TokenLife /\ held' = Set(held, t, TokenLife) /\ waited' = Set(waited, t, 0)
    /\ Goto(t, "put")
    /\ UNCHANGED <<local, attempt, base, probes, pod, store, conf, origin, cached, moves, ticks>>

\* The origin's answer to the PUT.  It took the whole file; or it refused it, as it
\* does with an expired token;
\* or it is no longer the origin and redirects; or the connection broke, or the
\* stream was not as long as listed, with part of the file or nothing there.
Keep(t, whole) == {o \in objects[t] : o.file # File(t)} \cup {[file |-> File(t), whole |-> whole]}
Sent(t) == pc[t] = "put" /\ base[t] = origin /\ held[t] > 0

Bug_NoCount(t) ==
    /\ Sent(t)
    /\ objects' = Set(objects, t, Keep(t, File(t).size = File(t).listed))
    /\ Took(t, File(t).listed, File(t).listed) /\ UploadLeft(t)
    /\ UNCHANGED <<pod, record, shared>>
PutDone(t) ==
    /\ Sent(t) /\ File(t).size = File(t).listed
    /\ objects' = Set(objects, t, Keep(t, TRUE))
    /\ Took(t, File(t).listed, File(t).listed) /\ UploadLeft(t)
    /\ UNCHANGED <<pod, record, shared>>
PutTruncated(t) ==
    /\ Sent(t) /\ (CallFails \/ File(t).size # File(t).listed)
    /\ \E at \in {objects[t], Keep(t, FALSE)} : objects' = Set(objects, t, at)
    /\ Skip(t) /\ UploadLeft(t)
    /\ UNCHANGED <<pod, record, shared>>
PutRefused(t) ==
    /\ pc[t] = "put" /\ base[t] = origin /\ (CallFails \/ held[t] = 0)
    /\ Skip(t) /\ UploadLeft(t)
    /\ UNCHANGED <<pod, store, shared>>
PutRedirected(t) ==
    /\ pc[t] = "put" /\ base[t] # origin
    /\ Goto(t, "resolveAgain")
    /\ UNCHANGED <<local, upload, pod, store, shared>>

\* The forced probe, then UploadNeedsRetry: one more try, or the exception.
NeedsRetry(t) ==
    /\ pc[t] = "resolveAgain"
    /\ Probe(t)
    /\ IF attempt[t] + 1 < Retries
         THEN /\ attempt' = [attempt EXCEPT ![t] = @ + 1]
              /\ probes' = [probes EXCEPT ![t] = @ + 1]
              /\ Goto(t, "open") /\ UNCHANGED <<local, base, held, waited>>
         ELSE Skip(t) /\ UploadLeft(t)
    /\ UNCHANGED <<pod, store>>

-----------------------------------------------------------------------------
(***************************************************************************)
(* submit_job after staging; the job's end; the world                      *)
(***************************************************************************)
Urls(t) == {f \in transfer[t] : Oversized(f)}
Submit(t) ==
    /\ pc[t] = "submit"
    /\ record' = Set(record, t, Urls(t))
    /\ IF conf.spool
         THEN /\ free' = free + SumOfSizes(onDisk[t])
              /\ onDisk' = Set(onDisk, t, {})
         ELSE UNCHANGED pod
    /\ Goto(t, "job")
    /\ UNCHANGED <<local, upload, objects, shared>>
SubmitRaises(t) ==
    /\ SubmitFails /\ pc[t] = "submit"
    /\ Goto(t, "failed")
    /\ UNCHANGED <<local, upload, pod, store, shared>>

\* delete_object, of several; _cleanup_osdf_inputs: a delete that fails keeps its URL.
Without(t, files) == {o \in objects[t] : o.file \notin files}
Cleanup(t) ==
    /\ pc[t] = "job"
    /\ \E kept \in SUBSET record[t] :
         /\ kept # {} => DeleteFails
         /\ record' = Set(record, t, kept)
         /\ objects' = Set(objects, t, Without(t, record[t] \ kept))
    /\ Goto(t, "over")
    /\ UNCHANGED <<local, upload, pod, shared>>

\* Less than the margin passes between taking a token and sending the PUT.
Tick ==
    /\ ticks < MaxTicks
    /\ \A t \in Threads : pc[t] = "put" => waited[t] + 1 < Margin
    /\ ticks' = ticks + 1
    /\ token' = IF token > 0 THEN token - 1 ELSE 0
    /\ held' = [t \in Threads |-> IF held[t] > 0 THEN held[t] - 1 ELSE 0]
    /\ waited' = [t \in Threads |-> IF pc[t] = "put" THEN waited[t] + 1 ELSE 0]
    /\ UNCHANGED <<pc, local, attempt, base, probes, pod, store, conf, origin, cached, moves>>
Move ==
    /\ moves < MaxMoves
    /\ moves' = moves + 1
    /\ origin' = IF origin = "east" THEN "west" ELSE "east"
    /\ UNCHANGED <<pc, local, upload, pod, store, conf, cached, token, ticks>>

Init ==
    /\ conf \in Settings
    /\ pc = [t \in Threads |-> "idle"]
    /\ uids = [t \in Threads |-> <<>>] /\ plan = [t \in Threads |-> <<>>]
    /\ anyStaged = [t \in Threads |-> FALSE] /\ taken = [t \in Threads |-> 0]
    /\ budget = [t \in Threads |-> MaxBytes] /\ bytes = [t \in Threads |-> 0]
    /\ transfer = [t \in Threads |-> {}] /\ mishaps = {}
    /\ attempt = [t \in Threads |-> 0] /\ base = [t \in Threads |-> "none"]
    /\ held = [t \in Threads |-> 0] /\ waited = [t \in Threads |-> 0]
    /\ probes = [t \in Threads |-> 0]
    /\ free = Disk /\ onDisk = [t \in Threads |-> {}]
    /\ objects = [t \in Threads |-> {}] /\ record = [t \in Threads |-> {}]
    /\ origin = "east" /\ cached = "none" /\ token = 0 /\ moves = 0 /\ ticks = 0

Staging(t) ==
    \/ Start(t) \/ DatasetSkipped(t) \/ DatasetChosen(t) \/ DatasetsEnd(t) \/ DatasetDone(t)
    \/ FileTooLarge(t) \/ NoRoomOnDisk(t) \/ SpoolStart(t) \/ SpoolDone(t) \/ SpoolRaises(t)
    \/ UploadStart(t) \/ UploadRaises(t) \/ ResolveCached(t) \/ ResolveProbe(t)
    \/ MintCached(t) \/ Mint(t) \/ PutDone(t) \/ PutTruncated(t) \/ PutRefused(t)
    \/ PutRedirected(t) \/ NeedsRetry(t)
Next == Tick \/ Move \/ \E t \in Threads : Staging(t) \/ Submit(t) \/ SubmitRaises(t) \/ Cleanup(t)

\* A thread of the pool runs until its request is submitted or fails; calls over the
\* network have timeouts, so each of them ends.
Fairness == \A t \in Threads : WF_vars(Staging(t) \/ Submit(t) \/ SubmitRaises(t))
Spec == Init /\ [][Next]_vars /\ Fairness

-----------------------------------------------------------------------------
(***************************************************************************)
(* What the properties need of constants and archives, and the code does   *)
(* not enforce                                                             *)
(***************************************************************************)
\* A fresh token outlives the margin, and an upload is tried at all.
Sensible == TokenLife > Margin /\ Retries > 0

\* No file is longer than the archive says, if it is to be spooled.
AsListed == \A f \in Files : ~Oversized(f) => f.size <= f.listed

\* What is kept free is enough for all threads but one to fill it at once.
DiskShared == MaxFileBytes > 0 /\ (Cardinality(Threads) - 1) * MaxFileBytes <= MinFree

\* A request names no dataset twice, and no file is listed twice.
NoRepeats ==
    /\ \A t \in Threads : IsInjective(DatasetUids(Asked[t]))
    /\ \A d \in DOMAIN RowsOf : IsInjective(RowsOf[d])
    /\ \A d, e \in DOMAIN RowsOf : d # e => ToSet(RowsOf[d]) \cap ToSet(RowsOf[e]) = {}

-----------------------------------------------------------------------------
(***************************************************************************)
(* Properties                                                              *)
(***************************************************************************)
TypeOK ==
    /\ pc \in [Threads -> {"idle", "dataset", "file", "spool", "open", "mint", "put",
                           "resolveAgain", "submit", "job", "over", "failed"}]
    /\ taken \in [Threads -> Nat] /\ budget \in [Threads -> Int] /\ bytes \in [Threads -> Nat]
    /\ transfer \in [Threads -> SUBSET Files] /\ mishaps \subseteq Threads
    /\ attempt \in [Threads -> Nat] /\ free \in Int
    /\ held \in [Threads -> 0..TokenLife] /\ token \in 0..TokenLife
    /\ onDisk \in [Threads -> SUBSET Files] /\ record \in [Threads -> SUBSET Files]
    /\ \A t \in Threads : objects[t] \subseteq [file : Files, whole : BOOLEAN]

\* "a download can never fill the shared web pod's root filesystem": each thread
\* looks at the free space before its download, and the others write between its
\* look and its last byte.
NeverFull == free >= 0

\* What a job is told to take with it is whole: on disk until the spool, at the
\* origin from the PUT on.  A stream cut short is never shipped.
ShippedIsWhole ==
    \A t \in Threads : pc[t] \in {"dataset", "file", "submit"} => \A f \in transfer[t] :
        IF Oversized(f) THEN [file |-> f, whole |-> TRUE] \in objects[t]
        ELSE f \in onDisk[t]

\* The volume that sizes the job's disk and runtime is that of what it takes along.
SizedRight == \A t \in Threads : bytes[t] = SumOfSizes(transfer[t])

\* A job carries no more than the byte budget and the datasets it may.
Bounded ==
    \A t \in Threads :
        /\ bytes[t] <= MaxBytes
        /\ MaxDatasets > 0 =>
             Cardinality({d \in ToSet(DatasetUids(Asked[t])) :
                            ToSet(StagingPlan(d)) \cap transfer[t] # {}}) <= MaxDatasets

\* "stopping at those would strand a request whose usable data sits further down":
\* when nothing went wrong and a dataset was fit to be staged, something is shipped.
NotStranded ==
    \A t \in Threads : pc[t] = "submit" /\ transfer[t] = {} =>
        \/ t \in mishaps
        \/ \A d \in ToSet(DatasetUids(Asked[t])) :
              \/ d \in Unreadable \/ StagingPlan(d) = <<>>
              \/ TotalListed(StagingPlan(d)) > MaxBytes

\* "a late retry does not reuse a stale one": no PUT is sent with an expired token,
\* whoever minted it and however often the upload has been retried.
FreshToken == \A t \in Threads : pc[t] = "put" => held[t] > 0

\* An origin that keeps moving "cannot become a probe loop around every transfer":
\* an upload in hand has asked the director once for each of its tries.
ProbesBounded == \A t \in Threads : probes[t] <= Retries

\* A whole object of a submitted job is in the job's record until it is deleted, so
\* that the poller (or a restart) still finds it.
StagedIsRecorded ==
    \A t \in Threads : pc[t] \in {"job", "over"} =>
        \A o \in objects[t] : o.whole => o.file \in record[t]

\* "Staged products are removed when the job reaches a terminal state; nothing else
\* ever deletes them": once every request is over and its deletes went through,
\* nothing of it is left at the origin.  The code does not satisfy it: TLC finds a submit
\* that fails after a product was staged.
NoOrphans ==
    (\A t \in Threads : pc[t] \in {"over", "failed"} /\ record[t] = {})
        => \A t \in Threads : objects[t] = {}

\* Every request's staging comes to an end: a submitted job or a failed submit.
StagingEnds == \A t \in Threads : <>(pc[t] \in {"job", "over", "failed"})

\* What a thread takes along, between and over the failures of its calls: whole, counted
\* right, within its limits, not less than it could, and in the record afterwards.
StagingIsSound ==
    /\ TypeOK
    /\ ShippedIsWhole /\ SizedRight /\ StagedIsRecorded
    /\ Bounded /\ NotStranded /\ ProbesBounded
=============================================================================
