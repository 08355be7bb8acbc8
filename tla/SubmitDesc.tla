----------------------------- MODULE SubmitDesc -----------------------------
(***************************************************************************)
(* What main.py asks of HTCondor for a request.  A request takes one of    *)
(* two paths to the schedd: submit_job describes one job, and the batch    *)
(* flusher groups requests by _submit_signature and describes each group   *)
(* by its first member (submit_jobs_batch), with what differs between the  *)
(* jobs of a cluster supplied as itemdata.  Both leave a JobRecord in JOBS *)
(* and stamp on the job what a restart rebuilds that record from.          *)
(*                                                                         *)
(* A description is a record: text is replaced by the values it is made    *)
(* of, requirements by the set of their conjuncts, a file list by the set  *)
(* of what it names.                                                       *)
(***************************************************************************)
EXTENDS Naturals, Sequences, Subsequence

CONSTANTS
    Configs,     \* plugin configurations
    Items,       \* requests: [params, name, callback, alma]
    MaxRequests, \* bound: requests in a behaviour
    Spelling(_)  \* what strip() and lower() make of a wrapper's name

\* The knobs of a request and of the defaults; "" and 0 stand for what a
\* configuration leaves out.
Numbers == {"request_cpus", "request_memory", "request_disk", "max_runtime_seconds",
            "request_gpus"}
Settings == Numbers \cup
    {"gpu_requirements", "require_gpus", "singularity_image", "gpu_singularity_image",
     "use_oauth_services", "accounting_group", "accounting_group_user", "pools"}

\* Numbers are numbers, and an IGWN AP comes with its credentials.
ASSUME SubmitAssumption ==
    /\ MaxRequests \in Nat
    /\ \A c \in Configs : /\ Settings \subseteq DOMAIN c.defaults
                          /\ \A k \in Numbers : c.defaults[k] \in Nat
                          /\ c.igwn_wrappers # {} => "use_oauth_services" \in DOMAIN c.igwn
    /\ \A item \in Items : /\ item.alma.mb \in Nat
                            /\ \A k \in Numbers \cap DOMAIN item.params : item.params[k] \in Nat

VARIABLES
    cfg,      \* the configuration
    arrived,  \* how many requests have come
    queue,    \* _BATCH_QUEUE, in the flusher's hands
    cluster,  \* the last cluster id
    jobs      \* the submitted jobs: key, request, description, record

vars == <<cfg, arrived, queue, cluster, jobs>>

Get(f, k, default) == IF k \in DOMAIN f THEN f[k] ELSE default
With(f, g) == [k \in DOMAIN f \cup DOMAIN g |-> IF k \in DOMAIN g THEN g[k] ELSE f[k]]
Nothing == [k \in {} |-> {}]

-----------------------------------------------------------------------------
(***************************************************************************)
(* Tables and defaults                                                     *)
(***************************************************************************)
WrapperOf(p) == Spelling(Get(p, "wrapper", ""))

\* The wrappers with an image of their own, and those with an entrypoint.
ImageOwners == {"pygrb", "ngsf", "snid", "mosfit", "aframe", "flare", "oracle", "fleet",
                "jax_snana", "redback"}
Named == ImageOwners \cup {"periodfind", "alma"}

Resources(w) ==
    CASE w \in {"pygrb", "aframe"} ->
            [request_disk |-> 16384, request_memory |-> 8192, max_runtime_seconds |-> 7200]
      [] w = "fleet"   -> [request_disk |-> 3072]
      [] w = "redback" -> [request_gpus |-> 1, request_memory |-> 24576]
      [] OTHER -> Nothing

\* Entrypoint and bridges; redback runs in fiesta's wrapper with its own bridge
\* alone, and whatever has no name of its own runs fiesta's with both.
Runtime(w) ==
    CASE w = "redback"   -> [entry |-> "fiesta", files |-> {"fiesta_wrapper", "redback_bridge"}]
      [] w \notin Named  -> [entry |-> "fiesta",
                             files |-> {"fiesta_wrapper", "fiesta_bridge", "redback_bridge"}]
      [] OTHER -> [entry |-> w, files |-> {w}]
WrapperSpec(w) ==
    [Runtime(w) EXCEPT !.files =
        @ \cup IF w \in {"pygrb", "aframe"} THEN {"igwn_strain", "pelican"} ELSE {}]

Phenomenological == {"bazinmodel", "villarmodel", "phenomenologicaltdemodel"}
Bug_CudaWithoutGpu(w, p, d) ==
    IF w \in Named \/ Get(p, "source", Get(d, "source", "")) \in Phenomenological THEN Nothing
    ELSE [request_memory |-> 6144, request_gpus |-> 1,
          singularity_image |-> d["gpu_singularity_image"]]
FiestaOverrides(w, p, d) ==
    IF \/ w \in Named
       \/ /\ Get(p, "backend", "fiesta") = "fiesta"
          /\ Get(p, "source", Get(d, "source", "")) \in Phenomenological
    THEN Nothing
    ELSE IF d["gpu_singularity_image"] # "" /\ Get(p, "request_gpus", 1) > 0
         THEN [request_memory |-> 6144, request_gpus |-> 1,
               singularity_image |-> d["gpu_singularity_image"]]
         ELSE [request_memory |-> 6144]

UsesWrapper(p) ==
    \/ WrapperOf(p) \in Named \cup {"fiesta"}
    \/ Get(p, "use_wrapper", cfg.use_wrapper)

OwnImage(w, p, ad) ==
    IF Get(p, "singularity_image", "") = "" /\ w \in ImageOwners
    THEN With(ad, [image |-> w]) ELSE ad

\* _apply_gpu_and_image; "" and 0 stand for what is not asked for.
GpuAndImage(p, d, ad) ==
    LET gpus == Get(p, "request_gpus", d["request_gpus"])
        image == Get(p, "singularity_image", d["singularity_image"])
    IN With(ad, [image |-> image, gpus |-> gpus,
            requirements |-> ad.requirements \cup
                IF gpus > 0 THEN {Get(p, "gpu_requirements", d["gpu_requirements"])} \ {""} ELSE {},
            require_gpus |-> IF gpus > 0 THEN Get(p, "require_gpus", d["require_gpus"]) ELSE ""])

\* _apply_igwn_ap
IgwnKnobs(p, d, ad) ==
    LET acct == Get(p, "accounting_group", d["accounting_group"]) IN
    With(ad, [use_oauth_services |-> Get(p, "use_oauth_services", d["use_oauth_services"]),
              accounting_group |-> acct,
              accounting_group_user |->
                IF acct = "" THEN ""
                ELSE Get(p, "accounting_group_user", d["accounting_group_user"]),
              pools |-> Get(p, "pools", d["pools"])])

\* The knobs a submit description takes from the request, else from d.
Asked(p, d) ==
    [cpus |-> Get(p, "request_cpus", d["request_cpus"]),
     memory |-> Get(p, "request_memory", d["request_memory"]),
     disk |-> Get(p, "request_disk", d["request_disk"]),
     runtime |-> Get(p, "max_runtime_seconds", d["max_runtime_seconds"])]
CpuRequirements(p, d) ==
    {"linux", Get(p, "cpu_requirements", Get(d, "cpu_requirements", "v3"))} \ {""}

-----------------------------------------------------------------------------
(***************************************************************************)
(* aframe_staging and what _stage_wrapper_job adds for a job               *)
(***************************************************************************)
Models == {"weights", "config", "background"}

\* A model's source: [kind, name] -- "" (none), "local", "missing" (a path where
\* nothing is), "osdf" or "igwn" (a URL with a credential prefix) -- and the last
\* part of its path.
PassedOn(src) == cfg.transfer_urls /\ src.kind \in {"osdf", "igwn"}

\* The files and URLs staged, and the name each has on the worker.
StageModels ==
    {[kind |-> IF PassedOn(cfg.aframe[k]) THEN cfg.aframe[k].kind ELSE "local",
      name |-> IF PassedOn(cfg.aframe[k]) THEN cfg.aframe[k].name ELSE k]
        : k \in {m \in Models : cfg.aframe[m].kind \notin {"", "missing"}}}

\* The names the bridge is told to read; its own default is the canonical one.
ModelNames(p) ==
    IF cfg.transfer_urls
    THEN With([k \in {m \in Models : cfg.aframe[m].kind # ""} |-> cfg.aframe[k].name], p)
    ELSE p

\* What the stage of a wrapper puts in the transfer list, each with its kind.
Staged(w, item) ==
    CASE w = "aframe" -> StageModels
      [] w = "alma" -> item.alma.files
      [] w \in {"oracle", "fleet"} \/ (w = "flare" /\ cfg.flare_context) ->
            {[kind |-> "local", name |-> w]}
      [] OTHER -> {}

\* 2.5 and 2 times what was staged, in MB, with room for the products.
Bug_AlmaAlways(mb, p, d) == [disk |-> (5 * mb) \div 2 + 1024, runtime |-> 2 * mb + 1800]
AlmaSizing(mb, p, d) ==
    LET disk == (5 * mb) \div 2 + 1024
        runtime == 2 * mb + 1800
        resized == {k \in {"request_disk", "max_runtime_seconds"} \ DOMAIN p :
                      (IF k = "request_disk" THEN disk ELSE runtime) > d[k]}
        field(k) == IF k = "request_disk" THEN "disk" ELSE "runtime"
    IN [f \in {field(k) : k \in resized} |-> IF f = "disk" THEN disk ELSE runtime]

\* JAX's shared compile cache goes with the wrappers that use JAX.
NonJax == {"periodfind", "mosfit", "pygrb", "ngsf", "snid", "alma", "aframe"}

\* The overrides of _stage_wrapper_job for a request that is wrapped.
WrapperOverrides(w, p, item) ==
    LET spec == WrapperSpec(w)
        own == OwnImage(w, p, [entry |-> spec.entry, files |-> spec.files, inputs |-> p,
                               staged |-> Staged(w, item),
                               cache |-> w \notin NonJax /\ cfg.jax_cache,
                               python |-> IF w = "pygrb" THEN "python" ELSE "python3",
                               threads |-> Get(p, "request_cpus", cfg.defaults["request_cpus"])])
    IN IF w = "alma" /\ item.alma.mb > 0
       THEN With(own, AlmaSizing(item.alma.mb, p, cfg.defaults)) ELSE own

\* "[u for u in transfer if str(u).startswith('osdf://')]"
Bug_AnyUrl(staged) == {f \in staged : f.kind # "local"}
OsdfStaged(staged) == {f \in staged : f.kind = "osdf"}

-----------------------------------------------------------------------------
(***************************************************************************)
(* submit_job                                                              *)
(***************************************************************************)
IgwnRouted(w) == w \in cfg.igwn_wrappers

Record(item, url, staged, ap) ==
    [analysis_name |-> item.name, callback_url |-> item.callback, osdf_output_url |-> url,
     osdf_staged |-> staged, ap |-> ap]

SingleAd(item) ==
    LET w == WrapperOf(item.params)
        p == IF w = "aframe" THEN ModelNames(item.params) ELSE item.params
        d == With(cfg.defaults, FiestaOverrides(w, p, cfg.defaults))
        res == With(d, Resources(w))
        plain == With(Asked(p, res),
                      [entry |-> Get(p, "executable", "sleep"), files |-> {}, inputs |-> p,
                       staged |-> {}, cache |-> FALSE, python |-> "", threads |-> 0,
                       requirements |-> CpuRequirements(p, d)])
        ad == IgwnKnobs(p, IF IgwnRouted(w) THEN With(d, cfg.igwn) ELSE d,
                        GpuAndImage(p, res, plain))
    IN With(IF UsesWrapper(p) THEN With(ad, WrapperOverrides(w, p, item)) ELSE ad,
            [ap |-> IF IgwnRouted(w) THEN "igwn" ELSE "default"])

SubmitJob(item) ==
    LET c == cluster + 1
        ad == SingleAd(item)
        url == IF UsesWrapper(item.params) /\ cfg.output_prefix THEN <<c, 0>> ELSE <<>>
    IN /\ cluster' = c
       /\ jobs' = jobs \cup {[key |-> <<c, 0>>, path |-> "single", item |-> item, ad |-> ad,
                              rec |-> Record(item, url, OsdfStaged(ad.staged), ad.ap)]}

-----------------------------------------------------------------------------
(***************************************************************************)
(* _submit_signature, submit_jobs_batch, _flush_batch                      *)
(***************************************************************************)
Bug_NoGpuInSignature(p) ==
    LET w == WrapperOf(p)
        d == With(With(cfg.defaults, FiestaOverrides(w, p, cfg.defaults)), Resources(w))
    IN <<Asked(p, d), Get(p, "cpu_requirements", ""), Get(p, "singularity_image", ""),
         Get(p, "wrapper", "")>>
Signature(p) ==
    LET w == WrapperOf(p)
        d == With(With(cfg.defaults, FiestaOverrides(w, p, cfg.defaults)), Resources(w))
    IN <<Asked(p, d),
         Get(p, "cpu_requirements", Get(d, "cpu_requirements", "")),
         Get(p, "singularity_image", d["singularity_image"]),
         Get(p, "request_gpus", d["request_gpus"]),
         Get(p, "gpu_requirements", d["gpu_requirements"]),
         Get(p, "wrapper", "")>>

\* The cluster ad, from the group's first request.
BatchAd(p0) ==
    LET w == WrapperOf(p0)
        d == With(With(cfg.defaults, FiestaOverrides(w, p0, cfg.defaults)), Resources(w))
        spec == WrapperSpec(w)
        plain == With(Asked(p0, d),
                      [entry |-> spec.entry, files |-> spec.files, cache |-> FALSE,
                       python |-> IF w = "pygrb" THEN "python" ELSE "python3",
                       threads |-> Get(p0, "request_cpus", d["request_cpus"]),
                       requirements |-> CpuRequirements(p0, d)])
        ad == IgwnKnobs(p0, d, OwnImage(w, p0, GpuAndImage(p0, d, plain)))
    IN With(ad, [ap |-> "default"])

\* What is a proc's own: its inputs.json and the files staged for it.
ProcFiles(w, item) ==
    [inputs |-> item.params,
     staged |-> IF w \in {"oracle", "fleet", "flare"} THEN Staged(w, item) ELSE {}]

SubmitBatch(items) ==
    LET c == cluster + 1
        p0 == items[1].params
        url(n) == IF cfg.output_prefix THEN <<c, n>> ELSE <<>>
        proc(n) ==
          LET item == items[n + 1]
          IN [key |-> <<c, n>>, path |-> "batch", item |-> item,
              ad |-> With(BatchAd(p0), ProcFiles(WrapperOf(p0), item)),
              rec |-> Record(item, url(n), {}, "default")]
    IN /\ cluster' = c
       /\ jobs' = jobs \cup {proc(n) : n \in 0..(Len(items) - 1)}

Batchable(w) == w # "alma" /\ w \notin cfg.igwn_wrappers /\ cfg.batch

Request(item) ==
    /\ arrived < MaxRequests
    /\ arrived' = arrived + 1
    /\ \/ /\ Batchable(WrapperOf(item.params))
          /\ queue' = Append(queue, item)
          /\ UNCHANGED <<cluster, jobs>>
       \/ /\ ~Batchable(WrapperOf(item.params))
          /\ SubmitJob(item)
          /\ UNCHANGED queue
    /\ UNCHANGED cfg

\* Groups go in the order of their first members.
FlushGroup ==
    /\ queue # <<>>
    /\ LET mates == {i \in DOMAIN queue :
                       Signature(queue[i].params) = Signature(queue[1].params)}
       IN /\ SubmitBatch(Picked(queue, mates))
          /\ queue' = Picked(queue, DOMAIN queue \ mates)
    /\ UNCHANGED <<cfg, arrived>>

Init ==
    /\ cfg \in Configs
    /\ arrived = 0 /\ queue = <<>> /\ cluster = 0 /\ jobs = {}

Next == FlushGroup \/ \E item \in Items : Request(item)
Spec == Init /\ [][Next]_vars

-----------------------------------------------------------------------------
(***************************************************************************)
(* What the properties below need of configurations and requests.  The     *)
(* code does not enforce it, and where it fails so does the property.      *)
(***************************************************************************)
\* No model is passed on by a plain osdf:// URL, which every input with that prefix
\* is deleted by; a model file staged by the plugin has its canonical name.
ModelsKept == \A c \in Configs : c.transfer_urls => \A m \in Models : c.aframe[m].kind # "osdf"
ModelsNamed ==
    \A c \in Configs : c.transfer_urls =>
        \A m \in Models : c.aframe[m].kind \notin {"", "missing", "osdf", "igwn"} =>
                              c.aframe[m].name = m

\* aframe and what use_wrapper turns off are not for the batch path.
Wrapped ==
    \A c \in Configs : c.batch =>
        /\ "aframe" \in c.igwn_wrappers
        /\ \A item \in Items : WrapperOf(item.params) \in Named \cup {"fiesta"} \/
                               Get(item.params, "use_wrapper", c.use_wrapper)

\* Nobody spells out the default image for a wrapper with an image of its own: to the
\* signature that is the same as naming none, to the description it is not.
ImagesDiffer ==
    \A c \in Configs, item \in Items :
        c.batch /\ WrapperOf(item.params) \in ImageOwners /\ "singularity_image" \in DOMAIN item.params
          => item.params["singularity_image"] \notin {c.defaults["singularity_image"]} \ {""}
CudaDiffers ==
    \A c \in Configs : c.defaults["gpu_singularity_image"] # "" =>
                           c.defaults["gpu_singularity_image"] # c.defaults["singularity_image"]

\* The defaults require a CPU, as config.yaml.defaults does, and nobody does so as a GPU.
CpusRequired ==
    /\ \A c \in Configs : /\ "cpu_requirements" \in DOMAIN c.defaults
                          /\ c.defaults["gpu_requirements"] # "v3"
    /\ \A item \in Items : "gpu_requirements" \in DOMAIN item.params =>
                               item.params["gpu_requirements"] # "v3"

\* Requests of one wrapper agree on the knobs _submit_signature leaves out.
Unsigned == {"require_gpus", "use_oauth_services", "accounting_group", "accounting_group_user",
             "pools"}
UnsignedAgree ==
    \A a, b \in Items : WrapperOf(a.params) = WrapperOf(b.params) =>
        \A k \in Unsigned : /\ k \in DOMAIN a.params <=> k \in DOMAIN b.params
                            /\ k \in DOMAIN a.params => a.params[k] = b.params[k]

-----------------------------------------------------------------------------
(***************************************************************************)
(* Properties                                                              *)
(***************************************************************************)
\* Every submitted job has a key and a record of its own; the batch queue holds
\* only what the batch path may take.
TypeOK ==
    /\ cfg \in Configs /\ arrived \in 0..MaxRequests /\ cluster \in Nat
    /\ queue \in Seq(Items)
    /\ \A j \in jobs : /\ j.key \in (1..cluster) \X Nat /\ j.item \in Items
                       /\ j.path \in {"single", "batch"}
                       /\ j.ad.gpus \in Nat /\ j.ad.memory \in Nat /\ j.ad.disk \in Nat

\* A job of a batch is described as submit_job would describe its request by
\* itself, whichever requests it shares the cluster with: what the signature leaves
\* out must not differ in a group ("Submit-level knobs that must match for jobs to
\* share one itemdata cluster"), and the two paths must not drift.  The JAX cache
\* only saves time and goes with single submits alone.
BatchIsSingle ==
    \A j \in jobs : j.path = "batch" =>
        LET alone == SingleAd(j.item) IN
        \A f \in (DOMAIN alone \cup DOMAIN j.ad) \ {"cache"} :
            f \in DOMAIN alone \cap DOMAIN j.ad /\ alone[f] = j.ad[f]

\* "A per-request value wins": a knob the request sets has that value in its job,
\* past defaults, floors, GPU routing, ALMA's sizing and the batch it went with.
ExplicitWins ==
    \A j \in jobs :
        LET p == j.item.params
            fieldOf == [request_cpus |-> "cpus", request_memory |-> "memory",
                        request_disk |-> "disk", max_runtime_seconds |-> "runtime",
                        request_gpus |-> "gpus"]
        IN /\ \A k \in DOMAIN fieldOf \cap DOMAIN p : j.ad[fieldOf[k]] = p[k]
           /\ "singularity_image" \in DOMAIN p /\ p.singularity_image # "" =>
                j.ad.image = p.singularity_image
           /\ "cpu_requirements" \in DOMAIN p =>
                /\ {p.cpu_requirements} \ {""} \subseteq j.ad.requirements
                /\ p.cpu_requirements = "" => "v3" \notin j.ad.requirements

\* A job of its own accord has room for what it runs: GW searches, fleet, redback
\* and physics fits their floors, an ALMA reduction its archives and what is in them.
Roomy ==
    \A j \in jobs :
        LET p == j.item.params
            w == WrapperOf(p)
            floors == With(FiestaOverrides(w, p, cfg.defaults), Resources(w))
        IN /\ \A k \in (DOMAIN floors \cap {"request_memory", "request_disk"}) \ DOMAIN p :
                 j.ad[IF k = "request_memory" THEN "memory" ELSE "disk"] >= floors[k]
           /\ w = "alma" /\ "request_disk" \notin DOMAIN p =>
                 2 * j.ad.disk >= 5 * j.item.alma.mb

\* "Pair the GPU image with the GPU request": unless the request names an image,
\* a fit gets the CUDA image with a GPU, and never without.
GpuImagePaired ==
    \A j \in jobs :
        LET p == j.item.params
            cuda == cfg.defaults["gpu_singularity_image"]
        IN cuda # "" /\ "singularity_image" \notin DOMAIN p /\ WrapperOf(p) \notin Named =>
             /\ j.ad.image = cuda => j.ad.gpus > 0
             /\ DOMAIN FiestaOverrides(WrapperOf(p), p, cfg.defaults) # {} /\ j.ad.gpus > 0
                  => j.ad.image = cuda

\* A search of the IGWN list runs on the IGWN AP with that AP's credentials, which
\* its record remembers for the poller; nothing else does.
IgwnOnItsAp ==
    \A j \in jobs :
        /\ j.rec.ap = j.ad.ap
        /\ j.ad.ap = "igwn" <=> WrapperOf(j.item.params) \in cfg.igwn_wrappers
        /\ j.ad.ap = "igwn" /\ "use_oauth_services" \notin DOMAIN j.item.params =>
              j.ad.use_oauth_services = cfg.igwn["use_oauth_services"]

\* The bridge of a search reads the model files under the names they have on the
\* worker ("so it reads what was staged").
ModelsAreFound ==
    \A j \in jobs : WrapperOf(j.item.params) = "aframe" =>
        \A k \in {m \in Models : cfg.aframe[m].kind \notin {"", "missing"}} \ DOMAIN j.item.params :
            Get(j.ad.inputs, k, k) \in {f.name : f \in j.ad.staged}

\* What a record lists for deletion at the job's end was staged for that job:
\* nobody else's files are among it ("Products staged to OSDF for this job's inputs").
StagedIsOwn ==
    \A j \in jobs : j.rec.osdf_staged \subseteq j.item.alma.files

\* A job runs as it was meant to: with the room it needs, the image that fits its GPU, and
\* its models under the names it looks for, on either path.
RunsAsMeant == Roomy /\ GpuImagePaired /\ ModelsAreFound

\* A record tells the poller the truth about its job: its own key, the AP it is on, and
\* objects of nobody else to delete.
RecordIsTrue == TypeOK /\ IgwnOnItsAp /\ StagedIsOwn
=============================================================================
