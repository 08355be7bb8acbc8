---------------------------- MODULE MCSubmitDesc ----------------------------
(***************************************************************************)
(* Instances of SubmitDesc for TLC: configurations as config.yaml.defaults *)
(* describes them, and requests that differ in one or two knobs.           *)
(***************************************************************************)
EXTENDS SubmitDesc, TLC

\* strip() and lower(): one wrapper is spelt in two ways.
Lower(w) == IF w = " Fleet" THEN "fleet" ELSE w

Plain ==
    [request_cpus |-> 1, request_memory |-> 2048, request_disk |-> 1024,
     max_runtime_seconds |-> 3600, cpu_requirements |-> "v3", singularity_image |-> "fiesta.sif",
     request_gpus |-> 0, gpu_requirements |-> "", require_gpus |-> "driver13",
     gpu_singularity_image |-> "", use_oauth_services |-> "", accounting_group |-> "",
     accounting_group_user |-> "", pools |-> ""]
NoModels == [m \in Models |-> [kind |-> "", name |-> ""]]
Urls(kind, name) ==
    [m \in Models |-> [kind |-> kind, name |-> IF m = "config" THEN name ELSE m]]

Base ==
    [batch |-> TRUE, use_wrapper |-> TRUE, output_prefix |-> TRUE, jax_cache |-> TRUE,
     flare_context |-> TRUE, igwn_wrappers |-> {"pygrb", "aframe"}, defaults |-> Plain,
     igwn |-> [use_oauth_services |-> "scitokens", accounting_group |-> "ligo",
               accounting_group_user |-> "user", pools |-> "IGWN"],
     transfer_urls |-> FALSE, aframe |-> Urls("local", "config")]

\* With a CUDA image; without batches, with the models pulled by URL; with a
\* default source that needs no GPU.
Cuda == [Base EXCEPT !.defaults.gpu_singularity_image = "cuda.sif",
                     !.transfer_urls = TRUE, !.aframe = Urls("igwn", "bbh-config")]
Unbatched == [Base EXCEPT !.batch = FALSE, !.use_wrapper = FALSE, !.igwn_wrappers = {},
                          !.aframe["background"].kind = "",
                          !.defaults.gpu_singularity_image = "cuda.sif"]
Villar == [Base EXCEPT !.defaults = @ @@ [source |-> "villarmodel"],
                       !.output_prefix = FALSE, !.flare_context = FALSE,
                       !.aframe["config"].kind = "missing"]
PassConfigs == {Base, Cuda, Unbatched, Villar}

Wrappers == {"", "redback", "fleet", " Fleet", "flare", "alma", "pygrb", "aframe", "ngsf"}
Knobs ==
    {[request_memory |-> 512], [request_memory |-> 4096], [request_disk |-> 512],
     [max_runtime_seconds |-> 60], [request_gpus |-> 0], [request_gpus |-> 1],
     [request_cpus |-> 4], [cpu_requirements |-> ""], [singularity_image |-> "own.sif"],
     [gpu_requirements |-> "big", request_gpus |-> 1], [source |-> "villarmodel"],
     [source |-> "villarmodel", backend |-> "redback"], Nothing}
Products(w) ==
    IF w # "alma" THEN {[mb |-> 0, files |-> {}]}
    ELSE {[mb |-> 0, files |-> {}],
          [mb |-> 4000, files |-> {[kind |-> "osdf", name |-> "cube"],
                                   [kind |-> "local", name |-> "small"]}]}
Asks(w, knobs) ==
    {[params |-> k @@ (IF w = "" THEN Nothing ELSE [wrapper |-> w]), name |-> w,
      callback |-> "url", alma |-> a] : k \in knobs, a \in Products(w)}
PassItems == UNION {Asks(w, Knobs) : w \in Wrappers}

\* What the theorems of SubmitDescProofs assume holds of these instances.
ASSUME PassAssumption ==
    /\ ModelsKept /\ ModelsNamed /\ Wrapped /\ ImagesDiffer /\ CudaDiffers
    /\ CpusRequired /\ UnsignedAgree
=============================================================================
