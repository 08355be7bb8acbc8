-------------------------- MODULE SubmitDescProofs --------------------------
(***************************************************************************)
(* Proofs about SubmitDesc, for every set of configurations and requests   *)
(* and every number of them.  A job is described by its own request alone, *)
(* or by a request of the same signature that leads its batch; what the    *)
(* signature says of two requests then carries over to their descriptions, *)
(* field by field.  The fields of a description, which the code fills by   *)
(* laying one record over another, are worked out first.                   *)
(***************************************************************************)
EXTENDS SubmitDesc, ListLemmas

-----------------------------------------------------------------------------
(***************************************************************************)
(* One record laid over another                                            *)
(***************************************************************************)
LEMMA WithDom == ASSUME NEW f, NEW g PROVE DOMAIN With(f, g) = DOMAIN f \cup DOMAIN g
BY DEF With
LEMMA WithNew == ASSUME NEW f, NEW g, NEW k \in DOMAIN g PROVE With(f, g)[k] = g[k]
BY DEF With
LEMMA WithOld ==
  ASSUME NEW f, NEW g, NEW k \in DOMAIN f \ DOMAIN g
  PROVE  With(f, g)[k] = f[k]
BY DEF With

\* The defaults a description starts from, with the floors of its wrapper.
Fitted(q) == With(cfg.defaults, FiestaOverrides(WrapperOf(q), q, cfg.defaults))
Floored(q) == With(Fitted(q), Resources(WrapperOf(q)))

\* What a knob is worth for a request, and what some knobs make of a description.
Knob(q, k) == Get(q, k, Floored(q)[k])
OwnsImage(q) == Get(q, "singularity_image", "") = "" /\ WrapperOf(q) \in ImageOwners
GpuNeeds(q) == IF Knob(q, "request_gpus") > 0 THEN {Knob(q, "gpu_requirements")} \ {""} ELSE {}

Floors == {"request_memory", "request_disk", "max_runtime_seconds", "request_gpus"}
Routed == {"request_memory", "request_gpus", "singularity_image"}

\* The floors are of a few knobs, and numbers.
LEMMA FloorsAre ==
  ASSUME NEW w, NEW q, NEW d
  PROVE  /\ DOMAIN Resources(w) \subseteq Floors
         /\ DOMAIN FiestaOverrides(w, q, d) \subseteq Routed
         /\ \A k \in DOMAIN Resources(w) : Resources(w)[k] \in Nat
         /\ \A k \in DOMAIN FiestaOverrides(w, q, d) \cap Numbers :
                FiestaOverrides(w, q, d)[k] \in Nat
<1>1. DOMAIN Resources(w) \subseteq Floors /\ \A k \in DOMAIN Resources(w) : Resources(w)[k] \in Nat
  <2>1. CASE w \in {"pygrb", "aframe"}
    BY <2>1 DEF Resources, Floors
  <2>2. CASE w = "fleet"
    BY <2>2 DEF Resources, Floors
  <2>3. CASE w = "redback"
    BY <2>3 DEF Resources, Floors
  <2>4. CASE w \notin {"pygrb", "aframe", "fleet", "redback"}
    <3>1. Resources(w) = Nothing
      BY <2>4 DEF Resources
    <3> QED
      BY <3>1 DEF Nothing
  <2> QED
    BY <2>1, <2>2, <2>3, <2>4
<1>2. /\ DOMAIN FiestaOverrides(w, q, d) \subseteq Routed
      /\ \A k \in DOMAIN FiestaOverrides(w, q, d) \cap Numbers :
                FiestaOverrides(w, q, d)[k] \in Nat
  <2> DEFINE over == FiestaOverrides(w, q, d)
             image == d["gpu_singularity_image"]
  <2>1. \/ over = Nothing
        \/ over = [request_memory |-> 6144]
        \/ over = [request_memory |-> 6144, request_gpus |-> 1, singularity_image |-> image]
    BY DEF FiestaOverrides
  <2> HIDE DEF over
  <2>2. CASE over = Nothing
    BY <2>2 DEF over, Nothing
  <2>3. CASE over = [request_memory |-> 6144]
    BY <2>3 DEF over, Routed, Numbers
  <2>4. CASE over = [request_memory |-> 6144, request_gpus |-> 1, singularity_image |-> image]
    BY <2>4 DEF over, Routed, Numbers
  <2> QED
    BY <2>1, <2>2, <2>3, <2>4 DEF over
<1> QED
  BY <1>1, <1>2

\* A setting that no floor is of keeps its default, and the numbers stay numbers.
LEMMA FlooredIs ==
  ASSUME cfg \in Configs, NEW q
  PROVE  /\ DOMAIN cfg.defaults \subseteq DOMAIN Fitted(q)
         /\ DOMAIN Fitted(q) \subseteq DOMAIN Floored(q)
         /\ DOMAIN Floored(q) \subseteq DOMAIN cfg.defaults \cup Floors \cup Routed
         /\ \A k \in DOMAIN cfg.defaults \ (Floors \cup Routed) :
                Fitted(q)[k] = cfg.defaults[k] /\ Floored(q)[k] = cfg.defaults[k]
         /\ \A k \in Numbers : Floored(q)[k] \in Nat
<1> DEFINE w == WrapperOf(q)
           over == FiestaOverrides(w, q, cfg.defaults)
           res == Resources(w)
<1>1. /\ DOMAIN res \subseteq Floors /\ DOMAIN over \subseteq Routed
      /\ \A k \in DOMAIN res : res[k] \in Nat
      /\ \A k \in DOMAIN over \cap Numbers : over[k] \in Nat
  BY FloorsAre
<1>2. Fitted(q) = With(cfg.defaults, over) /\ Floored(q) = With(Fitted(q), res)
  BY DEF Fitted, Floored
<1>3. Numbers \subseteq DOMAIN cfg.defaults /\ \A k \in Numbers : cfg.defaults[k] \in Nat
  BY SubmitAssumption DEF Settings
<1> HIDE DEF over, res
<1>4. DOMAIN Fitted(q) = DOMAIN cfg.defaults \cup DOMAIN over
  BY <1>2, WithDom
<1>5. DOMAIN Floored(q) = DOMAIN Fitted(q) \cup DOMAIN res
  BY <1>2, WithDom
<1>6. \A k \in DOMAIN cfg.defaults \ DOMAIN over : Fitted(q)[k] = cfg.defaults[k]
  BY <1>2, WithOld
<1>7. \A k \in DOMAIN over : Fitted(q)[k] = over[k]
  BY <1>2, WithNew
<1>8. \A k \in DOMAIN Fitted(q) \ DOMAIN res : Floored(q)[k] = Fitted(q)[k]
  BY <1>2, WithOld
<1>9. \A k \in DOMAIN res : Floored(q)[k] = res[k]
  BY <1>2, WithNew
<1>10. \A k \in Numbers : Floored(q)[k] \in Nat
  BY <1>1, <1>3, <1>4, <1>6, <1>7, <1>8, <1>9
<1> QED
  BY <1>1, <1>4, <1>5, <1>6, <1>8, <1>10

-----------------------------------------------------------------------------
(***************************************************************************)
(* The fields of a description                                             *)
(***************************************************************************)
\* What _apply_gpu_and_image, _apply_igwn_ap and the image of a wrapper's own make
\* of a description, field by field.
IsGpuAndImage(g, p, d, ad) ==
    LET gpus == Get(p, "request_gpus", d["request_gpus"]) IN
         /\ DOMAIN g = DOMAIN ad \cup {"image", "gpus", "requirements", "require_gpus"}
         /\ g.image = Get(p, "singularity_image", d["singularity_image"])
         /\ g.gpus = gpus
         /\ g.requirements = ad.requirements \cup
              IF gpus > 0 THEN {Get(p, "gpu_requirements", d["gpu_requirements"])} \ {""} ELSE {}
         /\ g.require_gpus = IF gpus > 0 THEN Get(p, "require_gpus", d["require_gpus"]) ELSE ""
         /\ \A k \in DOMAIN ad \ {"image", "gpus", "requirements", "require_gpus"} : g[k] = ad[k]
IsIgwnKnobs(g, p, d, ad) ==
    LET acct == Get(p, "accounting_group", d["accounting_group"]) IN
         /\ DOMAIN g = DOMAIN ad \cup
              {"use_oauth_services", "accounting_group", "accounting_group_user", "pools"}
         /\ g.use_oauth_services = Get(p, "use_oauth_services", d["use_oauth_services"])
         /\ g.accounting_group = acct
         /\ g.accounting_group_user =
              IF acct = "" THEN "" ELSE Get(p, "accounting_group_user", d["accounting_group_user"])
         /\ g.pools = Get(p, "pools", d["pools"])
         /\ \A k \in DOMAIN ad \ {"use_oauth_services", "accounting_group",
                                   "accounting_group_user", "pools"} : g[k] = ad[k]
IsOwnImage(g, w, p, ad) ==
    LET owns == Get(p, "singularity_image", "") = "" /\ w \in ImageOwners IN
         /\ DOMAIN g = DOMAIN ad \cup IF owns THEN {"image"} ELSE {}
         /\ owns => g.image = w
         /\ \A k \in DOMAIN ad \ {"image"} : g[k] = ad[k]
         /\ ~owns => g = ad

\* Each of the three does what is said of it.
LEMMA GpuFields ==
  ASSUME NEW p, NEW d, NEW ad
  PROVE  IsGpuAndImage(GpuAndImage(p, d, ad), p, d, ad)
<1> DEFINE gpus == Get(p, "request_gpus", d["request_gpus"])
           new == [image |-> Get(p, "singularity_image", d["singularity_image"]), gpus |-> gpus,
                   requirements |-> ad.requirements \cup
                     IF gpus > 0 THEN {Get(p, "gpu_requirements", d["gpu_requirements"])} \ {""}
                     ELSE {},
                   require_gpus |-> IF gpus > 0 THEN Get(p, "require_gpus", d["require_gpus"])
                                    ELSE ""]
           g == With(ad, new)
<1>1. GpuAndImage(p, d, ad) = g
  BY DEF GpuAndImage
<1>2. DOMAIN new = {"image", "gpus", "requirements", "require_gpus"}
  OBVIOUS
<1>3. DOMAIN g = DOMAIN ad \cup DOMAIN new
  BY WithDom
<1>4. g.image = new.image
  BY DEF With
<1>5. g.gpus = new.gpus
  BY DEF With
<1>6. g.requirements = new.requirements
  BY DEF With
<1>7. g.require_gpus = new.require_gpus
  BY DEF With
<1>8. ASSUME NEW k \in DOMAIN ad \ {"image", "gpus", "requirements", "require_gpus"}
      PROVE  g[k] = ad[k]
  <2> HIDE DEF new
  <2> QED
    BY <1>2, WithOld
<1> QED
  BY <1>1, <1>2, <1>3, <1>4, <1>5, <1>6, <1>7, <1>8 DEF IsGpuAndImage

LEMMA IgwnFields ==
  ASSUME NEW p, NEW d, NEW ad
  PROVE  IsIgwnKnobs(IgwnKnobs(p, d, ad), p, d, ad)
<1> DEFINE acct == Get(p, "accounting_group", d["accounting_group"])
           new == [use_oauth_services |-> Get(p, "use_oauth_services", d["use_oauth_services"]),
                   accounting_group |-> acct,
                   accounting_group_user |->
                     IF acct = "" THEN ""
                     ELSE Get(p, "accounting_group_user", d["accounting_group_user"]),
                   pools |-> Get(p, "pools", d["pools"])]
           g == With(ad, new)
<1>1. IgwnKnobs(p, d, ad) = g
  BY DEF IgwnKnobs
<1>2. DOMAIN new = {"use_oauth_services", "accounting_group", "accounting_group_user", "pools"}
  OBVIOUS
<1>3. DOMAIN g = DOMAIN ad \cup DOMAIN new
  BY WithDom
<1>4. g.use_oauth_services = new.use_oauth_services
  BY DEF With
<1>5. g.accounting_group = new.accounting_group
  BY DEF With
<1>6. g.accounting_group_user = new.accounting_group_user
  BY DEF With
<1>7. g.pools = new.pools
  BY DEF With
<1>8. ASSUME NEW k \in DOMAIN ad \ {"use_oauth_services", "accounting_group",
                                     "accounting_group_user", "pools"}
      PROVE  g[k] = ad[k]
  <2> HIDE DEF new
  <2> QED
    BY <1>2, WithOld
<1> QED
  BY <1>1, <1>2, <1>3, <1>4, <1>5, <1>6, <1>7, <1>8 DEF IsIgwnKnobs

LEMMA OwnFields ==
  ASSUME NEW w, NEW p, NEW ad
  PROVE  IsOwnImage(OwnImage(w, p, ad), w, p, ad)
<1> DEFINE new == [image |-> w]
           owns == Get(p, "singularity_image", "") = "" /\ w \in ImageOwners
           g == With(ad, new)
<1>1. OwnImage(w, p, ad) = IF owns THEN g ELSE ad
  BY DEF OwnImage
<1>2. DOMAIN new = {"image"}
  OBVIOUS
<1>3. DOMAIN g = DOMAIN ad \cup DOMAIN new
  BY WithDom
<1>4. g.image = w
  BY DEF With
<1>5. ASSUME NEW k \in DOMAIN ad \ {"image"}
      PROVE  g[k] = ad[k]
  <2> HIDE DEF new
  <2> QED
    BY <1>2, WithOld
<1> QED
  BY <1>1, <1>2, <1>3, <1>4, <1>5 DEF IsOwnImage

\* The fields of a description that both paths take from the knobs, those ALMA's
\* sizing may raise, the credentials, and what the worker runs.
CpuNeeds(q) ==
    {"linux", Get(q, "cpu_requirements", Get(cfg.defaults, "cpu_requirements", "v3"))} \ {""}
SharedFields(ad, q) ==
    /\ ad.cpus = Knob(q, "request_cpus") /\ ad.memory = Knob(q, "request_memory")
    /\ ad.gpus = Knob(q, "request_gpus")
    /\ ad.requirements = CpuNeeds(q) \cup GpuNeeds(q)
    /\ ad.require_gpus = IF Knob(q, "request_gpus") > 0 THEN Knob(q, "require_gpus") ELSE ""
    /\ ad.image = IF OwnsImage(q) THEN WrapperOf(q) ELSE Knob(q, "singularity_image")
RoomFields(ad, q) ==
    ad.disk = Knob(q, "request_disk") /\ ad.runtime = Knob(q, "max_runtime_seconds")
CreditFields(ad, q) ==
    /\ ad.use_oauth_services = Knob(q, "use_oauth_services")
    /\ ad.accounting_group = Knob(q, "accounting_group")
    /\ ad.accounting_group_user =
         IF Knob(q, "accounting_group") = "" THEN "" ELSE Knob(q, "accounting_group_user")
    /\ ad.pools = Knob(q, "pools")
RunFields(ad, q) ==
    /\ ad.entry = WrapperSpec(WrapperOf(q)).entry /\ ad.files = WrapperSpec(WrapperOf(q)).files
    /\ ad.python = IF WrapperOf(q) = "pygrb" THEN "python" ELSE "python3"
    /\ ad.threads = Knob(q, "request_cpus")
Clustered == {"cpus", "memory", "disk", "runtime", "entry", "files", "cache", "python", "threads",
              "requirements", "image", "gpus", "require_gpus", "use_oauth_services",
              "accounting_group", "accounting_group_user", "pools", "ap"}

\* No floor is of the CPU requirements, so both paths ask for the same.
LEMMA CpuNeedsIs ==
  ASSUME cfg \in Configs, NEW q
  PROVE  CpuRequirements(q, Fitted(q)) = CpuNeeds(q) /\ CpuRequirements(q, Floored(q)) = CpuNeeds(q)
<1>1. /\ "cpu_requirements" \in DOMAIN Fitted(q) <=> "cpu_requirements" \in DOMAIN cfg.defaults
      /\ "cpu_requirements" \in DOMAIN Floored(q) <=> "cpu_requirements" \in DOMAIN cfg.defaults
      /\ "cpu_requirements" \in DOMAIN cfg.defaults =>
            /\ Fitted(q)["cpu_requirements"] = cfg.defaults["cpu_requirements"]
            /\ Floored(q)["cpu_requirements"] = cfg.defaults["cpu_requirements"]
  BY FlooredIs DEF Floors, Routed
<1> QED
  BY <1>1 DEF CpuRequirements, CpuNeeds, Get

\* What both paths take from the request, else from the defaults they are given.
LEMMA AskedIs ==
  ASSUME NEW p, NEW d
  PROVE  /\ DOMAIN Asked(p, d) = {"cpus", "memory", "disk", "runtime"}
         /\ Asked(p, d).cpus = Get(p, "request_cpus", d["request_cpus"])
         /\ Asked(p, d).memory = Get(p, "request_memory", d["request_memory"])
         /\ Asked(p, d).disk = Get(p, "request_disk", d["request_disk"])
         /\ Asked(p, d).runtime = Get(p, "max_runtime_seconds", d["max_runtime_seconds"])
BY DEF Asked

\* The cluster ad, field by field.
LEMMA BatchFields ==
  ASSUME cfg \in Configs, NEW q
  PROVE  LET ad == BatchAd(q) IN
         /\ DOMAIN ad = Clustered /\ ad.ap = "default"
         /\ SharedFields(ad, q) /\ RoomFields(ad, q) /\ CreditFields(ad, q) /\ RunFields(ad, q)
<1> DEFINE w == WrapperOf(q)
           d == Floored(q)
           own == [entry |-> WrapperSpec(w).entry, files |-> WrapperSpec(w).files, cache |-> FALSE,
                   python |-> IF w = "pygrb" THEN "python" ELSE "python3",
                   threads |-> Get(q, "request_cpus", d["request_cpus"]),
                   requirements |-> CpuRequirements(q, d)]
           plain == With(Asked(q, d), own)
           gpu == GpuAndImage(q, d, plain)
           img == OwnImage(w, q, gpu)
           igwn == IgwnKnobs(q, d, img)
           route == [ap |-> "default"]
<1>1. BatchAd(q) = With(igwn, route)
  BY DEF BatchAd, Fitted, Floored
<1>2. /\ DOMAIN own = {"entry", "files", "cache", "python", "threads", "requirements"}
      /\ own.entry = WrapperSpec(w).entry /\ own.files = WrapperSpec(w).files
      /\ own.python = IF w = "pygrb" THEN "python" ELSE "python3"
      /\ own.threads = Get(q, "request_cpus", d["request_cpus"])
      /\ own.requirements = CpuRequirements(q, d)
  OBVIOUS
<1>3. DOMAIN route = {"ap"} /\ route.ap = "default"
  OBVIOUS
<1> HIDE DEF own, d, w, route
<1>4. DOMAIN plain = DOMAIN Asked(q, d) \cup DOMAIN own
  BY WithDom
<1>5. \A k \in DOMAIN own : plain[k] = own[k]
  BY WithNew
<1>6. \A k \in DOMAIN Asked(q, d) \ DOMAIN own : plain[k] = Asked(q, d)[k]
  BY WithOld
<1> HIDE DEF plain
<1>7. IsGpuAndImage(gpu, q, d, plain)
  BY GpuFields
<1> HIDE DEF gpu
<1>8. IsOwnImage(img, w, q, gpu)
  BY OwnFields
<1> HIDE DEF img
<1>9. IsIgwnKnobs(igwn, q, d, img)
  BY IgwnFields
<1> HIDE DEF igwn
<1>10. DOMAIN BatchAd(q) = DOMAIN igwn \cup {"ap"} /\ BatchAd(q).ap = "default"
  <2>1. DOMAIN BatchAd(q) = DOMAIN igwn \cup DOMAIN route
    BY <1>1, WithDom
  <2>2. BatchAd(q)["ap"] = route["ap"]
    BY <1>1, <1>3, WithNew
  <2> QED
    BY <1>3, <2>1, <2>2
<1>11. \A k \in DOMAIN igwn \ {"ap"} : BatchAd(q)[k] = igwn[k]
  BY <1>1, <1>3, WithOld
<1>12. DOMAIN Asked(q, d) = {"cpus", "memory", "disk", "runtime"}
  BY AskedIs
<1>13. DOMAIN plain = {"cpus", "memory", "disk", "runtime", "entry", "files", "cache", "python",
                       "threads", "requirements"}
  BY <1>2, <1>4, <1>12
<1>14. DOMAIN gpu = DOMAIN plain \cup {"image", "gpus", "requirements", "require_gpus"}
  BY <1>7 DEF IsGpuAndImage
<1>15. DOMAIN img = DOMAIN gpu
  BY <1>8, <1>14 DEF IsOwnImage
<1>16. DOMAIN igwn = DOMAIN img \cup
         {"use_oauth_services", "accounting_group", "accounting_group_user", "pools"}
  BY <1>9 DEF IsIgwnKnobs
<1>17. DOMAIN BatchAd(q) = Clustered
  BY <1>10, <1>13, <1>14, <1>15, <1>16 DEF Clustered
<1>18. /\ plain.cpus = Knob(q, "request_cpus") /\ plain.memory = Knob(q, "request_memory")
       /\ plain.disk = Knob(q, "request_disk") /\ plain.runtime = Knob(q, "max_runtime_seconds")
       /\ plain.requirements = CpuNeeds(q)
  <2>1. plain.requirements = CpuNeeds(q)
    BY <1>2, <1>5, CpuNeedsIs DEF d
  <2> QED
    BY <2>1, <1>2, <1>6, <1>12, AskedIs DEF Knob, d
<1>19. /\ plain.entry = WrapperSpec(w).entry /\ plain.files = WrapperSpec(w).files
       /\ plain.python = IF w = "pygrb" THEN "python" ELSE "python3"
       /\ plain.threads = Knob(q, "request_cpus")
  BY <1>2, <1>5 DEF Knob, d
<1> DEFINE ad == BatchAd(q)
<1>20. ASSUME NEW k \in {"cpus", "memory", "disk", "runtime", "entry", "files", "python", "threads"}
       PROVE  ad[k] = plain[k]
  <2>1. gpu[k] = plain[k]
    BY <1>7, <1>13 DEF IsGpuAndImage
  <2>2. img[k] = gpu[k]
    BY <1>8, <1>13, <1>14 DEF IsOwnImage
  <2>3. igwn[k] = img[k]
    BY <1>9, <1>13, <1>14, <1>15 DEF IsIgwnKnobs
  <2>4. ad[k] = igwn[k]
    BY <1>11, <1>13, <1>14, <1>15, <1>16
  <2> QED
    BY <2>1, <2>2, <2>3, <2>4
<1>21. ASSUME NEW k \in {"image", "gpus", "requirements", "require_gpus"}
       PROVE  ad[k] = img[k] /\ (k # "image" => img[k] = gpu[k])
  <2>1. k # "image" => img[k] = gpu[k]
    BY <1>8, <1>14 DEF IsOwnImage
  <2>2. igwn[k] = img[k]
    BY <1>9, <1>14, <1>15 DEF IsIgwnKnobs
  <2>3. ad[k] = igwn[k]
    BY <1>11, <1>14, <1>15, <1>16
  <2> QED
    BY <2>1, <2>2, <2>3
<1>22. img.image = IF Get(q, "singularity_image", "") = "" /\ w \in ImageOwners THEN w ELSE gpu.image
  BY <1>8 DEF IsOwnImage
<1>23. ASSUME NEW k \in {"use_oauth_services", "accounting_group", "accounting_group_user", "pools"}
       PROVE  ad[k] = igwn[k]
  BY <1>11, <1>16
<1> HIDE DEF ad
<1>24. SharedFields(ad, q)
  <2>1. ad.cpus = Knob(q, "request_cpus") /\ ad.memory = Knob(q, "request_memory")
    BY <1>18, <1>20
  <2>2. ad.gpus = gpu.gpus /\ ad.requirements = gpu.requirements
        /\ ad.require_gpus = gpu.require_gpus /\ ad.image = img.image
    BY <1>21
  <2>3. plain.requirements = CpuNeeds(q)
    BY <1>18
  <2> QED
    BY <1>7, <1>22, <2>1, <2>2, <2>3
       DEF SharedFields, IsGpuAndImage, Knob, d, w, OwnsImage, GpuNeeds
<1>25. RoomFields(ad, q) /\ RunFields(ad, q)
  BY <1>18, <1>19, <1>20 DEF RoomFields, RunFields, w
<1>26. CreditFields(ad, q)
  BY <1>9, <1>23 DEF CreditFields, IsIgwnKnobs, Knob, d
<1> QED
  BY <1>10, <1>17, <1>24, <1>25, <1>26 DEF ad

\* The parameters the worker is given, and what is looked up in them.
Inputs(item) ==
    IF WrapperOf(item.params) = "aframe" THEN ModelNames(item.params) ELSE item.params

\* The inputs of a search add model names, and change nothing it asked for.
LEMMA InputsAre ==
  ASSUME NEW item
  PROVE  /\ DOMAIN item.params \subseteq DOMAIN Inputs(item)
         /\ DOMAIN Inputs(item) \subseteq DOMAIN item.params \cup Models
         /\ \A k \in DOMAIN item.params : Inputs(item)[k] = item.params[k]
<1> DEFINE q == item.params
           names == [k \in {m \in Models : cfg.aframe[m].kind # ""} |-> cfg.aframe[k].name]
<1>1. Inputs(item) = With(names, q) \/ Inputs(item) = q
  BY DEF Inputs, ModelNames
<1>2. DOMAIN names \subseteq Models
  OBVIOUS
<1> HIDE DEF names, q
<1>3. DOMAIN With(names, q) = DOMAIN names \cup DOMAIN q
  BY WithDom
<1>4. \A k \in DOMAIN q : With(names, q)[k] = q[k]
  BY WithNew
<1>5. /\ DOMAIN q \subseteq DOMAIN Inputs(item)
      /\ DOMAIN Inputs(item) \subseteq DOMAIN q \cup Models
      /\ \A k \in DOMAIN q : Inputs(item)[k] = q[k]
  BY <1>1, <1>2, <1>3, <1>4
<1> QED
  BY <1>5 DEF q

LEMMA GetInputs ==
  ASSUME NEW item, NEW k, k \notin Models, NEW x
  PROVE  Get(Inputs(item), k, x) = Get(item.params, k, x)
BY InputsAre DEF Get

\* What is looked up under a knob's name is what the request asked for.
Asking ==
    Settings \cup {"cpu_requirements", "wrapper", "use_wrapper", "source", "backend", "executable"}
SameAnswers(p, q) == \A k \in Asking : \A x : Get(p, k, x) = Get(q, k, x)
LEMMA InputsAnswer == ASSUME NEW item PROVE SameAnswers(Inputs(item), item.params)
<1>1. \A k \in Asking : k \notin Models
  BY DEF Asking, Models, Settings, Numbers
<1> QED
  BY <1>1, GetInputs DEF SameAnswers

\* ALMA's sizing raises the disk and the time, where the request asks for neither.
LEMMA AlmaFields ==
  ASSUME NEW mb, NEW p, NEW d
  PROVE  LET a == AlmaSizing(mb, p, d) IN
         /\ DOMAIN a \subseteq {"disk", "runtime"}
         /\ "disk" \in DOMAIN a <=>
              "request_disk" \notin DOMAIN p /\ (5 * mb) \div 2 + 1024 > d["request_disk"]
         /\ "disk" \in DOMAIN a => a["disk"] = (5 * mb) \div 2 + 1024
         /\ "runtime" \in DOMAIN a => "max_runtime_seconds" \notin DOMAIN p
<1> DEFINE disk == (5 * mb) \div 2 + 1024
           runtime == 2 * mb + 1800
           resized == {k \in {"request_disk", "max_runtime_seconds"} \ DOMAIN p :
                         (IF k = "request_disk" THEN disk ELSE runtime) > d[k]}
           field(k) == IF k = "request_disk" THEN "disk" ELSE "runtime"
           a == [f \in {field(k) : k \in resized} |-> IF f = "disk" THEN disk ELSE runtime]
<1>1. AlmaSizing(mb, p, d) = a
  BY DEF AlmaSizing
<1>2. DOMAIN a = {field(k) : k \in resized}
  OBVIOUS
<1>3. "disk" \in DOMAIN a => a["disk"] = disk
  OBVIOUS
<1>4. /\ "request_disk" \in resized <=> "request_disk" \notin DOMAIN p /\ disk > d["request_disk"]
      /\ "max_runtime_seconds" \in resized => "max_runtime_seconds" \notin DOMAIN p
      /\ resized \subseteq {"request_disk", "max_runtime_seconds"}
  OBVIOUS
<1> HIDE DEF resized, disk, runtime
<1>5. /\ DOMAIN a \subseteq {"disk", "runtime"}
      /\ "disk" \in DOMAIN a <=> "request_disk" \in resized
      /\ "runtime" \in DOMAIN a <=> "max_runtime_seconds" \in resized
  BY <1>2, <1>4
<1> QED
  BY <1>1, <1>3, <1>4, <1>5 DEF disk

\* The overrides of a wrapped job, field by field.
Overridden == {"entry", "files", "inputs", "staged", "cache", "python", "threads"}
IsOverrides(o, w, p, item) ==
    LET owns == Get(p, "singularity_image", "") = "" /\ w \in ImageOwners
        sized == w = "alma" /\ item.alma.mb > 0
        disk == (5 * item.alma.mb) \div 2 + 1024
    IN /\ Overridden \subseteq DOMAIN o
       /\ DOMAIN o \subseteq Overridden \cup {"image", "disk", "runtime"}
       /\ o.entry = WrapperSpec(w).entry /\ o.files = WrapperSpec(w).files /\ o.inputs = p
       /\ o.staged = Staged(w, item)
       /\ o.python = IF w = "pygrb" THEN "python" ELSE "python3"
       /\ o.threads = Get(p, "request_cpus", cfg.defaults["request_cpus"])
       /\ "image" \in DOMAIN o <=> owns
       /\ owns => o.image = w
       /\ "disk" \in DOMAIN o <=> /\ sized /\ "request_disk" \notin DOMAIN p
                                  /\ disk > cfg.defaults["request_disk"]
       /\ "disk" \in DOMAIN o => o.disk = disk
       /\ "runtime" \in DOMAIN o => sized /\ "max_runtime_seconds" \notin DOMAIN p

\* A wrapped job is given each of these, and no other field.
LEMMA OverridesFields ==
  ASSUME NEW w, NEW p, NEW item
  PROVE  IsOverrides(WrapperOverrides(w, p, item), w, p, item)
<1> DEFINE spec == WrapperSpec(w)
           base == [entry |-> spec.entry, files |-> spec.files, inputs |-> p,
                    staged |-> Staged(w, item),
                    cache |-> w \notin NonJax /\ cfg.jax_cache,
                    python |-> IF w = "pygrb" THEN "python" ELSE "python3",
                    threads |-> Get(p, "request_cpus", cfg.defaults["request_cpus"])]
           own == OwnImage(w, p, base)
           sizing == AlmaSizing(item.alma.mb, p, cfg.defaults)
           sized == w = "alma" /\ item.alma.mb > 0
           disk == (5 * item.alma.mb) \div 2 + 1024
           o == WrapperOverrides(w, p, item)
<1>1. o = IF sized THEN With(own, sizing) ELSE own
  BY DEF WrapperOverrides
<1>2. /\ DOMAIN base = Overridden
      /\ base.entry = spec.entry /\ base.files = spec.files /\ base.inputs = p
      /\ base.staged = Staged(w, item)
      /\ base.python = IF w = "pygrb" THEN "python" ELSE "python3"
      /\ base.threads = Get(p, "request_cpus", cfg.defaults["request_cpus"])
  BY DEF Overridden
<1> HIDE DEF base, spec
<1>3. IsOwnImage(own, w, p, base)
  BY OwnFields
<1> HIDE DEF own
<1>4. /\ DOMAIN sizing \subseteq {"disk", "runtime"}
      /\ "disk" \in DOMAIN sizing <=>
           "request_disk" \notin DOMAIN p /\ disk > cfg.defaults["request_disk"]
      /\ "disk" \in DOMAIN sizing => sizing["disk"] = disk
      /\ "runtime" \in DOMAIN sizing => "max_runtime_seconds" \notin DOMAIN p
  BY AlmaFields
<1> HIDE DEF sizing, disk
<1>5. DOMAIN With(own, sizing) = DOMAIN own \cup DOMAIN sizing
  BY WithDom
<1>6. \A k \in DOMAIN own \ DOMAIN sizing : With(own, sizing)[k] = own[k]
  BY WithOld
<1>7. \A k \in DOMAIN sizing : With(own, sizing)[k] = sizing[k]
  BY WithNew
<1> DEFINE owns == Get(p, "singularity_image", "") = "" /\ w \in ImageOwners
<1>8. /\ DOMAIN own = Overridden \cup IF owns THEN {"image"} ELSE {}
      /\ owns => own.image = w
      /\ \A k \in Overridden : own[k] = base[k]
  BY <1>2, <1>3 DEF IsOwnImage, Overridden
<1> HIDE DEF owns, sized, o
<1>9. /\ Overridden \subseteq DOMAIN o /\ DOMAIN o \subseteq Overridden \cup {"image", "disk", "runtime"}
      /\ "image" \in DOMAIN o <=> owns
      /\ "disk" \in DOMAIN o <=> sized /\ "disk" \in DOMAIN sizing
      /\ "runtime" \in DOMAIN o => sized /\ "runtime" \in DOMAIN sizing
  BY <1>1, <1>4, <1>5, <1>8 DEF Overridden
<1>10. \A k \in Overridden : o[k] = base[k]
  BY <1>1, <1>4, <1>6, <1>8 DEF Overridden
<1>11. /\ owns => o.image = w
       /\ "disk" \in DOMAIN o => o["disk"] = disk
  BY <1>1, <1>4, <1>6, <1>7, <1>8, <1>9
<1>12. /\ o.entry = base.entry /\ o.files = base.files /\ o.inputs = base.inputs
       /\ o.staged = base.staged /\ o.python = base.python /\ o.threads = base.threads
  BY <1>10 DEF Overridden
<1>13. /\ o.entry = spec.entry /\ o.files = spec.files /\ o.inputs = p
       /\ o.staged = Staged(w, item)
       /\ o.python = IF w = "pygrb" THEN "python" ELSE "python3"
       /\ o.threads = Get(p, "request_cpus", cfg.defaults["request_cpus"])
  BY <1>2, <1>12
<1>14. /\ "disk" \in DOMAIN o <=> /\ sized /\ "request_disk" \notin DOMAIN p
                                  /\ disk > cfg.defaults["request_disk"]
       /\ "runtime" \in DOMAIN o => sized /\ "max_runtime_seconds" \notin DOMAIN p
  BY <1>4, <1>9
<1>15. /\ Overridden \subseteq DOMAIN o /\ DOMAIN o \subseteq Overridden \cup {"image", "disk", "runtime"}
       /\ "image" \in DOMAIN o <=> owns
  BY <1>9
<1>16. owns => o.image = w
  BY <1>11
<1>17. "disk" \in DOMAIN o => o.disk = disk
  BY <1>11
<1> QED
  BY <1>13, <1>14, <1>15, <1>16, <1>17, Zenon DEF IsOverrides, owns, sized, o, disk, spec

\* What submit_job makes of a request, field by field.
IsSingle(ad, item) ==
    LET q == item.params
        w == WrapperOf(q)
        sized == w = "alma" /\ item.alma.mb > 0
    IN /\ DOMAIN ad = Clustered \cup {"inputs", "staged"}
       /\ SharedFields(ad, q)
       /\ ad.inputs = Inputs(item)
       /\ ad.ap = IF IgwnRouted(w) THEN "igwn" ELSE "default"
       /\ UsesWrapper(q) => RunFields(ad, q) /\ ad.staged = Staged(w, item)
       /\ ~UsesWrapper(q) => ad.staged = {}
       /\ ~IgwnRouted(w) => CreditFields(ad, q)
       /\ IgwnRouted(w) /\ "use_oauth_services" \notin DOMAIN q =>
              ad.use_oauth_services = cfg.igwn["use_oauth_services"]
       /\ ~sized => RoomFields(ad, q)
       /\ sized => /\ "request_disk" \in DOMAIN q => ad.disk = q["request_disk"]
                   /\ "request_disk" \notin DOMAIN q =>
                        ad.disk \in Nat /\ 2 * ad.disk >= 5 * item.alma.mb
                   /\ "max_runtime_seconds" \in DOMAIN q => ad.runtime = q["max_runtime_seconds"]

\* A wrapper of its own always runs in its wrapper.
LEMMA NamedWrapped ==
  ASSUME NEW q, WrapperOf(q) \in Named
  PROVE  UsesWrapper(q)
BY DEF UsesWrapper

\* The description of submit_job, from what its three helpers lay over one another.
LEMMA SingleFields ==
  ASSUME cfg \in Configs, NEW item \in Items
  PROVE  IsSingle(SingleAd(item), item)
<1> DEFINE q == item.params
           w == WrapperOf(q)
           p == Inputs(item)
           d == Fitted(q)
           res == Floored(q)
           own == [entry |-> Get(p, "executable", "sleep"), files |-> {}, inputs |-> p,
                   staged |-> {}, cache |-> FALSE, python |-> "", threads |-> 0,
                   requirements |-> CpuRequirements(p, d)]
           plain == With(Asked(p, res), own)
           gpu == GpuAndImage(p, res, plain)
           dd == IF IgwnRouted(w) THEN With(d, cfg.igwn) ELSE d
           igwn == IgwnKnobs(p, dd, gpu)
           over == WrapperOverrides(w, p, item)
           wrapped == IF UsesWrapper(p) THEN With(igwn, over) ELSE igwn
           route == [ap |-> IF IgwnRouted(w) THEN "igwn" ELSE "default"]
           ad == SingleAd(item)
<1>1. SameAnswers(p, q)
  BY InputsAnswer
<1>2. FiestaOverrides(w, p, cfg.defaults) = FiestaOverrides(w, q, cfg.defaults)
  <2>1. CASE w = "aframe"
    BY <2>1 DEF FiestaOverrides, Named, ImageOwners
  <2>2. CASE w # "aframe"
    BY <2>2 DEF Inputs
  <2> QED
    BY <2>1, <2>2
<1>3. ad = With(wrapped, route)
  BY <1>2 DEF SingleAd, Fitted, Floored, Inputs
<1>4. UsesWrapper(p) <=> UsesWrapper(q)
  <2>1. Get(p, "wrapper", "") = Get(q, "wrapper", "")
        /\ Get(p, "use_wrapper", cfg.use_wrapper) = Get(q, "use_wrapper", cfg.use_wrapper)
    BY <1>1 DEF SameAnswers, Asking
  <2> QED
    BY <2>1 DEF UsesWrapper, WrapperOf
<1>5. /\ DOMAIN own = {"entry", "files", "inputs", "staged", "cache", "python", "threads",
                       "requirements"}
      /\ own.inputs = p /\ own.staged = {} /\ own.requirements = CpuRequirements(p, d)
  OBVIOUS
<1>6. DOMAIN route = {"ap"} /\ route["ap"] = IF IgwnRouted(w) THEN "igwn" ELSE "default"
  OBVIOUS
<1> HIDE DEF own, route, p, d, res, w
<1>7. DOMAIN plain = DOMAIN Asked(p, res) \cup DOMAIN own
  BY WithDom
<1>8. \A k \in DOMAIN own : plain[k] = own[k]
  BY WithNew
<1>9. \A k \in DOMAIN Asked(p, res) \ DOMAIN own : plain[k] = Asked(p, res)[k]
  BY WithOld
<1> HIDE DEF plain
<1>10. IsGpuAndImage(gpu, p, res, plain)
  BY GpuFields
<1> HIDE DEF gpu, dd
<1>11. IsIgwnKnobs(igwn, p, dd, gpu)
  BY IgwnFields
<1> HIDE DEF igwn
<1>12. IsOverrides(over, w, p, item)
  BY OverridesFields
<1> HIDE DEF over
<1>13. Overridden \subseteq DOMAIN over
  BY <1>12 DEF IsOverrides
<1>14. DOMAIN over \subseteq Overridden \cup {"image", "disk", "runtime"}
  BY <1>12 DEF IsOverrides
<1>15. /\ over.entry = WrapperSpec(w).entry /\ over.files = WrapperSpec(w).files /\ over.inputs = p
       /\ over.staged = Staged(w, item)
       /\ over.python = IF w = "pygrb" THEN "python" ELSE "python3"
       /\ over.threads = Get(p, "request_cpus", cfg.defaults["request_cpus"])
  BY <1>12, Zenon DEF IsOverrides
<1>16. /\ "image" \in DOMAIN over <=> Get(p, "singularity_image", "") = "" /\ w \in ImageOwners
       /\ "image" \in DOMAIN over => over.image = w
  <2>1. "image" \in DOMAIN over <=> Get(p, "singularity_image", "") = "" /\ w \in ImageOwners
    BY <1>12, Zenon DEF IsOverrides
  <2>2. Get(p, "singularity_image", "") = "" /\ w \in ImageOwners => over.image = w
    BY <1>12, Zenon DEF IsOverrides
  <2> QED
    BY <2>1, <2>2, Zenon
<1>17. /\ "disk" \in DOMAIN over <=>
            /\ w = "alma" /\ item.alma.mb > 0 /\ "request_disk" \notin DOMAIN p
            /\ (5 * item.alma.mb) \div 2 + 1024 > cfg.defaults["request_disk"]
       /\ "disk" \in DOMAIN over => over.disk = (5 * item.alma.mb) \div 2 + 1024
       /\ "runtime" \in DOMAIN over =>
            w = "alma" /\ item.alma.mb > 0 /\ "max_runtime_seconds" \notin DOMAIN p
  BY <1>12, Zenon DEF IsOverrides
<1>18. DOMAIN With(igwn, over) = DOMAIN igwn \cup DOMAIN over
  BY WithDom
<1>19. \A k \in DOMAIN over : With(igwn, over)[k] = over[k]
  BY WithNew
<1>20. \A k \in DOMAIN igwn \ DOMAIN over : With(igwn, over)[k] = igwn[k]
  BY WithOld
<1>21. DOMAIN With(wrapped, route) = DOMAIN wrapped \cup DOMAIN route
  BY WithDom
<1>22. \A k \in DOMAIN route : With(wrapped, route)[k] = route[k]
  BY WithNew
<1>23. \A k \in DOMAIN wrapped \ DOMAIN route : With(wrapped, route)[k] = wrapped[k]
  BY WithOld
<1> DEFINE Base == {"cpus", "memory", "disk", "runtime", "entry", "files", "inputs", "staged",
                    "cache", "python", "threads", "requirements"}
<1>24. DOMAIN plain = Base
  BY <1>5, <1>7, AskedIs
<1>25. DOMAIN gpu = Base \cup {"image", "gpus", "require_gpus"}
  BY <1>10, <1>24 DEF IsGpuAndImage
<1>26. DOMAIN igwn = (Clustered \ {"ap"}) \cup {"inputs", "staged"}
  BY <1>11, <1>25 DEF IsIgwnKnobs, Clustered
<1>27. DOMAIN over \subseteq DOMAIN igwn
  BY <1>14, <1>26 DEF Overridden, Clustered
<1>28. DOMAIN wrapped = DOMAIN igwn
  BY <1>18, <1>27
<1>29. DOMAIN ad = Clustered \cup {"inputs", "staged"} /\ ad["ap"] = route["ap"]
  BY <1>3, <1>6, <1>21, <1>22, <1>26, <1>28 DEF Clustered
<1>30. \A k \in DOMAIN igwn : ad[k] = wrapped[k]
  BY <1>3, <1>6, <1>23, <1>26, <1>28 DEF Clustered
<1> HIDE DEF ad, wrapped
<1>31. /\ ~UsesWrapper(q) => wrapped = igwn
       /\ UsesWrapper(q) => wrapped = With(igwn, over)
  BY <1>4 DEF wrapped
<1>32. ASSUME NEW k \in DOMAIN igwn, k \notin DOMAIN over
       PROVE  ad[k] = igwn[k]
  <2>1. ad[k] = wrapped[k]
    BY <1>30
  <2>2. With(igwn, over)[k] = igwn[k]
    BY <1>20, <1>32
  <2> QED
    BY <1>31, <2>1, <2>2
<1>33. ASSUME NEW k \in {"image", "disk", "runtime"}
       PROVE  /\ UsesWrapper(q) /\ k \in DOMAIN over => ad[k] = over[k]
              /\ ~(UsesWrapper(q) /\ k \in DOMAIN over) => ad[k] = igwn[k]
  <2>1. k \in DOMAIN igwn
    BY <1>26 DEF Clustered
  <2>2. ad[k] = wrapped[k]
    BY <1>30, <2>1
  <2>3. k \in DOMAIN over => With(igwn, over)[k] = over[k]
    BY <1>19
  <2>4. k \notin DOMAIN over => ad[k] = igwn[k]
    BY <1>32, <2>1
  <2>5. CASE UsesWrapper(q)
    BY <1>31, <2>2, <2>3, <2>4, <2>5
  <2>6. CASE ~UsesWrapper(q)
    BY <1>31, <2>2, <2>6
  <2> QED
    BY <2>5, <2>6
<1>34. ASSUME NEW k \in Overridden
       PROVE  /\ UsesWrapper(q) => ad[k] = over[k]
              /\ ~UsesWrapper(q) => ad[k] = igwn[k]
  <2>1. k \in DOMAIN igwn /\ k \in DOMAIN over
    BY <1>13, <1>26 DEF Clustered, Overridden
  <2>2. ad[k] = wrapped[k]
    BY <1>30, <2>1
  <2>3. With(igwn, over)[k] = over[k]
    BY <1>19, <2>1
  <2> QED
    BY <1>31, <2>2, <2>3
<1>35. \A k \in Base \ {"requirements"} : igwn[k] = plain[k]
  <2> SUFFICES ASSUME NEW k \in Base \ {"requirements"} PROVE igwn[k] = plain[k]
    OBVIOUS
  <2>1. gpu[k] = plain[k]
    BY <1>10, <1>24 DEF IsGpuAndImage
  <2>2. igwn[k] = gpu[k]
    BY <1>11, <1>25 DEF IsIgwnKnobs
  <2> QED
    BY <2>1, <2>2
<1>36. \A k \in {"requirements", "image", "gpus", "require_gpus"} : igwn[k] = gpu[k]
  BY <1>11, <1>25 DEF IsIgwnKnobs
<1>37. \A k \in {"cpus", "memory", "disk", "runtime"} : plain[k] = Asked(p, res)[k]
  BY <1>5, <1>9, AskedIs
<1>38. ad.inputs = Inputs(item)
  <2>1. over.inputs = p /\ igwn["inputs"] = p
    BY <1>5, <1>8, <1>35, <1>15
  <2>2. ad["inputs"] = p
    BY <1>34, <2>1 DEF Overridden
  <2> QED
    BY <2>2 DEF p
<1>39. ~UsesWrapper(q) => ad.staged = {}
  <2>1. igwn["staged"] = {}
    BY <1>5, <1>8, <1>35
  <2> QED
    BY <1>34, <2>1 DEF Overridden
<1>40. UsesWrapper(q) => RunFields(ad, q) /\ ad.staged = Staged(w, item)
  <2> SUFFICES ASSUME UsesWrapper(q) PROVE RunFields(ad, q) /\ ad.staged = Staged(w, item)
    OBVIOUS
  <2>1. /\ ad.entry = over.entry /\ ad.files = over.files /\ ad.python = over.python
        /\ ad.threads = over.threads /\ ad.staged = over.staged
    BY <1>34 DEF Overridden
  <2>2. over.threads = Knob(q, "request_cpus")
    <3>1. over.threads = Get(p, "request_cpus", cfg.defaults["request_cpus"])
      BY <1>15
    <3>2. @ = Get(q, "request_cpus", cfg.defaults["request_cpus"])
      BY <1>1 DEF SameAnswers, Asking, Settings, Numbers
    <3>3. Floored(q)["request_cpus"] = cfg.defaults["request_cpus"]
      BY FlooredIs, SubmitAssumption DEF Settings, Numbers, Floors, Routed
    <3> QED
      BY <3>1, <3>2, <3>3 DEF Knob
  <2> QED
    BY <1>15, <2>1, <2>2 DEF RunFields, w
<1>41. \A k \in Settings : Get(p, k, res[k]) = Knob(q, k)
  BY <1>1 DEF SameAnswers, Asking, Knob, res
<1>42. SharedFields(ad, q)
  <2>1. /\ ad["cpus"] = Asked(p, res)["cpus"] /\ ad["memory"] = Asked(p, res)["memory"]
    <3>1. \A k \in {"cpus", "memory"} : k \in DOMAIN igwn /\ k \notin DOMAIN over
      BY <1>14, <1>26 DEF Clustered, Overridden
    <3>2. \A k \in {"cpus", "memory"} : ad[k] = igwn[k]
      BY <1>32, <3>1
    <3> QED
      BY <1>35, <1>37, <3>2
  <2>2. ad.cpus = Knob(q, "request_cpus") /\ ad.memory = Knob(q, "request_memory")
    BY <1>41, <2>1, AskedIs DEF Settings, Numbers
  <2>3. /\ ad["gpus"] = gpu["gpus"] /\ ad["requirements"] = gpu["requirements"]
        /\ ad["require_gpus"] = gpu["require_gpus"]
    <3>1. \A k \in {"gpus", "requirements", "require_gpus"} : k \in DOMAIN igwn /\ k \notin DOMAIN over
      BY <1>14, <1>26 DEF Clustered, Overridden
    <3>2. \A k \in {"gpus", "requirements", "require_gpus"} : ad[k] = igwn[k]
      BY <1>32, <3>1
    <3> QED
      BY <1>36, <3>2
  <2>4. ad.gpus = Knob(q, "request_gpus")
    BY <1>10, <1>41, <2>3 DEF IsGpuAndImage, Settings, Numbers
  <2>5. ad.require_gpus = IF Knob(q, "request_gpus") > 0 THEN Knob(q, "require_gpus") ELSE ""
    <3>1. /\ Get(p, "request_gpus", res["request_gpus"]) = Knob(q, "request_gpus")
          /\ Get(p, "require_gpus", res["require_gpus"]) = Knob(q, "require_gpus")
      BY <1>41 DEF Settings, Numbers
    <3>2. gpu.require_gpus = IF Get(p, "request_gpus", res["request_gpus"]) > 0
                             THEN Get(p, "require_gpus", res["require_gpus"]) ELSE ""
      BY <1>10 DEF IsGpuAndImage
    <3> QED
      BY <2>3, <3>1, <3>2
  <2>6. plain.requirements = CpuNeeds(q)
    <3>1. Get(p, "cpu_requirements", Get(d, "cpu_requirements", "v3"))
             = Get(q, "cpu_requirements", Get(d, "cpu_requirements", "v3"))
      BY <1>1 DEF SameAnswers, Asking
    <3>2. CpuRequirements(p, d) = CpuRequirements(q, d)
      BY <3>1 DEF CpuRequirements
    <3> QED
      BY <1>5, <1>8, <3>2, CpuNeedsIs DEF d
  <2>7. gpu.requirements = CpuNeeds(q) \cup GpuNeeds(q)
    BY <1>10, <1>41, <2>6 DEF IsGpuAndImage, GpuNeeds, Settings, Numbers
  <2>8. ad.image = IF OwnsImage(q) THEN w ELSE Knob(q, "singularity_image")
    <3>1. Get(p, "singularity_image", "") = Get(q, "singularity_image", "")
      BY <1>1 DEF SameAnswers, Asking, Settings
    <3>2. "image" \in DOMAIN over <=> OwnsImage(q)
      BY <1>16, <3>1 DEF OwnsImage, w
    <3>3. "image" \in DOMAIN over => over.image = w
      BY <1>16
    <3>4. igwn["image"] = Knob(q, "singularity_image")
      BY <1>10, <1>36, <1>41 DEF IsGpuAndImage, Settings
    <3>5. OwnsImage(q) => UsesWrapper(q)
      BY NamedWrapped DEF OwnsImage, Named
    <3> QED
      BY <1>33, <3>2, <3>3, <3>4, <3>5
  <2> QED
    BY <2>2, <2>3, <2>4, <2>5, <2>7, <2>8 DEF SharedFields, w
<1>43. ~IgwnRouted(w) => CreditFields(ad, q)
  <2> SUFFICES ASSUME ~IgwnRouted(w) PROVE CreditFields(ad, q)
    OBVIOUS
  <2> DEFINE Credits == {"use_oauth_services", "accounting_group", "accounting_group_user", "pools"}
  <2>1. \A k \in Credits : ad[k] = igwn[k]
    <3>1. \A k \in Credits : k \in DOMAIN igwn /\ k \notin DOMAIN over
      BY <1>14, <1>26 DEF Clustered, Overridden
    <3> QED
      BY <1>32, <3>1
  <2>2. \A k \in Credits : Get(p, k, dd[k]) = Knob(q, k)
    <3>1. \A k \in Credits : d[k] = Floored(q)[k]
      BY FlooredIs, SubmitAssumption DEF Settings, Floors, Routed, d
    <3>2. dd = d
      BY DEF dd
    <3>3. \A k \in Credits : Get(p, k, d[k]) = Get(q, k, d[k])
      BY <1>1 DEF SameAnswers, Asking, Settings
    <3> QED
      BY <3>1, <3>2, <3>3 DEF Knob
  <2>3. /\ igwn.use_oauth_services = Get(p, "use_oauth_services", dd["use_oauth_services"])
        /\ igwn.accounting_group = Get(p, "accounting_group", dd["accounting_group"])
        /\ igwn.accounting_group_user =
             IF Get(p, "accounting_group", dd["accounting_group"]) = "" THEN ""
             ELSE Get(p, "accounting_group_user", dd["accounting_group_user"])
        /\ igwn.pools = Get(p, "pools", dd["pools"])
    BY <1>11 DEF IsIgwnKnobs
  <2> QED
    BY <2>1, <2>2, <2>3 DEF CreditFields
<1>44. IgwnRouted(w) /\ "use_oauth_services" \notin DOMAIN q =>
          ad.use_oauth_services = cfg.igwn["use_oauth_services"]
  <2> SUFFICES ASSUME IgwnRouted(w), "use_oauth_services" \notin DOMAIN q
               PROVE  ad.use_oauth_services = cfg.igwn["use_oauth_services"]
    OBVIOUS
  <2>1. ad["use_oauth_services"] = igwn["use_oauth_services"]
    <3>1. "use_oauth_services" \in DOMAIN igwn /\ "use_oauth_services" \notin DOMAIN over
      BY <1>14, <1>26 DEF Clustered, Overridden
    <3> QED
      BY <1>32, <3>1
  <2>2. igwn.use_oauth_services = Get(p, "use_oauth_services", dd["use_oauth_services"])
    BY <1>11 DEF IsIgwnKnobs
  <2>3. Get(p, "use_oauth_services", dd["use_oauth_services"]) = dd["use_oauth_services"]
    BY <1>1 DEF SameAnswers, Asking, Settings, Get
  <2>4. "use_oauth_services" \in DOMAIN cfg.igwn
    BY SubmitAssumption DEF IgwnRouted
  <2>5. dd["use_oauth_services"] = cfg.igwn["use_oauth_services"]
    BY <2>4, WithNew DEF dd
  <2> QED
    BY <2>1, <2>2, <2>3, <2>5
<1> DEFINE sized == w = "alma" /\ item.alma.mb > 0
<1>45. /\ igwn["disk"] = Knob(q, "request_disk")
       /\ igwn["runtime"] = Knob(q, "max_runtime_seconds")
  <2>1. igwn["disk"] = Asked(p, res).disk /\ igwn["runtime"] = Asked(p, res).runtime
    BY <1>35, <1>37
  <2> QED
    BY <1>41, <2>1, AskedIs DEF Settings, Numbers
<1>46. ~sized => RoomFields(ad, q)
  BY <1>33, <1>17, <1>45 DEF RoomFields
<1>47. "max_runtime_seconds" \in DOMAIN q => ad.runtime = q["max_runtime_seconds"]
  <2> SUFFICES ASSUME "max_runtime_seconds" \in DOMAIN q
               PROVE  ad.runtime = q["max_runtime_seconds"]
    OBVIOUS
  <2>1. "runtime" \notin DOMAIN over
    BY <1>17, InputsAre DEF p
  <2>2. Knob(q, "max_runtime_seconds") = q["max_runtime_seconds"]
    BY DEF Knob, Get
  <2> QED
    BY <1>33, <1>45, <2>1, <2>2
<1>48. "request_disk" \in DOMAIN q => ad.disk = q["request_disk"]
  <2> SUFFICES ASSUME "request_disk" \in DOMAIN q
               PROVE  ad.disk = q["request_disk"]
    OBVIOUS
  <2>1. "disk" \notin DOMAIN over
    BY <1>17, InputsAre DEF p
  <2>2. Knob(q, "request_disk") = q["request_disk"]
    BY DEF Knob, Get
  <2> QED
    BY <1>33, <1>45, <2>1, <2>2
<1>49. sized /\ "request_disk" \notin DOMAIN q => ad.disk \in Nat /\ 2 * ad.disk >= 5 * item.alma.mb
  <2> SUFFICES ASSUME sized, "request_disk" \notin DOMAIN q
               PROVE  ad.disk \in Nat /\ 2 * ad.disk >= 5 * item.alma.mb
    OBVIOUS
  <2>1. item.alma.mb \in Nat /\ cfg.defaults["request_disk"] \in Nat
    BY SubmitAssumption DEF Numbers
  <2>2. "request_disk" \notin DOMAIN p
    BY InputsAre DEF p, Models
  <2>3. UsesWrapper(q)
    BY NamedWrapped DEF Named, w
  <2>4. Knob(q, "request_disk") = cfg.defaults["request_disk"]
    <3>1. Resources(w) = Nothing /\ FiestaOverrides(w, q, cfg.defaults) = Nothing
      BY DEF Resources, FiestaOverrides, Named
    <3>2. DOMAIN Nothing = {}
      BY DEF Nothing
    <3>3. "request_disk" \in DOMAIN cfg.defaults
      BY SubmitAssumption DEF Settings, Numbers
    <3>4. Fitted(q)["request_disk"] = cfg.defaults["request_disk"] /\ "request_disk" \in DOMAIN Fitted(q)
      <4>1. Fitted(q) = With(cfg.defaults, Nothing)
        BY <3>1 DEF Fitted, w
      <4>2. DOMAIN With(cfg.defaults, Nothing) = DOMAIN cfg.defaults \cup DOMAIN Nothing
        BY WithDom
      <4>3. With(cfg.defaults, Nothing)["request_disk"] = cfg.defaults["request_disk"]
        BY <3>2, <3>3, WithOld
      <4> QED
        BY <3>3, <4>1, <4>2, <4>3
    <3>5. Floored(q)["request_disk"] = cfg.defaults["request_disk"]
      <4>1. Floored(q) = With(Fitted(q), Nothing)
        BY <3>1 DEF Floored, w
      <4>2. With(Fitted(q), Nothing)["request_disk"] = Fitted(q)["request_disk"]
        BY <3>2, <3>4, WithOld
      <4> QED
        BY <3>4, <4>1, <4>2
    <3> QED
      BY <3>5 DEF Knob, Get
  <2>5. CASE "disk" \in DOMAIN over
    <3>1. ad.disk = (5 * item.alma.mb) \div 2 + 1024
      BY <1>33, <1>17, <2>3, <2>5
    <3> DEFINE half == (5 * item.alma.mb) \div 2
    <3>2. 5 * item.alma.mb \in Nat
      BY <2>1
    <3>3. half \in Nat /\ 2 * half + 1 >= 5 * item.alma.mb
      BY <3>2
    <3> HIDE DEF half
    <3> QED
      BY <2>1, <3>1, <3>2, <3>3 DEF half
  <2>6. CASE "disk" \notin DOMAIN over
    <3>1. ad.disk = cfg.defaults["request_disk"]
      BY <1>33, <1>45, <2>4, <2>6
    <3>2. ~((5 * item.alma.mb) \div 2 + 1024 > cfg.defaults["request_disk"])
      BY <1>17, <2>2, <2>6
    <3> DEFINE half == (5 * item.alma.mb) \div 2
    <3>3. 5 * item.alma.mb \in Nat
      BY <2>1
    <3>4. half \in Nat /\ 2 * half + 1 >= 5 * item.alma.mb
      BY <3>3
    <3>5. ~(half + 1024 > cfg.defaults["request_disk"])
      BY <3>2
    <3> HIDE DEF half
    <3> QED
      BY <2>1, <3>1, <3>3, <3>4, <3>5
  <2> QED
    BY <2>5, <2>6
<1> HIDE DEF sized
<1>50. ad.ap = IF IgwnRouted(w) THEN "igwn" ELSE "default"
  BY <1>6, <1>29
<1> QED
  BY <1>29, <1>38, <1>39, <1>40, <1>42, <1>43, <1>44, <1>46, <1>47, <1>48, <1>49, <1>50
     DEF IsSingle, sized, w, ad

-----------------------------------------------------------------------------
(***************************************************************************)
(* Batches                                                                 *)
(***************************************************************************)
\* A proc of a batch, field by field.
IsBatched(ad, lead, item) ==
    LET q == lead.params
        w == WrapperOf(q)
    IN /\ DOMAIN ad = Clustered \cup {"inputs", "staged"}
       /\ SharedFields(ad, q) /\ RoomFields(ad, q) /\ CreditFields(ad, q) /\ RunFields(ad, q)
       /\ ad.ap = "default" /\ ad.inputs = item.params
       /\ ad.staged = IF w \in {"oracle", "fleet", "flare"} THEN Staged(w, item) ELSE {}

\* The description of a proc: the cluster's fields, and its own inputs and files.
LEMMA BatchedFields ==
  ASSUME cfg \in Configs, NEW lead \in Items, NEW item \in Items
  PROVE  IsBatched(With(BatchAd(lead.params), ProcFiles(WrapperOf(lead.params), item)), lead, item)
<1> DEFINE q == lead.params
           w == WrapperOf(q)
           b == BatchAd(q)
           own == ProcFiles(w, item)
           ad == With(b, own)
<1>1. /\ DOMAIN b = Clustered /\ b.ap = "default"
      /\ SharedFields(b, q) /\ RoomFields(b, q) /\ CreditFields(b, q) /\ RunFields(b, q)
  BY BatchFields
<1>2. /\ DOMAIN own = {"inputs", "staged"} /\ own.inputs = item.params
      /\ own.staged = IF w \in {"oracle", "fleet", "flare"} THEN Staged(w, item) ELSE {}
  BY DEF ProcFiles
<1> HIDE DEF own, b, w
<1>3. DOMAIN ad = DOMAIN b \cup DOMAIN own
  BY WithDom
<1>4. \A k \in DOMAIN own : ad[k] = own[k]
  BY WithNew
<1>5. \A k \in DOMAIN b \ DOMAIN own : ad[k] = b[k]
  BY WithOld
<1> HIDE DEF ad
<1>6. \A k \in Clustered : ad[k] = b[k]
  BY <1>1, <1>2, <1>5 DEF Clustered
<1>7. SharedFields(ad, q)
  BY <1>1, <1>6 DEF SharedFields, Clustered
<1>8. RoomFields(ad, q) /\ CreditFields(ad, q)
  BY <1>1, <1>6 DEF RoomFields, CreditFields, Clustered
<1>9. RunFields(ad, q)
  BY <1>1, <1>6 DEF RunFields, Clustered
<1>10. ad.ap = "default" /\ ad.inputs = own.inputs /\ ad.staged = own.staged
  BY <1>1, <1>2, <1>4, <1>6 DEF Clustered
<1> QED
  BY <1>1, <1>2, <1>3, <1>7, <1>8, <1>9, <1>10 DEF IsBatched, w, ad, b, own

\* What an equal signature says of two requests.
Signed == Numbers \cup {"gpu_requirements", "singularity_image"}
LEMMA SignedAlike ==
  ASSUME NEW a, NEW b, Signature(a) = Signature(b)
  PROVE  /\ \A k \in Signed : Knob(a, k) = Knob(b, k)
         /\ WrapperOf(a) = WrapperOf(b)
         /\ Get(a, "cpu_requirements", Get(Floored(a), "cpu_requirements", "")) =
            Get(b, "cpu_requirements", Get(Floored(b), "cpu_requirements", ""))
<1>1. \A p : Signature(p) =
         <<Asked(p, Floored(p)), Get(p, "cpu_requirements", Get(Floored(p), "cpu_requirements", "")),
           Knob(p, "singularity_image"), Knob(p, "request_gpus"), Knob(p, "gpu_requirements"),
           Get(p, "wrapper", "")>>
  BY DEF Signature, Floored, Fitted, Knob
<1>2. /\ Asked(a, Floored(a)) = Asked(b, Floored(b))
      /\ Get(a, "cpu_requirements", Get(Floored(a), "cpu_requirements", "")) =
         Get(b, "cpu_requirements", Get(Floored(b), "cpu_requirements", ""))
      /\ Knob(a, "singularity_image") = Knob(b, "singularity_image")
      /\ Knob(a, "request_gpus") = Knob(b, "request_gpus")
      /\ Knob(a, "gpu_requirements") = Knob(b, "gpu_requirements")
      /\ Get(a, "wrapper", "") = Get(b, "wrapper", "")
  BY <1>1
<1>3. /\ Knob(a, "request_cpus") = Knob(b, "request_cpus")
      /\ Knob(a, "request_memory") = Knob(b, "request_memory")
      /\ Knob(a, "request_disk") = Knob(b, "request_disk")
      /\ Knob(a, "max_runtime_seconds") = Knob(b, "max_runtime_seconds")
  <2>1. \A p : /\ Asked(p, Floored(p)).cpus = Knob(p, "request_cpus")
              /\ Asked(p, Floored(p)).memory = Knob(p, "request_memory")
              /\ Asked(p, Floored(p)).disk = Knob(p, "request_disk")
              /\ Asked(p, Floored(p)).runtime = Knob(p, "max_runtime_seconds")
    BY AskedIs DEF Knob
  <2>2. Asked(a, Floored(a)) = Asked(b, Floored(b))
    BY <1>2
  <2> QED
    BY <2>1, <2>2
<1> QED
  BY <1>2, <1>3 DEF Signed, Numbers, WrapperOf

\* With a default to require, the signature tells the CPU requirements apart.
LEMMA CpuAlike ==
  ASSUME cfg \in Configs, CpusRequired, NEW a, NEW b, Signature(a) = Signature(b)
  PROVE  CpuNeeds(a) = CpuNeeds(b)
<1>1. "cpu_requirements" \in DOMAIN cfg.defaults
  BY DEF CpusRequired
<1>2. \A p : "cpu_requirements" \in DOMAIN Floored(p) /\
             Floored(p)["cpu_requirements"] = cfg.defaults["cpu_requirements"]
  BY <1>1, FlooredIs DEF Floors, Routed
<1> QED
  BY <1>1, <1>2, SignedAlike DEF CpuNeeds, Get

\* The floors of a wrapper of its own leave the image alone.
LEMMA NamedImage ==
  ASSUME cfg \in Configs, NEW q, WrapperOf(q) \in Named
  PROVE  Floored(q)["singularity_image"] = cfg.defaults["singularity_image"]
<1> DEFINE w == WrapperOf(q)
           k == "singularity_image"
<1>1. FiestaOverrides(w, q, cfg.defaults) = Nothing
  BY DEF FiestaOverrides
<1>2. DOMAIN Nothing = {}
  BY DEF Nothing
<1>3. k \in DOMAIN cfg.defaults /\ k \notin DOMAIN Resources(w)
  <2>1. DOMAIN Resources(w) \subseteq Floors
    BY FloorsAre
  <2>2. k \in DOMAIN cfg.defaults
    BY SubmitAssumption DEF Settings
  <2> QED
    BY <2>1, <2>2 DEF Floors
<1>4. Fitted(q)[k] = cfg.defaults[k] /\ k \in DOMAIN Fitted(q)
  <2>1. Fitted(q) = With(cfg.defaults, Nothing)
    BY <1>1 DEF Fitted
  <2>2. DOMAIN With(cfg.defaults, Nothing) = DOMAIN cfg.defaults \cup DOMAIN Nothing
    BY WithDom
  <2>3. With(cfg.defaults, Nothing)[k] = cfg.defaults[k]
    BY <1>2, <1>3, WithOld
  <2> QED
    BY <1>3, <2>1, <2>2, <2>3
<1>5. Floored(q)[k] = Fitted(q)[k]
  BY <1>3, <1>4, WithOld DEF Floored
<1> QED
  BY <1>4, <1>5

\* Requests of one signature both leave their wrapper its own image, or neither does.
LEMMA OwnsAlike ==
  ASSUME cfg \in Configs, cfg.batch, ImagesDiffer,
         NEW a \in Items, NEW b \in Items, Signature(a.params) = Signature(b.params)
  PROVE  OwnsImage(a.params) <=> OwnsImage(b.params)
<1>1. ASSUME NEW x \in Items, NEW y \in Items, Signature(x.params) = Signature(y.params),
             OwnsImage(x.params), ~OwnsImage(y.params)
      PROVE  FALSE
  <2> DEFINE k == "singularity_image"
             p == x.params
             q == y.params
             plain == cfg.defaults[k]
  <2>1. WrapperOf(q) = WrapperOf(p) /\ Knob(p, k) = Knob(q, k)
    BY <1>1, SignedAlike DEF Signed
  <2>2. WrapperOf(q) \in ImageOwners /\ WrapperOf(p) \in Named /\ WrapperOf(q) \in Named
    BY <1>1, <2>1 DEF OwnsImage, Named
  <2>3. k \in DOMAIN q /\ q[k] # ""
    BY <1>1, <2>2 DEF OwnsImage, Get
  <2>4. q[k] # plain
    BY <2>2, <2>3 DEF ImagesDiffer
  <2>5. Knob(q, k) = q[k]
    BY <2>3 DEF Knob, Get
  <2>6. Knob(p, k) \in {"", plain}
    BY <1>1, <2>2, NamedImage DEF OwnsImage, Knob, Get
  <2> QED
    BY <2>1, <2>3, <2>4, <2>5, <2>6
<1> QED
  BY <1>1

-----------------------------------------------------------------------------
(***************************************************************************)
(* The inductive invariant                                                 *)
(***************************************************************************)
\* A job that submit_job described.
Alone(j) ==
    /\ j.item \in Items /\ j.path = "single" /\ ~Batchable(WrapperOf(j.item.params))
    /\ j.ad = SingleAd(j.item)
    /\ j.rec.ap = j.ad.ap /\ j.rec.osdf_staged = OsdfStaged(j.ad.staged)

\* A proc of the batch that lead describes.
Follows(j, lead) ==
    /\ lead \in Items /\ j.item \in Items /\ j.path = "batch"
    /\ Batchable(WrapperOf(j.item.params))
    /\ Signature(lead.params) = Signature(j.item.params)
    /\ j.ad = With(BatchAd(lead.params), ProcFiles(WrapperOf(lead.params), j.item))
    /\ j.rec.ap = "default" /\ j.rec.osdf_staged = {}
Grouped(j) == \E lead \in Items : Follows(j, lead)

QueueInv ==
    /\ queue \in Seq(Items)
    /\ \A i \in DOMAIN queue : Batchable(WrapperOf(queue[i].params))
JobsInv == \A j \in jobs : j.key \in (1 .. cluster) \X Nat /\ (Alone(j) \/ Grouped(j))
DescInv ==
    /\ cfg \in Configs /\ arrived \in 0 .. MaxRequests /\ cluster \in Nat
    /\ QueueInv /\ JobsInv

USE DEF vars

\* The configuration does not change, and with it no description.
LEMMA SingleStays ==
  ASSUME cfg' = cfg, NEW item
  PROVE  SingleAd(item)' = SingleAd(item)
<1>1. \A p : ModelNames(p)' = ModelNames(p)
  BY DEF ModelNames
<1>2. \A p : UsesWrapper(p)' = UsesWrapper(p)
  BY DEF UsesWrapper
<1>3. StageModels' = StageModels
  BY DEF StageModels, PassedOn
<1>4. \A w : Staged(w, item)' = Staged(w, item)
  BY <1>3 DEF Staged
<1>5. \A w, p : WrapperOverrides(w, p, item)' = WrapperOverrides(w, p, item)
  BY <1>4 DEF WrapperOverrides
<1>6. \A w : IgwnRouted(w)' = IgwnRouted(w)
  BY DEF IgwnRouted
<1> QED
  BY <1>1, <1>2, <1>5, <1>6, ZenonT(60) DEF SingleAd

\* Nor a batch, nor a signature.
LEMMA BatchStays ==
  ASSUME cfg' = cfg, NEW p
  PROVE  BatchAd(p)' = BatchAd(p) /\ Signature(p)' = Signature(p)
BY DEF BatchAd, Signature

\* Nor what is staged for a proc.
LEMMA FilesStay ==
  ASSUME cfg' = cfg, NEW w, NEW item
  PROVE  (Batchable(w)' <=> Batchable(w)) /\ ProcFiles(w, item)' = ProcFiles(w, item)
<1>1. StageModels' = StageModels
  BY DEF StageModels, PassedOn
<1>2. Staged(w, item)' = Staged(w, item)
  BY <1>1 DEF Staged
<1> QED
  BY <1>2 DEF Batchable, ProcFiles

\* What holds of a job and of the queue stays true.
LEMMA JobStays ==
  ASSUME cfg' = cfg, NEW j, Alone(j) \/ Grouped(j)
  PROVE  Alone(j)' \/ Grouped(j)'
<1>1. CASE Alone(j)
  <2>1. SingleAd(j.item)' = SingleAd(j.item)
    BY SingleStays
  <2>2. Batchable(WrapperOf(j.item.params))' <=> Batchable(WrapperOf(j.item.params))
    BY FilesStay
  <2> QED
    BY <1>1, <2>1, <2>2 DEF Alone
<1>2. CASE Grouped(j)
  <2>1. PICK lead \in Items : Follows(j, lead)
    BY <1>2 DEF Grouped
  <2>2. /\ BatchAd(lead.params)' = BatchAd(lead.params)
        /\ Signature(lead.params)' = Signature(lead.params)
        /\ Signature(j.item.params)' = Signature(j.item.params)
    BY BatchStays
  <2>3. /\ Batchable(WrapperOf(j.item.params))' <=> Batchable(WrapperOf(j.item.params))
        /\ ProcFiles(WrapperOf(lead.params), j.item)' = ProcFiles(WrapperOf(lead.params), j.item)
    BY FilesStay
  <2>4. Follows(j, lead)'
    BY <2>1, <2>2, <2>3 DEF Follows
  <2> QED
    BY <2>4 DEF Grouped
<1> QED
  BY <1>1, <1>2

LEMMA JobsStay ==
  ASSUME DescInv, cfg' = cfg, cluster' \in Nat, cluster <= cluster'
  PROVE  \A j \in jobs : j.key \in (1 .. cluster') \X Nat /\ (Alone(j)' \/ Grouped(j)')
<1> SUFFICES ASSUME NEW j \in jobs
             PROVE  j.key \in (1 .. cluster') \X Nat /\ (Alone(j)' \/ Grouped(j)')
  OBVIOUS
<1>1. cluster \in Nat /\ j.key \in (1 .. cluster) \X Nat /\ (Alone(j) \/ Grouped(j))
  BY DEF DescInv, JobsInv
<1>2. j.key \in (1 .. cluster') \X Nat
  BY <1>1
<1> QED
  BY <1>1, <1>2, JobStays

\* submit_job adds one job, described by itself.
LEMMA SubmitKeeps ==
  ASSUME DescInv, cfg' = cfg, NEW item \in Items, ~Batchable(WrapperOf(item.params)),
         SubmitJob(item)
  PROVE  cluster' \in Nat /\ JobsInv'
<1>1. cluster \in Nat /\ cluster' = cluster + 1
  BY DEF DescInv, SubmitJob
<1>2. ASSUME NEW j \in jobs' \ jobs
      PROVE  j.key \in (1 .. cluster') \X Nat /\ Alone(j)
  <2>1. /\ j.key = <<cluster', 0>> /\ j.path = "single" /\ j.item = item /\ j.ad = SingleAd(item)
        /\ j.rec.ap = SingleAd(item).ap /\ j.rec.osdf_staged = OsdfStaged(SingleAd(item).staged)
    BY DEF SubmitJob, Record
  <2>2. j.key \in (1 .. cluster') \X Nat
    BY <1>1, <2>1
  <2> QED
    BY <2>1, <2>2 DEF Alone
<1>3. \A j \in jobs' \ jobs : Alone(j)' \/ Grouped(j)'
  BY <1>2, JobStays
<1>4. \A i \in jobs : i.key \in (1 .. cluster') \X Nat /\ (Alone(i)' \/ Grouped(i)')
  BY <1>1, JobsStay
<1> QED
  BY <1>1, <1>2, <1>3, <1>4 DEF JobsInv

\* submit_jobs_batch adds a proc for each request of a group.
LEMMA BatchKeeps ==
  ASSUME DescInv, cfg' = cfg, NEW items \in Seq(Items), items # <<>>, SubmitBatch(items),
         NEW head, \A i \in DOMAIN items : /\ Batchable(WrapperOf(items[i].params))
                                           /\ Signature(items[i].params) = head
  PROVE  cluster' \in Nat /\ JobsInv'
<1>1. cluster \in Nat /\ cluster' = cluster + 1
  BY DEF DescInv, SubmitBatch
<1> DEFINE lead == items[1]
<1>2. Len(items) \in Nat /\ Len(items) # 0 /\ DOMAIN items = 1 .. Len(items)
  OBVIOUS
<1>3. lead \in Items /\ Signature(lead.params) = head
  BY <1>2
<1>4. ASSUME NEW j \in jobs' \ jobs
      PROVE  j.key \in (1 .. cluster') \X Nat /\ Grouped(j)
  <2>1. PICK n \in 0 .. (Len(items) - 1) :
            /\ j.key = <<cluster', n>> /\ j.path = "batch" /\ j.item = items[n + 1]
            /\ j.ad = With(BatchAd(lead.params), ProcFiles(WrapperOf(lead.params), items[n + 1]))
            /\ j.rec.ap = "default" /\ j.rec.osdf_staged = {}
    BY DEF SubmitBatch, Record
  <2>2. n \in Nat /\ n + 1 \in DOMAIN items
    BY <1>2
  <2>3. /\ j.item \in Items /\ Batchable(WrapperOf(j.item.params))
        /\ Signature(j.item.params) = Signature(lead.params)
    BY <1>3, <2>1, <2>2
  <2>4. Follows(j, lead)
    BY <1>3, <2>1, <2>3 DEF Follows
  <2> QED
    BY <1>1, <1>3, <2>1, <2>2, <2>4 DEF Grouped
<1>5. \A i \in jobs : i.key \in (1 .. cluster') \X Nat /\ (Alone(i)' \/ Grouped(i)')
  BY <1>1, JobsStay
<1>6. \A j \in jobs' \ jobs : Alone(j)' \/ Grouped(j)'
  BY <1>4, JobStays
<1> QED
  BY <1>1, <1>4, <1>5, <1>6 DEF JobsInv

\* Every step keeps the invariant: a flush takes part of the queue and leaves the rest.
LEMMA DescStep == DescInv /\ [Next]_vars => DescInv'
<1> SUFFICES ASSUME DescInv, [Next]_vars PROVE DescInv'
  OBVIOUS
<1>1. cfg' = cfg
  BY DEF Next, Request, FlushGroup
<1>2. cluster \in Nat /\ queue \in Seq(Items)
      /\ \A i \in DOMAIN queue : Batchable(WrapperOf(queue[i].params))
  BY DEF DescInv, QueueInv
<1>3. \A w : Batchable(w)' <=> Batchable(w)
  BY <1>1 DEF Batchable
<1>4. queue' = queue => QueueInv'
  BY <1>2, <1>3 DEF QueueInv
<1>5. cluster' = cluster /\ jobs' = jobs => JobsInv'
  BY <1>1, <1>2, JobsStay DEF JobsInv
<1>6. CASE FlushGroup
  <2> DEFINE mates == {i \in DOMAIN queue : Signature(queue[i].params) = Signature(queue[1].params)}
             rest == DOMAIN queue \ mates
             group == Picked(queue, mates)
  <2>1. queue # <<>> /\ SubmitBatch(group) /\ queue' = Picked(queue, rest) /\ arrived' = arrived
    BY <1>6 DEF FlushGroup
  <2>2. mates \in SUBSET DOMAIN queue /\ rest \in SUBSET DOMAIN queue /\ 1 \in mates
    BY <1>2, <2>1
  <2>3. \A i \in mates : Signature(queue[i].params) = Signature(queue[1].params)
    OBVIOUS
  <2> HIDE DEF mates, rest
  <2>4. /\ group \in Seq(Items) /\ group # <<>>
        /\ \A k \in 1 .. Len(group) : \E i \in mates : group[k] = queue[i]
    BY <1>2, <2>2, PickedList
  <2>5. /\ Picked(queue, rest) \in Seq(Items)
        /\ \A k \in 1 .. Len(Picked(queue, rest)) : \E i \in rest : Picked(queue, rest)[k] = queue[i]
    BY <1>2, <2>2, PickedList
  <2> HIDE DEF group
  <2>6. \A i \in DOMAIN group : /\ Batchable(WrapperOf(group[i].params))
                                /\ Signature(group[i].params) = Signature(queue[1].params)
    BY <1>2, <2>2, <2>3, <2>4
  <2>7. cluster' \in Nat /\ JobsInv'
    BY <1>1, <2>1, <2>4, <2>6, BatchKeeps
  <2>8. QueueInv'
    BY <1>2, <1>3, <2>1, <2>2, <2>5 DEF QueueInv
  <2> QED
    BY <1>1, <2>1, <2>7, <2>8 DEF DescInv
<1>7. ASSUME NEW item \in Items, Request(item)
      PROVE  DescInv'
  <2>1. arrived' \in 0 .. MaxRequests
    BY <1>7, SubmitAssumption DEF DescInv, Request
  <2>2. CASE Batchable(WrapperOf(item.params))
    <3>1. queue' = Append(queue, item) /\ cluster' = cluster /\ jobs' = jobs
      BY <1>7, <2>2 DEF Request
    <3>2. QueueInv'
      BY <1>2, <1>3, <2>2, <3>1 DEF QueueInv
    <3> QED
      BY <1>1, <1>2, <1>5, <2>1, <3>1, <3>2 DEF DescInv
  <2>3. CASE ~Batchable(WrapperOf(item.params))
    <3>1. SubmitJob(item) /\ queue' = queue
      BY <1>7, <2>3 DEF Request
    <3>2. cluster' \in Nat /\ JobsInv'
      BY <1>1, <2>3, <3>1, SubmitKeeps
    <3> QED
      BY <1>1, <1>4, <2>1, <3>1, <3>2 DEF DescInv
  <2> QED
    BY <2>2, <2>3
<1>8. CASE UNCHANGED vars
  BY <1>1, <1>2, <1>4, <1>5, <1>8 DEF DescInv
<1> QED
  BY <1>6, <1>7, <1>8 DEF Next

\* Every submitted job is described by its own request alone, or by a request of the
\* same signature.
THEOREM DescriptionsKnown == Spec => []DescInv
<1>1. Init => DescInv
  BY SubmitAssumption DEF Init, DescInv, QueueInv, JobsInv
<1> QED
  BY <1>1, DescStep, PTL DEF Spec

-----------------------------------------------------------------------------
(***************************************************************************)
(* The properties                                                          *)
(***************************************************************************)
\* What a knob is worth, and what that makes of each kind of job.
LEMMA KnobNat ==
  ASSUME cfg \in Configs, NEW item \in Items, NEW k \in Numbers
  PROVE  Knob(item.params, k) \in Nat
<1>1. Floored(item.params)[k] \in Nat
  BY FlooredIs
<1>2. k \in DOMAIN item.params => item.params[k] \in Nat
  BY SubmitAssumption
<1> QED
  BY <1>1, <1>2 DEF Knob, Get

LEMMA KnobAsked ==
  ASSUME NEW q, NEW k \in DOMAIN q
  PROVE  Knob(q, k) = q[k]
BY DEF Knob, Get

LEMMA AloneFields ==
  ASSUME cfg \in Configs, NEW j, Alone(j)
  PROVE  IsSingle(j.ad, j.item)
BY SingleFields DEF Alone

LEMMA FollowsFields ==
  ASSUME cfg \in Configs, NEW j, NEW lead, Follows(j, lead)
  PROVE  IsBatched(j.ad, lead, j.item)
BY BatchedFields DEF Follows

\* What submit_job stages under an osdf:// URL is the request's own.
LEMMA StagedOwn ==
  ASSUME cfg \in Configs, ModelsKept, NEW w, NEW item
  PROVE  OsdfStaged(Staged(w, item)) \subseteq item.alma.files
<1>1. CASE w = "aframe"
  <2>1. Staged(w, item) = StageModels
    BY <1>1 DEF Staged
  <2>2. ASSUME NEW f \in OsdfStaged(Staged(w, item)) PROVE f \in StageModels /\ f.kind = "osdf"
    BY <2>1 DEF OsdfStaged
  <2> SUFFICES ASSUME NEW f \in StageModels, f.kind = "osdf" PROVE FALSE
    BY <2>2
  <2>3. PICK k \in Models :
            f.kind = IF PassedOn(cfg.aframe[k]) THEN cfg.aframe[k].kind ELSE "local"
    <3>1. PICK k \in {m \in Models : cfg.aframe[m].kind \notin {"", "missing"}} :
             f = [kind |-> IF PassedOn(cfg.aframe[k]) THEN cfg.aframe[k].kind ELSE "local",
                  name |-> IF PassedOn(cfg.aframe[k]) THEN cfg.aframe[k].name ELSE k]
      BY DEF StageModels
    <3> QED
      BY <3>1
  <2>4. PassedOn(cfg.aframe[k]) /\ cfg.aframe[k].kind = "osdf"
    BY <2>3
  <2> QED
    BY <2>3, <2>4 DEF PassedOn, ModelsKept
<1>2. CASE w = "alma"
  BY <1>2 DEF Staged, OsdfStaged
<1>3. CASE w \notin {"aframe", "alma"}
  <2>1. Staged(w, item) = {} \/ Staged(w, item) = {[kind |-> "local", name |-> w]}
    BY <1>3 DEF Staged
  <2> QED
    BY <2>1 DEF OsdfStaged
<1> QED
  BY <1>1, <1>2, <1>3

\* A job by itself: its record has its AP, that AP's credentials, and its own objects.
LEMMA AloneRecord ==
  ASSUME cfg \in Configs, ModelsKept, NEW j, Alone(j)
  PROVE  /\ j.ad.gpus \in Nat /\ j.ad.memory \in Nat /\ j.ad.disk \in Nat
         /\ j.rec.ap = j.ad.ap
         /\ j.ad.ap = "igwn" <=> WrapperOf(j.item.params) \in cfg.igwn_wrappers
         /\ j.ad.ap = "igwn" /\ "use_oauth_services" \notin DOMAIN j.item.params =>
              j.ad.use_oauth_services = cfg.igwn["use_oauth_services"]
         /\ j.rec.osdf_staged \subseteq j.item.alma.files
<1> DEFINE q == j.item.params
           w == WrapperOf(q)
           sized == w = "alma" /\ j.item.alma.mb > 0
<1>1. IsSingle(j.ad, j.item) /\ j.item \in Items
  BY AloneFields DEF Alone
<1>2. SharedFields(j.ad, q) /\ (~sized => RoomFields(j.ad, q))
  BY <1>1 DEF IsSingle
<1>3. sized => /\ "request_disk" \in DOMAIN q => j.ad.disk = q["request_disk"]
               /\ "request_disk" \notin DOMAIN q => j.ad.disk \in Nat
  BY <1>1 DEF IsSingle
<1>4. \A k \in Numbers : Knob(q, k) \in Nat
  BY <1>1, KnobNat
<1>5. "request_disk" \in DOMAIN q => q["request_disk"] \in Nat
  BY <1>1, SubmitAssumption DEF Numbers
<1>6. j.ad.gpus \in Nat /\ j.ad.memory \in Nat
  BY <1>2, <1>4 DEF SharedFields, Numbers
<1>7. j.ad.disk \in Nat
  BY <1>2, <1>3, <1>4, <1>5 DEF RoomFields, Numbers
<1>8. j.ad.ap = IF IgwnRouted(w) THEN "igwn" ELSE "default"
  BY <1>1 DEF IsSingle
<1>9. IgwnRouted(w) /\ "use_oauth_services" \notin DOMAIN q =>
          j.ad.use_oauth_services = cfg.igwn["use_oauth_services"]
  BY <1>1 DEF IsSingle
<1>10. j.ad.staged = {} \/ j.ad.staged = Staged(w, j.item)
  BY <1>1 DEF IsSingle
<1>11. OsdfStaged(j.ad.staged) \subseteq j.item.alma.files
  BY <1>10, StagedOwn DEF OsdfStaged
<1> QED
  BY <1>6, <1>7, <1>8, <1>9, <1>11 DEF Alone, IgwnRouted

\* A proc of a batch: on the default AP, with no object to delete.
LEMMA GroupedRecord ==
  ASSUME cfg \in Configs, NEW j, Grouped(j)
  PROVE  /\ j.ad.gpus \in Nat /\ j.ad.memory \in Nat /\ j.ad.disk \in Nat
         /\ j.rec.ap = j.ad.ap /\ j.ad.ap = "default"
         /\ WrapperOf(j.item.params) \notin cfg.igwn_wrappers
         /\ j.rec.osdf_staged \subseteq j.item.alma.files
<1>1. PICK lead \in Items : Follows(j, lead)
  BY DEF Grouped
<1> DEFINE q == lead.params
<1>2. IsBatched(j.ad, lead, j.item)
  BY <1>1, FollowsFields
<1>3. SharedFields(j.ad, q) /\ RoomFields(j.ad, q) /\ j.ad.ap = "default"
  BY <1>2 DEF IsBatched
<1>4. \A k \in Numbers : Knob(q, k) \in Nat
  BY KnobNat
<1>5. j.ad.gpus \in Nat /\ j.ad.memory \in Nat /\ j.ad.disk \in Nat
  BY <1>3, <1>4 DEF SharedFields, RoomFields, Numbers
<1> QED
  BY <1>1, <1>3, <1>5 DEF Follows, Batchable

\* A record tells the poller the truth about its job, on either path, unless models
\* that many jobs share are passed on by a URL with the prefix that is cleaned up.
THEOREM RecordsAreTrue ==
  ASSUME ModelsKept
  PROVE  Spec => []RecordIsTrue
<1>1. ASSUME DescInv PROVE RecordIsTrue
  <2>1. cfg \in Configs
    BY <1>1 DEF DescInv
  <2>2. ASSUME NEW j \in jobs
        PROVE  /\ j.key \in (1 .. cluster) \X Nat /\ j.item \in Items
               /\ j.path \in {"single", "batch"}
               /\ j.ad.gpus \in Nat /\ j.ad.memory \in Nat /\ j.ad.disk \in Nat
               /\ j.rec.ap = j.ad.ap
               /\ j.ad.ap = "igwn" <=> WrapperOf(j.item.params) \in cfg.igwn_wrappers
               /\ j.ad.ap = "igwn" /\ "use_oauth_services" \notin DOMAIN j.item.params =>
                      j.ad.use_oauth_services = cfg.igwn["use_oauth_services"]
               /\ j.rec.osdf_staged \subseteq j.item.alma.files
    <3>1. j.key \in (1 .. cluster) \X Nat /\ (Alone(j) \/ Grouped(j))
      BY <1>1 DEF DescInv, JobsInv
    <3>2. CASE Alone(j)
      <4>1. j.item \in Items /\ j.path = "single"
        BY <3>2 DEF Alone
      <4> QED
        BY <2>1, <3>1, <3>2, <4>1, AloneRecord
    <3>3. CASE Grouped(j)
      <4>1. j.item \in Items /\ j.path = "batch"
        BY <3>3 DEF Grouped, Follows
      <4> QED
        BY <2>1, <3>1, <3>3, <4>1, GroupedRecord
    <3> QED
      BY <3>1, <3>2, <3>3
  <2>3. TypeOK
    BY <1>1, <2>2 DEF TypeOK, DescInv, QueueInv
  <2>4. IgwnOnItsAp
    BY <2>2 DEF IgwnOnItsAp
  <2>5. StagedIsOwn
    BY <2>2 DEF StagedIsOwn
  <2> QED
    BY <2>3, <2>4, <2>5 DEF RecordIsTrue
<1> QED
  BY <1>1, DescriptionsKnown, PTL

\* A request's own value is what its job has, for the knobs of every description.
ExplicitSigned(ad, p) ==
    /\ "request_cpus" \in DOMAIN p => ad.cpus = p["request_cpus"]
    /\ "request_memory" \in DOMAIN p => ad.memory = p["request_memory"]
    /\ "request_gpus" \in DOMAIN p => ad.gpus = p["request_gpus"]
    /\ "singularity_image" \in DOMAIN p /\ p["singularity_image"] # "" =>
         ad.image = p["singularity_image"]
    /\ "cpu_requirements" \in DOMAIN p =>
         /\ {p["cpu_requirements"]} \ {""} \subseteq ad.requirements
         /\ p["cpu_requirements"] = "" => "v3" \notin ad.requirements

\* A knob that a request sets is in a description that agrees with it on what is signed.
LEMMA ExplicitShared ==
  ASSUME cfg \in Configs, CpusRequired, NEW ad, NEW lead \in Items, SharedFields(ad, lead.params),
         NEW p, \A k \in Signed : Knob(lead.params, k) = Knob(p, k),
         CpuNeeds(lead.params) = CpuNeeds(p), OwnsImage(lead.params) <=> OwnsImage(p)
  PROVE  ExplicitSigned(ad, p)
<1> DEFINE q == lead.params
<1>1. /\ "request_cpus" \in DOMAIN p => ad.cpus = p["request_cpus"]
      /\ "request_memory" \in DOMAIN p => ad.memory = p["request_memory"]
      /\ "request_gpus" \in DOMAIN p => ad.gpus = p["request_gpus"]
  <2>1. /\ ad.cpus = Knob(p, "request_cpus") /\ ad.memory = Knob(p, "request_memory")
        /\ ad.gpus = Knob(p, "request_gpus")
    BY DEF SharedFields, Signed, Numbers
  <2> QED
    BY <2>1, KnobAsked
<1>2. "singularity_image" \in DOMAIN p /\ p["singularity_image"] # "" =>
          ad.image = p["singularity_image"]
  <2> SUFFICES ASSUME "singularity_image" \in DOMAIN p, p["singularity_image"] # ""
               PROVE  ad.image = p["singularity_image"]
    OBVIOUS
  <2>1. ~OwnsImage(p)
    BY DEF OwnsImage, Get
  <2>2. ad.image = Knob(p, "singularity_image")
    BY <2>1 DEF SharedFields, Signed
  <2> QED
    BY <2>2, KnobAsked
<1>3. Knob(q, "gpu_requirements") # "v3"
  <2>1. Floored(q)["gpu_requirements"] = cfg.defaults["gpu_requirements"]
    BY FlooredIs, SubmitAssumption DEF Settings, Floors, Routed
  <2> QED
    BY <2>1 DEF CpusRequired, Knob, Get
<1>4. ad.requirements = CpuNeeds(p) \cup GpuNeeds(q)
  BY DEF SharedFields
<1>5. "v3" \notin GpuNeeds(q)
  BY <1>3 DEF GpuNeeds
<1>6. "cpu_requirements" \in DOMAIN p => CpuNeeds(p) = {"linux", p["cpu_requirements"]} \ {""}
  BY DEF CpuNeeds, Get
<1> QED
  BY <1>1, <1>2, <1>4, <1>5, <1>6 DEF ExplicitSigned

\* What ExplicitWins says of one job.
Explicit(j) ==
    LET p == j.item.params IN
    /\ ExplicitSigned(j.ad, p)
    /\ "request_disk" \in DOMAIN p => j.ad.disk = p["request_disk"]
    /\ "max_runtime_seconds" \in DOMAIN p => j.ad.runtime = p["max_runtime_seconds"]

\* For a job by itself, ALMA sizes only what the request left alone.
LEMMA AloneExplicit ==
  ASSUME cfg \in Configs, CpusRequired, NEW j, Alone(j)
  PROVE  Explicit(j)
<1> DEFINE p == j.item.params
           sized == WrapperOf(p) = "alma" /\ j.item.alma.mb > 0
<1>1. IsSingle(j.ad, j.item) /\ j.item \in Items
  BY AloneFields DEF Alone
<1>2. SharedFields(j.ad, p) /\ (~sized => RoomFields(j.ad, p))
  BY <1>1 DEF IsSingle
<1>3. sized => /\ "request_disk" \in DOMAIN p => j.ad.disk = p["request_disk"]
               /\ "max_runtime_seconds" \in DOMAIN p => j.ad.runtime = p["max_runtime_seconds"]
  BY <1>1 DEF IsSingle
<1>4. /\ "request_disk" \in DOMAIN p => j.ad.disk = p["request_disk"]
      /\ "max_runtime_seconds" \in DOMAIN p => j.ad.runtime = p["max_runtime_seconds"]
  BY <1>2, <1>3, KnobAsked DEF RoomFields
<1> HIDE DEF sized
<1> QED
  BY <1>1, <1>2, <1>4, ExplicitShared DEF Explicit

\* For a proc of a batch, its signature holds its knobs.
LEMMA GroupedExplicit ==
  ASSUME cfg \in Configs, CpusRequired, ImagesDiffer, NEW j, Grouped(j)
  PROVE  Explicit(j)
<1>1. PICK lead \in Items : Follows(j, lead)
  BY DEF Grouped
<1> DEFINE q == lead.params
           p == j.item.params
<1>2. /\ j.item \in Items /\ Signature(q) = Signature(p)
      /\ cfg.batch
  BY <1>1 DEF Follows, Batchable
<1>3. SharedFields(j.ad, q) /\ RoomFields(j.ad, q)
  BY <1>1, FollowsFields DEF IsBatched
<1>4. \A k \in Signed : Knob(q, k) = Knob(p, k)
  BY <1>2, SignedAlike
<1>5. CpuNeeds(q) = CpuNeeds(p)
  BY <1>2, CpuAlike
<1>6. OwnsImage(q) <=> OwnsImage(p)
  BY <1>2, OwnsAlike
<1>7. /\ "request_disk" \in DOMAIN p => j.ad.disk = p["request_disk"]
      /\ "max_runtime_seconds" \in DOMAIN p => j.ad.runtime = p["max_runtime_seconds"]
  <2>1. j.ad.disk = Knob(p, "request_disk") /\ j.ad.runtime = Knob(p, "max_runtime_seconds")
    BY <1>3, <1>4 DEF RoomFields, Signed, Numbers
  <2> QED
    BY <2>1, KnobAsked
<1> QED
  BY <1>3, <1>4, <1>5, <1>6, <1>7, ExplicitShared DEF Explicit

\* A request's own value of a knob is its job's, past defaults, floors, GPU routing,
\* ALMA's sizing and the batch it went with.
THEOREM ExplicitAlwaysWins ==
  ASSUME CpusRequired, ImagesDiffer
  PROVE  Spec => []ExplicitWins
<1>1. ASSUME DescInv PROVE ExplicitWins
  <2>1. ASSUME NEW j \in jobs PROVE Explicit(j)
    <3>1. cfg \in Configs /\ (Alone(j) \/ Grouped(j))
      BY <1>1 DEF DescInv, JobsInv
    <3> QED
      BY <3>1, AloneExplicit, GroupedExplicit
  <2> QED
    <3> SUFFICES ASSUME NEW j \in jobs
                 PROVE  LET p == j.item.params
                            fieldOf == [request_cpus |-> "cpus", request_memory |-> "memory",
                                        request_disk |-> "disk", max_runtime_seconds |-> "runtime",
                                        request_gpus |-> "gpus"]
                        IN /\ \A k \in DOMAIN fieldOf \cap DOMAIN p : j.ad[fieldOf[k]] = p[k]
                           /\ "singularity_image" \in DOMAIN p /\ p.singularity_image # "" =>
                                j.ad.image = p.singularity_image
                           /\ "cpu_requirements" \in DOMAIN p =>
                                /\ {p.cpu_requirements} \ {""} \subseteq j.ad.requirements
                                /\ p.cpu_requirements = "" => "v3" \notin j.ad.requirements
      BY DEF ExplicitWins
    <3> DEFINE p == j.item.params
               fieldOf == [request_cpus |-> "cpus", request_memory |-> "memory",
                           request_disk |-> "disk", max_runtime_seconds |-> "runtime",
                           request_gpus |-> "gpus"]
    <3>1. ExplicitSigned(j.ad, p)
      BY <2>1 DEF Explicit
    <3>2. /\ "request_disk" \in DOMAIN p => j.ad.disk = p["request_disk"]
          /\ "max_runtime_seconds" \in DOMAIN p => j.ad.runtime = p["max_runtime_seconds"]
      BY <2>1 DEF Explicit
    <3>3. /\ "request_cpus" \in DOMAIN p => j.ad.cpus = p["request_cpus"]
          /\ "request_memory" \in DOMAIN p => j.ad.memory = p["request_memory"]
          /\ "request_gpus" \in DOMAIN p => j.ad.gpus = p["request_gpus"]
      BY <3>1 DEF ExplicitSigned
    <3>4. \A k \in DOMAIN fieldOf \cap DOMAIN p : j.ad[fieldOf[k]] = p[k]
      BY <3>2, <3>3
    <3> QED
      BY <3>1, <3>4 DEF ExplicitSigned
<1> QED
  BY <1>1, DescriptionsKnown, PTL

\* What a job shares with its request, whichever path it took.
Meant(j) ==
    LET p == j.item.params
        w == WrapperOf(p)
    IN /\ j.ad.memory = Knob(p, "request_memory") /\ j.ad.gpus = Knob(p, "request_gpus")
       /\ w # "alma" => j.ad.disk = Knob(p, "request_disk")
       /\ w = "alma" /\ "request_disk" \notin DOMAIN p => 2 * j.ad.disk >= 5 * j.item.alma.mb
       /\ w \notin ImageOwners => j.ad.image = Knob(p, "singularity_image")
       /\ w = "aframe" => j.ad.inputs = ModelNames(p) /\ j.ad.staged = StageModels

\* A job by itself runs with its request's knobs, and an ALMA reduction with its room.
LEMMA AloneMeant ==
  ASSUME cfg \in Configs, NEW j, Alone(j)
  PROVE  Meant(j)
<1> DEFINE p == j.item.params
           w == WrapperOf(p)
           sized == w = "alma" /\ j.item.alma.mb > 0
<1>1. IsSingle(j.ad, j.item) /\ j.item \in Items
  BY AloneFields DEF Alone
<1>2. SharedFields(j.ad, p) /\ (~sized => RoomFields(j.ad, p))
  BY <1>1 DEF IsSingle
<1>3. w = "alma" /\ "request_disk" \notin DOMAIN p => 2 * j.ad.disk >= 5 * j.item.alma.mb
  <2> SUFFICES ASSUME w = "alma", "request_disk" \notin DOMAIN p
               PROVE  2 * j.ad.disk >= 5 * j.item.alma.mb
    OBVIOUS
  <2>1. CASE sized
    BY <1>1, <2>1 DEF IsSingle
  <2>2. CASE ~sized
    <3>1. j.ad.disk \in Nat
      BY <1>1, <1>2, <2>2, KnobNat DEF RoomFields, Numbers
    <3>2. j.item.alma.mb = 0
      BY <1>1, <2>2, SubmitAssumption
    <3> QED
      BY <3>1, <3>2
  <2> QED
    BY <2>1, <2>2
<1>4. w = "aframe" => j.ad.inputs = ModelNames(p) /\ j.ad.staged = StageModels
  <2> SUFFICES ASSUME w = "aframe" PROVE j.ad.inputs = ModelNames(p) /\ j.ad.staged = StageModels
    OBVIOUS
  <2>1. UsesWrapper(p)
    BY NamedWrapped DEF Named, ImageOwners
  <2>2. j.ad.inputs = Inputs(j.item) /\ j.ad.staged = Staged(w, j.item)
    BY <1>1, <2>1 DEF IsSingle
  <2> QED
    BY <2>2 DEF Inputs, Staged
<1>5. /\ j.ad.memory = Knob(p, "request_memory") /\ j.ad.gpus = Knob(p, "request_gpus")
      /\ w \notin ImageOwners => j.ad.image = Knob(p, "singularity_image")
  BY <1>2 DEF SharedFields, OwnsImage
<1>6. w # "alma" => j.ad.disk = Knob(p, "request_disk")
  BY <1>2 DEF RoomFields
<1> QED
  BY <1>3, <1>4, <1>5, <1>6 DEF Meant

\* A proc of a batch runs with the knobs its leader shares with it.
LEMMA GroupedMeant ==
  ASSUME cfg \in Configs, Wrapped, NEW j, Grouped(j)
  PROVE  Meant(j)
<1>1. PICK lead \in Items : Follows(j, lead)
  BY DEF Grouped
<1> DEFINE q == lead.params
           p == j.item.params
<1>2. /\ Signature(q) = Signature(p) /\ cfg.batch
      /\ WrapperOf(p) # "alma" /\ WrapperOf(p) \notin cfg.igwn_wrappers
  BY <1>1 DEF Follows, Batchable
<1>3. SharedFields(j.ad, q) /\ RoomFields(j.ad, q)
  BY <1>1, FollowsFields DEF IsBatched
<1>4. (\A k \in Signed : Knob(q, k) = Knob(p, k)) /\ WrapperOf(q) = WrapperOf(p)
  BY <1>2, SignedAlike
<1>5. WrapperOf(p) # "aframe"
  BY <1>2 DEF Wrapped
<1>6. /\ j.ad.memory = Knob(p, "request_memory") /\ j.ad.gpus = Knob(p, "request_gpus")
      /\ j.ad.disk = Knob(p, "request_disk")
  BY <1>3, <1>4 DEF SharedFields, RoomFields, Signed, Numbers
<1>7. WrapperOf(p) \notin ImageOwners => j.ad.image = Knob(p, "singularity_image")
  BY <1>3, <1>4 DEF SharedFields, Signed, OwnsImage
<1> QED
  BY <1>2, <1>5, <1>6, <1>7 DEF Meant

\* A floor is what a knob is worth that the request leaves alone.
LEMMA FloorsHold ==
  ASSUME cfg \in Configs, NEW p
  PROVE  LET floors == With(FiestaOverrides(WrapperOf(p), p, cfg.defaults), Resources(WrapperOf(p)))
         IN /\ \A k \in DOMAIN floors \ DOMAIN p : Knob(p, k) = floors[k]
            /\ \A k \in DOMAIN floors \cap Numbers : floors[k] \in Nat
            /\ WrapperOf(p) = "alma" => DOMAIN floors = {}
<1> DEFINE w == WrapperOf(p)
           over == FiestaOverrides(w, p, cfg.defaults)
           res == Resources(w)
           floors == With(over, res)
           base == With(cfg.defaults, over)
<1>1. Floored(p) = With(base, res)
  BY DEF Floored, Fitted
<1>2. w = "alma" => over = Nothing /\ res = Nothing
  BY DEF FiestaOverrides, Resources, Named
<1>3. /\ \A k \in DOMAIN res : res[k] \in Nat
      /\ \A k \in DOMAIN over \cap Numbers : over[k] \in Nat
  BY FloorsAre
<1> HIDE DEF over, res, w
<1>4. DOMAIN floors = DOMAIN over \cup DOMAIN res
  BY WithDom
<1>5. \A k \in DOMAIN res : floors[k] = res[k]
  BY WithNew
<1>6. \A k \in DOMAIN over \ DOMAIN res : floors[k] = over[k]
  BY WithOld
<1>7. \A k \in DOMAIN res : With(base, res)[k] = res[k]
  BY WithNew
<1>8. DOMAIN base = DOMAIN cfg.defaults \cup DOMAIN over
  BY WithDom
<1>9. \A k \in DOMAIN base \ DOMAIN res : With(base, res)[k] = base[k]
  BY WithOld
<1>10. \A k \in DOMAIN over : base[k] = over[k]
  BY WithNew
<1> HIDE DEF floors, base
<1>11. \A k \in DOMAIN floors : Floored(p)[k] = floors[k]
  BY <1>1, <1>4, <1>5, <1>6, <1>7, <1>8, <1>9, <1>10
<1>12. \A k \in DOMAIN floors \ DOMAIN p : Knob(p, k) = floors[k]
  BY <1>11 DEF Knob, Get
<1>13. \A k \in DOMAIN floors \cap Numbers : floors[k] \in Nat
  BY <1>3, <1>4, <1>5, <1>6
<1>14. w = "alma" => DOMAIN floors = {}
  BY <1>2, <1>4 DEF Nothing
<1> QED
  BY <1>12, <1>13, <1>14 DEF floors, over, res, w

\* A job has the room its request's floors ask for.
LEMMA MeantRoomy ==
  ASSUME cfg \in Configs, NEW j, Meant(j)
  PROVE  LET p == j.item.params
             w == WrapperOf(p)
             floors == With(FiestaOverrides(w, p, cfg.defaults), Resources(w))
         IN /\ \A k \in (DOMAIN floors \cap {"request_memory", "request_disk"}) \ DOMAIN p :
                  j.ad[IF k = "request_memory" THEN "memory" ELSE "disk"] >= floors[k]
            /\ w = "alma" /\ "request_disk" \notin DOMAIN p => 2 * j.ad.disk >= 5 * j.item.alma.mb
<1> DEFINE p == j.item.params
           w == WrapperOf(p)
           floors == With(FiestaOverrides(w, p, cfg.defaults), Resources(w))
<1>1. /\ \A k \in DOMAIN floors \ DOMAIN p : Knob(p, k) = floors[k]
      /\ \A k \in DOMAIN floors \cap Numbers : floors[k] \in Nat
      /\ w = "alma" => DOMAIN floors = {}
  BY FloorsHold
<1>2. j.ad.memory = Knob(p, "request_memory") /\ (w # "alma" => j.ad.disk = Knob(p, "request_disk"))
  BY DEF Meant
<1>3. w = "alma" /\ "request_disk" \notin DOMAIN p => 2 * j.ad.disk >= 5 * j.item.alma.mb
  BY DEF Meant
<1> HIDE DEF floors, w, p
<1>4. ASSUME NEW k \in (DOMAIN floors \cap {"request_memory", "request_disk"}) \ DOMAIN p
      PROVE  j.ad[IF k = "request_memory" THEN "memory" ELSE "disk"] >= floors[k]
  <2>1. Knob(p, k) = floors[k] /\ floors[k] \in Nat /\ w # "alma"
    BY <1>1, <1>4 DEF Numbers
  <2>2. CASE k = "request_memory"
    BY <1>2, <2>1, <2>2
  <2>3. CASE k = "request_disk"
    BY <1>2, <2>1, <2>3
  <2> QED
    BY <2>2, <2>3
<1> QED
  BY <1>3, <1>4 DEF floors, w, p

\* The floors of a fit: none for a model that needs no GPU, the CUDA image with a GPU.
CpuFit == [request_memory |-> 6144]
GpuFit(cuda) == [request_memory |-> 6144, request_gpus |-> 1, singularity_image |-> cuda]
FitsOnGpu(p) == Get(p, "request_gpus", 1) > 0
IsRouting(over, p, cuda) ==
    \/ over = Nothing
    \/ over = CpuFit /\ (cuda # "" => ~FitsOnGpu(p))
    \/ over = GpuFit(cuda) /\ FitsOnGpu(p)
LEMMA OverridesAre ==
  ASSUME NEW w, NEW p, NEW d
  PROVE  IsRouting(FiestaOverrides(w, p, d), p, d["gpu_singularity_image"])
<1> DEFINE cuda == d["gpu_singularity_image"]
           over == FiestaOverrides(w, p, d)
           pheno == /\ Get(p, "backend", "fiesta") = "fiesta"
                    /\ Get(p, "source", Get(d, "source", "")) \in Phenomenological
<1>1. over = IF w \in Named \/ pheno THEN Nothing
             ELSE IF cuda # "" /\ FitsOnGpu(p) THEN GpuFit(cuda) ELSE CpuFit
  BY DEF FiestaOverrides, FitsOnGpu, GpuFit, CpuFit
<1> HIDE DEF over, cuda, pheno
<1>2. IsRouting(over, p, cuda)
  BY <1>1, Zenon DEF IsRouting
<1> QED
  BY <1>2 DEF over, cuda

\* A fit has the CUDA image with a GPU, and never without.
CudaImage == cfg.defaults["gpu_singularity_image"]
PlainImage == cfg.defaults["singularity_image"]
Imageless(p) ==
    CudaImage # "" /\ "singularity_image" \notin DOMAIN p /\ WrapperOf(p) \notin Named
Paired(j, p) ==
    /\ j.ad.image = CudaImage => j.ad.gpus > 0
    /\ DOMAIN FiestaOverrides(WrapperOf(p), p, cfg.defaults) # {} /\ j.ad.gpus > 0
         => j.ad.image = CudaImage
LEMMA MeantPaired ==
  ASSUME cfg \in Configs, CudaDiffers, NEW j, Meant(j), j.item \in Items,
         Imageless(j.item.params)
  PROVE  Paired(j, j.item.params)
<1> DEFINE p == j.item.params
           w == WrapperOf(p)
           cuda == CudaImage
           over == FiestaOverrides(w, p, cfg.defaults)
           image == PlainImage
<1>1. cuda # image
  BY DEF Imageless, CudaDiffers, CudaImage, PlainImage
<1>2. w \notin Named /\ cuda # "" /\ "singularity_image" \notin DOMAIN p
  BY DEF Imageless
<1>3. j.ad.image = Knob(p, "singularity_image") /\ j.ad.gpus = Knob(p, "request_gpus")
  BY <1>2 DEF Meant, Named
<1>4. /\ "singularity_image" \in DOMAIN cfg.defaults /\ "request_gpus" \in DOMAIN cfg.defaults
      /\ "request_gpus" \in DOMAIN p => p["request_gpus"] \in Nat
  BY SubmitAssumption DEF Settings, Numbers
<1>5. over = FiestaOverrides(w, p, cfg.defaults)
  OBVIOUS
<1>6. Fitted(p) = With(cfg.defaults, over) /\ Floored(p) = With(Fitted(p), Resources(w))
  BY DEF Floored, Fitted
<1> HIDE DEF w, p, over
<1>7. Resources(w) = Nothing /\ DOMAIN Nothing = {}
  <2>1. w \notin {"pygrb", "aframe", "fleet", "redback"}
    BY <1>2 DEF Named, ImageOwners
  <2> QED
    BY <2>1 DEF Resources, Nothing
<1> HIDE DEF cuda, image
<1>8. over = Nothing \/ (over = CpuFit /\ ~FitsOnGpu(p)) \/ (over = GpuFit(cuda) /\ FitsOnGpu(p))
  <2>1. IsRouting(over, p, cuda)
    BY <1>5, OverridesAre DEF cuda, CudaImage
  <2> QED
    BY <1>2, <2>1, Zenon DEF IsRouting
<1>9. DOMAIN Fitted(p) = DOMAIN cfg.defaults \cup DOMAIN over
  BY <1>6, WithDom
<1>10. ASSUME NEW k \in DOMAIN over PROVE Fitted(p)[k] = over[k]
  BY <1>6, WithNew
<1>11. \A k \in DOMAIN cfg.defaults \ DOMAIN over : Fitted(p)[k] = cfg.defaults[k]
  BY <1>6, WithOld
<1>12. ASSUME NEW k \in DOMAIN Fitted(p) PROVE Floored(p)[k] = Fitted(p)[k]
  BY <1>6, <1>7, WithOld
<1>13. j.ad.image = Fitted(p)["singularity_image"]
  BY <1>2, <1>3, <1>4, <1>9, <1>12 DEF Knob, Get
<1> SUFFICES /\ j.ad.image = cuda => j.ad.gpus > 0
             /\ DOMAIN over # {} /\ j.ad.gpus > 0 => j.ad.image = cuda
  BY DEF Paired, over, w, p, cuda
<1>14. CASE over = Nothing
  <2>1. DOMAIN over = {}
    BY <1>7, <1>14
  <2>2. j.ad.image = image
    BY <1>4, <1>11, <1>13, <2>1 DEF image, PlainImage
  <2> QED
    BY <1>1, <2>1, <2>2
<1>15. CASE over = CpuFit /\ ~FitsOnGpu(p)
  <2>1. DOMAIN over = {"request_memory"}
    BY <1>15 DEF CpuFit
  <2>2. j.ad.image = image
    BY <1>4, <1>11, <1>13, <2>1 DEF image, PlainImage
  <2>3. "request_gpus" \in DOMAIN p
    BY <1>15 DEF FitsOnGpu, Get
  <2>4. ~(p["request_gpus"] > 0)
    BY <1>15, <2>3 DEF FitsOnGpu, Get
  <2>5. j.ad.gpus = p["request_gpus"]
    BY <1>3, <2>3, KnobAsked
  <2> QED
    BY <1>1, <2>2, <2>4, <2>5
<1>16. CASE over = GpuFit(cuda) /\ FitsOnGpu(p)
  <2>1. DOMAIN over = {"request_memory", "request_gpus", "singularity_image"}
        /\ over["request_gpus"] = 1 /\ over["singularity_image"] = cuda
    BY <1>16 DEF GpuFit
  <2>2. j.ad.image = cuda
    BY <1>10, <1>13, <2>1
  <2>3. Floored(p)["request_gpus"] = 1
    BY <1>9, <1>10, <1>12, <2>1
  <2>4. j.ad.gpus > 0
    BY <1>3, <1>16, <2>3 DEF FitsOnGpu, Knob, Get
  <2> QED
    BY <2>2, <2>4
<1> QED
  BY <1>8, <1>14, <1>15, <1>16

\* A search looks for its models under the names they have on the worker.
LEMMA MeantFound ==
  ASSUME cfg \in Configs, ModelsNamed, NEW j, Meant(j), WrapperOf(j.item.params) = "aframe",
         NEW k \in {m \in Models : cfg.aframe[m].kind \notin {"", "missing"}} \ DOMAIN j.item.params
  PROVE  Get(j.ad.inputs, k, k) \in {f.name : f \in j.ad.staged}
<1> DEFINE p == j.item.params
           f == [kind |-> IF PassedOn(cfg.aframe[k]) THEN cfg.aframe[k].kind ELSE "local",
                 name |-> IF PassedOn(cfg.aframe[k]) THEN cfg.aframe[k].name ELSE k]
           name == IF PassedOn(cfg.aframe[k]) THEN cfg.aframe[k].name ELSE k
<1>1. j.ad.inputs = ModelNames(p) /\ j.ad.staged = StageModels
  BY DEF Meant
<1>2. f \in StageModels /\ f.name = name
  BY DEF StageModels
<1>3. Get(ModelNames(p), k, k) = name
  <2>1. CASE cfg.transfer_urls
    <3> DEFINE names == [m \in {n \in Models : cfg.aframe[n].kind # ""} |-> cfg.aframe[m].name]
    <3>1. ModelNames(p) = With(names, p)
      BY <2>1 DEF ModelNames
    <3>2. k \in DOMAIN names \ DOMAIN p /\ names[k] = cfg.aframe[k].name
      OBVIOUS
    <3> HIDE DEF names
    <3>3. With(names, p)[k] = names[k]
      BY <3>2, WithOld
    <3>4. k \in DOMAIN With(names, p)
      BY <3>2, WithDom
    <3>5. cfg.aframe[k].name = name
      BY <2>1 DEF PassedOn, ModelsNamed
    <3> QED
      BY <3>1, <3>2, <3>3, <3>4, <3>5 DEF Get
  <2>2. CASE ~cfg.transfer_urls
    BY <2>2 DEF ModelNames, PassedOn, Get
  <2> QED
    BY <2>1, <2>2
<1> HIDE DEF f
<1> QED
  BY <1>1, <1>2, <1>3

\* A job has the room it needs, the image that fits its GPU, and its models under the
\* names it looks for, on either path.
THEOREM JobsRunAsMeant ==
  ASSUME CudaDiffers, ModelsNamed, Wrapped
  PROVE  Spec => []RunsAsMeant
<1>1. ASSUME DescInv PROVE RunsAsMeant
  <2>1. cfg \in Configs
    BY <1>1 DEF DescInv
  <2>2. ASSUME NEW j \in jobs PROVE Meant(j) /\ j.item \in Items
    <3>1. Alone(j) \/ Grouped(j)
      BY <1>1 DEF DescInv, JobsInv
    <3>2. j.item \in Items
      BY <3>1 DEF Alone, Grouped, Follows
    <3> QED
      BY <2>1, <3>1, <3>2, AloneMeant, GroupedMeant
  <2>3. Roomy
    BY <2>1, <2>2, MeantRoomy DEF Roomy
  <2>4. GpuImagePaired
    <3> SUFFICES ASSUME NEW j \in jobs, Imageless(j.item.params)
                 PROVE  Paired(j, j.item.params)
      BY DEF GpuImagePaired, Imageless, Paired, CudaImage
    <3> QED
      BY <2>1, <2>2, MeantPaired
  <2>5. ModelsAreFound
    BY <2>1, <2>2, MeantFound DEF ModelsAreFound
  <2> QED
    BY <2>3, <2>4, <2>5 DEF RunsAsMeant
<1> QED
  BY <1>1, DescriptionsKnown, PTL

\* Two descriptions that differ in nothing but the compile cache.
SameAd(a, b) ==
    \A f \in (DOMAIN a \cup DOMAIN b) \ {"cache"} : f \in DOMAIN a \cap DOMAIN b /\ a[f] = b[f]

\* Requests of one batch agree on every knob, those of the signature and those left out.
LEMMA KnobsAlike ==
  ASSUME cfg \in Configs, UnsignedAgree, NEW a \in Items, NEW b \in Items,
         Signature(a.params) = Signature(b.params)
  PROVE  \A k \in Signed \cup Unsigned : Knob(a.params, k) = Knob(b.params, k)
<1>1. /\ \A k \in Signed : Knob(a.params, k) = Knob(b.params, k)
      /\ WrapperOf(a.params) = WrapperOf(b.params)
  BY SignedAlike
<1>2. ASSUME NEW k \in Unsigned PROVE Knob(a.params, k) = Knob(b.params, k)
  <2>1. k \in DOMAIN cfg.defaults \ (Floors \cup Routed)
    BY SubmitAssumption DEF Settings, Unsigned, Floors, Routed
  <2>2. Floored(a.params)[k] = cfg.defaults[k] /\ Floored(b.params)[k] = cfg.defaults[k]
    BY <2>1, FlooredIs
  <2>3. /\ k \in DOMAIN a.params <=> k \in DOMAIN b.params
        /\ k \in DOMAIN a.params => a.params[k] = b.params[k]
    BY <1>1 DEF UnsignedAgree
  <2> QED
    BY <2>2, <2>3 DEF Knob, Get
<1> QED
  BY <1>1, <1>2

\* A proc of a batch is described as its request alone would be.
LEMMA GroupedIsSingle ==
  ASSUME cfg \in Configs, Wrapped, ImagesDiffer, CpusRequired, UnsignedAgree, NEW j, Grouped(j)
  PROVE  SameAd(SingleAd(j.item), j.ad)
<1>1. PICK lead \in Items : Follows(j, lead)
  BY DEF Grouped
<1> DEFINE q == lead.params
           p == j.item.params
           w == WrapperOf(p)
           a == SingleAd(j.item)
           b == j.ad
<1>2. /\ j.item \in Items /\ Signature(q) = Signature(p) /\ cfg.batch
      /\ w # "alma" /\ w \notin cfg.igwn_wrappers
  BY <1>1 DEF Follows, Batchable
<1>3. w # "aframe" /\ UsesWrapper(p)
  <2>1. "aframe" \in cfg.igwn_wrappers
    BY <1>2 DEF Wrapped
  <2>2. w \in Named \cup {"fiesta"} \/ Get(p, "use_wrapper", cfg.use_wrapper)
    BY <1>2 DEF Wrapped
  <2> QED
    BY <1>2, <2>1, <2>2 DEF UsesWrapper
<1>4. \A k \in Signed \cup Unsigned : Knob(p, k) = Knob(q, k)
  BY <1>2, KnobsAlike
<1>5. WrapperOf(q) = w
  BY <1>2, SignedAlike
<1>6. CpuNeeds(p) = CpuNeeds(q) /\ (OwnsImage(p) <=> OwnsImage(q))
  BY <1>2, CpuAlike, OwnsAlike
<1>7. GpuNeeds(p) = GpuNeeds(q)
  <2>1. /\ Knob(p, "request_gpus") = Knob(q, "request_gpus")
        /\ Knob(p, "gpu_requirements") = Knob(q, "gpu_requirements")
    BY <1>4 DEF Signed, Numbers
  <2> HIDE DEF p, q
  <2> QED
    BY <2>1 DEF GpuNeeds
<1>8. IsSingle(a, j.item)
  BY <1>2, SingleFields
<1>9. IsBatched(b, lead, j.item)
  BY <1>1, FollowsFields
<1>10. /\ DOMAIN a = Clustered \cup {"inputs", "staged"}
       /\ SharedFields(a, p) /\ RoomFields(a, p) /\ CreditFields(a, p) /\ RunFields(a, p)
       /\ a.ap = "default" /\ a.inputs = p /\ a.staged = Staged(w, j.item)
  <2>1. ~IgwnRouted(w)
    BY <1>2 DEF IgwnRouted
  <2>2. DOMAIN a = Clustered \cup {"inputs", "staged"} /\ SharedFields(a, p) /\ a.inputs = Inputs(j.item)
    BY <1>8 DEF IsSingle
  <2>3. RoomFields(a, p)
    BY <1>2, <1>8 DEF IsSingle
  <2>4. CreditFields(a, p) /\ a.ap = "default"
    BY <1>8, <2>1 DEF IsSingle
  <2>5. RunFields(a, p) /\ a.staged = Staged(w, j.item)
    BY <1>3, <1>8 DEF IsSingle
  <2>6. Inputs(j.item) = p
    BY <1>3 DEF Inputs
  <2> QED
    BY <2>2, <2>3, <2>4, <2>5, <2>6
<1>11. /\ DOMAIN b = Clustered \cup {"inputs", "staged"}
       /\ SharedFields(b, q) /\ RoomFields(b, q) /\ CreditFields(b, q) /\ RunFields(b, q)
       /\ b.ap = "default" /\ b.inputs = p
       /\ b.staged = IF w \in {"oracle", "fleet", "flare"} THEN Staged(w, j.item) ELSE {}
  BY <1>5, <1>9 DEF IsBatched
<1> HIDE DEF a, b, p, q, w
<1>12. /\ a.cpus = b.cpus /\ a.memory = b.memory /\ a.gpus = b.gpus
       /\ a.requirements = b.requirements /\ a.require_gpus = b.require_gpus
  <2>1. /\ Knob(p, "request_cpus") = Knob(q, "request_cpus")
        /\ Knob(p, "request_memory") = Knob(q, "request_memory")
        /\ Knob(p, "request_gpus") = Knob(q, "request_gpus")
        /\ Knob(p, "require_gpus") = Knob(q, "require_gpus")
    BY <1>4 DEF Signed, Numbers, Unsigned
  <2> QED
    BY <1>6, <1>7, <1>10, <1>11, <2>1 DEF SharedFields
<1>13. a.image = b.image
  <2>1. Knob(p, "singularity_image") = Knob(q, "singularity_image")
    BY <1>4 DEF Signed
  <2>2. WrapperOf(p) = WrapperOf(q)
    BY <1>5 DEF w
  <2> QED
    BY <1>6, <1>10, <1>11, <2>1, <2>2 DEF SharedFields
<1>14. a.disk = b.disk /\ a.runtime = b.runtime
  BY <1>4, <1>10, <1>11 DEF RoomFields, Signed, Numbers
<1>15. /\ a.use_oauth_services = b.use_oauth_services /\ a.accounting_group = b.accounting_group
       /\ a.accounting_group_user = b.accounting_group_user /\ a.pools = b.pools
  <2>1. /\ Knob(p, "use_oauth_services") = Knob(q, "use_oauth_services")
        /\ Knob(p, "accounting_group") = Knob(q, "accounting_group")
        /\ Knob(p, "accounting_group_user") = Knob(q, "accounting_group_user")
        /\ Knob(p, "pools") = Knob(q, "pools")
    BY <1>4 DEF Unsigned
  <2> QED
    BY <1>10, <1>11, <2>1 DEF CreditFields
<1>16. a.entry = b.entry /\ a.files = b.files /\ a.python = b.python /\ a.threads = b.threads
  <2>1. Knob(p, "request_cpus") = Knob(q, "request_cpus") /\ WrapperOf(p) = WrapperOf(q)
    BY <1>4, <1>5 DEF Signed, Numbers, w
  <2> QED
    BY <1>10, <1>11, <2>1 DEF RunFields
<1>17. a.staged = b.staged
  <2>1. CASE w \in {"oracle", "fleet", "flare"}
    BY <1>10, <1>11, <2>1
  <2>2. CASE w \notin {"oracle", "fleet", "flare"}
    <3>1. Staged(w, j.item) = {}
      BY <1>2, <1>3, <2>2 DEF Staged
    <3> QED
      BY <1>10, <1>11, <2>2, <3>1
  <2> QED
    BY <2>1, <2>2
<1>18. \A f \in (Clustered \cup {"inputs", "staged"}) \ {"cache"} : a[f] = b[f]
  BY <1>10, <1>11, <1>12, <1>13, <1>14, <1>15, <1>16, <1>17 DEF Clustered
<1>19. SameAd(a, b)
  BY <1>10, <1>11, <1>18 DEF SameAd
<1> QED
  BY <1>19 DEF a, b

\* A job of a batch is described as submit_job would describe its request by itself,
\* where requests of one wrapper agree on what their signature leaves out.
THEOREM BatchesAreSingles ==
  ASSUME Wrapped, ImagesDiffer, CpusRequired, UnsignedAgree
  PROVE  Spec => []BatchIsSingle
<1>1. ASSUME DescInv PROVE BatchIsSingle
  <2>1. ASSUME NEW j \in jobs, j.path = "batch" PROVE SameAd(SingleAd(j.item), j.ad)
    <3>1. cfg \in Configs /\ (Alone(j) \/ Grouped(j))
      BY <1>1 DEF DescInv, JobsInv
    <3>2. Grouped(j)
      BY <2>1, <3>1 DEF Alone
    <3> QED
      BY <3>1, <3>2, GroupedIsSingle
  <2> QED
    BY <2>1 DEF BatchIsSingle, SameAd
<1> QED
  BY <1>1, DescriptionsKnown, PTL
=============================================================================
