---------------------------- MODULE MCAdmission ----------------------------
(***************************************************************************)
(* Instances of Admission for TLC: small sets of requests, each with its   *)
(* analysis, resource, wrapper and submit signature.                       *)
(***************************************************************************)
EXTENDS Admission, TLC

CONSTANTS r1, r2, r3, r4, r5, src1, src2

AllSame(v) == [r \in {r1, r2, r3, r4, r5} |-> v]

\* Four batchable requests; r1, r2 and r4 share an analysis, r1 and r2 a source
\* too; r1 and r3 ask for the same resources, so they share a signature.
FourRequests == {r1, r2, r3, r4}
BatchAnalysis  == [AllSame("snid") EXCEPT ![r3] = "ngsf"]
BatchResource  == [AllSame(src1) EXCEPT ![r4] = src2]
BatchWrapper   == AllSame("snid")
BatchSignature == r1 :> "small" @@ r2 :> "large" @@ r3 :> "small" @@ r4 :> "large"
                     @@ r5 :> "small"

\* One request per route -- batch, direct (a GW search on the IGWN AP), ALMA's
\* pool, and a staging wrapper of the IGWN list, which goes to the submit pool --
\* and a job from before a restart.
MixedWrapper == r1 :> "snid" @@ r2 :> "pygrb" @@ r3 :> "alma" @@ r4 :> "fleet"
                  @@ r5 :> "snid"
MixedRequests == {r1, r2, r3, r4, r5}
MixedIgwn == {"pygrb", "fleet"}

\* An ALMA transfer, a batched and an awaited submit of one analysis, and a
\* request that is not valid.
LiveRequests == {r1, r2, r3, r4}
LiveAnalysis == r1 :> "alma" @@ r2 :> "search" @@ r3 :> "search" @@ r4 :> "search"
LiveResource == AllSame(NoResource)
LiveSignature == AllSame("small")
LiveWrapper == r1 :> "alma" @@ r2 :> "snid" @@ r3 :> "pygrb" @@ r4 :> "snid"
=============================================================================
