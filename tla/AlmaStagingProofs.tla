------------------------- MODULE AlmaStagingProofs --------------------------
(***************************************************************************)
(* Proofs about AlmaStaging, for any number of threads, requests and       *)
(* archives, any failures of their calls and moves of the origin, and any  *)
(* budget: no PUT with an expired token, no more probes than tries, no     *)
(* object of a job's products that its record does not name, no download   *)
(* that fills the disk, and nothing taken along that is not whole, counted *)
(* and within the limits.                                                  *)
(*                                                                         *)
(* Four invariants, each inductive with those before it: StagingInv, about *)
(* uploads and what they leave at the origin; LocalTypes; DiskInv, about   *)
(* the downloads under way; SoundInv, about what each request has taken.   *)
(***************************************************************************)
EXTENDS AlmaStaging, ListLemmas

\* Every thread has its variables; the numbers the steps of an upload compare.
ShapeInv ==
    /\ DOMAIN pc = Threads /\ DOMAIN transfer = Threads /\ DOMAIN base = Threads
    /\ DOMAIN objects = Threads /\ DOMAIN record = Threads
    /\ attempt \in [Threads -> Nat] /\ held \in [Threads -> Nat]
    /\ waited \in [Threads -> Nat] /\ probes \in [Threads -> Nat] /\ token \in Nat

\* Only a file too large for the disk is uploaded.
Uploading == {"open", "mint", "put", "resolveAgain"}
LargeInv == \A t \in Threads : pc[t] \in Uploading => Oversized(File(t))

\* A token in hand was good for more than the margin when it was taken, and the call
\* it was taken for is sent before the margin is over.
TokenInv == \A t \in Threads : pc[t] = "put" =>
                /\ held[t] + waited[t] > Margin
                /\ waited[t] = 0 \/ waited[t] < Margin

\* An upload probes the director before its first try, unless another did, and then
\* between two tries.
ProbeInv ==
    /\ origin \in {"east", "west"}
    /\ \A t \in Threads : /\ attempt[t] < Retries /\ probes[t] <= attempt[t] + 1
                          /\ cached = "none" \/ pc[t] \notin Uploading => probes[t] = 0

\* A whole object is a product the request takes along by its URL; a job's record
\* names it until it is deleted.
Noted(t, f) == IF pc[t] \in {"job", "over"} THEN f \in record[t]
               ELSE f \in transfer[t] /\ Oversized(f)
ObjectInv == \A t \in Threads : \A o \in objects[t] : o.whole => Noted(t, o.file)

StagingInv == ShapeInv /\ LargeInv /\ TokenInv /\ ProbeInv /\ ObjectInv

-----------------------------------------------------------------------------
USE DEF vars, local, upload, pod, store, shared, Goto, Set

\* The constants a step compares.
LEMMA Numbers == TokenLife \in Nat /\ Margin \in Nat /\ Retries \in Nat
BY AlmaAssumption

\* The system starts with idle threads, no token and nothing at the origin.
LEMMA StagingInit ==
  ASSUME Sensible, Init
  PROVE  StagingInv
BY AlmaAssumption DEF Sensible, Init, StagingInv, ShapeInv, LargeInv, Uploading,
    TokenInv, ProbeInv, ObjectInv

\* A step that changes nothing preserves it.
LEMMA StutterInv ==
  ASSUME StagingInv, UNCHANGED vars
  PROVE  StagingInv'
BY DEF StagingInv, ShapeInv, LargeInv, File, TokenInv, ProbeInv, ObjectInv, Noted

\* A step to another file, or into an upload, moves no object and no URL.
LEMMA NoObjectMoves ==
  ASSUME StagingInv, NEW t \in Threads, pc[t] \notin {"job", "over"},
         NEW at \in {"file", "spool", "open"}, Goto(t, at), UNCHANGED <<transfer, objects, record>>
  PROVE  ObjectInv'
BY DEF StagingInv, ShapeInv, ObjectInv, Noted

-----------------------------------------------------------------------------
(***************************************************************************)
(* Datasets and spooled files: no upload, and no object                    *)
(***************************************************************************)

\* The request's datasets are listed.
LEMMA StartInv ==
  ASSUME Sensible, StagingInv, NEW t \in Threads, Start(t)
  PROVE  StagingInv'
<1> USE DEF StagingInv, Start
<1>1. ShapeInv'
  BY Numbers DEF ShapeInv
<1>2. LargeInv'
  BY DEF ShapeInv, LargeInv, Uploading, File
<1>3. TokenInv'
  BY Numbers DEF Sensible, ShapeInv, TokenInv
<1>4. ProbeInv'
  BY Numbers DEF Sensible, ShapeInv, Uploading, ProbeInv
<1>5. ObjectInv'
  BY DEF ShapeInv, LargeInv, Uploading, File, ObjectInv, Noted
<1> QED
  BY <1>1, <1>2, <1>3, <1>4, <1>5

\* A dataset is not to be had.
LEMMA DatasetSkippedInv ==
  ASSUME Sensible, StagingInv, NEW t \in Threads, DatasetSkipped(t)
  PROVE  StagingInv'
<1> USE DEF StagingInv, DatasetSkipped
<1>1. ShapeInv'
  BY Numbers DEF ShapeInv
<1>2. LargeInv'
  BY DEF ShapeInv, LargeInv, Uploading, File
<1>3. TokenInv'
  BY Numbers DEF Sensible, ShapeInv, TokenInv
<1>4. ProbeInv'
  BY Numbers DEF Sensible, ShapeInv, Uploading, ProbeInv
<1>5. ObjectInv'
  BY DEF ShapeInv, LargeInv, Uploading, File, ObjectInv, Noted
<1> QED
  BY <1>1, <1>2, <1>3, <1>4, <1>5

\* A dataset is taken up.
LEMMA DatasetChosenInv ==
  ASSUME Sensible, StagingInv, NEW t \in Threads, DatasetChosen(t)
  PROVE  StagingInv'
<1> USE DEF StagingInv, DatasetChosen
<1>1. ShapeInv'
  BY Numbers DEF ShapeInv
<1>2. LargeInv'
  BY DEF ShapeInv, LargeInv, Uploading, File
<1>3. TokenInv'
  BY Numbers DEF Sensible, ShapeInv, TokenInv
<1>4. ProbeInv'
  BY Numbers DEF Sensible, ShapeInv, Uploading, ProbeInv
<1>5. ObjectInv'
  BY DEF ShapeInv, LargeInv, Uploading, File, ObjectInv, Noted
<1> QED
  BY <1>1, <1>2, <1>3, <1>4, <1>5

\* No dataset is left, or there are enough.
LEMMA DatasetsEndInv ==
  ASSUME Sensible, StagingInv, NEW t \in Threads, DatasetsEnd(t)
  PROVE  StagingInv'
<1> USE DEF StagingInv, DatasetsEnd
<1>1. ShapeInv'
  BY Numbers DEF ShapeInv
<1>2. LargeInv'
  BY DEF ShapeInv, LargeInv, Uploading, File
<1>3. TokenInv'
  BY Numbers DEF Sensible, ShapeInv, TokenInv
<1>4. ProbeInv'
  BY Numbers DEF Sensible, ShapeInv, Uploading, ProbeInv
<1>5. ObjectInv'
  BY DEF ShapeInv, LargeInv, Uploading, File, ObjectInv, Noted
<1> QED
  BY <1>1, <1>2, <1>3, <1>4, <1>5

\* No file of the dataset is left.
LEMMA DatasetDoneInv ==
  ASSUME Sensible, StagingInv, NEW t \in Threads, DatasetDone(t)
  PROVE  StagingInv'
<1> USE DEF StagingInv, DatasetDone
<1>1. ShapeInv'
  BY Numbers DEF ShapeInv
<1>2. LargeInv'
  BY DEF ShapeInv, LargeInv, Uploading, File
<1>3. TokenInv'
  BY Numbers DEF Sensible, ShapeInv, TokenInv
<1>4. ProbeInv'
  BY Numbers DEF Sensible, ShapeInv, Uploading, ProbeInv
<1>5. ObjectInv'
  BY DEF ShapeInv, LargeInv, Uploading, File, ObjectInv, Noted
<1> QED
  BY <1>1, <1>2, <1>3, <1>4, <1>5

\* A file is too large without OSDF.
LEMMA FileTooLargeInv ==
  ASSUME Sensible, StagingInv, NEW t \in Threads, FileTooLarge(t)
  PROVE  StagingInv'
<1> USE DEF StagingInv, FileTooLarge, AtFile, Skip
<1>1. ShapeInv'
  BY Numbers DEF ShapeInv
<1>2. LargeInv'
  BY DEF ShapeInv, LargeInv, Uploading, File
<1>3. TokenInv'
  BY Numbers DEF Sensible, ShapeInv, TokenInv
<1>4. ProbeInv'
  BY Numbers DEF Sensible, ShapeInv, Uploading, ProbeInv
<1>5. ObjectInv'
  BY NoObjectMoves
<1> QED
  BY <1>1, <1>2, <1>3, <1>4, <1>5

\* A file does not fit the disk.
LEMMA NoRoomOnDiskInv ==
  ASSUME Sensible, StagingInv, NEW t \in Threads, NoRoomOnDisk(t)
  PROVE  StagingInv'
<1> USE DEF StagingInv, NoRoomOnDisk, AtFile, Skip
<1>1. ShapeInv'
  BY Numbers DEF ShapeInv
<1>2. LargeInv'
  BY DEF ShapeInv, LargeInv, Uploading, File
<1>3. TokenInv'
  BY Numbers DEF Sensible, ShapeInv, TokenInv
<1>4. ProbeInv'
  BY Numbers DEF Sensible, ShapeInv, Uploading, ProbeInv
<1>5. ObjectInv'
  BY NoObjectMoves
<1> QED
  BY <1>1, <1>2, <1>3, <1>4, <1>5

\* A download begins.
LEMMA SpoolStartInv ==
  ASSUME Sensible, StagingInv, NEW t \in Threads, SpoolStart(t)
  PROVE  StagingInv'
<1> USE DEF StagingInv, SpoolStart, AtFile
<1>1. ShapeInv'
  BY Numbers DEF ShapeInv
<1>2. LargeInv'
  BY DEF ShapeInv, LargeInv, Uploading, File
<1>3. TokenInv'
  BY Numbers DEF Sensible, ShapeInv, TokenInv
<1>4. ProbeInv'
  BY Numbers DEF Sensible, ShapeInv, Uploading, ProbeInv
<1>5. ObjectInv'
  BY NoObjectMoves
<1> QED
  BY <1>1, <1>2, <1>3, <1>4, <1>5

\* A file is on disk.
LEMMA SpoolDoneInv ==
  ASSUME Sensible, StagingInv, NEW t \in Threads, SpoolDone(t)
  PROVE  StagingInv'
<1> USE DEF StagingInv, SpoolDone, Took
<1>1. ShapeInv'
  BY Numbers DEF ShapeInv
<1>2. LargeInv'
  BY DEF ShapeInv, LargeInv, Uploading, File
<1>3. TokenInv'
  BY Numbers DEF Sensible, ShapeInv, TokenInv
<1>4. ProbeInv'
  BY Numbers DEF Sensible, ShapeInv, Uploading, ProbeInv
<1>5. ObjectInv'
  BY DEF ShapeInv, LargeInv, Uploading, File, ObjectInv, Noted
<1> QED
  BY <1>1, <1>2, <1>3, <1>4, <1>5

\* A download fails.
LEMMA SpoolRaisesInv ==
  ASSUME Sensible, StagingInv, NEW t \in Threads, SpoolRaises(t)
  PROVE  StagingInv'
<1> USE DEF StagingInv, SpoolRaises
<1>1. ShapeInv'
  BY Numbers DEF ShapeInv
<1>2. LargeInv'
  BY DEF ShapeInv, LargeInv, Uploading, File
<1>3. TokenInv'
  BY Numbers DEF Sensible, ShapeInv, TokenInv
<1>4. ProbeInv'
  BY Numbers DEF Sensible, ShapeInv, Uploading, ProbeInv
<1>5. ObjectInv'
  BY DEF ShapeInv, LargeInv, Uploading, File, ObjectInv, Noted
<1> QED
  BY <1>1, <1>2, <1>3, <1>4, <1>5

-----------------------------------------------------------------------------
(***************************************************************************)
(* Uploads                                                                 *)
(***************************************************************************)

\* An upload of a large file begins.
LEMMA UploadStartInv ==
  ASSUME Sensible, StagingInv, NEW t \in Threads, UploadStart(t)
  PROVE  StagingInv'
<1> USE DEF StagingInv, UploadStart, AtFile
<1>1. ShapeInv'
  BY Numbers DEF ShapeInv
<1>2. LargeInv'
  BY DEF ShapeInv, LargeInv, Uploading, File
<1>3. TokenInv'
  BY Numbers DEF Sensible, ShapeInv, TokenInv
<1>4. ProbeInv'
  BY Numbers DEF Sensible, ShapeInv, Uploading, ProbeInv
<1>5. ObjectInv'
  BY NoObjectMoves
<1> QED
  BY <1>1, <1>2, <1>3, <1>4, <1>5

\* An upload gives up.
LEMMA UploadRaisesInv ==
  ASSUME Sensible, StagingInv, NEW t \in Threads, UploadRaises(t)
  PROVE  StagingInv'
<1> USE DEF StagingInv, UploadRaises, Skip, UploadLeft
<1>1. ShapeInv'
  BY Numbers DEF ShapeInv
<1>2. LargeInv'
  BY DEF ShapeInv, LargeInv, Uploading, File
<1>3. TokenInv'
  BY Numbers DEF Sensible, ShapeInv, TokenInv
<1>4. ProbeInv'
  BY Numbers DEF Sensible, ShapeInv, Uploading, ProbeInv
<1>5. ObjectInv'
  BY DEF ShapeInv, LargeInv, Uploading, File, ObjectInv, Noted
<1> QED
  BY <1>1, <1>2, <1>3, <1>4, <1>5

\* The origin is known.
LEMMA ResolveCachedInv ==
  ASSUME Sensible, StagingInv, NEW t \in Threads, ResolveCached(t)
  PROVE  StagingInv'
<1> USE DEF StagingInv, ResolveCached
<1>1. ShapeInv'
  BY Numbers DEF ShapeInv
<1>2. LargeInv'
  BY DEF ShapeInv, LargeInv, Uploading, File
<1>3. TokenInv'
  BY Numbers DEF Sensible, ShapeInv, TokenInv
<1>4. ProbeInv'
  BY Numbers DEF Sensible, ShapeInv, Uploading, ProbeInv
<1>5. ObjectInv'
  BY DEF ShapeInv, LargeInv, Uploading, File, ObjectInv, Noted
<1> QED
  BY <1>1, <1>2, <1>3, <1>4, <1>5

\* The director is asked where to write.
LEMMA ResolveProbeInv ==
  ASSUME Sensible, StagingInv, NEW t \in Threads, ResolveProbe(t)
  PROVE  StagingInv'
<1> USE DEF StagingInv, ResolveProbe, Probe
<1>1. ShapeInv'
  BY Numbers DEF ShapeInv
<1>2. LargeInv'
  BY DEF ShapeInv, LargeInv, Uploading, File
<1>3. TokenInv'
  BY Numbers DEF Sensible, ShapeInv, TokenInv
<1>4. ProbeInv'
  BY Numbers DEF Sensible, ShapeInv, Uploading, ProbeInv
<1>5. ObjectInv'
  BY DEF ShapeInv, LargeInv, Uploading, File, ObjectInv, Noted
<1> QED
  BY <1>1, <1>2, <1>3, <1>4, <1>5

\* The token in the cache is good for longer than the margin.
LEMMA MintCachedInv ==
  ASSUME Sensible, StagingInv, NEW t \in Threads, MintCached(t)
  PROVE  StagingInv'
<1> USE DEF StagingInv, MintCached
<1>1. ShapeInv'
  BY Numbers DEF ShapeInv
<1>2. LargeInv'
  BY DEF ShapeInv, LargeInv, Uploading, File
<1>3. TokenInv'
  BY Numbers DEF Sensible, ShapeInv, TokenInv
<1>4. ProbeInv'
  BY Numbers DEF Sensible, ShapeInv, Uploading, ProbeInv
<1>5. ObjectInv'
  BY DEF ShapeInv, LargeInv, Uploading, File, ObjectInv, Noted
<1> QED
  BY <1>1, <1>2, <1>3, <1>4, <1>5

\* A new token is made.
LEMMA MintInv ==
  ASSUME Sensible, StagingInv, NEW t \in Threads, Mint(t)
  PROVE  StagingInv'
<1> USE DEF StagingInv, Mint
<1>1. ShapeInv'
  BY Numbers DEF ShapeInv
<1>2. LargeInv'
  BY DEF ShapeInv, LargeInv, Uploading, File
<1>3. TokenInv'
  BY Numbers DEF Sensible, ShapeInv, TokenInv
<1>4. ProbeInv'
  BY Numbers DEF Sensible, ShapeInv, Uploading, ProbeInv
<1>5. ObjectInv'
  BY DEF ShapeInv, LargeInv, Uploading, File, ObjectInv, Noted
<1> QED
  BY <1>1, <1>2, <1>3, <1>4, <1>5

\* The whole file is at the origin, and is taken along by its URL.
LEMMA PutDoneInv ==
  ASSUME Sensible, StagingInv, NEW t \in Threads, PutDone(t)
  PROVE  StagingInv'
<1> USE DEF StagingInv, PutDone, Sent, Keep, Took, UploadLeft
<1>1. ShapeInv'
  BY Numbers DEF ShapeInv
<1>2. LargeInv'
  BY DEF ShapeInv, LargeInv, Uploading, File
<1>3. TokenInv'
  BY Numbers DEF Sensible, ShapeInv, TokenInv
<1>4. ProbeInv'
  BY Numbers DEF Sensible, ShapeInv, Uploading, ProbeInv
<1>5. ObjectInv'
  BY DEF ShapeInv, LargeInv, Uploading, File, ObjectInv, Noted
<1> QED
  BY <1>1, <1>2, <1>3, <1>4, <1>5

\* A part of the file may be at the origin, in place of what was there.
LEMMA PutTruncatedInv ==
  ASSUME Sensible, StagingInv, NEW t \in Threads, PutTruncated(t)
  PROVE  StagingInv'
<1> USE DEF StagingInv, PutTruncated, Sent, Keep, Skip, UploadLeft
<1>1. ShapeInv'
  BY Numbers DEF ShapeInv
<1>2. LargeInv'
  BY DEF ShapeInv, LargeInv, Uploading, File
<1>3. TokenInv'
  BY Numbers DEF Sensible, ShapeInv, TokenInv
<1>4. ProbeInv'
  BY Numbers DEF Sensible, ShapeInv, Uploading, ProbeInv
<1>5. ObjectInv'
  BY DEF ShapeInv, LargeInv, Uploading, File, ObjectInv, Noted
<1> QED
  BY <1>1, <1>2, <1>3, <1>4, <1>5

\* The origin refuses.
LEMMA PutRefusedInv ==
  ASSUME Sensible, StagingInv, NEW t \in Threads, PutRefused(t)
  PROVE  StagingInv'
<1> USE DEF StagingInv, PutRefused, Skip, UploadLeft
<1>1. ShapeInv'
  BY Numbers DEF ShapeInv
<1>2. LargeInv'
  BY DEF ShapeInv, LargeInv, Uploading, File
<1>3. TokenInv'
  BY Numbers DEF Sensible, ShapeInv, TokenInv
<1>4. ProbeInv'
  BY Numbers DEF Sensible, ShapeInv, Uploading, ProbeInv
<1>5. ObjectInv'
  BY DEF ShapeInv, LargeInv, Uploading, File, ObjectInv, Noted
<1> QED
  BY <1>1, <1>2, <1>3, <1>4, <1>5

\* The origin has moved.
LEMMA PutRedirectedInv ==
  ASSUME Sensible, StagingInv, NEW t \in Threads, PutRedirected(t)
  PROVE  StagingInv'
<1> USE DEF StagingInv, PutRedirected
<1>1. ShapeInv'
  BY Numbers DEF ShapeInv
<1>2. LargeInv'
  BY DEF ShapeInv, LargeInv, Uploading, File
<1>3. TokenInv'
  BY Numbers DEF Sensible, ShapeInv, TokenInv
<1>4. ProbeInv'
  BY Numbers DEF Sensible, ShapeInv, Uploading, ProbeInv
<1>5. ObjectInv'
  BY DEF ShapeInv, LargeInv, Uploading, File, ObjectInv, Noted
<1> QED
  BY <1>1, <1>2, <1>3, <1>4, <1>5

\* The director is asked again, for one more try or for none.
LEMMA NeedsRetryInv ==
  ASSUME Sensible, StagingInv, NEW t \in Threads, NeedsRetry(t)
  PROVE  StagingInv'
<1> USE DEF StagingInv
<1>1. /\ pc[t] = "resolveAgain" /\ cached' = origin
      /\ UNCHANGED <<origin, token, transfer, objects, record>>
  BY DEF NeedsRetry, Probe, Skip
<1>2. CASE attempt[t] + 1 < Retries
  <2>1. /\ attempt' = [attempt EXCEPT ![t] = @ + 1] /\ probes' = [probes EXCEPT ![t] = @ + 1]
        /\ pc' = [pc EXCEPT ![t] = "open"] /\ UNCHANGED <<plan, base, held, waited>>
    BY <1>2 DEF NeedsRetry
  <2>2. ShapeInv' /\ LargeInv'
    BY <1>1, <2>1 DEF ShapeInv, LargeInv, Uploading, File
  <2>3. TokenInv'
    BY <2>1 DEF ShapeInv, TokenInv
  <2>4. ProbeInv'
    BY <1>1, <1>2, <2>1, Numbers DEF ShapeInv, Uploading, ProbeInv
  <2>5. ObjectInv'
    BY <1>1, <2>1 DEF ShapeInv, ObjectInv, Noted
  <2> QED
    BY <2>2, <2>3, <2>4, <2>5
<1>3. CASE ~(attempt[t] + 1 < Retries)
  <2>1. /\ plan' = [plan EXCEPT ![t] = Tail(@)] /\ pc' = [pc EXCEPT ![t] = "file"] /\ UploadLeft(t)
    BY <1>3 DEF NeedsRetry, Skip
  <2>2. ShapeInv'
    BY <1>1, <2>1 DEF ShapeInv, UploadLeft
  <2>3. LargeInv'
    BY <1>1, <2>1 DEF ShapeInv, LargeInv, Uploading, File
  <2>4. TokenInv'
    BY <2>1 DEF ShapeInv, TokenInv, UploadLeft
  <2>5. ProbeInv'
    <3>1. attempt' = [attempt EXCEPT ![t] = 0] /\ probes' = [probes EXCEPT ![t] = 0]
      BY <2>1 DEF UploadLeft
    <3>2. Retries \in Nat /\ 0 < Retries
      BY Numbers DEF Sensible
    <3>3. cached' # "none" /\ origin' \in {"east", "west"}
      BY <1>1 DEF ProbeInv
    <3> QED
      BY <1>1, <2>1, <3>1, <3>2, <3>3 DEF ShapeInv, Uploading, ProbeInv
  <2>6. ObjectInv'
    BY <1>1, <2>1 DEF ShapeInv, ObjectInv, Noted
  <2> QED
    BY <2>2, <2>3, <2>4, <2>5, <2>6
<1> QED
  BY <1>2, <1>3

-----------------------------------------------------------------------------
(***************************************************************************)
(* The submit, the end of the job, and the world                           *)
(***************************************************************************)

\* The record gets the URLs of all that was streamed.
LEMMA SubmitInv ==
  ASSUME Sensible, StagingInv, NEW t \in Threads, Submit(t)
  PROVE  StagingInv'
<1> USE DEF StagingInv, Submit, Urls
<1>1. ShapeInv'
  BY Numbers DEF ShapeInv
<1>2. LargeInv'
  BY DEF ShapeInv, LargeInv, Uploading, File
<1>3. TokenInv'
  BY Numbers DEF Sensible, ShapeInv, TokenInv
<1>4. ProbeInv'
  BY Numbers DEF Sensible, ShapeInv, Uploading, ProbeInv
<1>5. ObjectInv'
  BY DEF ShapeInv, LargeInv, Uploading, File, ObjectInv, Noted
<1> QED
  BY <1>1, <1>2, <1>3, <1>4, <1>5

\* The submit fails.
LEMMA SubmitRaisesInv ==
  ASSUME Sensible, StagingInv, NEW t \in Threads, SubmitRaises(t)
  PROVE  StagingInv'
<1> USE DEF StagingInv, SubmitRaises
<1>1. ShapeInv'
  BY Numbers DEF ShapeInv
<1>2. LargeInv'
  BY DEF ShapeInv, LargeInv, Uploading, File
<1>3. TokenInv'
  BY Numbers DEF Sensible, ShapeInv, TokenInv
<1>4. ProbeInv'
  BY Numbers DEF Sensible, ShapeInv, Uploading, ProbeInv
<1>5. ObjectInv'
  BY DEF ShapeInv, LargeInv, Uploading, File, ObjectInv, Noted
<1> QED
  BY <1>1, <1>2, <1>3, <1>4, <1>5

\* The poller deletes what the record names, and keeps the URLs it could not.
LEMMA CleanupInv ==
  ASSUME Sensible, StagingInv, NEW t \in Threads, Cleanup(t)
  PROVE  StagingInv'
<1> USE DEF StagingInv, Cleanup, Without
<1>1. ShapeInv'
  BY Numbers DEF ShapeInv
<1>2. LargeInv'
  BY DEF ShapeInv, LargeInv, Uploading, File
<1>3. TokenInv'
  BY Numbers DEF Sensible, ShapeInv, TokenInv
<1>4. ProbeInv'
  BY Numbers DEF Sensible, ShapeInv, Uploading, ProbeInv
<1>5. ObjectInv'
  BY DEF ShapeInv, LargeInv, Uploading, File, ObjectInv, Noted
<1> QED
  BY <1>1, <1>2, <1>3, <1>4, <1>5

\* Time passes for every token.
LEMMA TickInv ==
  ASSUME Sensible, StagingInv, Tick
  PROVE  StagingInv'
<1> USE DEF StagingInv, Tick
<1>1. ShapeInv'
  BY Numbers DEF ShapeInv
<1>2. LargeInv'
  BY DEF ShapeInv, LargeInv, Uploading, File
<1>3. TokenInv'
  BY Numbers DEF Sensible, ShapeInv, TokenInv
<1>4. ProbeInv'
  BY Numbers DEF Sensible, ShapeInv, Uploading, ProbeInv
<1>5. ObjectInv'
  BY DEF ShapeInv, LargeInv, Uploading, File, ObjectInv, Noted
<1> QED
  BY <1>1, <1>2, <1>3, <1>4, <1>5

\* Writes go to another origin.
LEMMA MoveInv ==
  ASSUME Sensible, StagingInv, Move
  PROVE  StagingInv'
<1> USE DEF StagingInv, Move
<1>1. ShapeInv'
  BY Numbers DEF ShapeInv
<1>2. LargeInv'
  BY DEF ShapeInv, LargeInv, Uploading, File
<1>3. TokenInv'
  BY Numbers DEF Sensible, ShapeInv, TokenInv
<1>4. ProbeInv'
  BY Numbers DEF Sensible, ShapeInv, Uploading, ProbeInv
<1>5. ObjectInv'
  BY DEF ShapeInv, LargeInv, Uploading, File, ObjectInv, Noted
<1> QED
  BY <1>1, <1>2, <1>3, <1>4, <1>5

-----------------------------------------------------------------------------
(***************************************************************************)
(* Tokens, probes and records                                              *)
(***************************************************************************)
\* Any step.
LEMMA NextInv ==
  ASSUME Sensible, StagingInv, [Next]_vars
  PROVE  StagingInv'
<1>1. ASSUME NEW t \in Threads, Staging(t)
      PROVE  StagingInv'
  <2>1. CASE Start(t) \/ DatasetSkipped(t) \/ DatasetChosen(t) \/ DatasetsEnd(t) \/ DatasetDone(t)
    BY <2>1, StartInv, DatasetSkippedInv, DatasetChosenInv, DatasetsEndInv, DatasetDoneInv
  <2>2. CASE FileTooLarge(t) \/ NoRoomOnDisk(t) \/ SpoolStart(t) \/ SpoolDone(t) \/ SpoolRaises(t)
    BY <2>2, FileTooLargeInv, NoRoomOnDiskInv, SpoolStartInv, SpoolDoneInv, SpoolRaisesInv
  <2>3. CASE UploadStart(t) \/ UploadRaises(t) \/ ResolveCached(t) \/ ResolveProbe(t)
    BY <2>3, UploadStartInv, UploadRaisesInv, ResolveCachedInv, ResolveProbeInv
  <2>4. CASE MintCached(t) \/ Mint(t) \/ PutDone(t) \/ PutTruncated(t) \/ PutRefused(t)
    BY <2>4, MintCachedInv, MintInv, PutDoneInv, PutTruncatedInv, PutRefusedInv
  <2>5. CASE PutRedirected(t) \/ NeedsRetry(t)
    BY <2>5, PutRedirectedInv, NeedsRetryInv
  <2> QED
    BY <1>1, <2>1, <2>2, <2>3, <2>4, <2>5 DEF Staging
<1>2. ASSUME NEW t \in Threads, Submit(t) \/ SubmitRaises(t) \/ Cleanup(t)
      PROVE  StagingInv'
  BY <1>2, SubmitInv, SubmitRaisesInv, CleanupInv
<1>3. CASE Tick \/ Move
  BY <1>3, TickInv, MoveInv
<1>4. CASE UNCHANGED vars
  BY <1>4, StutterInv
<1> QED
  BY <1>1, <1>2, <1>3, <1>4 DEF Next

\* Every reachable state satisfies the invariant.
THEOREM StagingSafe == Sensible /\ Spec => []StagingInv
<1>1. Sensible /\ Init => StagingInv
  BY StagingInit
<1>2. Sensible /\ StagingInv /\ [Next]_vars => StagingInv'
  BY NextInv
<1>3. CASE Sensible
  BY <1>1, <1>2, <1>3, PTL DEF Spec
<1>4. CASE ~Sensible
  BY <1>4
<1> QED
  BY <1>3, <1>4

\* A late retry does not reuse a stale token (osdf.py's mint_token and its margin):
\* whoever minted it and however often the upload was tried, it is good at the PUT.
THEOREM StagingIsFresh == Sensible /\ Spec => []FreshToken
<1>1. StagingInv => FreshToken
  <2> SUFFICES ASSUME StagingInv, NEW t \in Threads, pc[t] = "put"
               PROVE  held[t] > 0
    BY DEF FreshToken
  <2>1. held[t] \in Nat /\ waited[t] \in Nat /\ Margin \in Nat
    BY AlmaAssumption DEF StagingInv, ShapeInv
  <2>2. held[t] + waited[t] > Margin /\ (waited[t] = 0 \/ waited[t] < Margin)
    BY DEF StagingInv, TokenInv
  <2> QED
    BY <2>1, <2>2
<1> QED
  BY <1>1, StagingSafe, PTL

\* An origin that keeps moving cannot become a probe loop (osdf.py's upload_stream).
THEOREM StagingProbes == Sensible /\ Spec => []ProbesBounded
<1>1. StagingInv => ProbesBounded
  <2> SUFFICES ASSUME StagingInv, NEW t \in Threads
               PROVE  probes[t] <= Retries
    BY DEF ProbesBounded
  <2>1. probes[t] \in Nat /\ attempt[t] \in Nat /\ Retries \in Nat
    BY AlmaAssumption DEF StagingInv, ShapeInv
  <2>2. attempt[t] < Retries /\ probes[t] <= attempt[t] + 1
    BY DEF StagingInv, ProbeInv
  <2> QED
    BY <2>1, <2>2
<1> QED
  BY <1>1, StagingSafe, PTL

\* Whatever was streamed for a job stays in its record until it is deleted, so the
\* cleanup can be tried again (submit_job, _cleanup_osdf_inputs).
THEOREM StagingIsRecorded == Sensible /\ Spec => []StagedIsRecorded
<1>1. StagingInv => StagedIsRecorded
  BY DEF StagingInv, ObjectInv, Noted, StagedIsRecorded
<1> QED
  BY <1>1, StagingSafe, PTL

-----------------------------------------------------------------------------
(***************************************************************************)
(* Lists of files, and what they weigh                                     *)
(***************************************************************************)
\* All the files but one.
Less(len, x) == [i \in DOMAIN len \ {x} |-> len[i]]

\* A volume is that of one file and that of the others.
LEMMA VolumeSplit ==
  ASSUME NEW len, Weighs(len), NEW x \in DOMAIN len
  PROVE  /\ Volume(len) \in Nat /\ Volume(Less(len, x)) \in Nat
         /\ Volume(len) = len[x] + Volume(Less(len, x))
<1> DEFINE one == {x} \X (1 .. len[x])
          rest == Units(Less(len, x))
<1>1. Weighs(Less(len, x))
  BY FS_RemoveElement DEF Weighs, Less
<1>2. /\ IsFiniteSet(Units(len)) /\ IsFiniteSet(rest)
      /\ Volume(len) \in Nat /\ Volume(Less(len, x)) \in Nat
  BY <1>1, VolumeNat
<1>3. len[x] \in Nat
  BY DEF Weighs
<1>4. IsFiniteSet(one) /\ Cardinality(one) = len[x]
  <2>1. IsFiniteSet(1 .. len[x]) /\ Cardinality(1 .. len[x]) = len[x]
    BY <1>3, FS_Interval
  <2>2. IsFiniteSet({x}) /\ Cardinality({x}) = 1
    BY FS_Singleton
  <2> QED
    BY <1>3, <2>1, <2>2, FS_Product
<1>5. one \cap rest = {}
  <2> SUFFICES ASSUME NEW p, p \in one, p \in rest PROVE FALSE
    OBVIOUS
  <2>1. PICK i \in DOMAIN Less(len, x) : \E n \in 1 .. Less(len, x)[i] : p = <<i, n>>
    BY UnitsOf
  <2>2. i # x
    BY DEF Less
  <2> QED
    BY <2>1, <2>2
<1>6. Units(len) = one \cup rest
  <2>1. ASSUME NEW p, p \in Units(len)
        PROVE  p \in one \cup rest
    <3>1. PICK i \in DOMAIN len : \E n \in 1 .. len[i] : p = <<i, n>>
      BY <2>1, UnitsOf
    <3>2. CASE i = x
      BY <3>1, <3>2
    <3>3. CASE i # x
      <4>1. i \in DOMAIN Less(len, x) /\ Less(len, x)[i] = len[i]
        BY <3>3 DEF Less
      <4> QED
        BY <3>1, <4>1, UnitsOf
    <3> QED
      BY <3>2, <3>3
  <2>2. ASSUME NEW p, p \in rest
        PROVE  p \in Units(len)
    <3>1. PICK i \in DOMAIN Less(len, x) : \E n \in 1 .. Less(len, x)[i] : p = <<i, n>>
      BY <2>2, UnitsOf
    <3>2. i \in DOMAIN len /\ Less(len, x)[i] = len[i]
      BY DEF Less
    <3> QED
      BY <3>1, <3>2, UnitsOf
  <2>3. ASSUME NEW p, p \in one
        PROVE  p \in Units(len)
    BY <2>3, UnitsOf
  <2> QED
    BY <2>1, <2>2, <2>3
<1> HIDE DEF one, rest
<1>7. Cardinality(one \cup rest) = Cardinality(one) + Cardinality(rest) - Cardinality(one \cap rest)
  BY <1>2, <1>4, FS_Union
<1>8. Cardinality(one \cap rest) = 0 /\ Cardinality(rest) \in Nat
  BY <1>2, <1>5, FS_EmptySet, FS_CardinalityType
<1>9. Volume(len) = Cardinality(Units(len)) /\ Volume(Less(len, x)) = Cardinality(rest)
  BY DEF Volume, Units, rest
<1> QED
  BY <1>2, <1>3, <1>4, <1>6, <1>7, <1>8, <1>9

\* One list of lengths that is another, shifted, weighs no more.
LEMMA VolumeShift ==
  ASSUME NEW a, NEW b, Weighs(a), Weighs(b), DOMAIN a \subseteq Nat,
         \A i \in DOMAIN a : i + 1 \in DOMAIN b /\ b[i + 1] = a[i]
  PROVE  Volume(a) <= Volume(b)
<1> DEFINE f == [p \in Units(a) |-> <<p[1] + 1, p[2]>>]
<1>1. ASSUME NEW p \in Units(a)
      PROVE  f[p] \in Units(b) /\ p = <<p[1], p[2]>> /\ p[1] \in Nat
  <2>1. PICK i \in DOMAIN a : \E n \in 1 .. a[i] : p = <<i, n>>
    BY UnitsOf
  <2>2. PICK n \in 1 .. a[i] : p = <<i, n>>
    BY <2>1
  <2>3. i + 1 \in DOMAIN b /\ n \in 1 .. b[i + 1] /\ f[p] = <<i + 1, n>>
    BY <2>2
  <2>4. f[p] \in Units(b)
    BY <2>3, UnitsOf
  <2> QED
    BY <2>2, <2>4
<1>2. ASSUME NEW p \in Units(a), NEW q \in Units(a), f[p] = f[q]
      PROVE  p = q
  <2>1. <<p[1] + 1, p[2]>> = <<q[1] + 1, q[2]>>
    BY <1>2
  <2> HIDE DEF f
  <2>2. p[1] + 1 = q[1] + 1 /\ p[2] = q[2]
    BY <2>1
  <2>3. p[1] \in Nat /\ q[1] \in Nat /\ p = <<p[1], p[2]>> /\ q = <<q[1], q[2]>>
    BY <1>1
  <2>4. p[1] = q[1]
    BY <2>2, <2>3
  <2> QED
    BY <2>2, <2>3, <2>4
<1>3. f \in Injection(Units(a), Units(b))
  BY <1>1, <1>2 DEF Injection, IsInjective
<1>4. IsFiniteSet(Units(b))
  BY VolumeNat
<1> HIDE DEF f
<1>5. Cardinality(Units(a)) <= Cardinality(Units(b))
  BY <1>3, <1>4, FS_Injection
<1> QED
  BY <1>5 DEF Volume, Units

\* A file's lengths are numbers.
LEMMA FileNumbers == \A f \in Files : f.size \in Nat /\ f.listed \in Nat
BY AlmaAssumption

\* What is listed, without the first.
LEMMA TotalTail ==
  ASSUME NEW s \in Seq(Files)
  PROVE  /\ TotalListed(s) \in Nat
         /\ s # <<>> => /\ TotalListed(Tail(s)) \in Nat
                        /\ TotalListed(Tail(s)) + Head(s).listed <= TotalListed(s)
<1> DEFINE listed(q) == [i \in DOMAIN q |-> q[i].listed]
<1>1. ASSUME NEW q \in Seq(Files)
      PROVE  Weighs(listed(q))
  <2>1. DOMAIN q = 1 .. Len(q) /\ Len(q) \in Nat /\ \A i \in DOMAIN q : q[i] \in Files
    OBVIOUS
  <2>2. IsFiniteSet(1 .. Len(q))
    BY <2>1, FS_Interval
  <2> QED
    BY <2>1, <2>2, FileNumbers DEF Weighs
<1>2. \A q : TotalListed(q) = Volume(listed(q))
  BY DEF TotalListed
<1>3. TotalListed(s) \in Nat
  BY <1>1, <1>2, VolumeNat
<1>4. ASSUME s # <<>>
      PROVE  /\ TotalListed(Tail(s)) \in Nat
             /\ TotalListed(Tail(s)) + Head(s).listed <= TotalListed(s)
  <2>1. /\ DOMAIN s = 1 .. Len(s) /\ Len(s) \in Nat \ {0} /\ 1 \in DOMAIN s /\ s[1] = Head(s)
        /\ Tail(s) \in Seq(Files) /\ DOMAIN Tail(s) = 1 .. (Len(s) - 1)
        /\ \A i \in 1 .. (Len(s) - 1) : Tail(s)[i] = s[i + 1]
    BY <1>4
  <2> DEFINE a == listed(Tail(s))
            b == Less(listed(s), 1)
  <2>2. Weighs(a) /\ Weighs(listed(s)) /\ 1 \in DOMAIN listed(s) /\ listed(s)[1] = Head(s).listed
    BY <1>1, <2>1
  <2>3. Weighs(b)
    BY <2>2, FS_RemoveElement DEF Weighs, Less
  <2>4. DOMAIN a \subseteq Nat /\ \A i \in DOMAIN a : i + 1 \in DOMAIN b /\ b[i + 1] = a[i]
    BY <2>1 DEF Less
  <2> HIDE DEF a
  <2>5. Volume(a) <= Volume(b)
    <3> HIDE DEF b
    <3> QED
      BY <2>2, <2>3, <2>4, VolumeShift
  <2>6. /\ Volume(listed(s)) \in Nat /\ Volume(b) \in Nat
        /\ Volume(listed(s)) = Head(s).listed + Volume(b)
    <3> HIDE DEF listed
    <3> QED
      BY <2>2, VolumeSplit
  <2>7. Volume(a) \in Nat
    BY <2>2, VolumeNat
  <2>8. Head(s).listed \in Nat
    BY <2>1, FileNumbers
  <2>9. TotalListed(Tail(s)) = Volume(a) /\ TotalListed(s) = Volume(listed(s))
    BY <1>2 DEF a
  <2> HIDE DEF b, listed
  <2> QED
    BY <2>5, <2>6, <2>7, <2>8, <2>9
<1> QED
  BY <1>3, <1>4

\* The size of a set of files, and of one more.
LEMMA SumAdd ==
  ASSUME NEW X \in SUBSET Files, IsFiniteSet(X)
  PROVE  /\ SumOfSizes(X) \in Nat
         /\ \A f \in Files \ X : SumOfSizes(X \cup {f}) = SumOfSizes(X) + f.size
<1> DEFINE size(Y) == [f \in Y |-> f.size]
<1>1. \A Y : SumOfSizes(Y) = Volume(size(Y))
  BY DEF SumOfSizes
<1>2. Weighs(size(X))
  BY FileNumbers DEF Weighs
<1>3. SumOfSizes(X) \in Nat
  BY <1>1, <1>2, VolumeNat
<1>4. ASSUME NEW f \in Files, f \notin X
      PROVE  SumOfSizes(X \cup {f}) = SumOfSizes(X) + f.size
  <2> DEFINE Y == X \cup {f}
  <2>1. Weighs(size(Y))
    BY FS_AddElement, FileNumbers DEF Weighs
  <2>2. f \in DOMAIN size(Y) /\ size(Y)[f] = f.size /\ Less(size(Y), f) = size(X)
    BY <1>4 DEF Less
  <2>3. SumOfSizes(Y) = Volume(size(Y)) /\ SumOfSizes(X) = Volume(size(X))
    BY <1>1
  <2> HIDE DEF Y, size
  <2>4. Volume(size(Y)) = f.size + Volume(size(X)) /\ Volume(size(X)) \in Nat
    BY <2>1, <2>2, VolumeSplit
  <2>5. f.size \in Nat
    BY FileNumbers
  <2>6. SumOfSizes(Y) = SumOfSizes(X) + f.size
    BY <2>3, <2>4, <2>5
  <2> QED
    BY <2>6 DEF Y
<1> QED
  BY <1>3, <1>4

\* Nothing weighs nothing.
LEMMA SumNone == SumOfSizes({}) = 0
<1> DEFINE z == [f \in {} |-> f.size]
<1>1. Units(z) = {}
  BY UnitsOf
<1> QED
  BY <1>1, FS_EmptySet DEF SumOfSizes, Volume, Units

-----------------------------------------------------------------------------
(***************************************************************************)
(* What a request names, and what a dataset has on offer                   *)
(***************************************************************************)
LEMMA UidsListed ==
  ASSUME NEW t \in Threads
  PROVE  DatasetUids(Asked[t]) \in Seq(DOMAIN RowsOf)
<1> DEFINE D == DOMAIN RowsOf
          Row == [origin : STRING, datasets : Seq(D)]
          rows == Asked[t].annotations
          recorded == {i \in DOMAIN rows : rows[i].origin = "alma-archive" /\ rows[i].datasets # <<>>}
<1>1. Asked[t].explicit \in Seq(D) /\ rows \in Seq(Row)
  BY AlmaAssumption
<1>2. ASSUME recorded # {}
      PROVE  Head(Picked(rows, recorded)).datasets \in Seq(D)
  <2> HIDE DEF Row, rows
  <2>1. recorded \in SUBSET DOMAIN rows
    OBVIOUS
  <2> HIDE DEF recorded
  <2>2. Picked(rows, recorded) \in Seq(Row) /\ Picked(rows, recorded) # <<>>
    BY <1>1, <1>2, <2>1, PickedList
  <2>3. Head(Picked(rows, recorded)) \in Row
    BY <2>2
  <2> QED
    BY <2>3 DEF Row
<1>3. DatasetUids(Asked[t]) = IF Asked[t].explicit # <<>> THEN Asked[t].explicit
          ELSE IF recorded # {} THEN Head(Picked(rows, recorded)).datasets ELSE <<>>
  BY DEF DatasetUids
<1>4. <<>> \in Seq(D)
  OBVIOUS
<1> HIDE DEF D, rows, recorded
<1>5. DatasetUids(Asked[t]) \in Seq(D)
  BY <1>1, <1>2, <1>3, <1>4
<1> QED
  BY <1>5 DEF D

\* The files of a dataset in one role.
Offered(d, role) == {i \in DOMAIN RowsOf[d] : RowsOf[d][i].offered /\ RowsOf[d][i].role = role}
LEMMA OfferedListed ==
  ASSUME NEW d \in DOMAIN RowsOf, NEW role
  PROVE  LET p == Picked(RowsOf[d], Offered(d, role)) IN
         /\ p \in Seq(Files)
         /\ \A k \in DOMAIN p : p[k] \in ToSet(RowsOf[d]) /\ p[k].role = role
         /\ IsInjective(RowsOf[d]) => IsInjective(p)
<1> DEFINE s == RowsOf[d]
          at == Offered(d, role)
          p == Picked(s, at)
<1>1. s \in Seq(Files) /\ at \in SUBSET DOMAIN s
  BY AlmaAssumption DEF Offered
<1>2. \A i \in at : i \in DOMAIN s /\ s[i].role = role
  BY DEF Offered
<1> HIDE DEF s, at
<1>3. p \in Seq(Files) /\ \A k \in 1 .. Len(p) : \E i \in at : p[k] = s[i]
  BY <1>1, PickedList
<1>4. IsInjective(s) => IsInjective(p)
  BY <1>1, PickedOnce
<1> HIDE DEF p
<1>5. DOMAIN p = 1 .. Len(p)
  BY <1>3
<1>6. \A k \in DOMAIN p : p[k] \in ToSet(s) /\ p[k].role = role
  BY <1>2, <1>3, <1>5 DEF ToSet
<1>7. p \in Seq(Files) /\ (\A k \in DOMAIN p : p[k] \in ToSet(s) /\ p[k].role = role)
        /\ (IsInjective(s) => IsInjective(p))
  BY <1>3, <1>4, <1>6
<1> QED
  BY <1>7 DEF p, s, at

\* A dataset's plan lists files of it, each once if the archive lists it once.
LEMMA PlanListed ==
  ASSUME NEW d \in DOMAIN RowsOf
  PROVE  /\ StagingPlan(d) \in Seq(Files)
         /\ ToSet(StagingPlan(d)) \subseteq ToSet(RowsOf[d])
         /\ IsInjective(RowsOf[d]) => IsInjective(StagingPlan(d))
<1> DEFINE a == Picked(RowsOf[d], Offered(d, "#this"))
          x == Picked(RowsOf[d], Offered(d, "#auxiliary"))
          b == IF conf.auxiliary THEN x ELSE <<>>
<1>1. /\ a \in Seq(Files) /\ (\A k \in DOMAIN a : a[k] \in ToSet(RowsOf[d]) /\ a[k].role = "#this")
      /\ IsInjective(RowsOf[d]) => IsInjective(a)
  BY OfferedListed
<1>2. /\ x \in Seq(Files) /\ (\A k \in DOMAIN x : x[k] \in ToSet(RowsOf[d]) /\ x[k].role = "#auxiliary")
      /\ IsInjective(RowsOf[d]) => IsInjective(x)
  BY OfferedListed
<1>3. StagingPlan(d) = a \o b
  BY DEF StagingPlan, Offered
<1> HIDE DEF a, x
<1>4. /\ b \in Seq(Files) /\ (\A k \in DOMAIN b : b[k] \in ToSet(RowsOf[d]) /\ b[k].role = "#auxiliary")
      /\ IsInjective(RowsOf[d]) => IsInjective(b)
  <2>1. CASE conf.auxiliary
    BY <1>2, <2>1
  <2>2. CASE ~conf.auxiliary
    BY <2>2 DEF IsInjective
  <2> QED
    BY <2>1, <2>2
<1> HIDE DEF b
<1>5. ToSet(a) \subseteq ToSet(RowsOf[d]) /\ ToSet(b) \subseteq ToSet(RowsOf[d])
  BY <1>1, <1>4 DEF ToSet
<1>6. ToSet(a) \cap ToSet(b) = {}
  <2> SUFFICES ASSUME NEW f, f \in ToSet(a), f \in ToSet(b) PROVE FALSE
    OBVIOUS
  <2>1. PICK k \in DOMAIN a : f = a[k]
    BY DEF ToSet
  <2>2. PICK l \in DOMAIN b : f = b[l]
    BY DEF ToSet
  <2>3. f.role = "#this" /\ f.role = "#auxiliary"
    BY <1>1, <1>4, <2>1, <2>2
  <2> QED
    BY <2>3
<1> QED
  BY <1>1, <1>3, <1>4, <1>5, <1>6, JoinOnce

-----------------------------------------------------------------------------
(***************************************************************************)
(* What a step does to the request in hand                                 *)
(***************************************************************************)
\* Where a thread is while it has a dataset in hand.
Busy == Uploading \cup {"file", "spool"}
Places == Busy \cup {"idle", "dataset", "submit", "job", "over", "failed"}

LocalTypes ==
    /\ pc \in [Threads -> Places]
    /\ uids \in [Threads -> Seq(DOMAIN RowsOf)] /\ plan \in [Threads -> Seq(Files)]
    /\ anyStaged \in [Threads -> BOOLEAN] /\ taken \in [Threads -> Nat]
    /\ budget \in [Threads -> Int] /\ bytes \in [Threads -> Nat]
    /\ transfer \in [Threads -> SUBSET Files] /\ mishaps \subseteq Threads
    /\ free \in Int /\ onDisk \in [Threads -> SUBSET Files]
    /\ record \in [Threads -> SUBSET Files]
    /\ objects \in [Threads -> SUBSET [file : Files, whole : BOOLEAN]]
    /\ \A t \in Threads : /\ IsFiniteSet(transfer[t]) /\ IsFiniteSet(onDisk[t])
                          /\ pc[t] \in Busy \ {"file"} => plan[t] # <<>>
                          /\ pc[t] = "spool" => ~Oversized(File(t))
TokenTypes ==
    token \in 0 .. TokenLife /\ held \in [Threads -> 0 .. TokenLife]

\* An upload or a download goes on; a file is given up; a file is taken.
Stays(t) ==
    /\ pc[t] \in Busy \ {"spool"} /\ plan[t] # <<>>
    /\ \E at \in Busy : /\ pc' = [pc EXCEPT ![t] = at]
                        /\ at = "spool" => ~Oversized(File(t)) /\ free >= File(t).listed + MinFree
    /\ UNCHANGED <<local, pod, store, conf>>
Skips(t) ==
    /\ pc[t] \in Busy \ {"spool"} /\ plan[t] # <<>> /\ Skip(t)
    /\ \E at \in {objects[t], Keep(t, FALSE)} : objects' = [objects EXCEPT ![t] = at]
    /\ UNCHANGED <<pod, record, conf>>
Takes(t) ==
    /\ pc[t] \in Busy /\ plan[t] # <<>> /\ Took(t, File(t).size, File(t).size)
    /\ \/ /\ pc[t] = "spool" /\ ~Oversized(File(t)) /\ UNCHANGED objects
          /\ free' = free - File(t).size /\ onDisk' = [onDisk EXCEPT ![t] = @ \cup {File(t)}]
       \/ /\ pc[t] # "spool" /\ Oversized(File(t)) /\ File(t).size = File(t).listed /\ UNCHANGED pod
          /\ objects' = [objects EXCEPT ![t] = Keep(t, TRUE)]
    /\ UNCHANGED <<record, conf>>

\* A step on a dataset.
OnDataset(t) ==
    Start(t) \/ DatasetSkipped(t) \/ DatasetChosen(t) \/ DatasetsEnd(t) \/ DatasetDone(t)

\* Every other step of a thread is one of those.
LEMMA Effects ==
  ASSUME StagingInv, LocalTypes, NEW t \in Threads, Staging(t)
  PROVE  OnDataset(t) \/ SpoolRaises(t) \/ Stays(t) \/ Skips(t) \/ Takes(t)
<1>1. pc[t] \in Uploading => Oversized(File(t)) /\ plan[t] # <<>>
  BY DEF StagingInv, LargeInv, LocalTypes, Uploading, Busy
<1>2. objects = [objects EXCEPT ![t] = objects[t]]
  BY DEF LocalTypes
<1>3. CASE FileTooLarge(t) \/ NoRoomOnDisk(t)
  <2>1. Skips(t)
    BY <1>2, <1>3 DEF FileTooLarge, NoRoomOnDisk, AtFile, Busy, Skips
  <2> QED
    BY <2>1
<1>4. CASE SpoolStart(t) \/ UploadStart(t)
  <2>1. Stays(t)
    BY <1>4 DEF SpoolStart, UploadStart, AtFile, Busy, Uploading, Stays
  <2> QED
    BY <2>1
<1>5. CASE SpoolDone(t)
  <2>1. Takes(t)
    BY <1>5 DEF SpoolDone, Busy, Takes, LocalTypes
  <2> QED
    BY <2>1
<1>6. CASE UploadRaises(t)
  <2>1. pc[t] \in Uploading /\ Skip(t) /\ UNCHANGED <<pod, store, conf>>
    BY <1>6 DEF UploadRaises, Uploading
  <2>2. Skips(t)
    BY <1>1, <1>2, <2>1 DEF Uploading, Busy, Skips
  <2> QED
    BY <2>2
<1>7. CASE ResolveCached(t) \/ ResolveProbe(t)
  <2>1. Stays(t)
    BY <1>1, <1>7 DEF ResolveCached, ResolveProbe, Probe, Busy, Uploading, Stays
  <2> QED
    BY <2>1
<1>8. CASE MintCached(t) \/ Mint(t) \/ PutRedirected(t)
  <2>1. Stays(t)
    BY <1>1, <1>8 DEF MintCached, Mint, PutRedirected, Busy, Uploading, Stays
  <2> QED
    BY <2>1
<1>9. CASE PutDone(t)
  <2>1. Takes(t)
    BY <1>1, <1>9 DEF PutDone, Sent, Busy, Uploading, Takes
  <2> QED
    BY <2>1
<1>10. CASE PutTruncated(t)
  <2>1. Skips(t)
    BY <1>1, <1>10 DEF PutTruncated, Sent, Busy, Uploading, Skips
  <2> QED
    BY <2>1
<1>11. CASE PutRefused(t)
  <2>1. Skips(t)
    BY <1>1, <1>2, <1>11 DEF PutRefused, Busy, Uploading, Skips
  <2> QED
    BY <2>1
<1>12. CASE NeedsRetry(t)
  <2>1. CASE attempt[t] + 1 < Retries
    <3>1. Stays(t)
      BY <1>1, <1>12, <2>1 DEF NeedsRetry, Probe, Busy, Uploading, Stays
    <3> QED
      BY <3>1
  <2>2. CASE ~(attempt[t] + 1 < Retries)
    <3>1. Skips(t)
      BY <1>1, <1>2, <1>12, <2>2 DEF NeedsRetry, Probe, Busy, Uploading, Skips
    <3> QED
      BY <3>1
  <2> QED
    BY <2>1, <2>2
<1> QED
  BY <1>3, <1>4, <1>5, <1>6, <1>7, <1>8, <1>9, <1>10, <1>11, <1>12 DEF Staging, OnDataset

-----------------------------------------------------------------------------
(***************************************************************************)
(* Types                                                                   *)
(***************************************************************************)
LEMMA LocalTypesInit == Init => LocalTypes
BY AlmaAssumption, FS_EmptySet DEF Init, LocalTypes, Places, Busy, Uploading

\* A finite set in one place of finite sets.
LEMMA PutFinite ==
  ASSUME NEW S, NEW f \in [Threads -> SUBSET S], \A u \in Threads : IsFiniteSet(f[u]),
         NEW t \in Threads, NEW X \in SUBSET S, IsFiniteSet(X)
  PROVE  /\ [f EXCEPT ![t] = X] \in [Threads -> SUBSET S]
         /\ \A u \in Threads : IsFiniteSet([f EXCEPT ![t] = X][u])
<1>1. \A u \in Threads : [f EXCEPT ![t] = X][u] = IF u = t THEN X ELSE f[u]
  OBVIOUS
<1> QED
  BY <1>1

\* What a PUT leaves at the origin is objects.
LEMMA KeepTyped ==
  ASSUME LocalTypes, NEW t \in Threads, File(t) \in Files, NEW w \in BOOLEAN
  PROVE  Keep(t, w) \in SUBSET [file : Files, whole : BOOLEAN]
<1>1. objects[t] \in SUBSET [file : Files, whole : BOOLEAN]
  BY DEF LocalTypes
<1>2. [file |-> File(t), whole |-> w] \in [file : Files, whole : BOOLEAN]
  OBVIOUS
<1> QED
  BY <1>1, <1>2 DEF Keep

\* A step of the staging keeps the types.
LEMMA LocalTypesStaging ==
  ASSUME StagingInv, LocalTypes, NEW t \in Threads, Staging(t)
  PROVE  LocalTypes'
<1>1. OnDataset(t) \/ SpoolRaises(t) \/ Stays(t) \/ Skips(t) \/ Takes(t)
  BY Effects
<1>2. File(t) \in Files \/ plan[t] = <<>>
  BY ListTail DEF LocalTypes, File
<1>3. CASE Start(t)
  BY <1>3, UidsListed DEF Start, LocalTypes, Places, Busy, Uploading, File
<1>4. CASE DatasetSkipped(t)
  BY <1>4, ListTail DEF DatasetSkipped, LocalTypes, Places, Busy, Uploading, File
<1>5. CASE DatasetChosen(t)
  <2>1. Head(uids[t]) \in DOMAIN RowsOf /\ Tail(uids[t]) \in Seq(DOMAIN RowsOf)
    BY <1>5, ListTail DEF DatasetChosen, LocalTypes
  <2>2. StagingPlan(Head(uids[t])) \in Seq(Files)
    BY <2>1, PlanListed
  <2> QED
    BY <1>5, <2>1, <2>2 DEF DatasetChosen, LocalTypes, Places, Busy, Uploading, File
<1>6. CASE DatasetsEnd(t)
  BY <1>6 DEF DatasetsEnd, LocalTypes, Places, Busy, Uploading, File
<1>7. CASE DatasetDone(t)
  BY <1>7 DEF DatasetDone, LocalTypes, Places, Busy, Uploading, File
<1>8. CASE SpoolRaises(t)
  <2>1. File(t) \in Files /\ File(t).size \in Nat
    BY <1>2, <1>8, FileNumbers DEF SpoolRaises, LocalTypes, Busy
  <2>2. IsFiniteSet(onDisk[t] \cup {File(t)})
    BY FS_AddElement DEF LocalTypes
  <2>3. pc[t] = "spool" /\ pc' = [pc EXCEPT ![t] = "failed"] /\ UNCHANGED <<local, objects, record>>
    BY <1>8 DEF SpoolRaises
  <2>4. \/ UNCHANGED pod
        \/ free' = free - File(t).size /\ onDisk' = [onDisk EXCEPT ![t] = @ \cup {File(t)}]
    BY <1>8 DEF SpoolRaises
  <2>5. free' \in Int /\ onDisk' \in [Threads -> SUBSET Files]
        /\ \A u \in Threads : IsFiniteSet(onDisk'[u])
    <3>1. onDisk[t] \cup {File(t)} \in SUBSET Files
      BY <2>1 DEF LocalTypes
    <3> DEFINE g == [onDisk EXCEPT ![t] = onDisk[t] \cup {File(t)}]
    <3>2. onDisk \in [Threads -> SUBSET Files] /\ \A u \in Threads : IsFiniteSet(onDisk[u])
      BY DEF LocalTypes
    <3>3. g \in [Threads -> SUBSET Files] /\ \A u \in Threads : IsFiniteSet(g[u])
      BY <2>2, <3>1, <3>2, PutFinite
    <3>4. (free' = free /\ onDisk' = onDisk) \/ (free' = free - File(t).size /\ onDisk' = g)
      BY <2>4
    <3>5. free \in Int /\ free - File(t).size \in Int
      BY <2>1 DEF LocalTypes
    <3> QED
      BY <3>2, <3>3, <3>4, <3>5
  <2> QED
    BY <2>3, <2>5 DEF LocalTypes, Places, Busy, Uploading, File
<1>9. CASE Stays(t)
  BY <1>9 DEF Stays, LocalTypes, Places, Busy, Uploading, File
<1>10. CASE Skips(t)
  <2>1. /\ Tail(plan[t]) \in Seq(Files) /\ File(t) \in Files
    BY <1>10, ListTail DEF Skips, LocalTypes, File
  <2>2. objects' \in [Threads -> SUBSET [file : Files, whole : BOOLEAN]]
    <3>1. PICK at \in {objects[t], Keep(t, FALSE)} : objects' = [objects EXCEPT ![t] = at]
      BY <1>10 DEF Skips
    <3>2. Keep(t, FALSE) \in SUBSET [file : Files, whole : BOOLEAN]
      BY <2>1, KeepTyped
    <3> QED
      BY <3>1, <3>2 DEF LocalTypes
  <2> QED
    BY <1>10, <2>1, <2>2 DEF Skips, Skip, LocalTypes, Places, Busy, Uploading, File
<1>11. CASE Takes(t)
  <2>1. /\ Tail(plan[t]) \in Seq(Files) /\ File(t) \in Files /\ File(t).size \in Nat
    BY <1>11, ListTail, FileNumbers DEF Takes, LocalTypes, File
  <2>2. objects' \in [Threads -> SUBSET [file : Files, whole : BOOLEAN]]
    <3>1. objects' = objects \/ objects' = [objects EXCEPT ![t] = Keep(t, TRUE)]
      BY <1>11 DEF Takes
    <3>2. Keep(t, TRUE) \in SUBSET [file : Files, whole : BOOLEAN]
      BY <2>1, KeepTyped
    <3> QED
      BY <3>1, <3>2 DEF LocalTypes
  <2>3. IsFiniteSet(onDisk[t] \cup {File(t)}) /\ IsFiniteSet(transfer[t] \cup {File(t)})
    BY FS_AddElement DEF LocalTypes
  <2>4. free' \in Int /\ onDisk' \in [Threads -> SUBSET Files]
        /\ \A u \in Threads : IsFiniteSet(onDisk'[u])
    <3>1. onDisk[t] \cup {File(t)} \in SUBSET Files
      BY <2>1 DEF LocalTypes
    <3> DEFINE g == [onDisk EXCEPT ![t] = onDisk[t] \cup {File(t)}]
    <3>2. onDisk \in [Threads -> SUBSET Files] /\ \A u \in Threads : IsFiniteSet(onDisk[u])
      BY DEF LocalTypes
    <3>3. g \in [Threads -> SUBSET Files] /\ \A u \in Threads : IsFiniteSet(g[u])
      BY <2>3, <3>1, <3>2, PutFinite
    <3>4. (free' = free /\ onDisk' = onDisk) \/ (free' = free - File(t).size /\ onDisk' = g)
      BY <1>11 DEF Takes
    <3>5. free \in Int /\ free - File(t).size \in Int
      BY <2>1 DEF LocalTypes
    <3> QED
      BY <3>2, <3>3, <3>4, <3>5
  <2>5. /\ transfer' \in [Threads -> SUBSET Files] /\ \A u \in Threads : IsFiniteSet(transfer'[u])
        /\ bytes' \in [Threads -> Nat] /\ budget' \in [Threads -> Int]
        /\ anyStaged' \in [Threads -> BOOLEAN] /\ plan' \in [Threads -> Seq(Files)]
    BY <1>11, <2>1, <2>3 DEF Takes, Took, LocalTypes
  <2>6. /\ pc' = [pc EXCEPT ![t] = "file"] /\ UNCHANGED <<uids, taken, mishaps, record>>
        /\ \A u \in Threads : u # t => plan'[u] = plan[u]
    BY <1>11 DEF Takes, Took, LocalTypes
  <2> QED
    BY <2>2, <2>4, <2>5, <2>6 DEF LocalTypes, Places, Busy, Uploading, File
<1> QED
  BY <1>1, <1>3, <1>4, <1>5, <1>6, <1>7, <1>8, <1>9, <1>10, <1>11 DEF OnDataset

\* Every step does.
LEMMA LocalTypesNext ==
  ASSUME StagingInv, LocalTypes, [Next]_vars
  PROVE  LocalTypes'
<1>1. ASSUME NEW t \in Threads, Staging(t)
      PROVE  LocalTypes'
  BY <1>1, LocalTypesStaging
<1>2. ASSUME NEW t \in Threads, Submit(t)
      PROVE  LocalTypes'
  <2>1. SumOfSizes(onDisk[t]) \in Nat
    BY SumAdd DEF LocalTypes
  <2>2. free' \in Int /\ onDisk' \in [Threads -> SUBSET Files]
        /\ \A u \in Threads : IsFiniteSet(onDisk'[u])
    <3>1. {} \in SUBSET Files /\ IsFiniteSet({})
      BY FS_EmptySet
    <3> DEFINE g == [onDisk EXCEPT ![t] = {}]
    <3>2. CASE conf.spool
      <4>1. onDisk \in [Threads -> SUBSET Files] /\ \A u \in Threads : IsFiniteSet(onDisk[u])
        BY DEF LocalTypes
      <4>2. g \in [Threads -> SUBSET Files] /\ \A u \in Threads : IsFiniteSet(g[u])
        BY <3>1, <4>1, PutFinite
      <4>3. onDisk' = g /\ free' = free + SumOfSizes(onDisk[t])
        BY <1>2, <3>2 DEF Submit
      <4> QED
        BY <2>1, <4>2, <4>3 DEF LocalTypes
    <3>3. CASE ~conf.spool
      BY <1>2, <3>3 DEF Submit, LocalTypes
    <3> QED
      BY <3>2, <3>3
  <2> QED
    BY <1>2, <2>2 DEF Submit, Urls, LocalTypes, Places, Busy, Uploading, File
<1>3. ASSUME NEW t \in Threads, SubmitRaises(t)
      PROVE  LocalTypes'
  BY <1>3 DEF SubmitRaises, LocalTypes, Places, Busy, Uploading, File
<1>4. ASSUME NEW t \in Threads, Cleanup(t)
      PROVE  LocalTypes'
  <2>1. record' \in [Threads -> SUBSET Files]
        /\ objects' \in [Threads -> SUBSET [file : Files, whole : BOOLEAN]]
    BY <1>4 DEF Cleanup, Without, LocalTypes
  <2> QED
    BY <1>4, <2>1 DEF Cleanup, LocalTypes, Places, Busy, Uploading, File
<1>5. CASE Tick \/ Move \/ UNCHANGED vars
  BY <1>5 DEF Tick, Move, LocalTypes, Places, Busy, Uploading, File
<1> QED
  BY <1>1, <1>2, <1>3, <1>4, <1>5 DEF Next

\* There is no token at first.
LEMMA TokenTypesInit == Init => TokenTypes
BY AlmaAssumption DEF Init, TokenTypes

\* A token lives no longer than a new one.
LEMMA TokenTypesNext ==
  ASSUME TokenTypes, [Next]_vars
  PROVE  TokenTypes'
<1>1. TokenLife \in Nat /\ \A n \in 1 .. TokenLife : n - 1 \in 0 .. TokenLife
  BY Numbers
<1>2. ASSUME NEW t \in Threads, Staging(t)
      PROVE  /\ token' \in {token, TokenLife}
             /\ \E n \in {held[t], token, TokenLife, 0} : held' = [held EXCEPT ![t] = n]
  <2>1. held = [held EXCEPT ![t] = held[t]]
    BY DEF TokenTypes
  <2>2. CASE Start(t) \/ DatasetSkipped(t) \/ DatasetChosen(t) \/ DatasetsEnd(t) \/ DatasetDone(t)
             \/ FileTooLarge(t) \/ NoRoomOnDisk(t) \/ SpoolStart(t) \/ SpoolDone(t) \/ SpoolRaises(t)
    BY <2>1, <2>2 DEF Start, DatasetSkipped, DatasetChosen, DatasetsEnd, DatasetDone, FileTooLarge,
        NoRoomOnDisk, SpoolStart, SpoolDone, SpoolRaises
  <2>3. CASE UploadStart(t) \/ UploadRaises(t) \/ ResolveCached(t) \/ ResolveProbe(t)
             \/ MintCached(t) \/ Mint(t) \/ PutRedirected(t)
    BY <2>1, <2>3 DEF UploadStart, UploadRaises, ResolveCached, ResolveProbe, Probe, MintCached,
        Mint, PutRedirected, UploadLeft
  <2>4. CASE PutDone(t) \/ PutTruncated(t) \/ PutRefused(t) \/ NeedsRetry(t)
    BY <2>1, <2>4 DEF PutDone, PutTruncated, PutRefused, NeedsRetry, Probe, UploadLeft
  <2> QED
    BY <1>2, <2>2, <2>3, <2>4 DEF Staging
<1>3. ASSUME NEW t \in Threads, Staging(t)
      PROVE  TokenTypes'
  BY <1>1, <1>2, <1>3 DEF TokenTypes
<1>4. ASSUME NEW t \in Threads, Submit(t) \/ SubmitRaises(t) \/ Cleanup(t)
      PROVE  TokenTypes'
  BY <1>4 DEF Submit, SubmitRaises, Cleanup, TokenTypes
<1>5. CASE Tick
  <2>1. token' \in 0 .. TokenLife /\ \A t \in Threads : held'[t] \in 0 .. TokenLife
    BY <1>1, <1>5 DEF Tick, TokenTypes
  <2> QED
    BY <1>5, <2>1 DEF Tick, TokenTypes
<1>6. CASE Move \/ UNCHANGED vars
  BY <1>6 DEF Move, TokenTypes
<1> QED
  BY <1>3, <1>4, <1>5, <1>6 DEF Next

-----------------------------------------------------------------------------
(***************************************************************************)
(* The pod's disk                                                          *)
(***************************************************************************)
\* Downloads under way.  The last of them to have looked found room for itself and, in
\* what is kept free, for all the others; whoever finished since took no more than a share.
Spooling == {t \in Threads : pc[t] = "spool"}
Room(n) == n * MaxFileBytes
DiskInv ==
    /\ free >= 0
    /\ Spooling # {} =>
         \E t \in Spooling : free >= File(t).size + Room(Cardinality(Spooling) - 1)

\* Room for one more download is one more share.
LEMMA RoomGrows ==
  ASSUME DiskShared
  PROVE  /\ MaxFileBytes \in Nat
         /\ \A n \in Nat : Room(n) \in Nat /\ Room(n + 1) = Room(n) + MaxFileBytes
         /\ \A m, n \in Nat : m <= n => Room(m) <= Room(n)
<1>1. MaxFileBytes \in Nat
  BY AlmaAssumption
<1> QED
  BY <1>1 DEF Room

\* A file that is spooled takes no more than its share.
LEMMA SmallFits ==
  ASSUME AsListed, DiskShared, LocalTypes, NEW t \in Spooling
  PROVE  /\ plan[t] # <<>> /\ File(t) \in Files /\ File(t).size \in Nat /\ File(t).listed \in Nat
         /\ File(t).size <= File(t).listed /\ File(t).size <= MaxFileBytes
<1>1. t \in Threads /\ pc[t] = "spool"
  BY DEF Spooling
<1>2. plan[t] # <<>> /\ ~Oversized(File(t)) /\ plan[t] \in Seq(Files)
  BY <1>1 DEF LocalTypes, Busy
<1>3. File(t) \in Files
  BY <1>2, ListTail DEF File
<1>4. File(t).size \in Nat /\ File(t).listed \in Nat /\ MaxFileBytes \in Nat
  BY <1>3, FileNumbers, RoomGrows
<1>5. File(t).size <= File(t).listed /\ ~(File(t).listed > MaxFileBytes)
  BY <1>2, <1>3 DEF AsListed, DiskShared, Oversized
<1> QED
  BY <1>2, <1>3, <1>4, <1>5

\* Downloads can be counted.
LEMMA SpoolingFinite ==
  IsFiniteSet(Threads) /\ Cardinality(Threads) \in Nat
    /\ IsFiniteSet(Spooling) /\ Cardinality(Spooling) \in Nat
<1>1. IsFiniteSet(Threads)
  BY AlmaAssumption
<1>2. Spooling \in SUBSET Threads
  BY DEF Spooling
<1> QED
  BY <1>1, <1>2, FS_Subset, FS_CardinalityType

\* No download begins or ends, and no file in download changes.
LEMMA DiskIdle ==
  ASSUME DiskInv, LocalTypes, free' \in Int, free' >= free, Spooling' = Spooling,
         \A t \in Spooling : plan'[t] = plan[t],
         AsListed, DiskShared
  PROVE  DiskInv'
<1>1. free' >= 0
  BY DEF DiskInv, LocalTypes
<1>2. ASSUME Spooling # {}
      PROVE  \E t \in Spooling : free' >= File(t)'.size + Room(Cardinality(Spooling) - 1)
  <2>1. PICK t \in Spooling : free >= File(t).size + Room(Cardinality(Spooling) - 1)
    BY <1>2 DEF DiskInv
  <2>2. File(t)' = File(t)
    BY DEF File
  <2>3. File(t).size \in Nat
    BY SmallFits
  <2>4. Cardinality(Spooling) - 1 \in Nat
    BY <1>2, SpoolingFinite, FS_EmptySet
  <2>5. Room(Cardinality(Spooling) - 1) \in Nat
    BY <2>4, RoomGrows
  <2>6. free' >= File(t).size + Room(Cardinality(Spooling) - 1)
    BY <2>1, <2>3, <2>5 DEF LocalTypes
  <2> QED
    BY <2>2, <2>6
<1>3. Room(Cardinality(Spooling) - 1)' = Room(Cardinality(Spooling) - 1)
  BY DEF Room
<1> QED
  BY <1>1, <1>2, <1>3 DEF DiskInv

\* A download begins: there is room for it and for a share of each other thread.
LEMMA DiskStart ==
  ASSUME DiskInv, LocalTypes, LocalTypes', AsListed, DiskShared,
         NEW t \in Threads, t \notin Spooling, Spooling' = Spooling \cup {t},
         UNCHANGED <<free, plan>>, free >= File(t).listed + MinFree
  PROVE  DiskInv'
<1>1. File(t)' = File(t)
  BY DEF File
<1>2. t \in Spooling'
  OBVIOUS
<1>3. File(t).size \in Nat /\ File(t).listed \in Nat /\ File(t).size <= File(t).listed
  <2>1. plan'[t] # <<>> /\ ~Oversized(File(t))' /\ plan'[t] \in Seq(Files)
    BY <1>2 DEF Spooling, LocalTypes, Busy
  <2>2. plan[t] # <<>> /\ ~Oversized(File(t)) /\ plan[t] \in Seq(Files)
    BY <1>1, <2>1 DEF Oversized
  <2>3. File(t) \in Files
    BY <2>2, ListTail DEF File
  <2> QED
    BY <2>2, <2>3, FileNumbers DEF AsListed
<1> DEFINE k == Cardinality(Spooling)
          n == Cardinality(Threads)
<1>4. k \in Nat /\ n \in Nat /\ Cardinality(Spooling') = k + 1
  BY SpoolingFinite, FS_AddElement
<1>5. k + 1 <= n
  <2>1. Spooling \cup {t} \in SUBSET Threads
    BY DEF Spooling
  <2>2. Cardinality(Spooling \cup {t}) <= n
    BY <2>1, SpoolingFinite, FS_Subset
  <2> QED
    BY <1>4, <2>2
<1> HIDE DEF k, n
<1>6. Room(k) <= Room(n - 1) /\ Room(n - 1) <= MinFree /\ Room(k) \in Nat /\ Room(n - 1) \in Nat
  <2>1. n - 1 \in Nat /\ k <= n - 1
    BY <1>4, <1>5
  <2>2. Room(n - 1) <= MinFree
    BY DEF DiskShared, Room, n
  <2> QED
    BY <1>4, <2>1, <2>2, RoomGrows
<1>7. MinFree \in Nat /\ free \in Int
  BY AlmaAssumption DEF LocalTypes
<1>8. free >= File(t).size + Room(k)
  BY <1>3, <1>6, <1>7
<1>9. free >= 0
  BY DEF DiskInv
<1>10. Cardinality(Spooling)' - 1 = k
  BY <1>4
<1>11. free' >= File(t)'.size + Room(Cardinality(Spooling)' - 1)
  BY <1>1, <1>8, <1>10
<1> QED
  BY <1>2, <1>9, <1>11 DEF DiskInv, Room

\* A download ends, with all of it on disk or nothing.
LEMMA DiskEnd ==
  ASSUME DiskInv, LocalTypes, AsListed, DiskShared,
         NEW t \in Spooling, Spooling' = Spooling \ {t},
         free' \in {free, free - File(t).size}, \A u \in Spooling \ {t} : plan'[u] = plan[u]
  PROVE  DiskInv'
<1> DEFINE k == Cardinality(Spooling)
          size(u) == File(u).size
<1>1. k \in Nat /\ k # 0 /\ Cardinality(Spooling \ {t}) = k - 1
  BY SpoolingFinite, FS_RemoveElement, FS_EmptySet
<1>2. \A u \in Spooling : size(u) \in Nat /\ size(u) <= MaxFileBytes
  BY SmallFits
<1>3. PICK w \in Spooling : free >= size(w) + Room(k - 1)
  BY DEF DiskInv
<1>4. free \in Int /\ free' \in {free, free - size(t)}
  BY DEF LocalTypes
<1>5. Cardinality(Spooling)' = k - 1
  BY <1>1
<1> HIDE DEF k, size
<1>6. k - 1 \in Nat /\ Room(k - 1) \in Nat /\ MaxFileBytes \in Nat
  BY <1>1, RoomGrows
<1>7. ASSUME k # 1
      PROVE  k - 2 \in Nat /\ Room(k - 2) \in Nat /\ Room(k - 1) = Room(k - 2) + MaxFileBytes
  <2>1. k - 2 \in Nat /\ (k - 2) + 1 = k - 1
    BY <1>1, <1>7
  <2> QED
    BY <2>1, RoomGrows
<1>8. size(t) \in Nat /\ size(w) \in Nat /\ size(t) <= MaxFileBytes
  BY <1>2
<1>9. k = 1 <=> Spooling \ {t} = {}
  <2>1. IsFiniteSet(Spooling \ {t})
    BY SpoolingFinite, FS_RemoveElement
  <2>2. Cardinality(Spooling \ {t}) = 0 <=> Spooling \ {t} = {}
    BY <2>1, FS_EmptySet
  <2> QED
    BY <1>1, <2>2
<1>10. free' >= free - size(t) /\ free' \in Int
  BY <1>4, <1>8
<1>11. free' >= 0
  <2>1. CASE w = t
    BY <1>3, <1>4, <1>6, <1>8, <1>10, <2>1
  <2>2. CASE w # t
    <3>1. k # 1
      BY <1>9, <2>2
    <3>2. Room(k - 2) \in Nat /\ free >= size(w) + (Room(k - 2) + MaxFileBytes)
      BY <1>3, <1>7, <3>1
    <3> HIDE DEF Room
    <3> QED
      BY <1>4, <1>6, <1>8, <1>10, <3>2
  <2> QED
    BY <2>1, <2>2
<1>12. ASSUME NEW u \in Spooling \ {t}
       PROVE  \E v \in Spooling \ {t} : free' >= size(v) + Room(k - 2)
  <2>1. k # 1
    BY <1>9
  <2>2. size(u) \in Nat /\ size(u) <= MaxFileBytes
    BY <1>2
  <2>3. CASE w = t
    <3>1. free' >= size(u) + Room(k - 2)
      BY <1>3, <1>4, <1>6, <1>7, <1>8, <1>10, <2>1, <2>2, <2>3
    <3> QED
      BY <3>1
  <2>4. CASE w # t
    <3>1. free' >= size(w) + Room(k - 2)
      BY <1>3, <1>4, <1>6, <1>7, <1>8, <1>10, <2>1
    <3> QED
      BY <2>4, <3>1
  <2> QED
    BY <2>3, <2>4
<1>13. ASSUME Spooling' # {}
       PROVE  \E u \in Spooling' : free' >= File(u)'.size + Room(Cardinality(Spooling) - 1)'
  <2>1. PICK u \in Spooling \ {t} : free' >= size(u) + Room(k - 2)
    BY <1>12, <1>13
  <2>2. Room(Cardinality(Spooling) - 1)' = Room(k - 2)
    <3>1. (k - 1) - 1 = k - 2
      BY <1>1
    <3> QED
      BY <1>5, <3>1 DEF Room
  <2>3. File(u)'.size = size(u)
    BY DEF File, size
  <2> QED
    BY <2>1, <2>2, <2>3
<1> QED
  BY <1>11, <1>13 DEF DiskInv

\* Every step keeps the disk from filling.
LEMMA DiskNext ==
  ASSUME AsListed, DiskShared, StagingInv, LocalTypes, LocalTypes', DiskInv, [Next]_vars
  PROVE  DiskInv'
<1> DEFINE quiet == /\ UNCHANGED free /\ Spooling' = Spooling
                    /\ \A t \in Spooling : plan'[t] = plan[t]
<1>1. ASSUME quiet
      PROVE  DiskInv'
  <2>1. free' \in Int /\ free' >= free
    BY <1>1 DEF LocalTypes
  <2> QED
    BY <1>1, <2>1, DiskIdle
<1>2. ASSUME NEW t \in Threads, Staging(t)
      PROVE  DiskInv'
  <2>1. OnDataset(t) \/ SpoolRaises(t) \/ Stays(t) \/ Skips(t) \/ Takes(t)
    BY <1>2, Effects
  <2>2. CASE OnDataset(t)
    <3>1. quiet
      BY <2>2 DEF OnDataset, Start, DatasetSkipped, DatasetChosen, DatasetsEnd, DatasetDone,
          Spooling, LocalTypes
    <3> QED
      BY <1>1, <3>1
  <2>3. CASE SpoolRaises(t)
    <3>1. /\ t \in Spooling /\ Spooling' = Spooling \ {t} /\ UNCHANGED plan
          /\ free' \in {free, free - File(t).size}
      BY <2>3 DEF SpoolRaises, Spooling, LocalTypes
    <3> QED
      BY <3>1, DiskEnd
  <2>4. CASE Stays(t)
    <3>1. PICK at \in Busy : /\ pc' = [pc EXCEPT ![t] = at]
                             /\ at = "spool" => free >= File(t).listed + MinFree
      BY <2>4 DEF Stays
    <3>2. t \notin Spooling /\ UNCHANGED <<free, plan>>
      BY <2>4 DEF Stays, Spooling
    <3>3. CASE at = "spool"
      <4>1. Spooling' = Spooling \cup {t}
        BY <3>1, <3>3 DEF Spooling, LocalTypes
      <4> QED
        BY <3>1, <3>2, <3>3, <4>1, DiskStart
    <3>4. CASE at # "spool"
      <4>1. Spooling' = Spooling
        BY <3>1, <3>2, <3>4 DEF Spooling, LocalTypes
      <4> QED
        BY <1>1, <3>2, <4>1
    <3> QED
      BY <3>3, <3>4
  <2>5. CASE Skips(t)
    <3>1. quiet
      BY <2>5 DEF Skips, Skip, Spooling, LocalTypes
    <3> QED
      BY <1>1, <3>1
  <2>6. CASE Takes(t)
    <3>1. pc' = [pc EXCEPT ![t] = "file"] /\ plan' = [plan EXCEPT ![t] = Tail(@)]
      BY <2>6 DEF Takes, Took
    <3>2. CASE pc[t] = "spool"
      <4>1. free' = free - File(t).size
        BY <2>6, <3>2 DEF Takes
      <4>2. /\ t \in Spooling /\ Spooling' = Spooling \ {t}
            /\ \A u \in Spooling \ {t} : plan'[u] = plan[u]
        BY <3>1, <3>2 DEF Spooling, LocalTypes
      <4> QED
        BY <4>1, <4>2, DiskEnd
    <3>3. CASE pc[t] # "spool"
      <4>1. quiet
        BY <2>6, <3>1, <3>3 DEF Takes, Spooling, LocalTypes
      <4> QED
        BY <1>1, <4>1
    <3> QED
      BY <3>2, <3>3
  <2> QED
    BY <2>1, <2>2, <2>3, <2>4, <2>5, <2>6
<1>3. ASSUME NEW t \in Threads, Submit(t)
      PROVE  DiskInv'
  <2>1. SumOfSizes(onDisk[t]) \in Nat
    BY SumAdd DEF LocalTypes
  <2>2. free' \in Int /\ free' >= free
    BY <1>3, <2>1 DEF Submit, LocalTypes
  <2>3. Spooling' = Spooling /\ UNCHANGED plan
    BY <1>3 DEF Submit, Spooling, LocalTypes
  <2> QED
    BY <2>2, <2>3, DiskIdle
<1>4. ASSUME NEW t \in Threads, SubmitRaises(t) \/ Cleanup(t)
      PROVE  DiskInv'
  <2>1. quiet
    BY <1>4 DEF SubmitRaises, Cleanup, Spooling, LocalTypes
  <2> QED
    BY <1>1, <2>1
<1>5. CASE Tick \/ Move \/ UNCHANGED vars
  <2>1. quiet
    BY <1>5 DEF Tick, Move, Spooling
  <2> QED
    BY <1>1, <2>1
<1> QED
  BY <1>2, <1>3, <1>4, <1>5 DEF Next

\* The disk is empty at first.
LEMMA DiskInit ==
  ASSUME Init
  PROVE  DiskInv
<1>1. Disk \in Nat
  BY AlmaAssumption
<1>2. Spooling = {}
  BY DEF Init, Spooling
<1> QED
  BY <1>1, <1>2 DEF Init, DiskInv

\* "a download can never fill the shared web pod's root filesystem".
THEOREM DiskNeverFull == Sensible /\ AsListed /\ DiskShared /\ Spec => []NeverFull
<1> DEFINE IInv == StagingInv /\ LocalTypes /\ DiskInv
           Given == Sensible /\ AsListed /\ DiskShared
<1>1. Given /\ Init => IInv
  BY StagingInit, LocalTypesInit, DiskInit
<1>2. Given /\ IInv /\ [Next]_vars => IInv'
  <2> SUFFICES ASSUME Given, IInv, [Next]_vars
               PROVE  IInv'
    OBVIOUS
  <2>1. StagingInv' /\ LocalTypes'
    BY NextInv, LocalTypesNext
  <2> QED
    BY <2>1, DiskNext
<1>3. IInv => NeverFull
  BY DEF DiskInv, NeverFull
<1> HIDE DEF IInv
<1>4. CASE Given
  BY <1>1, <1>2, <1>3, <1>4, PTL DEF Spec
<1>5. CASE ~Given
  BY <1>5
<1> QED
  BY <1>4, <1>5

-----------------------------------------------------------------------------
(***************************************************************************)
(* What a request takes along                                              *)
(***************************************************************************)
\* The datasets a request names, those it has come to, and those it takes files of.
Named(t) == ToSet(DatasetUids(Asked[t]))
Done(t) == Named(t) \ ToSet(uids[t])
Of(d) == ToSet(StagingPlan(d))
UsedFor(t, files) == {d \in Named(t) : Of(d) \cap files # {}}
Used(t) == UsedFor(t, transfer[t])

\* Nothing of it could be staged, whatever the request did before.
Unfit(d) == d \in Unreadable \/ StagingPlan(d) = <<>> \/ TotalListed(StagingPlan(d)) > MaxBytes

\* What is ahead is not yet taken, and what is taken is from a dataset behind.
AheadAt(t) ==
    /\ IsInjective(uids[t]) /\ ToSet(uids[t]) \subseteq Named(t)
    /\ IsInjective(plan[t]) /\ ToSet(plan[t]) \cap transfer[t] = {}
    /\ \A f \in transfer[t] : \E d \in Done(t) : f \in Of(d)
    /\ pc[t] = "idle" => transfer[t] = {}

\* It is whole, on disk or at the origin, up to the submit.
WholeAt(t) == pc[t] \in Busy \cup {"dataset", "submit"} => \A f \in transfer[t] :
    IF Oversized(f) THEN [file |-> f, whole |-> TRUE] \in objects[t] ELSE f \in onDisk[t]

\* The budget is what is left of the volume, and enough for the files ahead.
SumAt(t) ==
    /\ bytes[t] = SumOfSizes(transfer[t])
    /\ budget[t] + bytes[t] = MaxBytes
    /\ TotalListed(plan[t]) <= budget[t]

\* The datasets it takes files of are counted: all but the one in hand, which is new.
InHand(t, d) == /\ d \in Done(t) /\ ToSet(plan[t]) \subseteq Of(d)
                /\ Cardinality(Used(t) \ {d}) <= taken[t]
                /\ d \in Used(t) => anyStaged[t]
CountAt(t) ==
    /\ MaxDatasets > 0 => Cardinality(Used(t)) <= MaxDatasets
    /\ pc[t] \notin Busy \cup {"failed"} => Cardinality(Used(t)) <= taken[t]
    /\ pc[t] \in Busy => /\ \E d \in Named(t) : InHand(t, d)
                         /\ MaxDatasets > 0 => taken[t] < MaxDatasets

\* Nothing is taken only if every dataset behind was unfit or something was noted.
LeftAt(t) ==
    /\ taken[t] > 0 \/ anyStaged[t] => transfer[t] # {}
    /\ transfer[t] = {} /\ t \notin mishaps =>
         /\ pc[t] \in Busy => plan[t] # <<>>
         /\ pc[t] = "dataset" => \A d \in Done(t) : Unfit(d)
         /\ pc[t] = "submit" => \A d \in Named(t) : Unfit(d)

SoundAt(t) == AheadAt(t) /\ WholeAt(t) /\ SumAt(t) /\ CountAt(t) /\ LeftAt(t)
SoundInv == \A t \in Threads : SoundAt(t)

-----------------------------------------------------------------------------
\* A request names listed datasets, finitely many.
LEMMA NamedListed ==
  ASSUME NEW t \in Threads
  PROVE  Named(t) \subseteq DOMAIN RowsOf /\ IsFiniteSet(Named(t))
<1>1. DatasetUids(Asked[t]) \in Seq(DOMAIN RowsOf)
  BY UidsListed
<1> QED
  BY <1>1, ListRange DEF Named

\* No file is on offer twice, or of two datasets.
LEMMA PlansApart ==
  ASSUME NoRepeats, NEW d \in DOMAIN RowsOf
  PROVE  /\ IsInjective(StagingPlan(d))
         /\ \A e \in DOMAIN RowsOf : e # d => Of(d) \cap Of(e) = {}
<1>1. /\ IsInjective(RowsOf[d])
      /\ \A e \in DOMAIN RowsOf : e # d => ToSet(RowsOf[d]) \cap ToSet(RowsOf[e]) = {}
  BY DEF NoRepeats
<1>2. \A e \in DOMAIN RowsOf : Of(e) \subseteq ToSet(RowsOf[e])
  BY PlanListed DEF Of
<1> QED
  BY <1>1, <1>2, PlanListed

\* Used datasets can be counted, and one of them counts for one.
LEMMA UsedFinite ==
  ASSUME NEW t \in Threads, NEW files
  PROVE  /\ IsFiniteSet(UsedFor(t, files)) /\ Cardinality(UsedFor(t, files)) \in Nat
         /\ \A d : /\ Cardinality(UsedFor(t, files) \ {d}) \in Nat
                   /\ Cardinality(UsedFor(t, files)) <= Cardinality(UsedFor(t, files) \ {d}) + 1
<1> DEFINE S == UsedFor(t, files)
<1>1. S \in SUBSET Named(t)
  BY DEF UsedFor
<1>2. IsFiniteSet(S)
  BY <1>1, NamedListed, FS_Subset
<1> HIDE DEF S
<1>3. Cardinality(S) \in Nat
  BY <1>2, FS_CardinalityType
<1>4. ASSUME NEW d
      PROVE  Cardinality(S \ {d}) \in Nat /\ Cardinality(S) <= Cardinality(S \ {d}) + 1
  <2>1. /\ IsFiniteSet(S \ {d})
        /\ Cardinality(S \ {d}) = IF d \in S THEN Cardinality(S) - 1 ELSE Cardinality(S)
    BY <1>2, FS_RemoveElement
  <2>2. Cardinality(S \ {d}) \in Nat
    BY <2>1, FS_CardinalityType
  <2> QED
    BY <1>3, <2>1, <2>2
<1>5. IsFiniteSet(S) /\ Cardinality(S) \in Nat
        /\ \A d : /\ Cardinality(S \ {d}) \in Nat
                  /\ Cardinality(S) <= Cardinality(S \ {d}) + 1
  BY <1>2, <1>3, <1>4
<1> QED
  BY <1>5 DEF S

\* What a request is about does not change under it.
LEMMA PlansStand ==
  ASSUME UNCHANGED conf
  PROVE  /\ \A d : StagingPlan(d)' = StagingPlan(d)
         /\ \A d : Of(d)' = Of(d)
         /\ \A d : Unfit(d)' = Unfit(d)
         /\ \A t, files : UsedFor(t, files)' = UsedFor(t, files)
<1>1. \A d : StagingPlan(d)' = StagingPlan(d)
  BY DEF StagingPlan
<1>2. \A d : Of(d)' = Of(d)
  BY <1>1 DEF Of
<1>3. \A d : Unfit(d)' = Unfit(d)
  BY <1>1 DEF Unfit, StagingPlan
<1>4. \A t, files : UsedFor(t, files)' = UsedFor(t, files)
  BY <1>2 DEF UsedFor, Of, StagingPlan
<1> QED
  BY <1>1, <1>2, <1>3, <1>4

\* A step of another thread.
SameAt(u) ==
    /\ pc'[u] = pc[u] /\ uids'[u] = uids[u] /\ plan'[u] = plan[u]
    /\ anyStaged'[u] = anyStaged[u] /\ taken'[u] = taken[u]
    /\ budget'[u] = budget[u] /\ bytes'[u] = bytes[u] /\ transfer'[u] = transfer[u]
    /\ u \in mishaps' <=> u \in mishaps
    /\ onDisk'[u] = onDisk[u] /\ objects'[u] = objects[u] /\ conf' = conf

\* It takes nothing from this one.
LEMMA Unmoved ==
  ASSUME NEW u, SoundAt(u), SameAt(u)
  PROVE  SoundAt(u)'
<1>1. /\ \A d : StagingPlan(d)' = StagingPlan(d)
      /\ \A d : Of(d)' = Of(d)
      /\ \A d : Unfit(d)' = Unfit(d)
      /\ \A t, files : UsedFor(t, files)' = UsedFor(t, files)
  BY PlansStand DEF SameAt
<1>2. Done(u)' = Done(u) /\ Used(u)' = Used(u)
  BY <1>1 DEF SameAt, Done, Used, UsedFor, Of, StagingPlan
<1>3. AheadAt(u)'
  BY <1>1, <1>2 DEF SoundAt, SameAt, AheadAt
<1>4. WholeAt(u)'
  BY DEF SoundAt, SameAt, WholeAt
<1>5. SumAt(u)'
  BY DEF SoundAt, SameAt, SumAt
<1>6. CountAt(u)'
  BY <1>1, <1>2 DEF SoundAt, SameAt, CountAt, InHand
<1>7. LeftAt(u)'
  BY <1>1, <1>2 DEF SoundAt, SameAt, LeftAt
<1> QED
  BY <1>3, <1>4, <1>5, <1>6, <1>7 DEF SoundAt

-----------------------------------------------------------------------------
\* The next dataset is named, new, and then behind.
LEMMA NextDataset ==
  ASSUME LocalTypes, NEW t \in Threads, AheadAt(t), uids[t] # <<>>
  PROVE  /\ Head(uids[t]) \in Named(t) \ Done(t) /\ Head(uids[t]) \in DOMAIN RowsOf
         /\ IsInjective(Tail(uids[t])) /\ ToSet(Tail(uids[t])) \subseteq Named(t)
         /\ Named(t) \ ToSet(Tail(uids[t])) = Done(t) \cup {Head(uids[t])}
<1>1. uids[t] \in Seq(DOMAIN RowsOf)
  BY DEF LocalTypes
<1> DEFINE h == Head(uids[t])
          T == ToSet(Tail(uids[t]))
<1>2. /\ h \in DOMAIN RowsOf /\ ToSet(uids[t]) = {h} \cup T
      /\ IsInjective(Tail(uids[t])) /\ h \notin T
  BY <1>1, ListTail DEF AheadAt
<1>3. {h} \cup T \subseteq Named(t) /\ Done(t) = Named(t) \ ({h} \cup T)
  BY <1>2 DEF AheadAt, Done
<1> HIDE DEF h, T
<1>4. h \in Named(t) \ Done(t) /\ T \subseteq Named(t) /\ Named(t) \ T = Done(t) \cup {h}
  BY <1>2, <1>3
<1> QED
  BY <1>2, <1>4 DEF h, T

\* A step on a dataset leaves what is taken as it is.
LEMMA StartSound ==
  ASSUME LocalTypes, NoRepeats, NEW t \in Threads, SoundAt(t), Start(t)
  PROVE  SoundAt(t)'
<1>1. /\ pc[t] = "idle" /\ pc'[t] = "dataset" /\ uids'[t] = DatasetUids(Asked[t])
      /\ UNCHANGED <<conf, plan, anyStaged, taken, budget, bytes, transfer, mishaps, onDisk, objects>>
  BY DEF Start, LocalTypes
<1>2. transfer[t] = {}
  BY <1>1 DEF SoundAt, AheadAt
<1>3. Done(t)' = {}
  BY <1>1 DEF Done, Named
<1>4. Used(t)' = Used(t)
  BY <1>1, PlansStand DEF Used, UsedFor, Of, StagingPlan
<1>5. AheadAt(t)'
  BY <1>1, <1>2 DEF NoRepeats, Named, SoundAt, AheadAt
<1>6. WholeAt(t)' /\ SumAt(t)'
  BY <1>1, <1>2 DEF SoundAt, WholeAt, SumAt
<1>7. CountAt(t)'
  BY <1>1, <1>4 DEF Busy, Uploading, SoundAt, CountAt
<1>8. LeftAt(t)'
  BY <1>1, <1>3 DEF Busy, Uploading, SoundAt, LeftAt
<1> QED
  BY <1>5, <1>6, <1>7, <1>8 DEF SoundAt

\* A dataset that is passed over was unfit, or something was taken before it.
LEMMA DatasetSkippedSound ==
  ASSUME LocalTypes, NEW t \in Threads, SoundAt(t), DatasetSkipped(t)
  PROVE  SoundAt(t)'
<1> DEFINE h == Head(uids[t])
<1>1. /\ pc[t] = "dataset" /\ pc'[t] = "dataset" /\ uids[t] # <<>> /\ uids'[t] = Tail(uids[t])
      /\ UNCHANGED <<conf, plan, anyStaged, taken, budget, bytes, transfer, mishaps, onDisk, objects>>
  BY DEF DatasetSkipped, LocalTypes
<1>2. /\ IsInjective(uids'[t]) /\ ToSet(uids'[t]) \subseteq Named(t)
      /\ Done(t)' = Done(t) \cup {h}
  BY <1>1, NextDataset DEF SoundAt, Done, Named
<1>3. Used(t)' = Used(t)
  BY <1>1, PlansStand DEF Used, UsedFor, Of, StagingPlan
<1>4. AheadAt(t)'
  <2>1. \A d : Of(d)' = Of(d)
    BY <1>1, PlansStand
  <2> QED
    BY <1>1, <1>2, <2>1 DEF SoundAt, AheadAt, Named
<1>5. WholeAt(t)' /\ SumAt(t)'
  BY <1>1 DEF SoundAt, WholeAt, SumAt
<1>6. CountAt(t)'
  BY <1>1, <1>3 DEF Busy, Uploading, SoundAt, CountAt
<1>7. LeftAt(t)'
  <2>1. \A d : Unfit(d)' = Unfit(d)
    BY <1>1, PlansStand
  <2>2. ASSUME transfer[t] = {}
        PROVE  Unfit(h)
    <3>1. bytes[t] = 0 /\ budget[t] + bytes[t] = MaxBytes
      BY <2>2, SumNone DEF SoundAt, SumAt
    <3>2. budget[t] = MaxBytes
      BY <3>1, AlmaAssumption DEF LocalTypes
    <3> QED
      BY <3>2 DEF DatasetSkipped, Unfit
  <2> HIDE DEF h
  <2> QED
    BY <1>1, <1>2, <2>1, <2>2 DEF Busy, Uploading, SoundAt, LeftAt
<1> QED
  BY <1>4, <1>5, <1>6, <1>7 DEF SoundAt

\* A dataset that is chosen is new, within the budget, and not one too many.
LEMMA DatasetChosenSound ==
  ASSUME LocalTypes, NoRepeats, NEW t \in Threads, SoundAt(t), DatasetChosen(t)
  PROVE  SoundAt(t)'
<1>0. PICK h : h = Head(uids[t])
  OBVIOUS
<1>1. /\ pc[t] = "dataset" /\ pc'[t] = "file" /\ uids[t] # <<>> /\ uids'[t] = Tail(uids[t])
      /\ plan'[t] = StagingPlan(h) /\ plan'[t] # <<>> /\ TotalListed(plan'[t]) <= budget[t]
      /\ anyStaged'[t] = FALSE /\ ~Enough(t)
      /\ UNCHANGED <<conf, taken, budget, bytes, transfer, mishaps, onDisk, objects>>
  BY <1>0 DEF DatasetChosen, LocalTypes
<1>2. /\ h \in Named(t) \ Done(t) /\ h \in DOMAIN RowsOf
      /\ IsInjective(uids'[t]) /\ ToSet(uids'[t]) \subseteq Named(t)
      /\ Done(t)' = Done(t) \cup {h}
  BY <1>0, <1>1, NextDataset DEF SoundAt, Done, Named
<1>3. /\ \A d : Of(d)' = Of(d)
      /\ \A d : Unfit(d)' = Unfit(d)
      /\ Used(t)' = Used(t)
  BY <1>1, PlansStand DEF Used, UsedFor, Of, StagingPlan
<1>4. Of(h) \cap transfer[t] = {}
  <2>1. \A f \in transfer[t] : \E d \in Done(t) : f \in Of(d)
    BY DEF SoundAt, AheadAt
  <2>2. \A d \in Done(t) : d # h /\ d \in DOMAIN RowsOf
    BY <1>2, NamedListed DEF Done
  <2>3. \A d \in Done(t) : Of(h) \cap Of(d) = {}
    BY <1>2, <2>2, PlansApart
  <2> QED
    BY <2>1, <2>3
<1>5. ToSet(plan'[t]) = Of(h) /\ IsInjective(plan'[t])
  BY <1>1, <1>2, PlansApart DEF Of
<1>6. AheadAt(t)'
  BY <1>1, <1>2, <1>3, <1>4, <1>5 DEF SoundAt, AheadAt, Named
<1>7. WholeAt(t)'
  BY <1>1 DEF SoundAt, WholeAt
<1>8. SumAt(t)'
  BY <1>1 DEF SoundAt, SumAt
<1>9. CountAt(t)'
  <2>1. h \notin Used(t)
    BY <1>4 DEF Used, UsedFor
  <2>2. Used(t) \ {h} = Used(t)
    BY <2>1
  <2>3. Cardinality(Used(t)) <= taken[t] /\ (MaxDatasets > 0 => Cardinality(Used(t)) <= MaxDatasets)
    BY <1>1 DEF Busy, Uploading, SoundAt, CountAt
  <2>4. InHand(t, h)'
    <3>1. h \in Done(t)' /\ ToSet(plan'[t]) \subseteq Of(h)' /\ h \notin Used(t)'
      BY <1>2, <1>3, <1>5, <2>1
    <3>2. Cardinality(Used(t)' \ {h}) <= taken'[t]
      BY <1>1, <1>3, <2>2, <2>3
    <3> QED
      BY <3>1, <3>2 DEF InHand
  <2>5. MaxDatasets > 0 => taken[t] < MaxDatasets
    BY <1>1, AlmaAssumption DEF Enough, LocalTypes
  <2>6. h \in Named(t)'
    BY <1>2 DEF Named
  <2> QED
    BY <1>1, <1>3, <2>3, <2>4, <2>5, <2>6 DEF Busy, Uploading, CountAt
<1>10. LeftAt(t)'
  BY <1>1 DEF Busy, Uploading, SoundAt, LeftAt
<1> QED
  BY <1>6, <1>7, <1>8, <1>9, <1>10 DEF SoundAt

\* When no dataset is left, all of them were passed; else something was taken.
LEMMA DatasetsEndSound ==
  ASSUME LocalTypes, NEW t \in Threads, SoundAt(t), DatasetsEnd(t)
  PROVE  SoundAt(t)'
<1>1. /\ pc[t] = "dataset" /\ pc'[t] = "submit" /\ (uids[t] = <<>> \/ Enough(t))
      /\ UNCHANGED <<conf, uids, plan, anyStaged, taken, budget, bytes, transfer, mishaps, onDisk, objects>>
  BY DEF DatasetsEnd, LocalTypes
<1>2. /\ \A d : Of(d)' = Of(d)
      /\ \A d : Unfit(d)' = Unfit(d)
      /\ Used(t)' = Used(t) /\ Done(t)' = Done(t)
  BY <1>1, PlansStand DEF Used, UsedFor, Of, StagingPlan, Done, Named
<1>3. AheadAt(t)'
  BY <1>1, <1>2 DEF SoundAt, AheadAt, Named
<1>4. WholeAt(t)' /\ SumAt(t)'
  BY <1>1 DEF SoundAt, WholeAt, SumAt
<1>5. CountAt(t)'
  BY <1>1, <1>2 DEF Busy, Uploading, SoundAt, CountAt
<1>6. LeftAt(t)'
  <2>1. CASE uids[t] = <<>>
    <3>1. Done(t) = Named(t)
      BY <2>1 DEF Done, ToSet
    <3> QED
      BY <1>1, <1>2, <3>1 DEF Busy, Uploading, SoundAt, LeftAt, Named
  <2>2. CASE Enough(t)
    <3>1. taken[t] > 0
      BY <2>2, AlmaAssumption DEF Enough, LocalTypes
    <3>2. transfer[t] # {}
      BY <3>1 DEF SoundAt, LeftAt
    <3> QED
      BY <1>1, <3>2 DEF LeftAt
  <2> QED
    BY <1>1, <2>1, <2>2
<1> QED
  BY <1>3, <1>4, <1>5, <1>6 DEF SoundAt

\* A dataset counts if a file of it was taken.
LEMMA DatasetDoneSound ==
  ASSUME LocalTypes, NEW t \in Threads, SoundAt(t), DatasetDone(t)
  PROVE  SoundAt(t)'
<1>1. /\ pc[t] = "file" /\ pc'[t] = "dataset" /\ plan[t] = <<>>
      /\ taken'[t] = taken[t] + IF anyStaged[t] THEN 1 ELSE 0
      /\ UNCHANGED <<conf, uids, plan, anyStaged, budget, bytes, transfer, mishaps, onDisk, objects>>
  BY DEF DatasetDone, LocalTypes
<1>2. /\ \A d : Of(d)' = Of(d)
      /\ Used(t)' = Used(t) /\ Done(t)' = Done(t)
  BY <1>1, PlansStand DEF Used, UsedFor, Of, StagingPlan, Done, Named
<1>3. AheadAt(t)'
  BY <1>1, <1>2 DEF SoundAt, AheadAt, Named
<1>4. WholeAt(t)' /\ SumAt(t)'
  BY <1>1 DEF Busy, SoundAt, WholeAt, SumAt
<1>5. taken[t] \in Nat
  BY DEF LocalTypes
<1>6. CountAt(t)'
  <2>1. PICK d \in Named(t) : InHand(t, d)
    BY <1>1 DEF Busy, SoundAt, CountAt
  <2>2. /\ Cardinality(Used(t)) \in Nat /\ Cardinality(Used(t) \ {d}) \in Nat
        /\ Cardinality(Used(t)) <= Cardinality(Used(t) \ {d}) + 1
    BY UsedFinite DEF Used
  <2>3. Cardinality(Used(t) \ {d}) <= taken[t]
    BY <2>1 DEF InHand
  <2>4. CASE anyStaged[t]
    <3>1. Cardinality(Used(t)) <= taken'[t]
      BY <1>1, <1>5, <2>2, <2>3, <2>4
    <3> QED
      BY <1>1, <1>2, <3>1 DEF Busy, Uploading, SoundAt, CountAt
  <2>5. CASE ~anyStaged[t]
    <3>1. Used(t) \ {d} = Used(t)
      BY <2>1, <2>5 DEF InHand
    <3>2. taken'[t] = taken[t]
      BY <1>1, <1>5, <2>5
    <3>3. Cardinality(Used(t)) <= taken'[t]
      BY <2>3, <3>1, <3>2
    <3> QED
      BY <1>1, <1>2, <3>3 DEF Busy, Uploading, SoundAt, CountAt
  <2> QED
    BY <2>4, <2>5
<1>7. LeftAt(t)'
  <2>1. taken'[t] > 0 => taken[t] > 0 \/ anyStaged[t]
    BY <1>1, <1>5
  <2> QED
    BY <1>1, <2>1 DEF Busy, Uploading, SoundAt, LeftAt
<1> QED
  BY <1>3, <1>4, <1>6, <1>7 DEF SoundAt

-----------------------------------------------------------------------------
\* The next file is on the way, and not yet taken.
LEMMA NextFile ==
  ASSUME LocalTypes, NEW t \in Threads, SoundAt(t), plan[t] # <<>>
  PROVE  /\ File(t) \in Files /\ File(t) \notin transfer[t] /\ File(t) \in ToSet(plan[t])
         /\ IsInjective(Tail(plan[t])) /\ ToSet(Tail(plan[t])) \subseteq ToSet(plan[t]) \ {File(t)}
         /\ File(t).size \in Nat /\ File(t).listed \in Nat /\ TotalListed(Tail(plan[t])) \in Nat
         /\ TotalListed(Tail(plan[t])) + File(t).listed <= budget[t]
<1>1. plan[t] \in Seq(Files) /\ budget[t] \in Int
  BY DEF LocalTypes
<1>2. IsInjective(plan[t]) /\ ToSet(plan[t]) \cap transfer[t] = {} /\ TotalListed(plan[t]) <= budget[t]
  BY DEF SoundAt, AheadAt, SumAt
<1>3. /\ File(t) \in Files /\ ToSet(plan[t]) = {File(t)} \cup ToSet(Tail(plan[t]))
      /\ IsInjective(Tail(plan[t])) /\ File(t) \notin ToSet(Tail(plan[t]))
  BY <1>1, <1>2, ListTail DEF File
<1>4. /\ TotalListed(plan[t]) \in Nat /\ TotalListed(Tail(plan[t])) \in Nat
      /\ TotalListed(Tail(plan[t])) + File(t).listed <= TotalListed(plan[t])
  BY <1>1, TotalTail DEF File
<1>5. File(t).size \in Nat /\ File(t).listed \in Nat
  BY <1>3, FileNumbers
<1>6. TotalListed(Tail(plan[t])) + File(t).listed <= budget[t]
  <2> DEFINE a == TotalListed(Tail(plan[t]))
            b == TotalListed(plan[t])
            c == File(t).listed
  <2>1. a \in Nat /\ b \in Nat /\ c \in Nat /\ a + c <= b /\ b <= budget[t]
    BY <1>2, <1>4, <1>5
  <2> HIDE DEF a, b, c
  <2>2. a + c <= budget[t]
    BY <1>1, <2>1
  <2> QED
    BY <2>2 DEF a, c
<1> QED
  BY <1>2, <1>3, <1>4, <1>5, <1>6

\* The locals are the same, and the request is not at a place that asks for more.
LEMMA OnlyMoves ==
  ASSUME LocalTypes, NEW t \in Threads, SoundAt(t), UNCHANGED <<local, conf>>,
         \/ pc[t] \in Busy /\ pc'[t] \in Busy /\ UNCHANGED <<onDisk, objects>>
         \/ pc[t] # "idle" /\ pc'[t] = "failed"
         \/ pc[t] = "submit" /\ pc'[t] = "job"
         \/ pc[t] = "job" /\ pc'[t] = "over"
  PROVE  SoundAt(t)'
<1>1. /\ \A d : Of(d)' = Of(d)
      /\ Used(t)' = Used(t) /\ Done(t)' = Done(t) /\ Named(t)' = Named(t)
  BY PlansStand DEF Used, UsedFor, Of, StagingPlan, Done, Named
<1>2. AheadAt(t)'
  BY <1>1 DEF Busy, Uploading, SoundAt, AheadAt
<1>3. WholeAt(t)'
  BY DEF Busy, Uploading, SoundAt, WholeAt
<1>4. SumAt(t)'
  BY DEF SoundAt, SumAt
<1>5. CountAt(t)'
  BY <1>1 DEF Busy, Uploading, SoundAt, CountAt, InHand
<1>6. LeftAt(t)'
  BY DEF Busy, Uploading, SoundAt, LeftAt
<1> QED
  BY <1>2, <1>3, <1>4, <1>5, <1>6 DEF SoundAt

\* A file that is given up disturbs no object that is taken along.
LEMMA SkipsSound ==
  ASSUME LocalTypes, NEW t \in Threads, SoundAt(t), Skips(t)
  PROVE  SoundAt(t)'
<1>1. /\ pc[t] \in Busy /\ pc'[t] = "file" /\ plan[t] # <<>> /\ plan'[t] = Tail(plan[t])
      /\ t \in mishaps'
      /\ UNCHANGED <<conf, uids, anyStaged, taken, budget, bytes, transfer, onDisk>>
      /\ objects'[t] \in {objects[t], Keep(t, FALSE)}
  BY DEF Skips, Skip, LocalTypes
<1>2. /\ \A d : Of(d)' = Of(d)
      /\ Used(t)' = Used(t) /\ Done(t)' = Done(t) /\ Named(t)' = Named(t)
  BY <1>1, PlansStand DEF Used, UsedFor, Of, StagingPlan, Done, Named
<1>3. /\ File(t) \notin transfer[t] /\ IsInjective(plan'[t])
      /\ ToSet(plan'[t]) \subseteq ToSet(plan[t])
  BY <1>1, NextFile
<1>4. AheadAt(t)'
  BY <1>1, <1>2, <1>3 DEF SoundAt, AheadAt
<1>5. WholeAt(t)'
  <2>1. \A f \in transfer[t] : [file |-> f, whole |-> TRUE] \in objects[t]
                               => [file |-> f, whole |-> TRUE] \in objects'[t]
    BY <1>1, <1>3 DEF Keep
  <2> QED
    BY <1>1, <2>1 DEF SoundAt, WholeAt
<1>6. SumAt(t)'
  <2>1. /\ File(t).listed \in Nat /\ TotalListed(plan'[t]) \in Nat
        /\ TotalListed(plan'[t]) + File(t).listed <= budget[t]
    BY <1>1, NextFile
  <2>2. TotalListed(plan'[t]) <= budget[t]
    BY <2>1 DEF LocalTypes
  <2> QED
    BY <1>1, <2>2 DEF SoundAt, SumAt
<1>7. CountAt(t)'
  <2>1. PICK d \in Named(t) : InHand(t, d)
    BY <1>1 DEF SoundAt, CountAt
  <2>2. InHand(t, d)'
    BY <1>1, <1>2, <1>3, <2>1 DEF InHand
  <2> QED
    BY <1>1, <1>2, <2>2 DEF Busy, Uploading, SoundAt, CountAt
<1>8. LeftAt(t)'
  BY <1>1 DEF SoundAt, LeftAt
<1> QED
  BY <1>4, <1>5, <1>6, <1>7, <1>8 DEF SoundAt

\* A file that is taken is whole, counted, and of the dataset in hand.
LEMMA TakesSound ==
  ASSUME AsListed, NoRepeats, LocalTypes, NEW t \in Threads, SoundAt(t), Takes(t)
  PROVE  SoundAt(t)'
<1>0. PICK f : f = File(t)
  OBVIOUS
<1>1. /\ pc[t] \in Busy /\ pc'[t] = "file" /\ plan[t] # <<>> /\ plan'[t] = Tail(plan[t])
      /\ transfer'[t] = transfer[t] \cup {f} /\ anyStaged'[t] = TRUE
      /\ bytes'[t] = bytes[t] + f.size /\ budget'[t] = budget[t] - f.size
      /\ UNCHANGED <<conf, uids, taken, mishaps>>
  BY <1>0 DEF Takes, Took, LocalTypes
<1>2. \/ ~Oversized(f) /\ UNCHANGED objects /\ onDisk'[t] = onDisk[t] \cup {f}
      \/ Oversized(f) /\ f.size = f.listed /\ UNCHANGED onDisk /\ objects'[t] = Keep(t, TRUE)
  BY <1>0 DEF Takes, LocalTypes
<1>3. /\ f \in Files /\ f \notin transfer[t] /\ f \in ToSet(plan[t])
      /\ IsInjective(plan'[t]) /\ ToSet(plan'[t]) \subseteq ToSet(plan[t]) \ {f}
      /\ f.size \in Nat /\ f.listed \in Nat /\ TotalListed(plan'[t]) \in Nat
      /\ TotalListed(plan'[t]) + f.listed <= budget[t]
  BY <1>0, <1>1, NextFile
<1>4. PICK d \in Named(t) : InHand(t, d)
  BY <1>1 DEF SoundAt, CountAt
<1>5. d \in Done(t) /\ f \in Of(d)
  BY <1>3, <1>4 DEF InHand
<1>6. /\ \A e : Of(e)' = Of(e)
      /\ Done(t)' = Done(t) /\ Named(t)' = Named(t)
      /\ Used(t)' = UsedFor(t, transfer'[t])
  BY <1>1, PlansStand DEF Used, UsedFor, Of, StagingPlan, Done, Named
<1>7. AheadAt(t)'
  BY <1>1, <1>3, <1>5, <1>6 DEF SoundAt, AheadAt
<1>8. WholeAt(t)'
  <2>1. \A g \in transfer[t] : IF Oversized(g) THEN [file |-> g, whole |-> TRUE] \in objects[t]
                               ELSE g \in onDisk[t]
    BY <1>1 DEF SoundAt, WholeAt
  <2>2. \A g \in transfer'[t] : IF Oversized(g) THEN [file |-> g, whole |-> TRUE] \in objects'[t]
                                ELSE g \in onDisk'[t]
    BY <1>0, <1>1, <1>2, <1>3, <2>1 DEF Keep
  <2> QED
    BY <2>2 DEF WholeAt
<1>9. SumAt(t)'
  <2>1. /\ bytes[t] = SumOfSizes(transfer[t]) /\ budget[t] + bytes[t] = MaxBytes
        /\ bytes[t] \in Nat /\ budget[t] \in Int
    BY DEF SoundAt, SumAt, LocalTypes
  <2>2. SumOfSizes(transfer'[t]) = SumOfSizes(transfer[t]) + f.size
    <3>1. transfer[t] \in SUBSET Files /\ IsFiniteSet(transfer[t]) /\ f \in Files \ transfer[t]
      BY <1>3 DEF LocalTypes
    <3>2. SumOfSizes(transfer[t] \cup {f}) = SumOfSizes(transfer[t]) + f.size
      BY <3>1, SumAdd
    <3> QED
      BY <1>1, <3>2
  <2>3. f.size <= f.listed
    <3>1. f \in Files /\ f.size \in Nat
      BY <1>3
    <3>2. CASE ~Oversized(f)
      BY <3>1, <3>2 DEF AsListed
    <3>3. CASE f.size = f.listed
      BY <3>1, <3>3
    <3> QED
      BY <1>2, <3>2, <3>3
  <2>4. bytes'[t] = SumOfSizes(transfer'[t])
    BY <1>1, <2>1, <2>2
  <2> DEFINE n == f.size
            l == f.listed
            T == TotalListed(plan'[t])
  <2>5. /\ n \in Nat /\ l \in Nat /\ T \in Nat /\ n <= l /\ T + l <= budget[t]
        /\ bytes'[t] = bytes[t] + n /\ budget'[t] = budget[t] - n
    BY <1>1, <1>3, <2>3
  <2> HIDE DEF n, l, T
  <2>6. budget'[t] + bytes'[t] = MaxBytes /\ T <= budget'[t]
    BY <2>1, <2>5
  <2> QED
    BY <2>4, <2>6 DEF SumAt, T
<1>10. CountAt(t)'
  <2>1. Used(t)' \ {d} = Used(t) \ {d}
    <3>1. ASSUME NEW e \in Named(t), e # d
          PROVE  f \notin Of(e)
      <4>1. d \in DOMAIN RowsOf /\ e \in DOMAIN RowsOf
        BY NamedListed
      <4>2. Of(d) \cap Of(e) = {}
        BY <3>1, <4>1, PlansApart
      <4> QED
        BY <1>5, <4>2
    <3> QED
      BY <1>1, <1>6, <3>1 DEF Used, UsedFor
  <2>2. /\ Cardinality(Used(t)') \in Nat /\ Cardinality(Used(t)' \ {d}) \in Nat
        /\ Cardinality(Used(t)') <= Cardinality(Used(t)' \ {d}) + 1
    BY <1>6, UsedFinite
  <2>3. Cardinality(Used(t)' \ {d}) <= taken[t] /\ taken[t] \in Nat
    BY <1>4, <2>1 DEF InHand, LocalTypes
  <2>4. MaxDatasets > 0 => taken[t] < MaxDatasets
    BY <1>1 DEF SoundAt, CountAt
  <2>5. MaxDatasets > 0 => Cardinality(Used(t)') <= MaxDatasets
    BY <2>2, <2>3, <2>4, AlmaAssumption
  <2>6. InHand(t, d)'
    <3>1. d \in Done(t)' /\ ToSet(plan'[t]) \subseteq Of(d)'
      BY <1>3, <1>4, <1>5, <1>6 DEF InHand
    <3> QED
      BY <1>1, <2>3, <3>1 DEF InHand
  <2> QED
    BY <1>1, <1>6, <2>4, <2>5, <2>6 DEF Busy, Uploading, CountAt
<1>11. LeftAt(t)'
  BY <1>1 DEF LeftAt
<1> QED
  BY <1>7, <1>8, <1>9, <1>10, <1>11 DEF SoundAt

\* A step of the staging.
LEMMA SoundStaging ==
  ASSUME AsListed, NoRepeats, StagingInv, LocalTypes, NEW t \in Threads, SoundAt(t), Staging(t)
  PROVE  SoundAt(t)'
<1>1. OnDataset(t) \/ SpoolRaises(t) \/ Stays(t) \/ Skips(t) \/ Takes(t)
  BY Effects
<1>2. CASE OnDataset(t)
  BY <1>2, StartSound, DatasetSkippedSound, DatasetChosenSound, DatasetsEndSound,
     DatasetDoneSound DEF OnDataset
<1>3. CASE SpoolRaises(t)
  <2>1. pc[t] # "idle" /\ pc'[t] = "failed" /\ UNCHANGED <<local, conf>>
    BY <1>3 DEF SpoolRaises, LocalTypes
  <2> QED
    BY <2>1, OnlyMoves
<1>4. CASE Stays(t)
  <2>1. pc[t] \in Busy /\ pc'[t] \in Busy /\ UNCHANGED <<local, onDisk, objects, conf>>
    BY <1>4 DEF Stays, LocalTypes
  <2> QED
    BY <2>1, OnlyMoves
<1> QED
  BY <1>1, <1>2, <1>3, <1>4, SkipsSound, TakesSound

\* The submit and what follows take nothing away.
LEMMA SoundAfter ==
  ASSUME LocalTypes, NEW t \in Threads, SoundAt(t), Submit(t) \/ SubmitRaises(t) \/ Cleanup(t)
  PROVE  SoundAt(t)'
<1>1. /\ UNCHANGED <<local, conf>>
      /\ \/ pc[t] # "idle" /\ pc'[t] = "failed"
         \/ pc[t] = "submit" /\ pc'[t] = "job"
         \/ pc[t] = "job" /\ pc'[t] = "over"
  BY DEF Submit, SubmitRaises, Cleanup, LocalTypes
<1> QED
  BY <1>1, OnlyMoves

\* A step of one thread is not one of another.
LEMMA OthersSame ==
  ASSUME StagingInv, LocalTypes, NEW t \in Threads, NEW u \in Threads, u # t,
         Staging(t) \/ Submit(t) \/ SubmitRaises(t) \/ Cleanup(t)
  PROVE  SameAt(u)
<1>1. CASE OnDataset(t)
  BY <1>1 DEF OnDataset, Start, DatasetSkipped, DatasetChosen, DatasetsEnd, DatasetDone, LocalTypes, SameAt
<1>2. CASE SpoolRaises(t)
  BY <1>2 DEF SpoolRaises, LocalTypes, SameAt
<1>3. CASE Stays(t)
  BY <1>3 DEF Stays, LocalTypes, SameAt
<1>4. CASE Skips(t)
  BY <1>4 DEF Skips, Skip, LocalTypes, SameAt
<1>5. CASE Takes(t)
  BY <1>5 DEF Takes, Took, LocalTypes, SameAt
<1>6. CASE Submit(t) \/ SubmitRaises(t) \/ Cleanup(t)
  BY <1>6 DEF Submit, SubmitRaises, Cleanup, LocalTypes, SameAt
<1> QED
  BY <1>1, <1>2, <1>3, <1>4, <1>5, <1>6, Effects

\* Every step of every thread keeps it.
LEMMA SoundNext ==
  ASSUME AsListed, NoRepeats, StagingInv, LocalTypes, SoundInv, [Next]_vars
  PROVE  SoundInv'
<1> SUFFICES ASSUME NEW u \in Threads
             PROVE  SoundAt(u)'
  BY DEF SoundInv
<1>1. SoundAt(u)
  BY DEF SoundInv
<1>2. ASSUME NEW t \in Threads, Staging(t) \/ Submit(t) \/ SubmitRaises(t) \/ Cleanup(t)
      PROVE  SoundAt(u)'
  <2>1. CASE u = t
    BY <1>1, <1>2, <2>1, SoundStaging, SoundAfter
  <2>2. CASE u # t
    BY <1>1, <1>2, <2>2, OthersSame, Unmoved
  <2> QED
    BY <2>1, <2>2
<1>3. CASE Tick \/ Move \/ UNCHANGED vars
  <2>1. SameAt(u)
    BY <1>3 DEF Tick, Move, SameAt
  <2> QED
    BY <1>1, <2>1, Unmoved
<1> QED
  BY <1>2, <1>3 DEF Next

\* An idle request has nothing, and the whole budget.
LEMMA SoundInit ==
  ASSUME Init
  PROVE  SoundInv
<1> SUFFICES ASSUME NEW t \in Threads
             PROVE  SoundAt(t)
  BY DEF SoundInv
<1>1. /\ pc[t] = "idle" /\ uids[t] = <<>> /\ plan[t] = <<>> /\ anyStaged[t] = FALSE
      /\ taken[t] = 0 /\ budget[t] = MaxBytes /\ bytes[t] = 0 /\ transfer[t] = {}
  BY DEF Init
<1>2. ToSet(<<>>) = {} /\ IsInjective(<<>>)
  BY DEF ToSet, IsInjective
<1>3. MaxBytes \in Nat /\ MaxDatasets \in Nat
  BY AlmaAssumption
<1>4. TotalListed(<<>>) = 0
  <2> DEFINE z == [i \in DOMAIN <<>> |-> <<>>[i].listed]
  <2>1. Units(z) = {}
    BY UnitsOf
  <2> QED
    BY <2>1, FS_EmptySet DEF TotalListed, Volume, Units
<1>5. Used(t) = {} /\ Cardinality(Used(t)) = 0
  BY <1>1, FS_EmptySet DEF Used, UsedFor
<1>6. AheadAt(t)
  BY <1>1, <1>2 DEF AheadAt
<1>7. WholeAt(t) /\ LeftAt(t)
  BY <1>1 DEF WholeAt, LeftAt, Busy, Uploading
<1>8. SumAt(t)
  BY <1>1, <1>3, <1>4, SumNone DEF SumAt
<1>9. CountAt(t)
  BY <1>1, <1>3, <1>5 DEF CountAt, Busy, Uploading
<1> QED
  BY <1>6, <1>7, <1>8, <1>9 DEF SoundAt

\* What a thread takes along is whole, counted right, within the limits, not less than
\* it could be, and in the record afterwards (alma_staging.stage, submit_job).
THEOREM StagingSound == Sensible /\ AsListed /\ NoRepeats /\ Spec => []StagingIsSound
<1> DEFINE IInv == StagingInv /\ LocalTypes /\ TokenTypes /\ SoundInv
           Given == Sensible /\ AsListed /\ NoRepeats
<1>1. Given /\ Init => IInv
  BY StagingInit, LocalTypesInit, TokenTypesInit, SoundInit
<1>2. Given /\ IInv /\ [Next]_vars => IInv'
  <2> SUFFICES ASSUME Given, IInv, [Next]_vars
               PROVE  IInv'
    OBVIOUS
  <2>1. StagingInv' /\ LocalTypes' /\ TokenTypes'
    BY NextInv, LocalTypesNext, TokenTypesNext
  <2> QED
    BY <2>1, SoundNext
<1>3. IInv => StagingIsSound
  <2> SUFFICES ASSUME IInv
               PROVE  StagingIsSound
    OBVIOUS
  <2>1. TypeOK
    BY DEF LocalTypes, TokenTypes, StagingInv, ShapeInv, Places, Busy, Uploading, TypeOK
  <2>2. ShippedIsWhole
    BY DEF SoundInv, SoundAt, WholeAt, Busy, ShippedIsWhole
  <2>3. SizedRight
    BY DEF SoundInv, SoundAt, SumAt, SizedRight
  <2>4. StagedIsRecorded
    BY DEF StagingInv, ObjectInv, Noted, StagedIsRecorded
  <2>5. Bounded
    <3> SUFFICES ASSUME NEW t \in Threads
                 PROVE  /\ bytes[t] <= MaxBytes
                        /\ MaxDatasets > 0 => Cardinality(Used(t)) <= MaxDatasets
      BY DEF Bounded, Used, UsedFor, Named, Of
    <3>1. /\ budget[t] + bytes[t] = MaxBytes /\ TotalListed(plan[t]) <= budget[t]
          /\ MaxDatasets > 0 => Cardinality(Used(t)) <= MaxDatasets
      BY DEF SoundInv, SoundAt, SumAt, CountAt
    <3>2. TotalListed(plan[t]) \in Nat /\ budget[t] \in Int /\ bytes[t] \in Nat
      BY TotalTail DEF LocalTypes
    <3> QED
      BY <3>1, <3>2, AlmaAssumption
  <2>6. NotStranded
    BY DEF SoundInv, SoundAt, LeftAt, Unfit, Named, NotStranded
  <2>7. ProbesBounded
    <3> SUFFICES ASSUME NEW t \in Threads
                 PROVE  probes[t] <= Retries
      BY DEF ProbesBounded
    <3>1. probes[t] \in Nat /\ attempt[t] \in Nat /\ Retries \in Nat
      BY AlmaAssumption DEF StagingInv, ShapeInv
    <3>2. attempt[t] < Retries /\ probes[t] <= attempt[t] + 1
      BY DEF StagingInv, ProbeInv
    <3> QED
      BY <3>1, <3>2
  <2> QED
    BY <2>1, <2>2, <2>3, <2>4, <2>5, <2>6, <2>7 DEF StagingIsSound
<1> HIDE DEF IInv
<1>4. CASE Given
  BY <1>1, <1>2, <1>3, <1>4, PTL DEF Spec
<1>5. CASE ~Given
  BY <1>5
<1> QED
  BY <1>4, <1>5
=============================================================================
