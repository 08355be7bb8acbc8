--------------------------- MODULE AdmissionProofs ---------------------------
(***************************************************************************)
(* Proofs about Admission, for every set of requests, every route, every   *)
(* cap and every size of the pools: type correctness; when every request   *)
(* is batchable, that the caps are never exceeded while the plugin serves; *)
(* that a request the plugin took on is in one place and no other, that    *)
(* _SUBMITTING accounts for exactly what has no outcome yet, that a        *)
(* shutdown that ends in time drops nothing, that the waiting list is      *)
(* served oldest first, and that the front end implements the ledger that  *)
(* promises all this to a client.                                          *)
(***************************************************************************)
EXTENDS Admission, FiniteSetTheorems, SequenceTheorems, TLAPS

USE DEF vars, pool, flush, loop, down, news

-----------------------------------------------------------------------------
(***************************************************************************)
(* Type correctness                                                        *)
(***************************************************************************)

\* The locals of a cap check: the two actions that dispatch keep the types.
LEMMA DispatchType ==
  ASSUME TypeOK, NEW r \in Requests, Dispatch(r)
  PROVE  /\ submitting' \subseteq Requests /\ queue' \in Seq(Requests)
         /\ stage' \in [Requests -> {"none", "pooled", "running", "submitted", "failed", "done"}]
         /\ jobs' = jobs /\ open' = open
<1>1. CASE Batchable(r)
  <2>1. queue' = Append(queue, r) /\ stage' = stage
    BY <1>1 DEF Dispatch
  <2> QED
    BY <2>1 DEF Dispatch, TypeOK
<1>2. CASE ~Batchable(r)
  <2>1. stage' = [stage EXCEPT ![r] = "pooled"] /\ queue' = queue
    BY <1>2 DEF Dispatch
  <2> QED
    BY <2>1 DEF Dispatch, TypeOK
<1> QED
  BY <1>1, <1>2

\* Putting a blocked drain's analyses back at the head of the list keeps it a list of requests.
LEMMA PutBackType ==
  ASSUME TypeOK, NEW b \in Seq(Requests), PutBack(b)
  PROVE  waiting' \in Seq(Requests)
BY DEF PutBack, TypeOK

\* The members of a list of requests are requests.
LEMMA RangeType ==
  ASSUME NEW s \in Seq(Requests)
  PROVE  Range(s) \subseteq Requests
BY DEF Range

\* The states the plugin starts in are well typed.
LEMMA TypeInit == Init => TypeOK
<1> SUFFICES ASSUME Init PROVE TypeOK
  OBVIOUS
<1>1. <<>> \in Seq(Requests)
  OBVIOUS
<1>2. /\ stage \in [Requests -> {"none", "pooled", "running", "submitted", "failed", "done"}]
      /\ answer \in [Requests -> {"new", "refused", "posted", "pending", "error"}]
  BY DEF Init
<1> QED
  BY <1>1, <1>2 DEF Init, TypeOK

\* Every outcome of a POST keeps the variables well typed.
LEMMA TypePost == TypeOK /\ Post => TypeOK'
<1> SUFFICES ASSUME TypeOK, Post PROVE TypeOK'
  OBVIOUS
<1>1. CASE PostRefused
  BY <1>1 DEF TypeOK, PostRefused, PostEnds
<1>2. CASE PostWaits
  BY <1>2 DEF TypeOK, PostWaits, PostEnds, Accept
<1>3. CASE PostDispatched
  <2>1. item \in Requests
    BY <1>3 DEF TypeOK, PostDispatched
  <2> QED
    BY <1>3, <2>1, DispatchType DEF TypeOK, PostDispatched, PostEnds, Accept
<1>4. CASE PostDirect
  BY <1>4 DEF TypeOK, PostDirect, PostEnds, Accept
<1> QED
  BY <1>1, <1>2, <1>3, <1>4 DEF Post

\* Every step of the waiting-queue drain keeps the variables well typed.
LEMMA TypeDrain == TypeOK /\ Drain => TypeOK'
<1> SUFFICES ASSUME TypeOK, Drain PROVE TypeOK'
  OBVIOUS
<1>1. CASE DrainStart
  BY <1>1 DEF TypeOK, DrainStart
<1>2. CASE DrainPop
  BY <1>2, HeadTailProperties DEF TypeOK, DrainPop
<1>3. CASE DrainDispatch
  <2>1. item \in Requests
    BY <1>3 DEF TypeOK, DrainDispatch
  <2> QED
    BY <1>3, <2>1, DispatchType DEF TypeOK, DrainDispatch
<1>4. CASE DrainBlocked
  BY <1>4 DEF TypeOK, DrainBlocked
<1>5. CASE DrainStop
  <2>1. Append(blocked, item) \in Seq(Requests)
    BY <1>5 DEF TypeOK, DrainStop
  <2>2. waiting' \in Seq(Requests)
    BY <1>5, <2>1, PutBackType DEF DrainStop
  <2> QED
    BY <1>5, <2>2 DEF TypeOK, DrainStop
<1>6. CASE DrainEnd
  <2>1. waiting' \in Seq(Requests)
    BY <1>6, PutBackType DEF TypeOK, DrainEnd
  <2> QED
    BY <1>6, <2>1 DEF TypeOK, DrainEnd
<1> QED
  BY <1>1, <1>2, <1>3, <1>4, <1>5, <1>6 DEF Drain

\* A step about one request (its validation, task, job) keeps the variables well typed.
LEMMA TypeRequest ==
  ASSUME TypeOK, NEW r \in Requests,
         \/ PostInvalid(r) \/ PostRead(r) \/ DirectReply(r)
         \/ TaskStart(r) \/ TaskSubmit(r) \/ TaskFail(r) \/ TaskForget(r)
         \/ JobCloses(r)
  PROVE  TypeOK'
<1>1. CASE PostInvalid(r) \/ PostRead(r)
  BY <1>1 DEF TypeOK, PostInvalid, PostRead
<1>2. CASE DirectReply(r)
  BY <1>2 DEF TypeOK, DirectReply
<1>3. CASE TaskStart(r) \/ TaskSubmit(r)
  BY <1>3 DEF TypeOK, TaskStart, TaskSubmit, Record
<1>4. CASE TaskFail(r)
  BY <1>4 DEF TypeOK, TaskFail, ReportFailure
<1>5. CASE TaskForget(r)
  BY <1>5 DEF TypeOK, TaskForget, Forget
<1>6. CASE JobCloses(r)
  BY <1>6 DEF TypeOK, JobCloses
<1> QED
  BY <1>1, <1>2, <1>3, <1>4, <1>5, <1>6

\* The flusher's final take of the queue, once its loop has ended, is well typed.
LEMMA TypeLastDrain ==
  ASSUME TypeOK, LastDrain
  PROVE  /\ batch' \subseteq Requests /\ queue' \in Seq(Requests)
         /\ final' \in BOOLEAN /\ fpc' \in {"flush", "dead", "exited"}
<1>1. CASE ~final /\ queue # <<>>
  <2>1. /\ batch' = Range(queue) /\ queue' = <<>> /\ final' = TRUE
        /\ fpc' \in {"flush", "dead"}
    BY <1>1 DEF LastDrain, FlushOrDie
  <2>2. Range(queue) \subseteq Requests
    BY RangeType DEF TypeOK
  <2> QED
    BY <2>1, <2>2
<1>2. CASE ~(~final /\ queue # <<>>)
  BY <1>2 DEF TypeOK, LastDrain
<1> QED
  BY <1>1, <1>2

\* Every step of the batch flusher keeps the variables well typed.
LEMMA TypeFlusher == TypeOK /\ Flusher => TypeOK'
<1> SUFFICES ASSUME TypeOK, Flusher PROVE TypeOK'
  OBVIOUS
<1>1. CASE FlushTake
  BY <1>1, HeadTailProperties DEF TypeOK, FlushTake
<1>2. CASE FlushGather
  BY <1>2, HeadTailProperties DEF TypeOK, FlushGather
<1>3. CASE FlushClose
  <2>1. fpc' \in {"flush", "dead"}
    BY <1>3 DEF FlushClose, FlushOrDie
  <2>2. Range(queue) \subseteq Requests
    BY RangeType DEF TypeOK
  <2>3. batch' \subseteq Requests /\ queue' \in Seq(Requests)
    <3>1. CASE Draining
      BY <1>3, <2>2, <3>1, EmptySeq DEF TypeOK, FlushClose, TakeAll
    <3>2. CASE ~Draining
      BY <1>3, <3>2 DEF TypeOK, FlushClose
    <3> QED
      BY <3>1, <3>2
  <2> QED
    BY <1>3, <2>1, <2>3 DEF TypeOK, FlushClose
<1>4. CASE GroupStart
  BY <1>4 DEF TypeOK, GroupStart
<1>5. CASE GroupForget
  <2>1. CASE batch \ group = {} /\ Draining
    BY <1>5, <2>1, TypeLastDrain DEF TypeOK, GroupForget, Forget
  <2>2. CASE ~(batch \ group = {} /\ Draining)
    BY <1>5, <2>2 DEF TypeOK, GroupForget, Forget
  <2> QED
    BY <2>1, <2>2
<1>6. CASE FlushStop
  BY <1>6, TypeLastDrain DEF TypeOK, FlushStop
<1> QED
  BY <1>1, <1>2, <1>3, <1>4, <1>5, <1>6 DEF Flusher

\* The submission of a batch, answered or failed, keeps the variables well typed.
LEMMA TypeGroupRpc == TypeOK /\ GroupRpc => TypeOK'
<1> SUFFICES ASSUME TypeOK, GroupRpc PROVE TypeOK'
  OBVIOUS
<1>1. CASE GroupSubmit
  BY <1>1 DEF TypeOK, GroupSubmit, Record
<1>2. CASE GroupFail
  BY <1>2 DEF TypeOK, GroupFail, ReportFailure
<1> QED
  BY <1>1, <1>2 DEF GroupRpc

\* A signal, the shutdown and its drain timeout keep the variables well typed.
LEMMA TypeShutdown == TypeOK /\ (Sigterm \/ Shutdown \/ DrainTimeout) => TypeOK'
<1> SUFFICES ASSUME TypeOK, Sigterm \/ Shutdown \/ DrainTimeout PROVE TypeOK'
  OBVIOUS
<1>1. CASE Sigterm \/ DrainTimeout \/ StopLoop \/ ReleaseEnd
  BY <1>1 DEF TypeOK, Sigterm, DrainTimeout, StopLoop, ReleaseEnd
<1>2. CASE ReleaseOne
  <2>1. Head(waiting) \in Requests /\ waiting' \in Seq(Requests)
    BY <1>2, HeadTailProperties DEF TypeOK, ReleaseOne
  <2>2. queue' \in Seq(Requests) /\ unbatched' \subseteq Requests
    <3>1. CASE Batchable(Head(waiting))
      <4>1. queue' = Append(queue, Head(waiting)) /\ unbatched' = unbatched
        BY <1>2, <3>1 DEF ReleaseOne, HandOver
      <4> QED
        BY <4>1, <2>1, AppendProperties DEF TypeOK
    <3>2. CASE ~Batchable(Head(waiting))
      BY <1>2, <2>1, <3>2 DEF TypeOK, ReleaseOne, HandOver
    <3> QED
      BY <3>1, <3>2
  <2> QED
    BY <1>2, <2>1, <2>2 DEF TypeOK, ReleaseOne
<1>3. CASE ReportUnbatched
  BY <1>3 DEF TypeOK, ReportUnbatched, ReportFailure
<1> QED
  BY <1>1, <1>2, <1>3 DEF Shutdown

\* Every step of the plugin, and a stutter, keeps the variables well typed.
LEMMA TypeStep == TypeOK /\ [Next]_vars => TypeOK'
<1> SUFFICES ASSUME TypeOK, [Next]_vars PROVE TypeOK'
  OBVIOUS
<1>1. CASE UNCHANGED vars
  BY <1>1 DEF TypeOK
<1>2. CASE Rehydrate
  BY <1>2, RequestsAssumption DEF TypeOK, Rehydrate, Record
<1>3. CASE Next
  BY <1>2, <1>3, TypePost, TypeDrain, TypeRequest, TypeFlusher, TypeGroupRpc, TypeShutdown
     DEF Next
<1> QED
  BY <1>1, <1>3

\* Every variable of the front end keeps its type: what the code's lists, sets
\* and flags can hold, whatever the interleaving.
THEOREM TypeCorrect == Spec => []TypeOK
<1>1. Init => TypeOK
  BY TypeInit
<1>2. TypeOK /\ [Next]_vars => TypeOK'
  BY TypeStep
<1> QED
  BY <1>1, <1>2, PTL DEF Spec

-----------------------------------------------------------------------------
(***************************************************************************)
(* No request is twice on the lists.  What the list operations do first.   *)
(***************************************************************************)
LEMMA Appended ==
  ASSUME NEW s \in Seq(Requests), NEW r \in Requests
  PROVE  /\ Append(s, r) \in Seq(Requests)
         /\ Range(Append(s, r)) = Range(s) \cup {r}
         /\ IsInjective(s) /\ r \notin Range(s) => IsInjective(Append(s, r))
<1> DEFINE t == Append(s, r)
<1>1. /\ t \in Seq(Requests) /\ Len(t) = Len(s) + 1 /\ Len(s) \in Nat
      /\ \A i \in 1 .. Len(s) : t[i] = s[i]
      /\ t[Len(s) + 1] = r
  BY AppendProperties, LenProperties
<1>2. /\ DOMAIN s = 1 .. Len(s) /\ DOMAIN t = 1 .. (Len(s) + 1)
  BY <1>1, LenProperties
<1> HIDE DEF t
<1>3. Range(t) = Range(s) \cup {r}
  BY <1>1, <1>2 DEF Range
<1>4. IsInjective(s) /\ r \notin Range(s) => IsInjective(t)
  BY <1>1, <1>2 DEF IsInjective, Range
<1> QED
  BY <1>1, <1>3, <1>4 DEF t

\* Taking the head off a list: what is left, and that it keeps no second copy.
LEMMA Popped ==
  ASSUME NEW s \in Seq(Requests), s # <<>>
  PROVE  /\ Head(s) \in Requests /\ Tail(s) \in Seq(Requests)
         /\ Range(s) = Range(Tail(s)) \cup {Head(s)}
         /\ IsInjective(s) => IsInjective(Tail(s)) /\ Head(s) \notin Range(Tail(s))
<1> DEFINE t == Tail(s)
           h == Head(s)
<1>1. /\ h \in Requests /\ t \in Seq(Requests) /\ Len(t) = Len(s) - 1
      /\ \A i \in 1 .. Len(t) : t[i] = s[i + 1]
  BY HeadTailProperties
<1>2. Len(s) \in Nat /\ Len(s) > 0 /\ h = s[1]
  OBVIOUS
<1>3. DOMAIN s = 1 .. Len(s) /\ DOMAIN t = 1 .. (Len(s) - 1)
  BY <1>1, LenProperties
<1> HIDE DEF t, h
<1>4. ASSUME NEW i \in 1 .. Len(s), i # 1
      PROVE  \E j \in 1 .. (Len(s) - 1) : s[i] = t[j]
  <2>1. i - 1 \in 1 .. (Len(s) - 1) /\ (i - 1) + 1 = i
    BY <1>2, <1>4
  <2>2. t[i - 1] = s[(i - 1) + 1]
    BY <1>1, <2>1
  <2> QED
    BY <2>1, <2>2
<1>5. Range(s) = Range(t) \cup {h}
  <2>1. ASSUME NEW x \in Range(s) PROVE x \in Range(t) \cup {h}
    <3>1. PICK i \in 1 .. Len(s) : x = s[i]
      BY <1>3 DEF Range
    <3>2. CASE i = 1
      BY <1>2, <3>1, <3>2
    <3>3. CASE i # 1
      BY <1>3, <1>4, <3>1, <3>3 DEF Range
    <3> QED
      BY <3>2, <3>3
  <2>2. Range(t) \cup {h} \subseteq Range(s)
    BY <1>1, <1>2, <1>3 DEF Range
  <2> QED
    BY <2>1, <2>2
<1>6. ASSUME IsInjective(s) PROVE IsInjective(t) /\ h \notin Range(t)
  <2>1. ASSUME NEW i \in 1 .. (Len(s) - 1)
        PROVE  i + 1 \in DOMAIN s /\ 1 \in DOMAIN s /\ t[i] = s[i + 1]
    BY <1>1, <1>2, <1>3
  <2>2. ASSUME NEW i \in DOMAIN t, NEW j \in DOMAIN t, t[i] = t[j] PROVE i = j
    <3>1. i \in 1 .. (Len(s) - 1) /\ j \in 1 .. (Len(s) - 1)
      BY <1>3
    <3>2. i + 1 = j + 1
      BY <1>6, <2>1, <2>2, <3>1 DEF IsInjective
    <3> QED
      BY <1>2, <3>1, <3>2
  <2>3. ASSUME NEW i \in DOMAIN t, t[i] = h PROVE FALSE
    <3>1. i \in 1 .. (Len(s) - 1)
      BY <1>3
    <3>2. i + 1 = 1
      BY <1>2, <1>6, <2>1, <2>3, <3>1 DEF IsInjective
    <3> QED
      BY <1>2, <3>1, <3>2
  <2> QED
    BY <2>2, <2>3 DEF IsInjective, Range
<1> QED
  BY <1>1, <1>5, <1>6 DEF t, h

\* Joining two lists with no member in common: its members, and that none is doubled.
LEMMA Joined ==
  ASSUME NEW s \in Seq(Requests), NEW t \in Seq(Requests)
  PROVE  /\ s \o t \in Seq(Requests)
         /\ Range(s \o t) = Range(s) \cup Range(t)
         /\ IsInjective(s) /\ IsInjective(t) /\ Range(s) \cap Range(t) = {}
              => IsInjective(s \o t)
<1> DEFINE u == s \o t
<1>1. /\ u \in Seq(Requests) /\ Len(u) = Len(s) + Len(t)
      /\ \A i \in 1 .. Len(s) + Len(t) :
             u[i] = IF i <= Len(s) THEN s[i] ELSE t[i - Len(s)]
  BY ConcatProperties
<1>2. /\ Len(s) \in Nat /\ Len(t) \in Nat
      /\ DOMAIN s = 1 .. Len(s) /\ DOMAIN t = 1 .. Len(t)
      /\ DOMAIN u = 1 .. (Len(s) + Len(t))
  BY <1>1, LenProperties
<1>3. Range(u) = Range(s) \cup Range(t)
  BY RangeConcatenation
<1>4. ASSUME IsInjective(s), IsInjective(t), Range(s) \cap Range(t) = {}
      PROVE  IsInjective(u)
  <2> SUFFICES ASSUME NEW i \in DOMAIN u, NEW j \in DOMAIN u, u[i] = u[j]
               PROVE  i = j
    BY DEF IsInjective
  <2> HIDE DEF u
  <2>0. i \in 1 .. (Len(s) + Len(t)) /\ j \in 1 .. (Len(s) + Len(t))
    BY <1>2
  <2>a. ASSUME NEW k \in 1 .. (Len(s) + Len(t)), k <= Len(s)
        PROVE  k \in DOMAIN s /\ u[k] = s[k] /\ u[k] \in Range(s)
    <3>1. k \in DOMAIN s /\ u[k] = s[k]
      BY <1>1, <1>2, <2>a
    <3> QED
      BY <3>1 DEF Range
  <2>b. ASSUME NEW k \in 1 .. (Len(s) + Len(t)), ~(k <= Len(s))
        PROVE  k - Len(s) \in DOMAIN t /\ u[k] = t[k - Len(s)] /\ u[k] \in Range(t)
    <3>1. k - Len(s) \in DOMAIN t /\ u[k] = t[k - Len(s)]
      BY <1>1, <1>2, <2>b
    <3> QED
      BY <3>1 DEF Range
  <2>1. CASE i <= Len(s) /\ j <= Len(s)
    BY <1>4, <2>0, <2>a, <2>1 DEF IsInjective
  <2>2. CASE ~(i <= Len(s)) /\ ~(j <= Len(s))
    <3>1. i - Len(s) = j - Len(s)
      BY <1>4, <2>0, <2>b, <2>2 DEF IsInjective
    <3> QED
      BY <1>2, <2>0, <3>1
  <2>3. CASE i <= Len(s) /\ ~(j <= Len(s))
    BY <1>4, <2>0, <2>a, <2>b, <2>3
  <2>4. CASE ~(i <= Len(s)) /\ j <= Len(s)
    BY <1>4, <2>0, <2>a, <2>b, <2>4
  <2> QED
    BY <2>1, <2>2, <2>3, <2>4
<1> QED
  BY <1>1, <1>3, <1>4

\* Dispatching a request that is on no list puts it on at most one.
LEMMA DispatchOnce ==
  ASSUME TypeOK, NEW r \in Requests, Dispatch(r),
         IsInjective(queue), r \notin Range(queue)
  PROVE  IsInjective(queue') /\ Range(queue') \subseteq Range(queue) \cup {r}
<1>1. queue' = queue \/ queue' = Append(queue, r)
  BY DEF Dispatch
<1>2. queue \in Seq(Requests)
  BY DEF TypeOK
<1>3. CASE queue' = Append(queue, r)
  BY <1>2, <1>3, Appended
<1>4. CASE queue' = queue
  BY <1>4
<1> QED
  BY <1>1, <1>3, <1>4

\* A freshly started plugin lists nothing, so nothing twice.
LEMMA OnceInit == Init => EachOnce
<1>1. Range(<<>>) = {} /\ IsInjective(<<>>)
  BY DEF Range, IsInjective
<1> QED
  BY <1>1 DEF Init, EachOnce, Disjoint, Checked

\* A POST enlists a request that no list holds yet.
LEMMA OncePost == TypeOK /\ EachOnce /\ Post => EachOnce'
<1> SUFFICES ASSUME TypeOK, EachOnce, Post PROVE EachOnce'
  OBVIOUS
<1>0. /\ pc = "post" /\ pc' = "idle" /\ blocked' = blocked /\ batch' = batch
      /\ item \in Requests /\ answer[item] = "new" /\ blocked = <<>>
  BY DEF EachOnce, TypeOK, Post, PostRefused, PostWaits, PostDispatched, PostDirect,
         PostEnds
<1>1. /\ \A r \in Requests \ {item} : answer'[r] = answer[r]
      /\ answer'[item] # "new"
  BY <1>0 DEF TypeOK, Post, PostRefused, PostWaits, PostDispatched, PostDirect, Accept
<1>2. CASE PostRefused \/ PostDirect
  <2>1. waiting' = waiting /\ queue' = queue
    BY <1>2 DEF PostRefused, PostDirect
  <2> QED
    BY <1>0, <1>1, <2>1, RangeType DEF EachOnce, Checked, Disjoint, TypeOK
<1>3. CASE PostWaits
  <2>1. waiting' = Append(waiting, item) /\ queue' = queue
    BY <1>3 DEF PostWaits
  <2>2. item \notin Range(waiting)
    BY <1>0 DEF EachOnce
  <2>3. IsInjective(waiting') /\ Range(waiting') = Range(waiting) \cup {item}
    BY <1>0, <2>1, <2>2, Appended DEF EachOnce, TypeOK
  <2>4. /\ item \notin Range(queue) \cup batch
        /\ Range(blocked) \cup Range(queue) \cup batch \cup Range(waiting) \subseteq Requests
    BY <1>0, RangeType DEF EachOnce, TypeOK
  <2>5. Range(blocked) = {}
    BY <1>0 DEF Range
  <2>6. IsInjective(blocked') /\ IsInjective(queue')
    BY <1>0, <2>1 DEF EachOnce
  <2>7. /\ Disjoint(Range(waiting'), Range(queue') \cup batch')
        /\ Disjoint(Range(queue'), batch')
    BY <1>0, <2>1, <2>3, <2>4 DEF EachOnce, Disjoint
  <2>8. \A r \in Range(waiting') \cup Range(queue') \cup batch' : answer'[r] # "new"
    BY <1>0, <1>1, <2>1, <2>3, <2>4 DEF EachOnce
  <2>9. Checked' = {} /\ Range(blocked') = {} /\ pc' = "idle" /\ blocked' = <<>>
    BY <1>0, <2>5 DEF Checked
  <2> QED
    BY <2>3, <2>6, <2>7, <2>8, <2>9 DEF EachOnce, Disjoint
<1>4. CASE PostDispatched
  <2>1. waiting' = waiting /\ Dispatch(item)
    BY <1>4 DEF PostDispatched
  <2>2. IsInjective(queue') /\ Range(queue') \subseteq Range(queue) \cup {item}
    BY <1>0, <2>1, DispatchOnce DEF EachOnce
  <2> QED
    BY <1>0, <1>1, <2>1, <2>2, RangeType DEF EachOnce, Checked, Disjoint, TypeOK
<1> QED
  BY <1>2, <1>3, <1>4 DEF Post

\* The drain moves a request between lists and leaves no copy behind.
LEMMA OnceDrain == TypeOK /\ EachOnce /\ Drain => EachOnce'
<1> SUFFICES ASSUME TypeOK, EachOnce, Drain PROVE EachOnce'
  OBVIOUS
<1>0. answer' = answer /\ batch' = batch
  BY DEF Drain, DrainStart, DrainPop, DrainDispatch, DrainBlocked, DrainStop, DrainEnd
<1>1. CASE DrainStart
  BY <1>0, <1>1 DEF DrainStart, EachOnce, Checked, Disjoint
<1>2. CASE DrainPop
  <2>1. /\ item' = Head(waiting) /\ waiting' = Tail(waiting) /\ waiting # <<>>
        /\ pc' = "drainCheck" /\ pc = "drain" /\ UNCHANGED <<blocked, queue>>
    BY <1>2 DEF DrainPop
  <2>2. /\ Range(waiting) = Range(waiting') \cup {item'} /\ item' \notin Range(waiting')
        /\ IsInjective(waiting')
    BY <2>1, Popped DEF TypeOK, EachOnce
  <2> QED
    BY <1>0, <2>1, <2>2 DEF EachOnce, Checked, Disjoint
<1>3. CASE DrainDispatch
  <2>1. /\ pc = "drainCheck" /\ pc' = "drain" /\ item \in Requests /\ Dispatch(item)
        /\ UNCHANGED <<waiting, blocked>>
    BY <1>3 DEF DrainDispatch, TypeOK
  <2>2. IsInjective(queue') /\ Range(queue') \subseteq Range(queue) \cup {item}
    BY <2>1, DispatchOnce DEF EachOnce, Disjoint, Checked
  <2> QED
    BY <1>0, <2>1, <2>2 DEF EachOnce, Checked, Disjoint
<1>4. CASE DrainBlocked
  <2>1. /\ pc = "drainCheck" /\ pc' = "drain" /\ item \in Requests
        /\ blocked' = Append(blocked, item) /\ UNCHANGED <<waiting, queue>>
    BY <1>4 DEF DrainBlocked, TypeOK
  <2>2. item \notin Range(blocked)
    BY <2>1 DEF EachOnce, Disjoint, Checked
  <2>3. IsInjective(blocked') /\ Range(blocked') = Range(blocked) \cup {item}
    BY <2>1, <2>2, Appended DEF EachOnce, TypeOK
  <2> QED
    BY <1>0, <2>1, <2>3 DEF EachOnce, Checked, Disjoint
<1>5. CASE DrainStop
  <2>1. /\ pc = "drainCheck" /\ pc' = "idle" /\ item \in Requests /\ blocked' = <<>>
        /\ waiting' = Append(blocked, item) \o waiting /\ UNCHANGED queue
    BY <1>5 DEF DrainStop, PutBack, TypeOK
  <2>2. item \notin Range(blocked) /\ item \notin Range(waiting)
        /\ Range(blocked) \cap Range(waiting) = {}
    BY <2>1 DEF EachOnce, Disjoint, Checked
  <2>3. /\ Append(blocked, item) \in Seq(Requests) /\ IsInjective(Append(blocked, item))
        /\ Range(Append(blocked, item)) = Range(blocked) \cup {item}
    BY <2>1, <2>2, Appended DEF EachOnce, TypeOK
  <2>4. IsInjective(waiting') /\ Range(waiting') = Range(blocked) \cup {item} \cup Range(waiting)
    <3> DEFINE b == Append(blocked, item)
    <3>1. b \in Seq(Requests) /\ IsInjective(b) /\ Range(b) \cap Range(waiting) = {}
      BY <2>2, <2>3
    <3>2. Range(b) = Range(blocked) \cup {item} /\ waiting' = b \o waiting
      BY <2>1, <2>3
    <3> HIDE DEF b
    <3> QED
      BY <3>1, <3>2, Joined DEF EachOnce, TypeOK
  <2>5. Range(blocked') = {} /\ IsInjective(blocked')
    BY <2>1 DEF Range, IsInjective
  <2> QED
    BY <1>0, <2>1, <2>4, <2>5 DEF EachOnce, Checked, Disjoint
<1>6. CASE DrainEnd
  <2>1. /\ pc = "drain" /\ pc' = "idle" /\ blocked' = <<>>
        /\ waiting' = blocked \o waiting /\ UNCHANGED queue
    BY <1>6 DEF DrainEnd, PutBack
  <2>2. IsInjective(waiting') /\ Range(waiting') = Range(blocked) \cup Range(waiting)
    BY <2>1, Joined DEF EachOnce, Disjoint, TypeOK
  <2>3. Range(blocked') = {} /\ IsInjective(blocked')
    BY <2>1 DEF Range, IsInjective
  <2> QED
    BY <1>0, <2>1, <2>2, <2>3 DEF EachOnce, Checked, Disjoint
<1> QED
  BY <1>1, <1>2, <1>3, <1>4, <1>5, <1>6 DEF Drain

\* A step about one request (its validation, task, job) lists it no second time.
LEMMA OnceRequest ==
  ASSUME TypeOK, EachOnce, NEW r \in Requests,
         \/ PostInvalid(r) \/ PostRead(r) \/ DirectReply(r)
         \/ TaskStart(r) \/ TaskSubmit(r) \/ TaskFail(r) \/ TaskForget(r)
         \/ JobCloses(r)
  PROVE  EachOnce'
<1>1. CASE PostInvalid(r) \/ DirectReply(r)
  <2>1. /\ pc = "idle" /\ \A q \in Requests \ {r} : answer'[q] = answer[q]
        /\ answer'[r] # "new" /\ UNCHANGED <<waiting, blocked, queue, batch, pc, item>>
    BY <1>1 DEF PostInvalid, DirectReply, TypeOK
  <2> QED
    BY <2>1, RangeType DEF EachOnce, Checked, Disjoint, TypeOK
<1>2. CASE PostRead(r)
  BY <1>2 DEF PostRead, Reachable, EachOnce, Checked, Disjoint
<1>3. CASE TaskStart(r) \/ TaskSubmit(r) \/ TaskFail(r) \/ TaskForget(r) \/ JobCloses(r)
  <2>1. UNCHANGED <<waiting, blocked, queue, batch, pc, item, answer>>
    BY <1>3 DEF TaskStart, TaskSubmit, TaskFail, TaskForget, JobCloses
  <2> QED
    BY <2>1 DEF EachOnce, Checked, Disjoint
<1> QED
  BY <1>1, <1>2, <1>3

\* The flusher's final take of the queue leaves no request on two lists.
LEMMA OnceLastDrain ==
  ASSUME TypeOK, EachOnce, LastDrain
  PROVE  /\ IsInjective(queue') /\ Range(queue') \cap batch' = {}
         /\ Range(queue') \cup batch' \subseteq Range(queue)
<1>1. Range(<<>>) = {} /\ IsInjective(<<>>)
  BY DEF Range, IsInjective
<1>2. CASE ~final /\ queue # <<>>
  BY <1>1, <1>2 DEF LastDrain
<1>3. CASE ~(~final /\ queue # <<>>)
  <2>1. batch' = {} /\ queue' = queue
    BY <1>3 DEF LastDrain
  <2> QED
    BY <2>1 DEF EachOnce
<1> QED
  BY <1>2, <1>3

\* The flusher takes a batch off the queue and leaves no copy behind.
LEMMA OnceFlusher == TypeOK /\ EachOnce /\ Flusher => EachOnce'
<1> SUFFICES ASSUME TypeOK, EachOnce, Flusher PROVE EachOnce'
  OBVIOUS
<1>0. UNCHANGED <<waiting, blocked, pc, item, answer>> /\ pc = "idle"
  BY DEF Flusher, FlushTake, FlushGather, FlushClose, GroupStart, GroupForget, FlushStop,
         FlusherTurn
\* It is enough that the flusher moves requests from its lists to its lists.
<1>a. ASSUME IsInjective(queue'), Range(queue') \cap batch' = {},
             Range(queue') \cup batch' \subseteq Range(queue) \cup batch
      PROVE  EachOnce'
  BY <1>0, <1>a DEF EachOnce, Checked, Disjoint
<1>1. CASE FlushTake \/ FlushGather
  <2>1. /\ queue # <<>> /\ queue' = Tail(queue)
        /\ batch' \subseteq batch \cup {Head(queue)}
    BY <1>1 DEF FlushTake, FlushGather
  <2>2. /\ Range(queue) = Range(queue') \cup {Head(queue)}
        /\ IsInjective(queue') /\ Head(queue) \notin Range(queue')
    BY <2>1, Popped DEF EachOnce, TypeOK
  <2> QED
    BY <1>a, <2>1, <2>2 DEF EachOnce, Disjoint
<1>2. CASE FlushClose
  <2>1. CASE Draining
    <3>1. batch' = batch \cup Range(queue) /\ queue' = <<>>
      BY <1>2, <2>1 DEF FlushClose, TakeAll
    <3>2. Range(queue') = {} /\ IsInjective(queue')
      BY <3>1 DEF Range, IsInjective
    <3> QED
      BY <1>a, <3>1, <3>2
  <2>2. CASE ~Draining
    BY <1>a, <1>2, <2>2 DEF FlushClose, EachOnce, Disjoint
  <2> QED
    BY <2>1, <2>2
<1>3. CASE GroupStart
  BY <1>a, <1>3 DEF GroupStart, EachOnce, Disjoint
<1>4. CASE GroupForget
  <2>1. CASE batch \ group = {} /\ Draining
    <3>1. LastDrain
      BY <1>4, <2>1 DEF GroupForget
    <3> QED
      BY <1>a, <3>1, OnceLastDrain
  <2>2. CASE ~(batch \ group = {} /\ Draining)
    <3>1. batch' = batch \ group /\ queue' = queue
      BY <1>4, <2>2 DEF GroupForget
    <3> QED
      BY <1>a, <3>1 DEF EachOnce, Disjoint
  <2> QED
    BY <2>1, <2>2
<1>5. CASE FlushStop
  BY <1>a, <1>5, OnceLastDrain DEF FlushStop
<1> QED
  BY <1>1, <1>2, <1>3, <1>4, <1>5 DEF Flusher

\* Shutting down puts no request on a list twice.
LEMMA OnceShutdown == TypeOK /\ EachOnce /\ (Sigterm \/ Shutdown \/ DrainTimeout) => EachOnce'
<1> SUFFICES ASSUME TypeOK, EachOnce, Sigterm \/ Shutdown \/ DrainTimeout PROVE EachOnce'
  OBVIOUS
<1>1. CASE ReleaseOne
  <2>1. /\ waiting # <<>> /\ waiting' = Tail(waiting) /\ pc = "release"
        /\ queue' = queue \/ queue' = Append(queue, Head(waiting))
        /\ UNCHANGED <<blocked, batch, pc, item, answer>>
    BY <1>1 DEF ReleaseOne, HandOver
  <2>2. /\ Head(waiting) \in Requests
        /\ Range(waiting) = Range(waiting') \cup {Head(waiting)}
        /\ IsInjective(waiting') /\ Head(waiting) \notin Range(waiting')
    BY <2>1, Popped DEF EachOnce, TypeOK
  <2>3. Head(waiting) \notin Range(queue)
    BY <2>2 DEF EachOnce, Disjoint
  <2>4. IsInjective(queue') /\ Range(queue') \subseteq Range(queue) \cup {Head(waiting)}
    <3>1. queue \in Seq(Requests) /\ IsInjective(queue)
      BY DEF EachOnce, TypeOK
    <3>2. CASE queue' = Append(queue, Head(waiting))
      BY <2>2, <2>3, <3>1, <3>2, Appended
    <3>3. CASE queue' = queue
      BY <3>1, <3>3
    <3> QED
      BY <2>1, <3>2, <3>3
  <2> QED
    BY <2>1, <2>2, <2>4 DEF EachOnce, Checked, Disjoint
<1>2. CASE Sigterm \/ ReleaseEnd \/ ReportUnbatched \/ StopLoop \/ DrainTimeout
  BY <1>2 DEF Sigterm, ReleaseEnd, ReportUnbatched, StopLoop, DrainTimeout,
              EachOnce, Checked, Disjoint
<1> QED
  BY <1>1, <1>2 DEF Shutdown

\* No step of the plugin lists a request twice.
LEMMA OnceStep == TypeOK /\ EachOnce /\ [Next]_vars => EachOnce'
<1> SUFFICES ASSUME TypeOK, EachOnce, [Next]_vars PROVE EachOnce'
  OBVIOUS
<1>1. CASE UNCHANGED vars
  BY <1>1 DEF EachOnce, Checked, Disjoint
<1>2. CASE GroupRpc \/ Rehydrate
  BY <1>2 DEF GroupRpc, GroupSubmit, GroupFail, Rehydrate, EachOnce, Checked, Disjoint
<1>3. CASE Next
  BY <1>2, <1>3, OncePost, OnceDrain, OnceRequest, OnceFlusher, OnceShutdown DEF Next
<1> QED
  BY <1>1, <1>3

\* The event loop's lists never hold a request twice, so none is submitted by two
\* of them: through drains, batches and the release of the waiting list at
\* shutdown.
THEOREM ListedOnce == Spec => []EachOnce
<1>1. Init => EachOnce
  BY OnceInit
<1>2. TypeOK /\ EachOnce /\ [Next]_vars => EachOnce'
  BY OnceStep
<1> QED
  BY <1>1, <1>2, TypeCorrect, PTL DEF Spec

-----------------------------------------------------------------------------
(***************************************************************************)
(* The caps.  Counting first.                                              *)
(***************************************************************************)
Pure == (\A r \in Requests : Batchable(r)) /\ Inherited = {}

\* Sets of requests are finite and counted by a natural number.
LEMMA FiniteRequests ==
  ASSUME NEW S, S \subseteq Requests
  PROVE  IsFiniteSet(S) /\ Cardinality(S) \in Nat
<1>1. IsFiniteSet(S)
  BY RequestsAssumption, FS_Subset
<1> QED
  BY <1>1, FS_CardinalityType

\* A smaller set of requests has no larger count.
LEMMA SmallerCount ==
  ASSUME NEW T, T \subseteq Requests, NEW S, S \subseteq T
  PROVE  Cardinality(S) <= Cardinality(T)
BY FiniteRequests, FS_Subset

\* One more than the sum of two counts bounds the union with one more element.
LEMMA OneMore ==
  ASSUME NEW A, A \subseteq Requests, NEW B, B \subseteq Requests, NEW x \in Requests,
         NEW X, X \subseteq A \cup B \cup {x},
         NEW m \in Nat, ~(Count(A, B) >= m)
  PROVE  Cardinality(X) <= m
<1> DEFINE U == A \cup B
<1>1. /\ Cardinality(A) \in Nat /\ Cardinality(B) \in Nat
      /\ Cardinality(A \cap B) \in Nat
      /\ IsFiniteSet(A) /\ IsFiniteSet(B) /\ IsFiniteSet(U)
  BY FiniteRequests
<1>2. Cardinality(U) = Cardinality(A) + Cardinality(B) - Cardinality(A \cap B)
  BY <1>1, FS_Union
<1>3. Cardinality(U) + 1 <= m
  <2>1. Cardinality(A) + Cardinality(B) < m
    BY <1>1 DEF Count
  <2> HIDE DEF U
  <2> QED
    BY <1>1, <1>2, <2>1
<1>4. Cardinality(U) \in Nat
  BY FiniteRequests
<1>5. Cardinality(U \cup {x}) <= Cardinality(U) + 1
  <2>1. Cardinality(U \cup {x}) =
            IF x \in U THEN Cardinality(U) ELSE Cardinality(U) + 1
    BY <1>1, FS_AddElement
  <2> HIDE DEF U
  <2> QED
    BY <1>4, <2>1
<1>6. Cardinality(X) <= Cardinality(U \cup {x})
  BY SmallerCount
<1>7. Cardinality(X) \in Nat /\ Cardinality(U \cup {x}) \in Nat
  BY FiniteRequests
<1> HIDE DEF U
<1> QED
  BY <1>3, <1>4, <1>5, <1>6, <1>7

\* Fewer in flight are within the caps too.
LEMMA CapsShrink ==
  ASSUME NEW T, T \subseteq Requests, NEW S, S \subseteq T, WithinCaps(T)
  PROVE  WithinCaps(S)
<1> USE LimitsAssumption
<1>1. TotalCapHolds(S)
  <2>1. /\ Cardinality(S) <= Cardinality(T)
        /\ Cardinality(S) \in Nat /\ Cardinality(T) \in Nat
    BY SmallerCount, FiniteRequests
  <2>2. MaxTotal > 0 => Cardinality(T) <= MaxTotal
    BY DEF WithinCaps, TotalCapHolds
  <2>3. MaxTotal \in Nat
    OBVIOUS
  <2> QED
    BY <2>1, <2>2, <2>3 DEF TotalCapHolds
<1>2. AnalysisCapHolds(S)
  <2> SUFFICES ASSUME MaxPerAnalysis > 0, NEW r \in S
               PROVE  Cardinality(OfAnalysis(S, AnalysisOf[r])) <= MaxPerAnalysis
    BY DEF AnalysisCapHolds
  <2> DEFINE X == OfAnalysis(S, AnalysisOf[r])
             Y == OfAnalysis(T, AnalysisOf[r])
  <2>1. Cardinality(Y) <= MaxPerAnalysis
    BY DEF WithinCaps, AnalysisCapHolds
  <2>2. X \subseteq Y /\ Y \subseteq Requests
    BY DEF OfAnalysis
  <2>3. Cardinality(X) <= Cardinality(Y) /\ Cardinality(X) \in Nat /\ Cardinality(Y) \in Nat
    BY <2>2, SmallerCount, FiniteRequests
  <2> HIDE DEF X, Y
  <2>4. Cardinality(X) <= MaxPerAnalysis
    BY <2>1, <2>3
  <2> QED
    BY <2>4 DEF X
<1>3. ResourceCapHolds(S)
  <2> SUFFICES ASSUME MaxPerResource > 0, NEW r \in S, ResourceOf[r] # NoResource
               PROVE  Cardinality(OfPair(S, AnalysisOf[r], ResourceOf[r])) <= MaxPerResource
    BY DEF ResourceCapHolds
  <2> DEFINE X == OfPair(S, AnalysisOf[r], ResourceOf[r])
             Y == OfPair(T, AnalysisOf[r], ResourceOf[r])
  <2>1. Cardinality(Y) <= MaxPerResource
    BY DEF WithinCaps, ResourceCapHolds
  <2>2. X \subseteq Y /\ Y \subseteq Requests
    BY DEF OfPair, OfAnalysis
  <2>3. Cardinality(X) <= Cardinality(Y) /\ Cardinality(X) \in Nat /\ Cardinality(Y) \in Nat
    BY <2>2, SmallerCount, FiniteRequests
  <2> HIDE DEF X, Y
  <2>4. Cardinality(X) <= MaxPerResource
    BY <2>1, <2>3
  <2> QED
    BY <2>4 DEF X
<1> QED
  BY <1>1, <1>2, <1>3 DEF WithinCaps

\* What a dispatch adds: a request no cap held back, when the check missed no
\* open job that is not still in _SUBMITTING.
LEMMA CapsGrow ==
  ASSUME TypeOK, NEW r \in Requests, ~CapReached(seen, r),
         open \subseteq seen \cup submitting, WithinCaps(open \cup submitting)
  PROVE  WithinCaps(open \cup (submitting \cup {r}))
<1> USE LimitsAssumption
<1> DEFINE Old == open \cup submitting
           New == open \cup (submitting \cup {r})
<1>1. /\ open \subseteq Requests /\ submitting \subseteq Requests /\ seen \subseteq Requests
      /\ New \subseteq Requests /\ New = Old \cup {r}
  BY DEF TypeOK
<1>2. TotalCapHolds(New)
  <2> SUFFICES ASSUME MaxTotal > 0 PROVE Cardinality(New) <= MaxTotal
    BY DEF TotalCapHolds
  <2>1. ~(Count(seen, submitting) >= MaxTotal)
    BY DEF CapReached, GlobalCapReached
  <2>2. New \subseteq seen \cup submitting \cup {r} /\ MaxTotal \in Nat
    OBVIOUS
  <2> HIDE DEF New
  <2> QED
    BY <1>1, <2>1, <2>2, OneMore
<1>3. AnalysisCapHolds(New)
  <2> SUFFICES ASSUME MaxPerAnalysis > 0, NEW q \in New
               PROVE  Cardinality(OfAnalysis(New, AnalysisOf[q])) <= MaxPerAnalysis
    BY DEF AnalysisCapHolds
  <2> DEFINE a == AnalysisOf[q]
  <2>1. CASE a = AnalysisOf[r]
    <3>1. ~(Count(OfAnalysis(seen, a), OfAnalysis(submitting, a)) >= MaxPerAnalysis)
      BY <2>1 DEF CapReached, AnalysisCapReached
    <3>2. /\ OfAnalysis(seen, a) \subseteq Requests /\ OfAnalysis(submitting, a) \subseteq Requests
          /\ OfAnalysis(New, a) \subseteq OfAnalysis(seen, a) \cup OfAnalysis(submitting, a) \cup {r}
      BY <1>1 DEF OfAnalysis
    <3>3. MaxPerAnalysis \in Nat
      OBVIOUS
    <3> QED
      BY <3>1, <3>2, <3>3, OneMore
  <2>2. CASE a # AnalysisOf[r]
    <3>1. q \in Old /\ OfAnalysis(New, a) = OfAnalysis(Old, a)
      BY <2>2 DEF OfAnalysis
    <3>2. Cardinality(OfAnalysis(Old, a)) <= MaxPerAnalysis
      BY <3>1 DEF WithinCaps, AnalysisCapHolds
    <3> QED
      BY <3>1, <3>2
  <2> QED
    BY <2>1, <2>2
<1>4. ResourceCapHolds(New)
  <2> SUFFICES ASSUME MaxPerResource > 0, NEW q \in New, ResourceOf[q] # NoResource
               PROVE  Cardinality(OfPair(New, AnalysisOf[q], ResourceOf[q])) <= MaxPerResource
    BY DEF ResourceCapHolds
  <2> DEFINE a == AnalysisOf[q]
             x == ResourceOf[q]
  <2>1. CASE a = AnalysisOf[r] /\ x = ResourceOf[r]
    <3>1. ~(Count(OfPair(seen, a, x), OfPair(submitting, a, x)) >= MaxPerResource)
      BY <2>1 DEF CapReached, ResourceCapReached
    <3>2. /\ OfPair(seen, a, x) \subseteq Requests /\ OfPair(submitting, a, x) \subseteq Requests
          /\ OfPair(New, a, x) \subseteq OfPair(seen, a, x) \cup OfPair(submitting, a, x) \cup {r}
      BY <1>1 DEF OfPair, OfAnalysis
    <3>3. MaxPerResource \in Nat
      OBVIOUS
    <3> QED
      BY <3>1, <3>2, <3>3, OneMore
  <2>2. CASE ~(a = AnalysisOf[r] /\ x = ResourceOf[r])
    <3>1. q \in Old /\ OfPair(New, a, x) = OfPair(Old, a, x)
      BY <2>2 DEF OfPair, OfAnalysis
    <3>2. Cardinality(OfPair(Old, a, x)) <= MaxPerResource
      BY <3>1 DEF WithinCaps, ResourceCapHolds
    <3> QED
      BY <3>1, <3>2
  <2> QED
    BY <2>1, <2>2
<1> QED
  BY <1>2, <1>3, <1>4 DEF WithinCaps

-----------------------------------------------------------------------------
(***************************************************************************)
(* The inductive invariant, one lemma per group of actions.                *)
(***************************************************************************)
LEMMA CapInit == Pure /\ Init => CapInv
<1> SUFFICES ASSUME Pure, Init PROVE CapInv
  OBVIOUS
<1>1. open \cup submitting = {} /\ queue = <<>> /\ batch = {}
  BY DEF Init
<1>2. WithinCaps(open \cup submitting)
  <2>1. Cardinality({}) = 0
    BY FS_EmptySet
  <2>2. TotalCapHolds({})
    BY <2>1, LimitsAssumption DEF TotalCapHolds
  <2>3. AnalysisCapHolds({}) /\ ResourceCapHolds({})
    BY DEF AnalysisCapHolds, ResourceCapHolds
  <2> QED
    BY <1>1, <2>2, <2>3 DEF WithinCaps
<1>3. Range(queue) = {}
  BY <1>1 DEF Range
<1> QED
  BY <1>1, <1>2, <1>3 DEF Init, CapInv

\* A dispatched request is batchable: it enters _SUBMITTING and the queue.
LEMMA CapDispatch ==
  ASSUME TypeOK, CapInv, Pure, phase = "serving", pc \in {"post", "drainCheck"},
         ~CapReached(seen, item), Dispatch(item)
  PROVE  /\ stage' = stage
         /\ Range(queue') \cup batch \subseteq submitting'
         /\ WithinCaps(open' \cup submitting')
<1>1. item \in Requests /\ Batchable(item)
  BY DEF TypeOK, Pure
<1>2. /\ submitting' = submitting \cup {item} /\ queue' = Append(queue, item)
      /\ stage' = stage /\ open' = open
  BY <1>1 DEF Dispatch
<1>3. Range(queue') \subseteq Range(queue) \cup {item}
  BY <1>1, <1>2, Appended DEF TypeOK
<1>4. /\ open \subseteq seen \cup submitting /\ WithinCaps(open \cup submitting)
      /\ Range(queue) \cup batch \subseteq submitting
  BY DEF CapInv
<1>5. WithinCaps(open \cup (submitting \cup {item}))
  BY <1>1, <1>4, CapsGrow
<1> QED
  BY <1>2, <1>3, <1>4, <1>5

\* A POST dispatches only below the caps it has just read.
LEMMA CapPost == TypeOK /\ CapInv /\ Pure /\ Post => CapInv'
<1> SUFFICES ASSUME TypeOK, CapInv, Pure, Post PROVE CapInv'
  OBVIOUS
<1>1. CASE PostRefused
  BY <1>1 DEF CapInv, PostRefused, PostEnds
<1>2. CASE PostWaits
  BY <1>2 DEF CapInv, PostWaits, PostEnds
<1>3. CASE PostDispatched
  <2>1. /\ pc = "post" /\ pc' = "idle" /\ phase' = phase /\ Dispatch(item)
        /\ fpc' = fpc /\ group' = group /\ batch' = batch /\ ~CapReached(seen, item)
    BY <1>3 DEF PostDispatched, PostEnds, MustWait
  <2>2. CASE phase = "serving"
    BY <2>1, <2>2, CapDispatch DEF CapInv
  <2>3. CASE phase # "serving"
    <3>1. stage' = stage
      BY <2>1 DEF Dispatch, Pure, TypeOK
    <3> QED
      BY <2>1, <2>3, <3>1 DEF CapInv
  <2> QED
    BY <2>2, <2>3
<1>4. CASE PostDirect
  BY <1>4 DEF PostDirect, Pure, TypeOK
<1> QED
  BY <1>1, <1>2, <1>3, <1>4 DEF Post

\* The drain dispatches only below the caps it has just read.
LEMMA CapDrain == TypeOK /\ CapInv /\ Pure /\ Drain => CapInv'
<1> SUFFICES ASSUME TypeOK, CapInv, Pure, Drain PROVE CapInv'
  OBVIOUS
<1>1. CASE DrainStart \/ DrainEnd
  BY <1>1 DEF CapInv, DrainStart, DrainEnd
<1>2. CASE DrainPop
  BY <1>2 DEF CapInv, DrainPop
<1>3. CASE DrainDispatch
  <2>1. /\ pc = "drainCheck" /\ pc' = "drain" /\ phase' = phase /\ Dispatch(item)
        /\ fpc' = fpc /\ group' = group /\ batch' = batch /\ ~CapReached(seen, item)
    BY <1>3 DEF DrainDispatch
  <2>2. CASE phase = "serving"
    BY <2>1, <2>2, CapDispatch DEF CapInv
  <2>3. CASE phase # "serving"
    <3>1. stage' = stage
      BY <2>1 DEF Dispatch, Pure, TypeOK
    <3> QED
      BY <2>1, <2>3, <3>1 DEF CapInv
  <2> QED
    BY <2>2, <2>3
<1>4. CASE DrainBlocked \/ DrainStop
  BY <1>4 DEF CapInv, DrainBlocked, DrainStop
<1> QED
  BY <1>1, <1>2, <1>3, <1>4 DEF Drain

\* A step about one request (its validation, task, job) exceeds no cap.
LEMMA CapRequest ==
  ASSUME TypeOK, CapInv, Pure, NEW r \in Requests,
         \/ PostInvalid(r) \/ PostRead(r) \/ DirectReply(r)
         \/ TaskStart(r) \/ TaskSubmit(r) \/ TaskFail(r) \/ TaskForget(r)
         \/ JobCloses(r)
  PROVE  CapInv'
<1>1. CASE PostInvalid(r) \/ PostRead(r)
  BY <1>1 DEF CapInv, PostInvalid, PostRead
<1>2. CASE \/ DirectReply(r) \/ TaskStart(r) \/ TaskSubmit(r) \/ TaskFail(r) \/ TaskForget(r)
  BY <1>2 DEF CapInv, DirectReply, TaskStart, TaskSubmit, TaskFail, TaskForget
<1>3. CASE JobCloses(r)
  <2>1. /\ open' = open \ {r} /\ UNCHANGED <<submitting, queue, stage, flush, loop, down>>
    BY <1>3 DEF JobCloses
  <2>2. ASSUME phase = "serving" PROVE WithinCaps(open' \cup submitting')
    <3>1. /\ open' \cup submitting' \subseteq open \cup submitting
          /\ open \cup submitting \subseteq Requests /\ WithinCaps(open \cup submitting)
      BY <2>1, <2>2 DEF CapInv, TypeOK
    <3> QED
      BY <3>1, CapsShrink
  <2> QED
    BY <2>1, <2>2 DEF CapInv
<1> QED
  BY <1>1, <1>2, <1>3

\* The flusher moves analyses that were counted when they were dispatched.
LEMMA CapFlusher == TypeOK /\ EachOnce /\ CapInv /\ Flusher => CapInv'
<1> SUFFICES ASSUME TypeOK, EachOnce, CapInv, Flusher PROVE CapInv'
  OBVIOUS
<1>1. CASE FlushTake \/ FlushGather
  <2>1. Range(queue) = Range(Tail(queue)) \cup {Head(queue)}
    BY <1>1, Popped DEF FlushTake, FlushGather, TypeOK
  <2> QED
    BY <1>1, <2>1 DEF CapInv, FlushTake, FlushGather
<1>2. CASE FlushClose
  BY <1>2 DEF CapInv, FlushClose, FlushOrDie, Draining
<1>3. CASE GroupStart
  BY <1>3 DEF CapInv, GroupStart
<1>4. CASE GroupForget
  <2>0. /\ stage' = stage /\ pc' = pc /\ pc = "idle" /\ phase' = phase /\ open' = open
        /\ submitting' = submitting \ group /\ fpc = "recorded"
    BY <1>4 DEF GroupForget, Forget, FlusherTurn
  <2>1. CASE phase = "serving"
    <3>1. /\ batch' = batch \ group /\ queue' = queue /\ fpc' \in {"first", "flush"}
      BY <1>4, <2>1 DEF GroupForget, Draining
    <3>2. group \subseteq batch /\ Range(queue) \cap group = {}
      BY <2>0, <2>1 DEF CapInv, EachOnce, Disjoint
    <3>3. Range(queue') \cup batch' \subseteq submitting'
      BY <2>0, <2>1, <3>1, <3>2 DEF CapInv
    <3>4. WithinCaps(open' \cup submitting')
      <4>1. /\ open' \cup submitting' \subseteq open \cup submitting
            /\ open \cup submitting \subseteq Requests /\ WithinCaps(open \cup submitting)
        BY <2>0, <2>1 DEF CapInv, TypeOK
      <4> QED
        BY <4>1, CapsShrink
    <3> QED
      BY <2>0, <3>1, <3>3, <3>4 DEF CapInv
  <2>2. CASE phase # "serving"
    BY <2>0, <2>2 DEF CapInv
  <2> QED
    BY <2>1, <2>2
<1>5. CASE FlushStop
  BY <1>5 DEF CapInv, FlushStop, Draining
<1> QED
  BY <1>1, <1>2, <1>3, <1>4, <1>5 DEF Flusher

\* The batch's submission, answered or failed, counts no analysis that was not counted.
LEMMA CapGroupRpc == TypeOK /\ CapInv /\ GroupRpc => CapInv'
<1> SUFFICES ASSUME TypeOK, CapInv, GroupRpc PROVE CapInv'
  OBVIOUS
<1>1. CASE GroupSubmit
  <2>1. /\ fpc = "rpc" /\ fpc' = "recorded" /\ open' = open \cup group
        /\ UNCHANGED <<submitting, queue, stage, batch, group, loop, down>>
    BY <1>1 DEF GroupSubmit, Record
  <2>2. CASE phase = "serving"
    <3>1. group \subseteq submitting
      BY <2>1, <2>2 DEF CapInv
    <3>2. open' \cup submitting' = open \cup submitting
      BY <2>1, <3>1
    <3> QED
      BY <2>1, <2>2, <3>1, <3>2 DEF CapInv
  <2>3. CASE phase # "serving"
    BY <2>1, <2>3 DEF CapInv
  <2> QED
    BY <2>2, <2>3
<1>2. CASE GroupFail
  BY <1>2 DEF CapInv, GroupFail
<1> QED
  BY <1>1, <1>2 DEF GroupRpc

\* Shutting down counts nothing new.
LEMMA CapShutdown == CapInv /\ (Sigterm \/ Shutdown \/ DrainTimeout) => CapInv'
<1> SUFFICES ASSUME CapInv, Sigterm \/ Shutdown \/ DrainTimeout PROVE CapInv'
  OBVIOUS
<1>1. phase' # "serving"
  BY DEF CapInv, Sigterm, Shutdown, ReleaseOne, ReleaseEnd, ReportUnbatched, StopLoop,
         DrainTimeout
<1>2. stage' = stage /\ (pc' = "release" => phase' = "releasing")
  BY DEF CapInv, Sigterm, Shutdown, ReleaseOne, ReleaseEnd, ReportUnbatched, StopLoop,
         DrainTimeout
<1> QED
  BY <1>1, <1>2 DEF CapInv

\* No step of the plugin exceeds a cap.
LEMMA CapStep == TypeOK /\ EachOnce /\ CapInv /\ Pure /\ [Next]_vars => CapInv'
<1> SUFFICES ASSUME TypeOK, EachOnce, CapInv, Pure, [Next]_vars PROVE CapInv'
  OBVIOUS
<1>1. CASE UNCHANGED vars
  BY <1>1 DEF CapInv
<1>2. CASE Rehydrate
  BY <1>2 DEF Rehydrate, Pure
<1>3. CASE Next
  BY <1>2, <1>3, CapPost, CapDrain, CapRequest, CapFlusher, CapGroupRpc, CapShutdown DEF Next
<1> QED
  BY <1>1, <1>3

\* When every request is batchable and no earlier run left open jobs, the caps
\* hold while the plugin serves, at all three levels, for any caps, any number of
\* requests and any interleaving of the handler, the drainer, the flusher, the
\* RPCs and the jobs' ends.
THEOREM CapsNeverExceeded ==
  ASSUME \A r \in Requests : Batchable(r), Inherited = {}
  PROVE  Spec => []CapsHold
<1>0. Pure
  BY DEF Pure
<1>1. Init => CapInv
  BY <1>0, CapInit
<1>2. TypeOK /\ EachOnce /\ CapInv /\ [Next]_vars => CapInv'
  BY <1>0, CapStep
<1>3. CapInv => CapsHold
  <2> SUFFICES ASSUME CapInv, phase = "serving" PROVE WithinCaps(InFlight)
    BY DEF CapsHold
  <2>1. InFlight = open \cup submitting
    BY <1>0 DEF InFlight, CapInv, Pure
  <2> QED
    BY <2>1 DEF CapInv
<1> QED
  BY <1>1, <1>2, <1>3, TypeCorrect, ListedOnce, PTL DEF Spec

-----------------------------------------------------------------------------
(***************************************************************************)
(* The places as sets.  InLine is Range(Line) (LineMembers, below).        *)
(***************************************************************************)
InLine == Range(blocked) \cup Checked \cup Range(waiting)
InQueue == Range(queue)
InBatch == {r \in batch : ~(r \in group /\ fpc = "recorded")}
InPool ==
    {r \in Requests : \/ stage[r] \in {"pooled", "running"}
                      \/ stage[r] = "failed" /\ answer[r] = "posted"}
Reported == told \cup mute

\* What no pool task has been given for yet.
Listed == InLine \cup InQueue \cup batch \cup unbatched
Somewhere == Listed \cup InPool \cup jobs \cup Reported
Tasks == {"pooled", "running", "submitted", "failed"}

\* A request that waits has no task, and its client was told that it waits.
ListedInv ==
    \A r \in Listed : stage[r] = "none" /\ answer[r] = "pending" /\ r \notin Inherited

\* What a request's task leaves behind, and whose report of a failure it is: the
\* handler's, which still waits, or that of _submit_in_background.
TaskInv ==
    \A r \in Requests :
        /\ stage[r] = "submitted" => r \in jobs
        /\ stage[r] = "failed" => r \in Reported \/ answer[r] = "posted"
        /\ stage[r] = "done" => r \in jobs \cup Reported
        /\ stage[r] # "none" => answer[r] \notin {"new", "refused"} /\ r \notin Inherited
        /\ stage[r] \in Tasks =>
               \/ answer[r] = "posted" /\ r \notin submitting
               \/ answer[r] = "pending" /\ r \in submitting
        /\ answer[r] = "posted" => stage[r] \in Tasks
        /\ answer[r] = "new" => r \notin submitting
        /\ r \in Inherited => answer[r] = "pending"

\* The group of the RPC is part of the batch, and has its outcome afterwards; the
\* flusher is done when the loop stops, unless the shutdown gave up waiting for it.
FlushInv ==
    /\ fpc \in {"first", "exited"} => batch = {}
    /\ fpc \in {"rpc", "recorded"} => group \subseteq batch
    /\ fpc = "recorded" /\ ~timedOut => group \subseteq jobs \cup Reported
    /\ ~BatchEnabled => fpc = "first"
    /\ timedOut => phase = "stopped"
    /\ phase = "stopped" /\ ~timedOut => ~BatchEnabled \/ fpc \in {"exited", "dead"}

\* No two places share a request; one is taken by every accepted request, except
\* for a group whose failure nobody reports because the loop was cut short.
ApartInv ==
    \A r \in Requests \ Inherited :
        /\ r \in InLine =>
               r \notin InQueue \cup InBatch \cup InPool \cup unbatched \cup jobs \cup Reported
        /\ r \in InQueue => r \notin InBatch \cup InPool \cup unbatched \cup jobs \cup Reported
        /\ r \in InBatch => r \notin InPool \cup unbatched \cup jobs \cup Reported
        /\ r \in InPool => r \notin unbatched \cup jobs \cup Reported
        /\ r \in unbatched => r \notin jobs \cup Reported
        /\ r \in jobs => r \notin Reported
        /\ r \in Somewhere => Accepted(r)
        /\ Accepted(r) /\ ~timedOut => r \in Somewhere

\* While the plugin serves, what _SUBMITTING holds is queued, batched or a task.
AccountInv ==
    phase = "serving" =>
        \A r \in Requests :
            r \in submitting =>
                \/ r \in InQueue \cup batch
                \/ stage[r] \in Tasks /\ answer[r] = "pending"
CountedInv ==
    phase = "serving" => InQueue \cup batch \subseteq submitting

PlaceInv == ListedInv /\ TaskInv /\ FlushInv /\ ApartInv /\ AccountInv /\ CountedInv

-----------------------------------------------------------------------------
(***************************************************************************)
(* Preservation, one lemma per action or group of actions that move        *)
(* requests between the places in the same way.                            *)
(***************************************************************************)

\* Steps that only move requests within the waiting list, or touch nothing that a
\* place is made of.
LEMMA PlaceQuiet ==
  ASSUME PlaceInv, InLine' = InLine, InQueue' = InQueue,
         UNCHANGED <<submitting, jobs, stage, fpc, batch, group, unbatched,
                     answer, told, mute, timedOut>>,
         \/ phase' = phase
         \/ phase' \in {"releasing", "draining"} /\ phase # "stopped"
  PROVE  PlaceInv'
<1>e. /\ InLine' = InLine /\ InQueue' = InQueue /\ InBatch' = InBatch /\ InPool' = InPool
      /\ Listed' = Listed /\ Reported' = Reported /\ Somewhere' = Somewhere
      /\ \A r : Accepted(r)' = Accepted(r)
      /\ UNCHANGED <<submitting, jobs, stage, fpc, batch, group, unbatched, answer, timedOut>>
      /\ \/ phase' = phase
         \/ phase' \in {"releasing", "draining"} /\ phase # "stopped"
  BY DEF InBatch, InPool, Listed, Reported, Somewhere, Accepted
<1>1. ListedInv'
  BY <1>e DEF PlaceInv, ListedInv
<1>2. TaskInv'
  BY <1>e DEF PlaceInv, TaskInv
<1>3. FlushInv'
  BY <1>e DEF PlaceInv, FlushInv
<1>4. ApartInv'
  BY <1>e DEF PlaceInv, ApartInv
<1>5. AccountInv'
  BY <1>e DEF PlaceInv, AccountInv
<1>6. CountedInv'
  BY <1>e DEF PlaceInv, CountedInv
<1> QED
  BY <1>1, <1>2, <1>3, <1>4, <1>5, <1>6 DEF PlaceInv

\* A refused request is in no place, before and after.
LEMMA PlaceRefused ==
  ASSUME TypeOK, PlaceInv, NEW r \in Requests, answer[r] = "new",
         answer' = [answer EXCEPT ![r] = "refused"],
         InLine' = InLine, InQueue' = InQueue,
         UNCHANGED <<submitting, jobs, stage, fpc, batch, group, unbatched, told, mute,
                     phase, timedOut>>
  PROVE  PlaceInv'
<1>e. /\ answer'[r] = "refused" /\ \A q \in Requests \ {r} : answer'[q] = answer[q]
      /\ answer[r] = "new" /\ r \in Requests /\ InLine \cup InQueue \subseteq Requests
      /\ InLine' = InLine /\ InQueue' = InQueue
      /\ UNCHANGED <<submitting, jobs, stage, fpc, batch, group, unbatched, told, mute,
                     phase, timedOut>>
  BY RangeType DEF TypeOK, InLine, InQueue, Checked
<1>1. ListedInv'
  BY <1>e DEF PlaceInv, ListedInv, Listed
<1>2. TaskInv'
  BY <1>e DEF PlaceInv, TaskInv, Reported, Tasks
<1>3. FlushInv'
  BY <1>e DEF PlaceInv, FlushInv, Reported
<1>4. ApartInv'
  BY <1>e DEF PlaceInv, ApartInv, Accepted, Somewhere, Listed, InBatch, InPool,
              Reported
<1>5. AccountInv'
  BY <1>e DEF PlaceInv, AccountInv, Tasks
<1>6. CountedInv'
  BY <1>e DEF PlaceInv, CountedInv
<1> QED
  BY <1>1, <1>2, <1>3, <1>4, <1>5, <1>6 DEF PlaceInv

\* The members of the lists are requests.
LEMMA PlacesType ==
  TypeOK => /\ InLine \subseteq Requests /\ InQueue \subseteq Requests
            /\ batch \subseteq Requests /\ unbatched \subseteq Requests
BY RangeType DEF TypeOK, InLine, InQueue, Checked

\* A POST that waits joins the line, from nowhere.
LEMMA PlaceWaits ==
  ASSUME TypeOK, EachOnce, PlaceInv, PostWaits
  PROVE  PlaceInv'
<1>t. /\ pc = "post" /\ pc' = "idle" /\ item \in Requests /\ answer[item] = "new"
      /\ waiting' = Append(waiting, item) /\ UNCHANGED <<blocked, queue>>
      /\ answer' = [answer EXCEPT ![item] = "pending"]
  BY DEF PostWaits, PostEnds, Accept, TypeOK, EachOnce
<1>l. InLine' = InLine \cup {item} /\ InQueue' = InQueue
  BY <1>t, Appended DEF InLine, InQueue, Checked, TypeOK
<1>e. /\ item \in Requests /\ answer[item] = "new" /\ answer'[item] = "pending"
      /\ \A q \in Requests \ {item} : answer'[q] = answer[q]
      /\ InLine' = InLine \cup {item} /\ InQueue' = InQueue
      /\ Listed \subseteq Requests
      /\ UNCHANGED <<submitting, jobs, stage, fpc, batch, group, unbatched, told, mute,
                     phase, timedOut>>
  BY <1>t, <1>l, PlacesType DEF PostWaits, PostEnds, Accept, TypeOK, Listed
<1>1. ListedInv'
  BY <1>e DEF PlaceInv, ListedInv, Listed, TaskInv, Reported, Tasks
<1>2. TaskInv'
  BY <1>e DEF PlaceInv, TaskInv, Reported, Tasks
<1>3. FlushInv'
  BY <1>e DEF PlaceInv, FlushInv, Reported
<1>4. ApartInv'
  BY <1>e DEF PlaceInv, ApartInv, Accepted, Somewhere, Listed, InBatch, InPool,
              Reported
<1>5. AccountInv'
  BY <1>e DEF PlaceInv, AccountInv, Tasks
<1>6. CountedInv'
  BY <1>e DEF PlaceInv, CountedInv
<1> QED
  BY <1>1, <1>2, <1>3, <1>4, <1>5, <1>6 DEF PlaceInv

\* What a dispatch does to the places, when it does not come from the queue.
LEMMA DispatchPlaces ==
  ASSUME TypeOK, NEW r \in Requests, Dispatch(r)
  PROVE  /\ submitting' = submitting \cup {r} /\ jobs' = jobs
         /\ \/ InQueue' = InQueue \cup {r} /\ stage' = stage
            \/ /\ InQueue' = InQueue /\ stage'[r] = "pooled"
               /\ \A q \in Requests \ {r} : stage'[q] = stage[q]
<1>1. CASE Batchable(r)
  BY <1>1, Appended DEF Dispatch, InQueue, TypeOK
<1>2. CASE ~Batchable(r)
  BY <1>2 DEF Dispatch, InQueue, TypeOK
<1> QED
  BY <1>1, <1>2

\* A POST that is dispatched goes to the queue or to a pool, from nowhere.
LEMMA PlaceDispatched ==
  ASSUME TypeOK, EachOnce, PlaceInv, PostDispatched
  PROVE  PlaceInv'
<1>t. /\ pc = "post" /\ pc' = "idle" /\ item \in Requests /\ answer[item] = "new"
      /\ Dispatch(item) /\ UNCHANGED <<blocked, waiting>>
      /\ answer' = [answer EXCEPT ![item] = "pending"]
  BY DEF PostDispatched, PostEnds, Accept, TypeOK, EachOnce
<1>l. InLine' = InLine
  BY <1>t DEF InLine, Checked
<1>d. /\ submitting' = submitting \cup {item} /\ jobs' = jobs
      /\ \/ InQueue' = InQueue \cup {item} /\ stage' = stage
         \/ /\ InQueue' = InQueue /\ stage'[item] = "pooled"
            /\ \A q \in Requests \ {item} : stage'[q] = stage[q]
  BY <1>t, DispatchPlaces
<1>e. /\ item \in Requests /\ answer[item] = "new" /\ answer'[item] = "pending"
      /\ \A q \in Requests \ {item} : answer'[q] = answer[q]
      /\ InLine' = InLine /\ Listed \subseteq Requests
      /\ submitting' = submitting \cup {item}
      /\ \/ InQueue' = InQueue \cup {item} /\ stage' = stage
         \/ /\ InQueue' = InQueue /\ stage'[item] = "pooled"
            /\ \A q \in Requests \ {item} : stage'[q] = stage[q]
      /\ UNCHANGED <<jobs, fpc, batch, group, unbatched, told, mute, phase, timedOut>>
  BY <1>t, <1>l, <1>d, PlacesType DEF PostDispatched, PostEnds, Accept, TypeOK, Listed
<1>1. ListedInv'
  BY <1>e DEF PlaceInv, ListedInv, Listed, TaskInv, Reported, Tasks, Somewhere,
              ApartInv, Accepted
<1>2. TaskInv'
  BY <1>e DEF PlaceInv, TaskInv, Reported, Tasks
<1>3. FlushInv'
  BY <1>e DEF PlaceInv, FlushInv, Reported
<1>4. ApartInv'
  BY <1>e DEF PlaceInv, ApartInv, Accepted, Somewhere, Listed, InBatch, InPool,
              Reported
<1>5. AccountInv'
  BY <1>e DEF PlaceInv, AccountInv, Tasks
<1>6. CountedInv'
  BY <1>e DEF PlaceInv, CountedInv
<1> QED
  BY <1>1, <1>2, <1>3, <1>4, <1>5, <1>6 DEF PlaceInv

\* A POST whose handler awaits the submit goes to the pool, from nowhere.
LEMMA PlaceDirect ==
  ASSUME TypeOK, EachOnce, PlaceInv, PostDirect
  PROVE  PlaceInv'
<1>t. /\ pc = "post" /\ pc' = "idle" /\ item \in Requests /\ answer[item] = "new"
      /\ stage' = [stage EXCEPT ![item] = "pooled"] /\ UNCHANGED <<blocked, waiting, queue>>
      /\ answer' = [answer EXCEPT ![item] = "posted"]
  BY DEF PostDirect, PostEnds, Accept, TypeOK, EachOnce
<1>l. InLine' = InLine /\ InQueue' = InQueue
  BY <1>t DEF InLine, InQueue, Checked
<1>e. /\ item \in Requests /\ answer[item] = "new" /\ answer'[item] = "posted"
      /\ stage'[item] = "pooled"
      /\ \A q \in Requests \ {item} : answer'[q] = answer[q] /\ stage'[q] = stage[q]
      /\ InLine' = InLine /\ InQueue' = InQueue /\ Listed \subseteq Requests
      /\ UNCHANGED <<submitting, jobs, fpc, batch, group, unbatched, told, mute, phase,
                     timedOut>>
  BY <1>t, <1>l, PlacesType DEF PostDirect, PostEnds, Accept, TypeOK, Listed
<1>1. ListedInv'
  BY <1>e DEF PlaceInv, ListedInv, Listed
<1>2. TaskInv'
  BY <1>e DEF PlaceInv, TaskInv, Reported, Tasks
<1>3. FlushInv'
  BY <1>e DEF PlaceInv, FlushInv, Reported
<1>4. ApartInv'
  BY <1>e DEF PlaceInv, ApartInv, Accepted, Somewhere, Listed, InBatch, InPool,
              Reported
<1>5. AccountInv'
  BY <1>e DEF PlaceInv, AccountInv, Tasks
<1>6. CountedInv'
  BY <1>e DEF PlaceInv, CountedInv
<1> QED
  BY <1>1, <1>2, <1>3, <1>4, <1>5, <1>6 DEF PlaceInv

\* Every outcome of a POST.
LEMMA PlacePost == TypeOK /\ EachOnce /\ PlaceInv /\ Post => PlaceInv'
<1> SUFFICES ASSUME TypeOK, EachOnce, PlaceInv, Post PROVE PlaceInv'
  OBVIOUS
<1>1. CASE PostRefused
  <2>1. /\ pc = "post" /\ pc' = "idle" /\ item \in Requests /\ answer[item] = "new"
        /\ answer' = [answer EXCEPT ![item] = "refused"]
        /\ UNCHANGED <<blocked, waiting, queue>>
        /\ UNCHANGED <<submitting, jobs, stage, fpc, batch, group, unbatched, told, mute,
                       phase, timedOut>>
    BY <1>1 DEF PostRefused, PostEnds, TypeOK, EachOnce
  <2>2. InLine' = InLine /\ InQueue' = InQueue
    BY <2>1 DEF InLine, InQueue, Checked
  <2> QED
    BY <2>1, <2>2, PlaceRefused
<1> QED
  BY <1>1, PlaceWaits, PlaceDispatched, PlaceDirect DEF Post

\* What the drainer dispatches leaves the line for the queue or for a pool.
LEMMA PlaceDrainDispatch ==
  ASSUME TypeOK, EachOnce, PlaceInv, DrainDispatch
  PROVE  PlaceInv'
<1>t. /\ pc = "drainCheck" /\ pc' = "drain" /\ item \in Requests
      /\ Dispatch(item) /\ UNCHANGED <<blocked, waiting>>
  BY DEF DrainDispatch, TypeOK
<1>l. InLine' = InLine \ {item} /\ item \in InLine
  BY <1>t DEF InLine, Checked, EachOnce, Disjoint
<1>d. /\ submitting' = submitting \cup {item} /\ jobs' = jobs
      /\ \/ InQueue' = InQueue \cup {item} /\ stage' = stage
         \/ /\ InQueue' = InQueue /\ stage'[item] = "pooled"
            /\ \A q \in Requests \ {item} : stage'[q] = stage[q]
  BY <1>t, DispatchPlaces
<1>n. item \notin InQueue \cup batch
  BY <1>t DEF InQueue, Checked, EachOnce, Disjoint
<1>e. /\ item \in Requests /\ InLine' = InLine \ {item} /\ item \in InLine
      /\ item \notin InQueue \cup batch /\ item \notin unbatched
      /\ Listed \subseteq Requests
      /\ submitting' = submitting \cup {item}
      /\ \/ InQueue' = InQueue \cup {item} /\ stage' = stage
         \/ /\ InQueue' = InQueue /\ stage'[item] = "pooled"
            /\ \A q \in Requests \ {item} : stage'[q] = stage[q]
      /\ UNCHANGED <<jobs, fpc, batch, group, unbatched, told, mute, phase, timedOut, answer>>
  <2>1. item \notin unbatched
    BY <1>l, <1>t DEF PlaceInv, ApartInv, ListedInv, Listed
  <2> QED
    BY <1>t, <1>l, <1>d, <1>n, <2>1, PlacesType DEF DrainDispatch, TypeOK, Listed
<1>1. ListedInv'
  BY <1>e DEF PlaceInv, ListedInv, Listed
<1>2. TaskInv'
  BY <1>e DEF PlaceInv, TaskInv, Reported, Tasks, ListedInv, Listed
<1>3. FlushInv'
  BY <1>e DEF PlaceInv, FlushInv, Reported
<1>4. ApartInv'
  BY <1>e DEF PlaceInv, ApartInv, Accepted, Somewhere, Listed, InBatch, InPool,
              Reported, ListedInv
<1>5. AccountInv'
  BY <1>e DEF PlaceInv, AccountInv, Tasks, ListedInv, Listed
<1>6. CountedInv'
  BY <1>e DEF PlaceInv, CountedInv
<1> QED
  BY <1>1, <1>2, <1>3, <1>4, <1>5, <1>6 DEF PlaceInv

\* The other steps of a drain only move requests within the line.
LEMMA DrainLine ==
  ASSUME TypeOK, EachOnce, Drain, ~DrainDispatch
  PROVE  InLine' = InLine
<1>1. CASE DrainStart
  <2>1. pc' = "drain" /\ pc = "idle" /\ blocked' = blocked /\ waiting' = waiting
    BY <1>1 DEF DrainStart, EachOnce
  <2> QED
    BY <2>1 DEF InLine, Checked
<1>2. CASE DrainPop
  <2>1. /\ waiting # <<>> /\ item' = Head(waiting) /\ waiting' = Tail(waiting)
        /\ pc = "drain" /\ pc' = "drainCheck" /\ blocked' = blocked
    BY <1>2 DEF DrainPop
  <2>2. Range(waiting) = Range(waiting') \cup {item'}
    BY <2>1, Popped DEF TypeOK
  <2> QED
    BY <2>1, <2>2 DEF InLine, Checked
<1>3. CASE DrainBlocked
  <2>1. /\ pc = "drainCheck" /\ pc' = "drain" /\ item \in Requests
        /\ blocked' = Append(blocked, item) /\ waiting' = waiting
    BY <1>3 DEF DrainBlocked, TypeOK
  <2>2. Range(blocked') = Range(blocked) \cup {item}
    BY <2>1, Appended DEF TypeOK
  <2> QED
    BY <2>1, <2>2 DEF InLine, Checked
<1>4. CASE DrainStop
  <2>1. /\ pc = "drainCheck" /\ pc' = "idle" /\ item \in Requests
        /\ waiting' = Append(blocked, item) \o waiting /\ blocked' = <<>>
    BY <1>4 DEF DrainStop, PutBack, TypeOK
  <2>2. /\ Range(Append(blocked, item)) = Range(blocked) \cup {item}
        /\ Append(blocked, item) \in Seq(Requests)
    BY <2>1, Appended DEF TypeOK
  <2>3. Range(waiting') = Range(blocked) \cup {item} \cup Range(waiting)
    <3> DEFINE b == Append(blocked, item)
    <3>1. b \in Seq(Requests) /\ Range(b) = Range(blocked) \cup {item}
          /\ waiting' = b \o waiting
      BY <2>1, <2>2
    <3> HIDE DEF b
    <3> QED
      BY <3>1, Joined DEF TypeOK
  <2>4. Range(blocked') = {}
    BY <2>1 DEF Range
  <2> QED
    BY <2>1, <2>3, <2>4 DEF InLine, Checked
<1>5. CASE DrainEnd
  <2>1. /\ pc = "drain" /\ pc' = "idle"
        /\ waiting' = blocked \o waiting /\ blocked' = <<>>
    BY <1>5 DEF DrainEnd, PutBack
  <2>2. Range(waiting') = Range(blocked) \cup Range(waiting)
    BY <2>1, Joined DEF TypeOK
  <2>3. Range(blocked') = {}
    BY <2>1 DEF Range
  <2> QED
    BY <2>1, <2>2, <2>3 DEF InLine, Checked
<1> QED
  BY <1>1, <1>2, <1>3, <1>4, <1>5 DEF Drain

\* Every step of the drain.
LEMMA PlaceDrain == TypeOK /\ EachOnce /\ PlaceInv /\ Drain => PlaceInv'
<1> SUFFICES ASSUME TypeOK, EachOnce, PlaceInv, Drain PROVE PlaceInv'
  OBVIOUS
<1>1. CASE ~DrainDispatch
  <2>1. InLine' = InLine
    BY <1>1, DrainLine
  <2>2. /\ UNCHANGED <<submitting, jobs, stage, fpc, batch, group, unbatched,
                       answer, told, mute, timedOut>>
        /\ phase' = phase /\ queue' = queue
    BY <1>1 DEF Drain, DrainStart, DrainPop, DrainBlocked, DrainStop, DrainEnd
  <2>3. InQueue' = InQueue
    BY <2>2 DEF InQueue
  <2> QED
    BY <2>1, <2>2, <2>3, PlaceQuiet
<1> QED
  BY <1>1, PlaceDrainDispatch

\* A pool task that starts stays in its place.
LEMMA PlaceTaskStart ==
  ASSUME TypeOK, PlaceInv, NEW r \in Requests, TaskStart(r)
  PROVE  PlaceInv'
<1>e. /\ stage[r] = "pooled" /\ stage'[r] = "running"
      /\ \A q \in Requests \ {r} : stage'[q] = stage[q]
      /\ InLine' = InLine /\ InQueue' = InQueue /\ Listed \subseteq Requests
      /\ UNCHANGED <<submitting, jobs, fpc, batch, group, unbatched, told, mute, phase,
                     timedOut, answer>>
  BY PlacesType DEF TaskStart, TypeOK, Listed, InLine, InQueue, Checked
<1>1. ListedInv'
  BY <1>e DEF PlaceInv, ListedInv, Listed
<1>2. TaskInv'
  BY <1>e DEF PlaceInv, TaskInv, Reported, Tasks
<1>3. FlushInv'
  BY <1>e DEF PlaceInv, FlushInv, Reported
<1>4. ApartInv'
  BY <1>e DEF PlaceInv, ApartInv, Accepted, Somewhere, Listed, InBatch, InPool,
              Reported
<1>5. AccountInv'
  BY <1>e DEF PlaceInv, AccountInv, Tasks
<1>6. CountedInv'
  BY <1>e DEF PlaceInv, CountedInv
<1> QED
  BY <1>1, <1>2, <1>3, <1>4, <1>5, <1>6 DEF PlaceInv

\* A submit that succeeds turns its request into a job.
LEMMA PlaceTaskSubmit ==
  ASSUME TypeOK, PlaceInv, NEW r \in Requests, TaskSubmit(r)
  PROVE  PlaceInv'
<1>e. /\ stage[r] = "running" /\ stage'[r] = "submitted" /\ jobs' = jobs \cup {r}
      /\ \A q \in Requests \ {r} : stage'[q] = stage[q]
      /\ InLine' = InLine /\ InQueue' = InQueue /\ Listed \subseteq Requests
      /\ UNCHANGED <<submitting, fpc, batch, group, unbatched, told, mute, phase,
                     timedOut, answer>>
  BY PlacesType DEF TaskSubmit, Record, TypeOK, Listed, InLine, InQueue, Checked
<1>1. ListedInv'
  BY <1>e DEF PlaceInv, ListedInv, Listed
<1>2. TaskInv'
  BY <1>e DEF PlaceInv, TaskInv, Reported, Tasks
<1>3. FlushInv'
  BY <1>e DEF PlaceInv, FlushInv, Reported
<1>4. ApartInv'
  BY <1>e DEF PlaceInv, ApartInv, Accepted, Somewhere, Listed, InBatch, InPool,
              Reported, TaskInv, Tasks
<1>5. AccountInv'
  BY <1>e DEF PlaceInv, AccountInv, Tasks
<1>6. CountedInv'
  BY <1>e DEF PlaceInv, CountedInv
<1> QED
  BY <1>1, <1>2, <1>3, <1>4, <1>5, <1>6 DEF PlaceInv

\* A submit that raises reports the failure, or leaves that to the waiting handler.
LEMMA PlaceTaskFail ==
  ASSUME TypeOK, PlaceInv, NEW r \in Requests, TaskFail(r)
  PROVE  PlaceInv'
<1>r. \/ r \in submitting /\ Reported' = Reported \cup {r}
      \/ r \notin submitting /\ Reported' = Reported
  BY DEF TaskFail, ReportFailure, Reported
<1>e. /\ stage[r] = "running" /\ stage'[r] = "failed"
      /\ \/ r \in submitting /\ Reported' = Reported \cup {r}
         \/ r \notin submitting /\ Reported' = Reported
      /\ \A q \in Requests \ {r} : stage'[q] = stage[q]
      /\ InLine' = InLine /\ InQueue' = InQueue /\ Listed \subseteq Requests
      /\ UNCHANGED <<submitting, fpc, batch, group, unbatched, jobs, phase,
                     timedOut, answer>>
  BY <1>r, PlacesType DEF TaskFail, TypeOK, Listed, InLine, InQueue, Checked
<1>1. ListedInv'
  BY <1>e DEF PlaceInv, ListedInv, Listed
<1>2. TaskInv'
  BY <1>e DEF PlaceInv, TaskInv, Reported, Tasks
<1>3. FlushInv'
  BY <1>e DEF PlaceInv, FlushInv, Reported
<1>4. ApartInv'
  BY <1>e DEF PlaceInv, ApartInv, Accepted, Somewhere, Listed, InBatch, InPool,
              Reported, TaskInv, Tasks
<1>5. AccountInv'
  BY <1>e DEF PlaceInv, AccountInv, Tasks
<1>6. CountedInv'
  BY <1>e DEF PlaceInv, CountedInv
<1> QED
  BY <1>1, <1>2, <1>3, <1>4, <1>5, <1>6 DEF PlaceInv

\* A background task that ends leaves _SUBMITTING, not its place.
LEMMA PlaceTaskForget ==
  ASSUME TypeOK, PlaceInv, NEW r \in Requests, TaskForget(r)
  PROVE  PlaceInv'
<1>e. /\ stage[r] \in {"submitted", "failed"} /\ stage'[r] = "done"
      /\ r \in submitting /\ submitting' = submitting \ {r}
      /\ \A q \in Requests \ {r} : stage'[q] = stage[q]
      /\ InLine' = InLine /\ InQueue' = InQueue /\ Listed \subseteq Requests
      /\ UNCHANGED <<fpc, batch, group, unbatched, jobs, told, mute, phase, timedOut, answer>>
  BY PlacesType DEF TaskForget, Forget, TypeOK, Listed, InLine, InQueue, Checked
<1>1. ListedInv'
  BY <1>e DEF PlaceInv, ListedInv, Listed
<1>2. TaskInv'
  BY <1>e DEF PlaceInv, TaskInv, Reported, Tasks
<1>3. FlushInv'
  BY <1>e DEF PlaceInv, FlushInv, Reported
<1>4. ApartInv'
  BY <1>e DEF PlaceInv, ApartInv, Accepted, Somewhere, Listed, InBatch, InPool,
              Reported, TaskInv, Tasks
<1>5. AccountInv'
  BY <1>e DEF PlaceInv, AccountInv, Tasks
<1>6. CountedInv'
  BY <1>e DEF PlaceInv, CountedInv, ListedInv, Listed
<1> QED
  BY <1>1, <1>2, <1>3, <1>4, <1>5, <1>6 DEF PlaceInv

\* The handler that awaited a submit answers, and reports a failure itself.
LEMMA PlaceDirectReply ==
  ASSUME TypeOK, PlaceInv, NEW r \in Requests, DirectReply(r)
  PROVE  PlaceInv'
<1>r. \/ stage[r] = "failed" /\ Reported' = Reported \cup {r} /\ answer'[r] = "error"
      \/ stage[r] = "submitted" /\ Reported' = Reported /\ answer'[r] = "pending"
  BY DEF DirectReply, Reported, TypeOK
<1>e. /\ \/ stage[r] = "failed" /\ Reported' = Reported \cup {r} /\ answer'[r] = "error"
         \/ stage[r] = "submitted" /\ Reported' = Reported /\ answer'[r] = "pending"
      /\ stage'[r] = "done" /\ answer[r] = "posted"
      /\ \A q \in Requests \ {r} : stage'[q] = stage[q] /\ answer'[q] = answer[q]
      /\ InLine' = InLine /\ InQueue' = InQueue /\ Listed \subseteq Requests
      /\ UNCHANGED <<fpc, batch, group, unbatched, jobs, submitting, phase, timedOut>>
  BY <1>r, PlacesType DEF DirectReply, TypeOK, Listed, InLine, InQueue, Checked
<1>1. ListedInv'
  BY <1>e DEF PlaceInv, ListedInv, Listed
<1>2. TaskInv'
  BY <1>e DEF PlaceInv, TaskInv, Reported, Tasks
<1>3. FlushInv'
  BY <1>e DEF PlaceInv, FlushInv, Reported
<1>4. ApartInv'
  BY <1>e DEF PlaceInv, ApartInv, Accepted, Somewhere, Listed, InBatch, InPool,
              Reported, TaskInv, Tasks
<1>5. AccountInv'
  BY <1>e DEF PlaceInv, AccountInv, Tasks
<1>6. CountedInv'
  BY <1>e DEF PlaceInv, CountedInv
<1> QED
  BY <1>1, <1>2, <1>3, <1>4, <1>5, <1>6 DEF PlaceInv

\* A step about one request.
LEMMA PlaceRequest ==
  ASSUME TypeOK, EachOnce, PlaceInv, NEW r \in Requests,
         \/ PostInvalid(r) \/ PostRead(r) \/ DirectReply(r)
         \/ TaskStart(r) \/ TaskSubmit(r) \/ TaskFail(r) \/ TaskForget(r)
         \/ JobCloses(r)
  PROVE  PlaceInv'
<1>1. CASE PostInvalid(r)
  <2>1. /\ answer[r] = "new" /\ answer' = [answer EXCEPT ![r] = "refused"]
        /\ UNCHANGED <<waiting, queue, blocked, pc, item>>
        /\ UNCHANGED <<submitting, jobs, stage, fpc, batch, group, unbatched, told, mute,
                       phase, timedOut>>
    BY <1>1 DEF PostInvalid, Reachable
  <2>2. InLine' = InLine /\ InQueue' = InQueue
    BY <2>1 DEF InLine, InQueue, Checked
  <2> QED
    BY <2>1, <2>2, PlaceRefused
<1>2. CASE PostRead(r) \/ JobCloses(r)
  <2>1. /\ UNCHANGED <<waiting, queue, blocked>>
        /\ \/ pc = "idle" /\ pc' = "post"
           \/ UNCHANGED <<pc, item>>
        /\ UNCHANGED <<submitting, jobs, stage, fpc, batch, group, unbatched, answer,
                       told, mute, phase, timedOut>>
    BY <1>2 DEF PostRead, JobCloses
  <2>2. InLine' = InLine /\ InQueue' = InQueue
    BY <2>1 DEF InLine, InQueue, Checked
  <2> QED
    BY <2>1, <2>2, PlaceQuiet
<1> QED
  BY <1>1, <1>2, PlaceDirectReply, PlaceTaskStart, PlaceTaskSubmit, PlaceTaskFail,
     PlaceTaskForget

\* Taking one request off the queue into the batch.
LEMMA PlaceTake ==
  ASSUME TypeOK, EachOnce, PlaceInv, FlushTake \/ FlushGather
  PROVE  PlaceInv'
<1>t. /\ queue # <<>> /\ queue' = Tail(queue) /\ fpc \in {"first", "gather"}
      /\ fpc' = "gather" /\ phase # "stopped" /\ ~timedOut
      /\ batch' = batch \cup {Head(queue)}
      /\ UNCHANGED <<waiting, blocked, pc, item>>
  BY DEF FlushTake, FlushGather, FlusherTurn, PlaceInv, FlushInv
<1>q. /\ Head(queue) \in Requests /\ Range(queue) = Range(queue') \cup {Head(queue)}
      /\ Head(queue) \notin Range(queue')
  BY <1>t, Popped DEF TypeOK, EachOnce
<1>e. \E h \in Requests :
         /\ InQueue = InQueue' \cup {h} /\ h \notin InQueue'
         /\ batch' = batch \cup {h} /\ InLine' = InLine /\ ~timedOut
         /\ fpc \in {"first", "gather"} /\ fpc' = "gather" /\ phase # "stopped"
         /\ BatchEnabled
         /\ UNCHANGED <<submitting, jobs, stage, unbatched, answer, told, mute, phase,
                        timedOut, group>>
  BY <1>t, <1>q DEF FlushTake, FlushGather, FlusherTurn, InQueue, InLine, Checked
<1>1. ListedInv'
  BY <1>e DEF PlaceInv, ListedInv, Listed
<1>2. TaskInv'
  BY <1>e DEF PlaceInv, TaskInv, Reported, Tasks
<1>3. FlushInv'
  BY <1>e DEF PlaceInv, FlushInv, Reported
<1>4. ApartInv'
  BY <1>e DEF PlaceInv, ApartInv, Accepted, Somewhere, Listed, InBatch, InPool,
              Reported
<1>5. AccountInv'
  BY <1>e DEF PlaceInv, AccountInv, Tasks
<1>6. CountedInv'
  BY <1>e DEF PlaceInv, CountedInv
<1> QED
  BY <1>1, <1>2, <1>3, <1>4, <1>5, <1>6 DEF PlaceInv

\* Closing the batch, which takes the whole queue once the shutdown has begun.
LEMMA PlaceClose ==
  ASSUME TypeOK, EachOnce, PlaceInv, FlushClose
  PROVE  PlaceInv'
<1>t. /\ fpc = "gather" /\ fpc' \in {"flush", "dead"} /\ BatchEnabled
      /\ UNCHANGED <<waiting, blocked, pc, item>> /\ phase # "stopped"
      /\ \/ batch' = batch \cup Range(queue) /\ queue' = <<>> /\ phase # "serving"
         \/ batch' = batch /\ queue' = queue
      /\ UNCHANGED <<submitting, jobs, stage, group, unbatched, answer, told, mute, phase,
                     timedOut>>
  BY DEF FlushClose, FlushOrDie, TakeAll, FlusherTurn, Draining
<1>q. Range(<<>>) = {}
  BY DEF Range
<1>l. InLine' = InLine
  BY <1>t DEF InLine, Checked
<1>e. /\ fpc = "gather" /\ fpc' \in {"flush", "dead"} /\ BatchEnabled
      /\ InLine' = InLine /\ phase # "stopped"
      /\ \/ batch' = batch \cup InQueue /\ InQueue' = {}
         \/ batch' = batch /\ InQueue' = InQueue
      /\ UNCHANGED <<submitting, jobs, stage, group, unbatched, answer, told, mute, phase,
                     timedOut>>
  BY <1>t, <1>q, <1>l DEF InQueue
<1>1. ListedInv'
  BY <1>e DEF PlaceInv, ListedInv, Listed
<1>2. TaskInv'
  BY <1>e DEF PlaceInv, TaskInv, Reported, Tasks
<1>3. FlushInv'
  BY <1>e DEF PlaceInv, FlushInv, Reported
<1>4. ApartInv'
  BY <1>e DEF PlaceInv, ApartInv, Accepted, Somewhere, Listed, InBatch, InPool,
              Reported
<1>5. AccountInv'
  BY <1>e DEF PlaceInv, AccountInv, Tasks
<1>6. CountedInv'
  BY <1>e DEF PlaceInv, CountedInv
<1> QED
  BY <1>1, <1>2, <1>3, <1>4, <1>5, <1>6 DEF PlaceInv

\* A group of one signature is given to the pool; its requests stay in the batch.
LEMMA PlaceGroupStart ==
  ASSUME TypeOK, EachOnce, PlaceInv, GroupStart
  PROVE  PlaceInv'
<1>e. /\ fpc = "flush" /\ fpc' = "rpc" /\ BatchEnabled /\ phase # "stopped"
      /\ InLine' = InLine /\ InQueue' = InQueue /\ group' \subseteq batch
      /\ UNCHANGED <<submitting, jobs, stage, batch, unbatched, answer, told, mute, phase,
                     timedOut>>
  BY DEF GroupStart, FlusherTurn, InLine, InQueue, Checked
<1>1. ListedInv'
  BY <1>e DEF PlaceInv, ListedInv, Listed
<1>2. TaskInv'
  BY <1>e DEF PlaceInv, TaskInv, Reported, Tasks
<1>3. FlushInv'
  BY <1>e DEF PlaceInv, FlushInv, Reported
<1>4. ApartInv'
  BY <1>e DEF PlaceInv, ApartInv, Accepted, Somewhere, Listed, InBatch, InPool,
              Reported
<1>5. AccountInv'
  BY <1>e DEF PlaceInv, AccountInv, Tasks
<1>6. CountedInv'
  BY <1>e DEF PlaceInv, CountedInv
<1> QED
  BY <1>1, <1>2, <1>3, <1>4, <1>5, <1>6 DEF PlaceInv

\* The group's submit succeeds: its requests are jobs, all at once.
LEMMA PlaceGroupSubmit ==
  ASSUME TypeOK, EachOnce, PlaceInv, GroupSubmit
  PROVE  PlaceInv'
<1>e. /\ fpc = "rpc" /\ fpc' = "recorded" /\ jobs' = jobs \cup group
      /\ InLine' = InLine /\ InQueue' = InQueue /\ Listed \subseteq Requests
      /\ UNCHANGED <<submitting, stage, batch, group, unbatched, answer, told, mute, phase,
                     timedOut>>
  BY PlacesType DEF GroupSubmit, Record, Listed, InLine, InQueue, Checked
<1>1. ListedInv'
  BY <1>e DEF PlaceInv, ListedInv, Listed
<1>2. TaskInv'
  BY <1>e DEF PlaceInv, TaskInv, Reported, Tasks
<1>3. FlushInv'
  BY <1>e DEF PlaceInv, FlushInv, Reported
<1>4. ApartInv'
  BY <1>e DEF PlaceInv, ApartInv, Accepted, Somewhere, Listed, InBatch, InPool,
              Reported, FlushInv, ListedInv
<1>5. AccountInv'
  BY <1>e DEF PlaceInv, AccountInv, Tasks
<1>6. CountedInv'
  BY <1>e DEF PlaceInv, CountedInv
<1> QED
  BY <1>1, <1>2, <1>3, <1>4, <1>5, <1>6 DEF PlaceInv

\* The group's submit fails: every failure is reported, while the loop runs.
LEMMA PlaceGroupFail ==
  ASSUME TypeOK, EachOnce, PlaceInv, GroupFail
  PROVE  PlaceInv'
<1>r. \/ Reported' = Reported \cup group
      \/ Reported' = Reported /\ phase = "stopped"
  BY DEF GroupFail, ReportFailure, Reported
<1>e. /\ fpc = "rpc" /\ fpc' = "recorded"
      /\ \/ Reported' = Reported \cup group
         \/ Reported' = Reported /\ timedOut
      /\ InLine' = InLine /\ InQueue' = InQueue /\ Listed \subseteq Requests
      /\ UNCHANGED <<submitting, stage, batch, group, unbatched, answer, jobs, phase,
                     timedOut>>
  BY <1>r, PlacesType DEF GroupFail, Listed, InLine, InQueue, Checked, PlaceInv, FlushInv
<1>1. ListedInv'
  BY <1>e DEF PlaceInv, ListedInv, Listed
<1>2. TaskInv'
  BY <1>e DEF PlaceInv, TaskInv, Reported, Tasks
<1>3. FlushInv'
  BY <1>e DEF PlaceInv, FlushInv, Reported
<1>4. ApartInv'
  BY <1>e DEF PlaceInv, ApartInv, Accepted, Somewhere, Listed, InBatch, InPool,
              Reported, FlushInv, ListedInv
<1>5. AccountInv'
  BY <1>e DEF PlaceInv, AccountInv, Tasks
<1>6. CountedInv'
  BY <1>e DEF PlaceInv, CountedInv
<1> QED
  BY <1>1, <1>2, <1>3, <1>4, <1>5, <1>6 DEF PlaceInv

\* The last drain makes a batch of the queue, or leaves an empty batch and exits.
LEMMA LastDrainPlaces ==
  ASSUME LastDrain
  PROVE  \/ batch' = InQueue /\ InQueue' = {} /\ fpc' \in {"flush", "dead"}
         \/ batch' = {} /\ InQueue' = InQueue /\ fpc' = "exited"
<1>1. Range(<<>>) = {}
  BY DEF Range
<1>2. CASE ~final /\ queue # <<>>
  BY <1>1, <1>2 DEF LastDrain, FlushOrDie, InQueue
<1>3. CASE ~(~final /\ queue # <<>>)
  BY <1>3 DEF LastDrain, InQueue
<1> QED
  BY <1>2, <1>3

\* The group's requests leave the batch and _SUBMITTING: they have their outcome.
LEMMA PlaceGroupForget ==
  ASSUME TypeOK, EachOnce, PlaceInv, GroupForget
  PROVE  PlaceInv'
<1>t. /\ fpc = "recorded" /\ BatchEnabled /\ phase # "stopped" /\ ~timedOut
      /\ submitting' = submitting \ group /\ group' = {}
      /\ UNCHANGED <<waiting, blocked, pc, item>>
      /\ UNCHANGED <<jobs, stage, unbatched, answer, told, mute, phase, timedOut>>
  BY DEF GroupForget, FlusherTurn, Forget, PlaceInv, FlushInv
<1>b. \/ /\ batch \ group = {} /\ phase # "serving"
         /\ \/ batch' = InQueue /\ InQueue' = {} /\ fpc' \in {"flush", "dead"}
            \/ batch' = {} /\ InQueue' = InQueue /\ fpc' = "exited"
      \/ /\ batch' = batch \ group /\ InQueue' = InQueue
         /\ fpc' = IF batch \ group = {} THEN "first" ELSE "flush"
  <2>1. CASE batch \ group = {} /\ Draining
    <3>1. LastDrain /\ phase # "serving"
      BY <2>1 DEF GroupForget, Draining
    <3> QED
      BY <2>1, <3>1, LastDrainPlaces
  <2>2. CASE ~(batch \ group = {} /\ Draining)
    BY <2>2 DEF GroupForget, InQueue
  <2> QED
    BY <2>1, <2>2
<1>l. InLine' = InLine
  BY <1>t DEF InLine, Checked
<1>n. InQueue \cap batch = {}
  BY DEF InQueue, EachOnce, Disjoint
<1>e. /\ fpc = "recorded" /\ BatchEnabled /\ phase # "stopped" /\ ~timedOut
      /\ submitting' = submitting \ group /\ group' = {}
      /\ InLine' = InLine /\ Listed \subseteq Requests /\ InQueue \cap batch = {}
      /\ \/ /\ batch \ group = {} /\ phase # "serving"
            /\ \/ batch' = InQueue /\ InQueue' = {} /\ fpc' \in {"flush", "dead"}
               \/ batch' = {} /\ InQueue' = InQueue /\ fpc' = "exited"
         \/ /\ batch' = batch \ group /\ InQueue' = InQueue
            /\ fpc' = IF batch \ group = {} THEN "first" ELSE "flush"
      /\ UNCHANGED <<jobs, stage, unbatched, answer, told, mute, phase, timedOut>>
  BY <1>t, <1>b, <1>l, <1>n, PlacesType DEF Listed
<1>1. ListedInv'
  BY <1>e DEF PlaceInv, ListedInv, Listed
<1>2. TaskInv'
  BY <1>e DEF PlaceInv, TaskInv, Reported, Tasks, ListedInv, Listed, FlushInv
<1>3. FlushInv'
  BY <1>e DEF PlaceInv, FlushInv, Reported
<1>4. ApartInv'
  BY <1>e DEF PlaceInv, ApartInv, Accepted, Somewhere, Listed, InBatch, InPool,
              Reported, FlushInv
<1>5. AccountInv'
  BY <1>e DEF PlaceInv, AccountInv, Tasks
<1>6. CountedInv'
  BY <1>e DEF PlaceInv, CountedInv, FlushInv
<1> QED
  BY <1>1, <1>2, <1>3, <1>4, <1>5, <1>6 DEF PlaceInv

\* Woken while it awaits a first item, the flusher drains the queue or exits.
LEMMA PlaceFlushStop ==
  ASSUME TypeOK, EachOnce, PlaceInv, FlushStop
  PROVE  PlaceInv'
<1>l. /\ InLine' = InLine
      /\ \/ batch' = InQueue /\ InQueue' = {} /\ fpc' \in {"flush", "dead"}
         \/ batch' = {} /\ InQueue' = InQueue /\ fpc' = "exited"
  BY LastDrainPlaces DEF FlushStop, InLine, Checked
<1>e. /\ fpc = "first" /\ BatchEnabled /\ phase # "stopped" /\ phase # "serving"
      /\ InLine' = InLine
      /\ \/ batch' = InQueue /\ InQueue' = {} /\ fpc' \in {"flush", "dead"}
         \/ batch' = {} /\ InQueue' = InQueue /\ fpc' = "exited"
      /\ UNCHANGED <<jobs, stage, unbatched, answer, told, mute, phase, timedOut, submitting,
                     group>>
  BY <1>l DEF FlushStop, FlusherTurn, Draining
<1>1. ListedInv'
  BY <1>e DEF PlaceInv, ListedInv, Listed, FlushInv
<1>2. TaskInv'
  BY <1>e DEF PlaceInv, TaskInv, Reported, Tasks
<1>3. FlushInv'
  BY <1>e DEF PlaceInv, FlushInv, Reported
<1>4. ApartInv'
  BY <1>e DEF PlaceInv, ApartInv, Accepted, Somewhere, Listed, InBatch, InPool,
              Reported, FlushInv
<1>5. AccountInv'
  BY <1>e DEF PlaceInv, AccountInv, Tasks
<1>6. CountedInv'
  BY <1>e DEF PlaceInv, CountedInv
<1> QED
  BY <1>1, <1>2, <1>3, <1>4, <1>5, <1>6 DEF PlaceInv

\* Every step of the flusher.
LEMMA PlaceFlusher == TypeOK /\ EachOnce /\ PlaceInv /\ Flusher => PlaceInv'
BY PlaceTake, PlaceClose, PlaceGroupStart, PlaceGroupForget, PlaceFlushStop DEF Flusher

\* A released request goes to the flusher, or to those that will be reported.
LEMMA PlaceReleaseOne ==
  ASSUME TypeOK, EachOnce, PlaceInv, ReleaseOne, phase # "serving"
  PROVE  PlaceInv'
<1> DEFINE h == Head(waiting)
<1>t. /\ waiting # <<>> /\ waiting' = Tail(waiting) /\ pc = "release"
      /\ UNCHANGED <<blocked, pc, item>>
      /\ UNCHANGED <<jobs, stage, fpc, batch, group, answer, told, mute, phase, timedOut,
                     submitting>>
  BY DEF ReleaseOne
<1>w. /\ h \in Requests /\ Range(waiting) = Range(waiting') \cup {h}
      /\ h \notin Range(waiting')
  BY <1>t, Popped DEF TypeOK, EachOnce
<1>q. \/ InQueue' = InQueue \cup {h} /\ unbatched' = unbatched
      \/ InQueue' = InQueue /\ unbatched' = unbatched \cup {h}
  <2>1. CASE Batchable(h)
    <3>1. queue' = Append(queue, h) /\ unbatched' = unbatched
      BY <2>1 DEF ReleaseOne, HandOver
    <3> HIDE DEF h
    <3> QED
      BY <1>w, <3>1, Appended DEF InQueue, TypeOK
  <2>2. CASE ~Batchable(h)
    BY <2>2 DEF ReleaseOne, HandOver, InQueue
  <2> QED
    BY <2>1, <2>2
<1>l. InLine = InLine' \cup {h} /\ h \notin InLine' /\ h \notin InQueue \cup batch
  <2> HIDE DEF h
  <2>1. blocked = <<>> /\ Checked = {} /\ Checked' = {}
    BY <1>t DEF EachOnce, Checked
  <2>2. Range(<<>>) = {}
    BY DEF Range
  <2>3. InLine = Range(waiting) /\ InLine' = Range(waiting')
    BY <1>t, <2>1, <2>2 DEF InLine
  <2>4. h \notin InQueue \cup batch
    BY <1>w DEF InQueue, EachOnce, Disjoint
  <2> QED
    BY <1>w, <2>3, <2>4
<1>u. h \notin unbatched
  BY <1>w, <1>l DEF PlaceInv, ApartInv, ListedInv, Listed
<1> HIDE DEF h
<1>e. \E x \in Requests :
         /\ InLine = InLine' \cup {x} /\ x \notin InLine'
         /\ x \notin InQueue \cup batch \cup unbatched /\ phase # "serving"
         /\ \/ InQueue' = InQueue \cup {x} /\ unbatched' = unbatched
            \/ InQueue' = InQueue /\ unbatched' = unbatched \cup {x}
         /\ UNCHANGED <<jobs, stage, fpc, batch, group, answer, told, mute, phase,
                        timedOut, submitting>>
  BY <1>t, <1>w, <1>q, <1>l, <1>u
<1>1. ListedInv'
  BY <1>e DEF PlaceInv, ListedInv, Listed
<1>2. TaskInv'
  BY <1>e DEF PlaceInv, TaskInv, Reported, Tasks
<1>3. FlushInv'
  BY <1>e DEF PlaceInv, FlushInv, Reported
<1>4. ApartInv'
  BY <1>e DEF PlaceInv, ApartInv, Accepted, Somewhere, Listed, InBatch, InPool,
              Reported
<1>5. AccountInv'
  BY <1>e DEF PlaceInv, AccountInv, Tasks
<1>6. CountedInv'
  BY <1>e DEF PlaceInv, CountedInv
<1> QED
  BY <1>1, <1>2, <1>3, <1>4, <1>5, <1>6 DEF PlaceInv

\* What could not be given to the flusher is reported as failed.
LEMMA PlaceReportUnbatched ==
  ASSUME TypeOK, EachOnce, PlaceInv, ReportUnbatched
  PROVE  PlaceInv'
<1>e. /\ Reported' = Reported \cup unbatched /\ unbatched' = {}
      /\ phase = "releasing" /\ phase' = "draining"
      /\ InLine' = InLine /\ InQueue' = InQueue /\ Listed \subseteq Requests
      /\ UNCHANGED <<jobs, stage, fpc, batch, group, answer, timedOut, submitting>>
  BY PlacesType DEF ReportUnbatched, ReportFailure, Reported, Listed, InLine, InQueue, Checked
<1>1. ListedInv'
  BY <1>e DEF PlaceInv, ListedInv, Listed
<1>2. TaskInv'
  BY <1>e DEF PlaceInv, TaskInv, Reported, Tasks
<1>3. FlushInv'
  BY <1>e DEF PlaceInv, FlushInv, Reported
<1>4. ApartInv'
  BY <1>e DEF PlaceInv, ApartInv, Accepted, Somewhere, Listed, InBatch, InPool,
              Reported, ListedInv
<1>5. AccountInv'
  BY <1>e DEF PlaceInv, AccountInv, Tasks
<1>6. CountedInv'
  BY <1>e DEF PlaceInv, CountedInv
<1> QED
  BY <1>1, <1>2, <1>3, <1>4, <1>5, <1>6 DEF PlaceInv

\* The event loop stops, with its flusher done or not.
LEMMA PlaceStop ==
  ASSUME TypeOK, EachOnce, PlaceInv, StopLoop \/ DrainTimeout
  PROVE  PlaceInv'
<1>e. /\ phase' = "stopped" /\ InLine' = InLine /\ InQueue' = InQueue
      /\ \/ timedOut' = timedOut /\ (~BatchEnabled \/ fpc \in {"exited", "dead"})
         \/ timedOut' = TRUE
      /\ UNCHANGED <<jobs, stage, fpc, batch, group, answer, unbatched, told, mute, submitting>>
  BY DEF StopLoop, DrainTimeout, InLine, InQueue, Checked
<1>1. ListedInv'
  BY <1>e DEF PlaceInv, ListedInv, Listed
<1>2. TaskInv'
  BY <1>e DEF PlaceInv, TaskInv, Reported, Tasks
<1>3. FlushInv'
  BY <1>e DEF PlaceInv, FlushInv, Reported
<1>4. ApartInv'
  BY <1>e DEF PlaceInv, ApartInv, Accepted, Somewhere, Listed, InBatch, InPool,
              Reported
<1>5. AccountInv'
  BY <1>e DEF PlaceInv, AccountInv, Tasks
<1>6. CountedInv'
  BY <1>e DEF PlaceInv, CountedInv
<1> QED
  BY <1>1, <1>2, <1>3, <1>4, <1>5, <1>6 DEF PlaceInv

\* Every step of the shutdown.
LEMMA PlaceShutdown ==
  ASSUME TypeOK, EachOnce, PlaceInv, pc = "release" => phase = "releasing",
         Sigterm \/ Shutdown \/ DrainTimeout
  PROVE  PlaceInv'
<1>1. CASE Sigterm
  <2>1. /\ pc = "idle" /\ pc' = "release" /\ phase = "serving" /\ phase' = "releasing"
        /\ UNCHANGED <<waiting, queue, blocked>>
        /\ UNCHANGED <<submitting, jobs, stage, fpc, batch, group, unbatched, answer,
                       told, mute, timedOut>>
    BY <1>1 DEF Sigterm
  <2>2. InLine' = InLine /\ InQueue' = InQueue
    BY <2>1 DEF InLine, InQueue, Checked
  <2> QED
    BY <2>1, <2>2, PlaceQuiet
<1>2. CASE ReleaseEnd
  <2>1. /\ pc = "release" /\ pc' = "idle" /\ phase = "releasing"
        /\ phase' \in {"releasing", "draining"} /\ UNCHANGED <<waiting, queue, blocked>>
        /\ UNCHANGED <<submitting, jobs, stage, fpc, batch, group, unbatched, answer,
                       told, mute, timedOut>>
    BY <1>2 DEF ReleaseEnd
  <2>2. InLine' = InLine /\ InQueue' = InQueue
    BY <2>1 DEF InLine, InQueue, Checked
  <2> QED
    BY <2>1, <2>2, PlaceQuiet
<1>3. CASE ReleaseOne
  <2>1. phase # "serving"
    BY <1>3 DEF ReleaseOne
  <2> QED
    BY <1>3, <2>1, PlaceReleaseOne
<1> QED
  BY <1>1, <1>2, <1>3, PlaceReportUnbatched, PlaceStop DEF Shutdown

\* The adopted jobs are none of the requests that are placed.
LEMMA PlaceRehydrate ==
  ASSUME TypeOK, EachOnce, PlaceInv, Rehydrate
  PROVE  PlaceInv'
<1>e. /\ jobs' = jobs \cup Inherited /\ InLine' = InLine /\ InQueue' = InQueue
      /\ UNCHANGED <<stage, fpc, batch, group, answer, unbatched, told, mute, submitting,
                     phase, timedOut>>
  BY DEF Rehydrate, Record, InLine, InQueue, Checked
<1>1. ListedInv'
  BY <1>e DEF PlaceInv, ListedInv, Listed
<1>2. TaskInv'
  BY <1>e DEF PlaceInv, TaskInv, Reported, Tasks
<1>3. FlushInv'
  BY <1>e DEF PlaceInv, FlushInv, Reported
<1>4. ApartInv'
  BY <1>e DEF PlaceInv, ApartInv, Accepted, Somewhere, Listed, InBatch, InPool,
              Reported
<1>5. AccountInv'
  BY <1>e DEF PlaceInv, AccountInv, Tasks
<1>6. CountedInv'
  BY <1>e DEF PlaceInv, CountedInv
<1> QED
  BY <1>1, <1>2, <1>3, <1>4, <1>5, <1>6 DEF PlaceInv

\* The list is released, and what has no flusher set aside, after the shutdown began.
ReleaseInv ==
    /\ pc = "release" => phase = "releasing"
    /\ unbatched # {} => phase = "releasing"

\* Every step keeps it.
LEMMA ReleaseStep == ReleaseInv /\ [Next]_vars => ReleaseInv'
<1> SUFFICES ASSUME ReleaseInv, [Next]_vars PROVE ReleaseInv'
  OBVIOUS
<1>1. CASE UNCHANGED vars
  BY <1>1 DEF ReleaseInv
<1>2. CASE Post
  BY <1>2 DEF ReleaseInv, Post, PostRefused, PostWaits, PostDispatched, PostDirect, PostEnds
<1>3. CASE Drain
  BY <1>3 DEF ReleaseInv, Drain, DrainStart, DrainPop, DrainDispatch, DrainBlocked,
              DrainStop, DrainEnd
<1>4. CASE Flusher \/ GroupRpc \/ Rehydrate
  BY <1>4 DEF ReleaseInv, Flusher, FlushTake, FlushGather, FlushClose, GroupStart,
              GroupForget, FlushStop, GroupRpc, GroupSubmit, GroupFail, Rehydrate
<1>5. CASE Sigterm \/ Shutdown \/ DrainTimeout
  BY <1>5 DEF ReleaseInv, Sigterm, Shutdown, ReleaseOne, ReleaseEnd, ReportUnbatched,
              StopLoop, DrainTimeout, HandOver
<1>6. ASSUME NEW r \in Requests,
             \/ PostInvalid(r) \/ PostRead(r) \/ DirectReply(r)
             \/ TaskStart(r) \/ TaskSubmit(r) \/ TaskFail(r) \/ TaskForget(r)
             \/ JobCloses(r)
      PROVE  ReleaseInv'
  BY <1>6 DEF ReleaseInv, PostInvalid, PostRead, DirectReply, TaskStart, TaskSubmit,
              TaskFail, TaskForget, JobCloses
<1> QED
  BY <1>1, <1>2, <1>3, <1>4, <1>5, <1>6 DEF Next

\* At the start every place is empty and no request is taken on.
LEMMA PlaceInit == Init => PlaceInv /\ ReleaseInv
<1> SUFFICES ASSUME Init PROVE PlaceInv /\ ReleaseInv
  OBVIOUS
<1>1. Range(<<>>) = {}
  BY DEF Range
<1>e. /\ InLine = {} /\ InQueue = {} /\ InBatch = {} /\ InPool = {} /\ Reported = {}
      /\ unbatched = {} /\ batch = {} /\ submitting = {} /\ jobs = {}
      /\ fpc = "first" /\ ~timedOut /\ phase = "serving" /\ pc = "idle"
      /\ \A r \in Requests : /\ stage[r] = "none"
                             /\ answer[r] = IF r \in Inherited THEN "pending" ELSE "new"
  BY <1>1 DEF Init, InLine, InQueue, InBatch, InPool, Reported, Checked
<1>2. Listed = {} /\ Somewhere = {}
  BY <1>e DEF Listed, Somewhere
<1>3. ListedInv /\ TaskInv /\ FlushInv
  BY <1>e, <1>2 DEF ListedInv, TaskInv, FlushInv, Tasks
<1>4. ApartInv /\ AccountInv /\ CountedInv
  BY <1>e, <1>2 DEF ApartInv, AccountInv, CountedInv, Accepted
<1> QED
  BY <1>e, <1>3, <1>4 DEF PlaceInv, ReleaseInv

\* No step of the plugin, and no stutter, puts a request in two places or in none.
LEMMA PlaceStep ==
  TypeOK /\ EachOnce /\ ReleaseInv /\ PlaceInv /\ [Next]_vars => PlaceInv'
<1> SUFFICES ASSUME TypeOK, EachOnce, ReleaseInv, PlaceInv, [Next]_vars PROVE PlaceInv'
  OBVIOUS
<1>1. CASE UNCHANGED vars
  <2>1. /\ InLine' = InLine /\ InQueue' = InQueue /\ phase' = phase
        /\ UNCHANGED <<submitting, jobs, stage, fpc, batch, group, unbatched, answer,
                       told, mute, timedOut>>
    BY <1>1 DEF InLine, InQueue, Checked
  <2> QED
    BY <2>1, PlaceQuiet
<1>2. CASE Sigterm \/ Shutdown \/ DrainTimeout
  BY <1>2, PlaceShutdown DEF ReleaseInv
<1>3. CASE GroupRpc
  BY <1>3, PlaceGroupSubmit, PlaceGroupFail DEF GroupRpc
<1>4. CASE Next
  BY <1>2, <1>3, <1>4, PlacePost, PlaceDrain, PlaceRequest, PlaceFlusher, PlaceRehydrate
     DEF Next
<1> QED
  BY <1>1, <1>4

\* What the theorems below rest on.
LEMMA PlacesAlways == Spec => [](TypeOK /\ EachOnce /\ ReleaseInv /\ PlaceInv)
<1>1. Init => ReleaseInv /\ PlaceInv
  BY PlaceInit
<1>2. ReleaseInv /\ [Next]_vars => ReleaseInv'
  BY ReleaseStep
<1>3. TypeOK /\ EachOnce /\ ReleaseInv /\ PlaceInv /\ [Next]_vars => PlaceInv'
  BY PlaceStep
<1> QED
  BY <1>1, <1>2, <1>3, TypeCorrect, ListedOnce, PTL DEF Spec

-----------------------------------------------------------------------------
(***************************************************************************)
(* The theorems                                                            *)
(***************************************************************************)

\* The waiting list as a drain puts it together again has the members of the line.
LEMMA LineMembers ==
  ASSUME NEW b \in Seq(Requests), NEW c \in Seq(Requests), NEW w \in Seq(Requests)
  PROVE  /\ b \o c \o w \in Seq(Requests)
         /\ Range(b \o c \o w) = Range(b) \cup Range(c) \cup Range(w)
<1> DEFINE bc == b \o c
<1>1. bc \in Seq(Requests) /\ Range(bc) = Range(b) \cup Range(c)
  BY Joined
<1> HIDE DEF bc
<1>2. bc \o w \in Seq(Requests) /\ Range(bc \o w) = Range(bc) \cup Range(w)
  BY <1>1, Joined
<1> QED
  BY <1>1, <1>2 DEF bc

\* The member that a drain has in hand, as a list.
LEMMA CheckedList ==
  TypeOK => LET c == IF pc = "drainCheck" THEN <<item>> ELSE <<>>
            IN  c \in Seq(Requests) /\ Range(c) = Checked
<1> SUFFICES ASSUME TypeOK
             PROVE  LET c == IF pc = "drainCheck" THEN <<item>> ELSE <<>>
                    IN  c \in Seq(Requests) /\ Range(c) = Checked
  OBVIOUS
<1>1. CASE pc = "drainCheck"
  <2>1. item \in Requests
    BY <1>1 DEF TypeOK
  <2>2. <<item>> \in Seq(Requests) /\ Range(<<item>>) = {item}
    BY <2>1 DEF Range
  <2> QED
    BY <1>1, <2>2 DEF Checked
<1>2. CASE pc # "drainCheck"
  BY <1>2 DEF Checked, Range
<1> QED
  BY <1>1, <1>2

\* Range(Line) is the set that the invariants speak of.
LEMMA LineRange == TypeOK => Line \in Seq(Requests) /\ Range(Line) = InLine
<1> SUFFICES ASSUME TypeOK PROVE Line \in Seq(Requests) /\ Range(Line) = InLine
  OBVIOUS
<1> DEFINE c == IF pc = "drainCheck" THEN <<item>> ELSE <<>>
<1>1. c \in Seq(Requests) /\ Range(c) = Checked
  BY CheckedList
<1>2. Line = blocked \o c \o waiting /\ blocked \in Seq(Requests) /\ waiting \in Seq(Requests)
  BY DEF Line, TypeOK
<1> HIDE DEF c
<1> QED
  BY <1>1, <1>2, LineMembers DEF InLine

\* _SUBMITTING is at every moment, while the plugin serves, the dispatched requests
\* with no outcome: nothing stays behind to hold a cap, nothing leaves early.
THEOREM SubmittingExact == Spec => []SubmittingAccounts
<1>1. TypeOK /\ PlaceInv => SubmittingAccounts
  <2> SUFFICES ASSUME TypeOK, PlaceInv, phase = "serving"
               PROVE  submitting = InQueue \cup batch
                          \cup {r \in Requests : stage[r] \in Tasks /\ answer[r] = "pending"}
    BY DEF SubmittingAccounts, InQueue, Tasks
  <2>1. ASSUME NEW r \in Requests, stage[r] \in Tasks, answer[r] = "pending"
        PROVE  r \in submitting
    BY <2>1 DEF PlaceInv, TaskInv
  <2>2. submitting \subseteq Requests
    BY DEF TypeOK
  <2>3. InQueue \cup batch \subseteq submitting
    BY DEF PlaceInv, CountedInv
  <2>4. \A r \in submitting : \/ r \in InQueue \cup batch
                              \/ stage[r] \in Tasks /\ answer[r] = "pending"
    BY <2>2 DEF PlaceInv, AccountInv
  <2> QED
    BY <2>1, <2>2, <2>3, <2>4
<1> QED
  BY <1>1, PlacesAlways, PTL

\* An accepted request is in exactly one of its seven places as long as the event
\* loop runs, whatever its route: it is never submitted twice, never both submitted
\* and reported as failed, never lost between the lists; a request that was not
\* accepted is in none.
THEOREM PlacedOnce == Spec => []OnePlace
<1>1. TypeOK /\ PlaceInv => OnePlace
  <2> SUFFICES ASSUME TypeOK, PlaceInv, phase # "stopped", NEW r \in Requests \ Inherited
               PROVE  Cardinality({p \in Places : At(r, p)}) = IF Accepted(r) THEN 1 ELSE 0
    BY DEF OnePlace
  <2> DEFINE S == {p \in Places : At(r, p)}
  <2>1. /\ At(r, "line") <=> r \in InLine
        /\ At(r, "queue") <=> r \in InQueue
        /\ At(r, "batch") <=> r \in InBatch
        /\ At(r, "pool") <=> r \in InPool
        /\ At(r, "unbatched") <=> r \in unbatched
        /\ At(r, "jobs") <=> r \in jobs
        /\ At(r, "reported") <=> r \in Reported
    BY LineRange DEF At, InQueue, InBatch, InPool, Reported
  <2>2. ~timedOut /\ ApartInv /\ FlushInv
    BY DEF PlaceInv, FlushInv
  <2>3. r \in Somewhere <=> r \in InLine \cup InQueue \cup batch \cup unbatched
                                  \cup InPool \cup jobs \cup Reported
    BY DEF Somewhere, Listed
  <2>4. r \in batch => r \in InBatch \cup jobs \cup Reported
    BY <2>2 DEF FlushInv, InBatch
  <2>5. CASE Accepted(r)
    <3>1. r \in InLine \cup InQueue \cup InBatch \cup InPool \cup unbatched \cup jobs
                  \cup Reported
      BY <2>2, <2>3, <2>4, <2>5 DEF ApartInv
    <3>2. PICK p \in Places : S = {p}
      <4>1. CASE r \in InLine
        <5>1. S = {"line"}
          BY <2>1, <2>2, <4>1 DEF ApartInv, Places
        <5> QED
          BY <5>1 DEF Places
      <4>2. CASE r \in InQueue
        <5>1. S = {"queue"}
          BY <2>1, <2>2, <4>2 DEF ApartInv, Places
        <5> QED
          BY <5>1 DEF Places
      <4>3. CASE r \in InBatch
        <5>1. S = {"batch"}
          BY <2>1, <2>2, <4>3 DEF ApartInv, Places
        <5> QED
          BY <5>1 DEF Places
      <4>4. CASE r \in InPool
        <5>1. S = {"pool"}
          BY <2>1, <2>2, <4>4 DEF ApartInv, Places
        <5> QED
          BY <5>1 DEF Places
      <4>5. CASE r \in unbatched
        <5>1. S = {"unbatched"}
          BY <2>1, <2>2, <4>5 DEF ApartInv, Places
        <5> QED
          BY <5>1 DEF Places
      <4>6. CASE r \in jobs
        <5>1. S = {"jobs"}
          BY <2>1, <2>2, <4>6 DEF ApartInv, Places
        <5> QED
          BY <5>1 DEF Places
      <4>7. CASE r \in Reported
        <5>1. S = {"reported"}
          BY <2>1, <2>2, <4>7 DEF ApartInv, Places
        <5> QED
          BY <5>1 DEF Places
      <4> QED
        BY <3>1, <4>1, <4>2, <4>3, <4>4, <4>5, <4>6, <4>7
    <3> HIDE DEF S
    <3>3. Cardinality(S) = 1
      BY <3>2, FS_Singleton
    <3> QED
      BY <2>5, <3>3 DEF S
  <2>6. CASE ~Accepted(r)
    <3>1. r \notin InLine \cup InQueue \cup InBatch \cup InPool \cup unbatched \cup jobs
                     \cup Reported
      BY <2>2, <2>3, <2>6 DEF ApartInv, InBatch
    <3>2. S = {}
      BY <2>1, <3>1 DEF Places
    <3> HIDE DEF S
    <3>3. Cardinality(S) = 0
      BY <3>2, FS_EmptySet
    <3> QED
      BY <2>6, <3>3 DEF S
  <2> QED
    BY <2>5, <2>6
<1> QED
  BY <1>1, PlacesAlways, PTL

-----------------------------------------------------------------------------
(***************************************************************************)
(* Nothing is dropped by a shutdown that ends in time, when no request     *)
(* arrives on a connection that outlives the listener and no batchable     *)
(* request has a signature that raises: TLC refutes FlusherAlive without   *)
(* the second, and a request that arrives after the last drain stays in    *)
(* the queue without the first.                                            *)
(***************************************************************************)
Orderly == Lingering \subseteq Invalid /\ \A r \in Malformed : ~Batchable(r)

\* Once the shutdown has released the waiting list nothing enters it, nothing enters
\* the queue behind the last drain, and the flusher never dies of a signature.
ShutInv ==
    /\ phase # "serving" => /\ pc \in {"idle", "release"}
                            /\ pc = "idle" => waiting = <<>>
    /\ \A r \in InQueue \cup batch : Batchable(r)
    /\ fpc # "dead"
    /\ final \/ fpc = "exited" => phase \in {"draining", "stopped"} /\ queue = <<>>

\* The handler puts only batchable requests on the queue, and only while it serves.
LEMMA ShutDispatch ==
  ASSUME TypeOK, NEW r \in Requests, Dispatch(r)
  PROVE  \A q \in InQueue' : q \in InQueue \/ Batchable(q)
<1>1. CASE Batchable(r)
  <2>1. InQueue' = InQueue \cup {r}
    BY <1>1, Appended DEF Dispatch, InQueue, TypeOK
  <2> QED
    BY <1>1, <2>1
<1>2. CASE ~Batchable(r)
  BY <1>2 DEF Dispatch, InQueue
<1> QED
  BY <1>1, <1>2

\* A post comes while the program serves, and queues only what can be batched.
LEMMA ShutPost == TypeOK /\ ShutInv /\ Post => ShutInv'
<1> SUFFICES ASSUME TypeOK, ShutInv, Post PROVE ShutInv'
  OBVIOUS
<1>1. /\ pc = "post" /\ phase = "serving" /\ item \in Requests
      /\ UNCHANGED <<unbatched, phase, batch, fpc, final>>
  BY DEF Post, PostRefused, PostWaits, PostDispatched, PostDirect, PostEnds, ShutInv, TypeOK
<1>2. \A q \in InQueue' : q \in InQueue \/ Batchable(q)
  <2>1. CASE PostDispatched
    BY <1>1, <2>1, ShutDispatch DEF PostDispatched
  <2>2. CASE ~PostDispatched
    BY <2>2 DEF Post, PostRefused, PostWaits, PostDirect, InQueue
  <2> QED
    BY <2>1, <2>2
<1> QED
  BY <1>1, <1>2 DEF ShutInv

\* The drainer of the waiting list runs while the program serves, and queues alike.
LEMMA ShutDrain == TypeOK /\ ShutInv /\ Drain => ShutInv'
<1> SUFFICES ASSUME TypeOK, ShutInv, Drain PROVE ShutInv'
  OBVIOUS
<1>1. /\ phase = "serving" /\ UNCHANGED <<unbatched, phase, batch, fpc, final>>
  BY DEF Drain, DrainStart, DrainPop, DrainDispatch, DrainBlocked, DrainStop, DrainEnd,
         ShutInv
<1>2. \A q \in InQueue' : q \in InQueue \/ Batchable(q)
  <2>1. CASE DrainDispatch
    <3>1. item \in Requests /\ Dispatch(item)
      BY <2>1 DEF DrainDispatch, TypeOK
    <3> QED
      BY <3>1, ShutDispatch
  <2>2. CASE ~DrainDispatch
    BY <2>2 DEF Drain, DrainStart, DrainPop, DrainBlocked, DrainStop, DrainEnd, InQueue
  <2> QED
    BY <2>1, <2>2
<1> QED
  BY <1>1, <1>2 DEF ShutInv

\* A POST cannot start once the shutdown has begun.
LEMMA ShutRequest ==
  ASSUME ShutInv, Orderly, NEW r \in Requests,
         \/ PostInvalid(r) \/ PostRead(r) \/ DirectReply(r)
         \/ TaskStart(r) \/ TaskSubmit(r) \/ TaskFail(r) \/ TaskForget(r)
         \/ JobCloses(r)
  PROVE  ShutInv'
<1>1. CASE PostRead(r)
  <2>1. phase = "serving"
    BY <1>1 DEF PostRead, Reachable, Orderly
  <2> QED
    BY <1>1, <2>1 DEF PostRead, ShutInv, InQueue
<1>2. CASE ~PostRead(r)
  BY <1>2 DEF PostInvalid, DirectReply, TaskStart, TaskSubmit, TaskFail, TaskForget,
              JobCloses, ShutInv, InQueue
<1> QED
  BY <1>1, <1>2

\* The last drain happens once, and leaves the queue empty.
LEMMA ShutLastDrain ==
  ASSUME ShutInv, Orderly, LastDrain, phase \in {"draining", "stopped"}
  PROVE  /\ \A r \in InQueue' \cup batch' : Batchable(r)
         /\ fpc' # "dead" /\ queue' = <<>>
<1>1. Range(<<>>) = {}
  BY DEF Range
<1>2. CASE ~final /\ queue # <<>>
  <2>1. batch' = InQueue /\ queue' = <<>> /\ FlushOrDie(batch')
    BY <1>2 DEF LastDrain, InQueue
  <2>2. batch' \cap Malformed = {}
    BY <2>1 DEF ShutInv, Orderly
  <2> QED
    BY <1>1, <2>1, <2>2 DEF FlushOrDie, InQueue, ShutInv
<1>3. CASE ~(~final /\ queue # <<>>)
  <2>1. batch' = {} /\ fpc' = "exited" /\ queue' = queue /\ queue = <<>>
    BY <1>3 DEF LastDrain, ShutInv
  <2> QED
    BY <1>1, <2>1 DEF InQueue
<1> QED
  BY <1>2, <1>3

\* The flusher survives its batches, and its last drain empties the queue.
LEMMA ShutFlusher == TypeOK /\ ShutInv /\ Orderly /\ Flusher => ShutInv'
<1> SUFFICES ASSUME TypeOK, ShutInv, Orderly, Flusher PROVE ShutInv'
  OBVIOUS
<1>0. UNCHANGED <<unbatched, phase, pc, waiting>>
  BY DEF Flusher, FlushTake, FlushGather, FlushClose, GroupStart, GroupForget, FlushStop
\* It is enough that the flusher keeps to batchable requests and its own end.
<1>a. ASSUME \A r \in InQueue' \cup batch' : Batchable(r), fpc' # "dead",
             final' \/ fpc' = "exited" =>
                 phase \in {"draining", "stopped"} /\ queue' = <<>>
      PROVE  ShutInv'
  BY <1>0, <1>a DEF ShutInv
<1>1. CASE FlushTake \/ FlushGather
  <2>1. /\ queue # <<>> /\ queue' = Tail(queue) /\ final' = final /\ fpc' = "gather"
        /\ batch' \subseteq batch \cup {Head(queue)}
    BY <1>1 DEF FlushTake, FlushGather
  <2>2. InQueue = InQueue' \cup {Head(queue)}
    BY <2>1, Popped DEF TypeOK, InQueue
  <2>3. ~final
    BY <2>1 DEF ShutInv
  <2>4. \A r \in InQueue' \cup batch' : Batchable(r)
    BY <2>1, <2>2 DEF ShutInv
  <2> QED
    BY <1>a, <2>1, <2>3, <2>4
<1>2. CASE FlushClose
  <2>1. /\ InQueue' \cup batch' \subseteq InQueue \cup batch /\ final' = final
        /\ queue = <<>> => queue' = <<>>
    <3>1. Range(<<>>) = {}
      BY DEF Range
    <3> QED
      BY <1>2, <3>1 DEF FlushClose, TakeAll, InQueue
  <2>2. \A r \in InQueue' \cup batch' : Batchable(r)
    BY <2>1 DEF ShutInv
  <2>3. fpc' = "flush"
    BY <1>2, <2>2 DEF FlushClose, FlushOrDie, Orderly
  <2> QED
    BY <1>a, <2>1, <2>2, <2>3 DEF ShutInv
<1>3. CASE GroupStart
  BY <1>3 DEF GroupStart, ShutInv, InQueue
<1>4. CASE GroupForget
  <2>1. CASE batch \ group = {} /\ Draining
    BY <1>4, <1>a, <2>1, ShutLastDrain DEF GroupForget, Draining
  <2>2. CASE ~(batch \ group = {} /\ Draining)
    <3>1. /\ batch' = batch \ group /\ queue' = queue /\ final' = final
          /\ fpc' \in {"first", "flush"}
      BY <1>4, <2>2 DEF GroupForget
    <3> QED
      BY <1>a, <3>1 DEF ShutInv, InQueue
  <2> QED
    BY <2>1, <2>2
<1>5. CASE FlushStop
  BY <1>5, <1>a, ShutLastDrain DEF FlushStop, Draining
<1> QED
  BY <1>1, <1>2, <1>3, <1>4, <1>5 DEF Flusher

\* The shutdown releases the list into the queue, or sets aside what no flusher takes.
LEMMA ShutShutdown ==
  ASSUME TypeOK, ReleaseInv, ShutInv, Sigterm \/ Shutdown \/ DrainTimeout
  PROVE  ShutInv'
<1>1. CASE ReleaseOne
  <2>1. /\ waiting # <<>> /\ pc = "release" /\ pc' = "release" /\ phase = "releasing"
        /\ UNCHANGED <<phase, batch, fpc, final>> /\ HandOver(Head(waiting))
    BY <1>1 DEF ReleaseOne, ReleaseInv
  <2>2. Head(waiting) \in Requests
    BY <2>1, Popped DEF TypeOK
  <2>3. \A q \in InQueue' : q \in InQueue \/ Batchable(q)
    <3> DEFINE h == Head(waiting)
    <3>1. h \in Requests /\ HandOver(h)
      BY <2>1, <2>2
    <3> HIDE DEF h
    <3>2. CASE Batchable(h)
      <4>1. InQueue' = InQueue \cup {h}
        BY <3>1, <3>2, Appended DEF HandOver, InQueue, TypeOK
      <4> QED
        BY <3>2, <4>1
    <3>3. CASE ~Batchable(h)
      BY <3>1, <3>3 DEF HandOver, InQueue
    <3> QED
      BY <3>2, <3>3
  <2> QED
    BY <2>1, <2>3 DEF ShutInv
<1>2. CASE ReleaseEnd
  BY <1>2 DEF ReleaseEnd, ShutInv, ReleaseInv, InQueue
<1>3. CASE Sigterm \/ ReportUnbatched \/ StopLoop \/ DrainTimeout
  BY <1>3 DEF Sigterm, ReportUnbatched, StopLoop, DrainTimeout, ShutInv, InQueue
<1> QED
  BY <1>1, <1>2, <1>3 DEF Shutdown

\* Every step keeps the order of the shutdown.
LEMMA ShutStep == TypeOK /\ ReleaseInv /\ ShutInv /\ Orderly /\ [Next]_vars => ShutInv'
<1> SUFFICES ASSUME TypeOK, ReleaseInv, ShutInv, Orderly, [Next]_vars PROVE ShutInv'
  OBVIOUS
<1>1. CASE UNCHANGED vars
  BY <1>1 DEF ShutInv, InQueue
<1>2. CASE GroupRpc \/ Rehydrate
  BY <1>2 DEF GroupRpc, GroupSubmit, GroupFail, Rehydrate, ShutInv, InQueue
<1>3. CASE Sigterm \/ Shutdown \/ DrainTimeout
  BY <1>3, ShutShutdown
<1>4. CASE Next
  BY <1>2, <1>3, <1>4, ShutPost, ShutDrain, ShutRequest, ShutFlusher DEF Next
<1> QED
  BY <1>1, <1>4

\* When the plugin exits within the 25 s it gives its flusher, every request it took
\* on is a job, is reported as failed, or is in a pool thread that the interpreter
\* joins: whatever was waiting, queued, batched or in an RPC when SIGTERM came.
THEOREM NothingLost ==
  ASSUME Lingering \subseteq Invalid, \A r \in Malformed : ~Batchable(r)
  PROVE  Spec => []NothingDropped
<1>0. Orderly
  BY DEF Orderly
<1>1. Init => ShutInv
  <2>1. Range(<<>>) = {}
    BY DEF Range
  <2> QED
    BY <2>1 DEF Init, ShutInv, InQueue
<1>2. TypeOK /\ ReleaseInv /\ ShutInv /\ [Next]_vars => ShutInv'
  BY <1>0, ShutStep
<1>3. TypeOK /\ EachOnce /\ ReleaseInv /\ PlaceInv /\ ShutInv => NothingDropped
  <2> SUFFICES ASSUME TypeOK, EachOnce, ReleaseInv, PlaceInv, ShutInv,
                      phase = "stopped", ~timedOut, NEW r \in Requests, Accepted(r)
               PROVE  At(r, "jobs") \/ At(r, "reported") \/ At(r, "pool")
    BY DEF NothingDropped
  <2>1. r \in Somewhere
    BY DEF PlaceInv, ApartInv, Accepted
  <2>2. Range(<<>>) = {}
    BY DEF Range
  <2>3. InLine = {}
    <3>1. pc = "idle" /\ waiting = <<>> /\ blocked = <<>>
      BY DEF ShutInv, ReleaseInv, EachOnce
    <3> QED
      BY <2>2, <3>1 DEF InLine, Checked
  <2>4. unbatched = {}
    BY DEF ReleaseInv
  <2>5. InQueue = {} /\ batch = {}
    <3>1. CASE BatchEnabled
      <4>1. fpc = "exited"
        BY <3>1 DEF PlaceInv, FlushInv, ShutInv
      <4> QED
        BY <2>2, <4>1 DEF PlaceInv, FlushInv, ShutInv, InQueue
    <3>2. CASE ~BatchEnabled
      BY <3>2 DEF ShutInv, Batchable
    <3> QED
      BY <3>1, <3>2
  <2>6. r \in InPool \/ r \in jobs \/ r \in Reported
    BY <2>1, <2>3, <2>4, <2>5 DEF Somewhere, Listed
  <2> QED
    BY <2>6 DEF At, InPool, Reported
<1> QED
  BY <1>1, <1>2, <1>3, PlacesAlways, PTL DEF Spec

-----------------------------------------------------------------------------
(***************************************************************************)
(* Oldest first, when only the global cap is set: no drain sets a request  *)
(* aside, so that the line is at every moment the end of the arrivals.     *)
(***************************************************************************)
OnlyGlobal == MaxPerAnalysis = 0 /\ MaxPerResource = 0

\* s holds the arrivals that follow the first n, in their order.
Follows(s, n) ==
    /\ Len(arrivals) = n + Len(s)
    /\ \A i \in 1 .. Len(s) : s[i] = arrivals[n + i]

LineFollows(n) ==
    IF pc = "drainCheck" THEN item = arrivals[n + 1] /\ Follows(waiting, n + 1)
                         ELSE Follows(waiting, n)

OrderInv ==
    /\ blocked = <<>>
    /\ \A i, j \in 1 .. Len(arrivals) : arrivals[i] = arrivals[j] => i = j
    /\ \A i \in 1 .. Len(arrivals) : answer[arrivals[i]] # "new"
    /\ \E n \in Nat : LineFollows(n)

\* Steps that leave the line and the arrivals alone.
LEMMA OrderQuiet ==
  ASSUME TypeOK, OrderInv, UNCHANGED <<waiting, blocked, arrivals>>,
         IF pc = "drainCheck" THEN pc' = "drainCheck" /\ item' = item
                              ELSE pc' # "drainCheck",
         \A r \in Requests : answer[r] # "new" => answer'[r] # "new"
  PROVE  OrderInv'
<1>1. \A i \in 1 .. Len(arrivals) : arrivals[i] \in Requests
  BY DEF TypeOK
<1>2. \A i \in 1 .. Len(arrivals) : answer'[arrivals[i]] # "new"
  BY <1>1 DEF OrderInv
<1>3. PICK n \in Nat : LineFollows(n)
  BY DEF OrderInv
<1>4. LineFollows(n)'
  BY <1>3 DEF LineFollows, Follows
<1> QED
  BY <1>2, <1>4 DEF OrderInv

\* A new arrival goes to the end of the line, or past an empty one.
LEMMA OrderArrives ==
  ASSUME TypeOK, OrderInv, NEW r \in Requests, answer[r] = "new",
         pc # "drainCheck", pc' # "drainCheck", blocked' = blocked,
         arrivals' = Append(arrivals, r),
         answer'[r] # "new", \A q \in Requests \ {r} : answer'[q] = answer[q],
         \/ waiting' = Append(waiting, r)
         \/ waiting = <<>> /\ waiting' = <<>>
  PROVE  OrderInv'
<1>1. /\ arrivals \in Seq(Requests) /\ waiting \in Seq(Requests)
      /\ Len(arrivals) \in Nat /\ Len(waiting) \in Nat
      /\ \A i \in 1 .. Len(arrivals) : arrivals[i] \in Requests
  BY DEF TypeOK
<1>2. /\ Len(arrivals') = Len(arrivals) + 1 /\ arrivals'[Len(arrivals) + 1] = r
      /\ \A i \in 1 .. Len(arrivals) : arrivals'[i] = arrivals[i]
  BY <1>1, AppendProperties
<1>3. \A i \in 1 .. Len(arrivals) : arrivals[i] # r
  BY <1>1 DEF OrderInv
<1>4. \A i, j \in 1 .. Len(arrivals') : arrivals'[i] = arrivals'[j] => i = j
  BY <1>1, <1>2, <1>3 DEF OrderInv
<1>5. \A i \in 1 .. Len(arrivals') : answer'[arrivals'[i]] # "new"
  BY <1>1, <1>2, <1>3 DEF OrderInv
<1>6. PICK n \in Nat : Follows(waiting, n)
  BY DEF OrderInv, LineFollows
<1>7. \E m \in Nat : LineFollows(m)'
  <2>1. CASE waiting' = Append(waiting, r)
    <3>1. /\ Len(waiting') = Len(waiting) + 1 /\ waiting'[Len(waiting) + 1] = r
          /\ \A i \in 1 .. Len(waiting) : waiting'[i] = waiting[i]
      BY <1>1, <2>1, AppendProperties
    <3>2. Len(arrivals) = n + Len(waiting)
      BY <1>6 DEF Follows
    <3>3. ASSUME NEW i \in 1 .. Len(waiting')
          PROVE  waiting'[i] = arrivals'[n + i]
      <4>1. CASE i = Len(waiting) + 1
        BY <1>1, <1>2, <3>1, <3>2, <4>1
      <4>2. CASE i # Len(waiting) + 1
        <5>1. i \in 1 .. Len(waiting) /\ n + i \in 1 .. Len(arrivals)
          BY <1>1, <3>1, <3>2, <4>2
        <5>2. waiting'[i] = waiting[i] /\ waiting[i] = arrivals[n + i]
          BY <1>6, <3>1, <5>1 DEF Follows
        <5> QED
          BY <1>2, <5>1, <5>2
      <4> QED
        BY <4>1, <4>2
    <3>4. Len(arrivals') = n + Len(waiting')
      BY <1>1, <1>2, <3>1, <3>2
    <3> QED
      BY <3>3, <3>4 DEF LineFollows, Follows
  <2>2. CASE waiting = <<>> /\ waiting' = <<>>
    <3>1. Len(waiting') = 0 /\ Len(arrivals') \in Nat
      BY <1>1, <1>2, <2>2
    <3>2. Len(arrivals') = Len(arrivals') + Len(waiting')
      BY <3>1
    <3>3. 1 .. Len(waiting') = {}
      BY <3>1
    <3> QED
      BY <3>1, <3>2, <3>3 DEF LineFollows, Follows
  <2> QED
    BY <2>1, <2>2
<1> QED
  BY <1>4, <1>5, <1>7 DEF OrderInv

\* Taking the head of the line: what is left follows one more arrival.
LEMMA OrderPopped ==
  ASSUME TypeOK, NEW n \in Nat, Follows(waiting, n), waiting # <<>>,
         waiting' = Tail(waiting), arrivals' = arrivals
  PROVE  /\ Head(waiting) = arrivals[n + 1]
         /\ Follows(waiting, n + 1)'
<1>1. /\ Len(waiting) \in Nat /\ Len(waiting) > 0 /\ Head(waiting) = waiting[1]
      /\ Len(waiting') = Len(waiting) - 1
      /\ \A i \in 1 .. Len(waiting') : waiting'[i] = waiting[i + 1]
  BY HeadTailProperties DEF TypeOK
<1>2. Head(waiting) = arrivals[n + 1]
  BY <1>1 DEF Follows
<1>3. Len(arrivals) = n + 1 + Len(waiting')
  BY <1>1 DEF Follows
<1>4. ASSUME NEW i \in 1 .. Len(waiting') PROVE waiting'[i] = arrivals[n + 1 + i]
  <2>1. i + 1 \in 1 .. Len(waiting) /\ n + (i + 1) = n + 1 + i
    BY <1>1
  <2> QED
    BY <1>1, <2>1 DEF Follows
<1> QED
  BY <1>2, <1>3, <1>4 DEF Follows

\* A request waits behind the ones that arrived before it.
LEMMA OrderPost == TypeOK /\ EachOnce /\ OrderInv /\ Post => OrderInv'
<1> SUFFICES ASSUME TypeOK, EachOnce, OrderInv, Post PROVE OrderInv'
  OBVIOUS
<1>0. /\ pc = "post" /\ pc' = "idle" /\ item \in Requests /\ answer[item] = "new"
      /\ blocked' = blocked
  BY DEF Post, PostRefused, PostWaits, PostDispatched, PostDirect, PostEnds, TypeOK, EachOnce
<1>1. CASE PostRefused
  <2>1. /\ UNCHANGED <<waiting, arrivals>>
        /\ \A r \in Requests : answer[r] # "new" => answer'[r] # "new"
    BY <1>1, <1>0 DEF PostRefused, TypeOK
  <2> QED
    BY <1>0, <2>1, OrderQuiet
<1>2. CASE ~PostRefused
  <2>1. /\ arrivals' = Append(arrivals, item) /\ answer'[item] # "new"
        /\ \A q \in Requests \ {item} : answer'[q] = answer[q]
    BY <1>2, <1>0 DEF Post, PostWaits, PostDispatched, PostDirect, Accept, TypeOK
  <2>2. \/ waiting' = Append(waiting, item)
        \/ waiting = <<>> /\ waiting' = <<>>
    BY <1>2 DEF Post, PostWaits, PostDispatched, PostDirect, MustWait
  <2> QED
    BY <1>0, <2>1, <2>2, OrderArrives
<1> QED
  BY <1>1, <1>2

\* No drain sets a request aside: what is not dispatched stops it.
LEMMA OrderDrain == TypeOK /\ OnlyGlobal /\ OrderInv /\ Drain => OrderInv'
<1> SUFFICES ASSUME TypeOK, OnlyGlobal, OrderInv, Drain PROVE OrderInv'
  OBVIOUS
<1>0. /\ UNCHANGED <<arrivals, answer>> /\ blocked = <<>>
      /\ \A i, j \in 1 .. Len(arrivals) : arrivals[i] = arrivals[j] => i = j
      /\ \A i \in 1 .. Len(arrivals) : answer[arrivals[i]] # "new"
  BY DEF Drain, DrainStart, DrainPop, DrainDispatch, DrainBlocked, DrainStop, DrainEnd,
         OrderInv
<1>a. ASSUME blocked' = <<>>, \E m \in Nat : LineFollows(m)' PROVE OrderInv'
  BY <1>0, <1>a DEF OrderInv
<1>p. PICK n \in Nat : LineFollows(n)
  BY DEF OrderInv
<1>1. CASE DrainStart
  <2>1. LineFollows(n)' /\ blocked' = <<>>
    BY <1>0, <1>1, <1>p DEF DrainStart, LineFollows, Follows
  <2> QED
    BY <1>a, <2>1
<1>2. CASE DrainPop
  <2>1. /\ waiting # <<>> /\ waiting' = Tail(waiting) /\ item' = Head(waiting)
        /\ pc = "drain" /\ pc' = "drainCheck" /\ blocked' = <<>>
    BY <1>0, <1>2 DEF DrainPop
  <2>2. Follows(waiting, n)
    BY <1>p, <2>1 DEF LineFollows
  <2>3. Head(waiting) = arrivals[n + 1] /\ Follows(waiting, n + 1)'
    BY <1>0, <2>1, <2>2, OrderPopped
  <2>4. LineFollows(n)'
    BY <1>0, <2>1, <2>3 DEF LineFollows
  <2> QED
    BY <1>a, <2>1, <2>4
<1>3. CASE DrainDispatch
  <2>1. /\ pc = "drainCheck" /\ pc' = "drain" /\ waiting' = waiting /\ blocked' = <<>>
    BY <1>0, <1>3 DEF DrainDispatch
  <2>2. Follows(waiting, n + 1)
    BY <1>p, <2>1 DEF LineFollows
  <2>3. LineFollows(n + 1)' /\ n + 1 \in Nat
    BY <1>0, <2>1, <2>2 DEF LineFollows, Follows
  <2> QED
    BY <1>a, <2>1, <2>3
<1>4. CASE DrainBlocked
  BY <1>4 DEF DrainBlocked, OnlyGlobal, CapReached, AnalysisCapReached, ResourceCapReached
<1>5. CASE DrainStop
  <2> DEFINE b == Append(blocked, item)
  <2>1. /\ pc = "drainCheck" /\ pc' = "idle" /\ waiting' = b \o waiting /\ blocked' = <<>>
        /\ item \in Requests
    BY <1>5 DEF DrainStop, PutBack, TypeOK
  <2>2. b \in Seq(Requests) /\ Len(b) = 1 /\ b[1] = item
    BY <1>0, <2>1
  <2> HIDE DEF b
  <2>3. /\ waiting \in Seq(Requests) /\ Len(waiting) \in Nat /\ Len(waiting') = 1 + Len(waiting)
        /\ \A i \in 1 .. 1 + Len(waiting) :
               waiting'[i] = IF i <= 1 THEN b[i] ELSE waiting[i - 1]
    <3>1. waiting \in Seq(Requests) /\ Len(waiting) \in Nat
      BY DEF TypeOK
    <3>2. /\ Len(b \o waiting) = Len(b) + Len(waiting)
          /\ \A i \in 1 .. Len(b) + Len(waiting) :
                 (b \o waiting)[i] = IF i <= Len(b) THEN b[i] ELSE waiting[i - Len(b)]
      BY <2>2, <3>1, ConcatProperties
    <3> QED
      BY <2>1, <2>2, <3>1, <3>2
  <2>4. item = arrivals[n + 1] /\ Follows(waiting, n + 1)
    BY <1>p, <2>1 DEF LineFollows
  <2>5. ASSUME NEW i \in 1 .. Len(waiting') PROVE waiting'[i] = arrivals[n + i]
    <3>1. CASE i = 1
      BY <2>2, <2>3, <2>4, <3>1
    <3>2. CASE i # 1
      <4>1. i - 1 \in 1 .. Len(waiting) /\ n + 1 + (i - 1) = n + i /\ ~(i <= 1)
        BY <2>3, <3>2
      <4>2. waiting'[i] = waiting[i - 1]
        BY <2>3, <4>1
      <4>3. waiting[i - 1] = arrivals[n + 1 + (i - 1)]
        BY <2>4, <4>1 DEF Follows
      <4> QED
        BY <4>1, <4>2, <4>3
    <3> QED
      BY <3>1, <3>2
  <2>6. Len(arrivals) = n + Len(waiting')
    BY <2>3, <2>4 DEF Follows
  <2>7. LineFollows(n)'
    BY <1>0, <2>1, <2>5, <2>6 DEF LineFollows, Follows
  <2> QED
    BY <1>a, <2>1, <2>7
<1>6. CASE DrainEnd
  <2>1. /\ pc = "drain" /\ pc' = "idle" /\ waiting = <<>> /\ waiting' = <<>> \o <<>>
        /\ blocked' = <<>>
    BY <1>0, <1>6 DEF DrainEnd, PutBack
  <2>2. waiting' = waiting
    BY <2>1
  <2>3. LineFollows(n)'
    BY <1>0, <1>p, <2>1, <2>2 DEF LineFollows, Follows
  <2> QED
    BY <1>a, <2>1, <2>3
<1> QED
  BY <1>1, <1>2, <1>3, <1>4, <1>5, <1>6 DEF Drain

\* Every step keeps the order of arrival.
LEMMA OrderStep == TypeOK /\ EachOnce /\ OnlyGlobal /\ OrderInv /\ [Next]_vars => OrderInv'
<1> SUFFICES ASSUME TypeOK, EachOnce, OnlyGlobal, OrderInv, [Next]_vars PROVE OrderInv'
  OBVIOUS
<1>q. ASSUME UNCHANGED <<waiting, blocked, arrivals, pc, item>>,
             \A r \in Requests : answer[r] # "new" => answer'[r] # "new"
      PROVE  OrderInv'
  BY <1>q, OrderQuiet
<1>1. CASE UNCHANGED vars
  BY <1>1, <1>q
<1>2. ASSUME NEW r \in Requests,
             \/ PostInvalid(r) \/ DirectReply(r)
             \/ TaskStart(r) \/ TaskSubmit(r) \/ TaskFail(r) \/ TaskForget(r)
             \/ JobCloses(r)
      PROVE  OrderInv'
  <2>1. \A q \in Requests : answer[q] # "new" => answer'[q] # "new"
    BY <1>2 DEF PostInvalid, DirectReply, TaskStart, TaskSubmit, TaskFail, TaskForget,
                JobCloses, TypeOK
  <2>2. UNCHANGED <<waiting, blocked, arrivals, pc, item>>
    BY <1>2 DEF PostInvalid, DirectReply, TaskStart, TaskSubmit, TaskFail, TaskForget,
                JobCloses
  <2> QED
    BY <1>q, <2>1, <2>2
<1>3. CASE Flusher \/ GroupRpc \/ Rehydrate \/ ReportUnbatched \/ StopLoop \/ DrainTimeout
  <2>1. UNCHANGED <<waiting, blocked, arrivals, pc, item, answer>>
    BY <1>3 DEF Flusher, FlushTake, FlushGather, FlushClose, GroupStart, GroupForget,
                FlushStop, GroupRpc, GroupSubmit, GroupFail, Rehydrate, ReportUnbatched,
                StopLoop, DrainTimeout
  <2> QED
    BY <1>q, <2>1
<1>4. ASSUME Sigterm \/ ReleaseEnd \/ \E r \in Requests : PostRead(r)
      PROVE  OrderInv'
  <2>1. /\ UNCHANGED <<waiting, blocked, arrivals, answer>>
        /\ pc # "drainCheck" /\ pc' # "drainCheck"
    BY <1>4 DEF Sigterm, ReleaseEnd, PostRead
  <2> QED
    BY <2>1, OrderQuiet
<1>5. CASE ReleaseOne
  <2>1. /\ waiting # <<>> /\ waiting' = Tail(waiting) /\ arrivals' = arrivals
        /\ pc = "release" /\ UNCHANGED <<blocked, pc, answer>>
    BY <1>5 DEF ReleaseOne
  <2>2. PICK n \in Nat : Follows(waiting, n)
    BY <2>1 DEF OrderInv, LineFollows
  <2>3. Follows(waiting, n + 1)' /\ n + 1 \in Nat
    BY <2>1, <2>2, OrderPopped
  <2>4. LineFollows(n + 1)'
    BY <2>1, <2>3 DEF LineFollows
  <2> QED
    BY <2>1, <2>3, <2>4 DEF OrderInv
<1> QED
  BY <1>1, <1>2, <1>3, <1>4, <1>5, OrderPost, OrderDrain DEF Next, Shutdown

\* With the global cap alone, requests leave the waiting list in the order in which
\* they were accepted, through every drain and the release at shutdown: nobody who
\* came later has left while an earlier one still waits.
THEOREM ServedInOrder ==
  ASSUME MaxPerAnalysis = 0, MaxPerResource = 0
  PROVE  Spec => []OldestFirst
<1>0. OnlyGlobal
  BY DEF OnlyGlobal
<1>1. Init => OrderInv
  <2> SUFFICES ASSUME Init PROVE OrderInv
    OBVIOUS
  <2>1. blocked = <<>> /\ arrivals = <<>> /\ waiting = <<>> /\ pc = "idle"
    BY DEF Init
  <2>2. Len(arrivals) = 0 /\ 1 .. Len(arrivals) = {} /\ 1 .. Len(waiting) = {}
        /\ Len(waiting) = 0
    BY <2>1
  <2>3. LineFollows(0)
    BY <2>1, <2>2 DEF LineFollows, Follows
  <2> QED
    BY <2>1, <2>2, <2>3 DEF OrderInv
<1>2. TypeOK /\ EachOnce /\ OrderInv /\ [Next]_vars => OrderInv'
  BY <1>0, OrderStep
<1>3. TypeOK /\ OrderInv => OldestFirst
  <2> SUFFICES ASSUME TypeOK, OrderInv, NEW i \in DOMAIN arrivals, NEW j \in DOMAIN arrivals,
                      i < j, arrivals[i] \in Range(Line)
               PROVE  arrivals[j] \in Range(Line)
    BY DEF OldestFirst
  <2>1. /\ Len(arrivals) \in Nat /\ Len(waiting) \in Nat
        /\ DOMAIN arrivals = 1 .. Len(arrivals) /\ DOMAIN waiting = 1 .. Len(waiting)
    BY DEF TypeOK
  <2>2. Range(Line) = Checked \cup Range(waiting)
    <3>1. Range(<<>>) = {}
      BY DEF Range
    <3> QED
      BY <3>1, LineRange DEF InLine, OrderInv
  <2>3. PICK n \in Nat : LineFollows(n)
    BY DEF OrderInv
  <2>4. \E m \in Nat : Follows(waiting, m) /\ m >= n
                        /\ (pc = "drainCheck" => m = n + 1 /\ item = arrivals[n + 1])
                        /\ (pc # "drainCheck" => m = n)
    BY <2>3 DEF LineFollows
  <2>5. PICK m \in Nat : Follows(waiting, m) /\ m >= n
                        /\ (pc = "drainCheck" => m = n + 1 /\ item = arrivals[n + 1])
                        /\ (pc # "drainCheck" => m = n)
    BY <2>4
  \* Whatever arrived behind the first m still waits.
  <2>6. ASSUME NEW k \in 1 .. Len(arrivals), k > m
        PROVE  arrivals[k] \in Range(waiting)
    <3>1. k - m \in 1 .. Len(waiting) /\ m + (k - m) = k
      BY <2>1, <2>5, <2>6 DEF Follows
    <3>2. waiting[k - m] = arrivals[k]
      BY <2>5, <3>1 DEF Follows
    <3> QED
      BY <2>1, <3>1, <3>2 DEF Range
  \* What waits arrived behind the first n.
  <2>7. i > n
    <3>1. CASE arrivals[i] \in Checked
      <4>1. pc = "drainCheck" /\ arrivals[i] = arrivals[n + 1] /\ m = n + 1
        BY <2>5, <3>1 DEF Checked
      <4>2. n + 1 \in 1 .. Len(arrivals)
        BY <2>1, <2>5, <4>1 DEF Follows
      <4>3. i = n + 1
        BY <2>1, <4>1, <4>2 DEF OrderInv
      <4> QED
        BY <4>3
    <3>2. CASE arrivals[i] \in Range(waiting)
      <4>1. PICK k \in 1 .. Len(waiting) : arrivals[i] = waiting[k]
        BY <2>1, <3>2 DEF Range
      <4>2. waiting[k] = arrivals[m + k] /\ m + k \in 1 .. Len(arrivals)
        BY <2>1, <2>5 DEF Follows
      <4>3. i = m + k
        BY <2>1, <4>1, <4>2 DEF OrderInv
      <4> QED
        BY <2>5, <4>3
    <3> QED
      BY <2>2, <3>1, <3>2
  <2>8. j > m
    BY <2>1, <2>5, <2>7
  <2> QED
    BY <2>1, <2>2, <2>6, <2>8
<1> QED
  BY <1>1, <1>2, <1>3, TypeCorrect, ListedOnce, PTL DEF Spec

-----------------------------------------------------------------------------
(***************************************************************************)
(* Admission implements RequestLedger: every step of the handler, the      *)
(* drainer, the flusher, the pools, the poller and the shutdown is a step  *)
(* of the ledger or leaves it alone.  When a global cap is set, every      *)
(* request must be batchable: check_caps misses a background submit that   *)
(* ends between its two reads, and counts no awaited one.                  *)
(***************************************************************************)
\* No job of an earlier run, and no cap or every request through the flusher.
Accountable == Inherited = {} /\ (MaxTotal = 0 \/ \A r \in Requests : Batchable(r))

\* The cap invariant is needed, and kept, only when there is a global cap.
LedgerInv ==
    /\ TypeOK /\ EachOnce /\ ReleaseInv /\ PlaceInv
    /\ MaxTotal > 0 => CapInv

-----------------------------------------------------------------------------
(***************************************************************************)
(* The ledger's view, with the line as a set.                              *)
(***************************************************************************)
View(r) ==
    CASE r \in Reported        -> "failed"
      [] r \in open            -> "job"
      [] r \in jobs \ open     -> "over"
      [] answer[r] = "refused" -> "refused"
      [] r \in InLine          -> "waiting"
      [] answer[r] = "new"     -> "new"
      [] OTHER                 -> "inflight"

\* The refinement mapping, once Range(Line) is the set that the invariants speak of.
LEMMA StatusIsView == TypeOK => \A r \in Requests : Status(r) = View(r)
BY LineRange DEF Status, View, Reported

\* The same after a step.
LEMMA StatusIsViewNext == TypeOK' => (\A r \in Requests : Status(r) = View(r))'
BY StatusIsView, PTL

\* A step of the plugin that the ledger sees as a change of some statuses.
Moves(S, s) == \A q \in Requests : View(q)' = IF q \in S THEN s ELSE View(q)
Running == (phase' # "serving") <=> (phase # "serving")
LedgerStep == [Ledger!Next]_<<[r \in Requests |-> Status(r)], phase # "serving">>

\* Such a step is the ledger's Becomes.
LEMMA MovesBecomes ==
  ASSUME TypeOK, TypeOK', NEW S, NEW s, Moves(S, s)
  PROVE  Ledger!Becomes(S, s)
<1>1. \A q \in Requests : Status(q) = View(q)
  BY StatusIsView
<1>2. \A q \in Requests : Status(q)' = View(q)'
  BY StatusIsViewNext
<1> QED
  BY <1>1, <1>2 DEF Ledger!Becomes, Moves

\* A step that changes no status and does not begin the shutdown.
LEMMA LedgerStays ==
  ASSUME TypeOK, TypeOK', \A q \in Requests : View(q)' = View(q), Running
  PROVE  LedgerStep
<1>1. \A q \in Requests : Status(q) = View(q)
  BY StatusIsView
<1>2. \A q \in Requests : Status(q)' = View(q)'
  BY StatusIsViewNext
<1>3. [r \in Requests |-> Status(r)]' = [r \in Requests |-> Status(r)]
  BY <1>1, <1>2
<1>4. (phase # "serving")' = (phase # "serving")
  BY DEF Running
<1> QED
  BY <1>3, <1>4 DEF LedgerStep

\* The ledger's actions about one request.
LEMMA LedgerOne ==
  ASSUME TypeOK, TypeOK', NEW r \in Requests, Running,
         \/ View(r) = "new" /\ Moves({r}, "refused")
         \/ View(r) = "new" /\ Moves({r}, "waiting")
         \/ /\ View(r) \in {"new", "waiting"}
            /\ Ledger!Room \/ phase # "serving"
            /\ Moves({r}, "inflight")
         \/ View(r) = "job" /\ Moves({r}, "over")
  PROVE  LedgerStep
<1>1. [q \in Requests |-> Status(q)][r] = View(r)
  BY StatusIsView
<1>2. (phase # "serving")' = (phase # "serving")
  BY DEF Running
<1>3. \/ Ledger!Refuse(r) \/ Ledger!Enqueue(r) \/ Ledger!TakeUp(r) \/ Ledger!Close(r)
  BY <1>1, MovesBecomes DEF Ledger!Refuse, Ledger!Enqueue, Ledger!TakeUp, Ledger!Close
<1> QED
  BY <1>2, <1>3 DEF LedgerStep, Ledger!Next

\* The ledger's actions about a group of requests.
LEMMA LedgerGroup ==
  ASSUME TypeOK, TypeOK', NEW S \in SUBSET Requests, Running,
         \A r \in S : View(r) = "inflight",
         Moves(S, "job") \/ Moves(S, "failed")
  PROVE  LedgerStep
<1>1. CASE S = {}
  <2>1. \A q \in Requests : View(q)' = View(q)
    BY <1>1 DEF Moves
  <2> QED
    BY <2>1, LedgerStays
<1>2. CASE S # {}
  <2>1. \A q \in Requests : [x \in Requests |-> Status(x)][q] = View(q)
    BY StatusIsView
  <2>2. S \subseteq Ledger!Having({"inflight"})
    BY <2>1 DEF Ledger!Having
  <2>3. (phase # "serving")' = (phase # "serving")
    BY DEF Running
  <2>4. Ledger!Submit(S) \/ Ledger!Fail(S)
    BY <1>2, <2>2, MovesBecomes DEF Ledger!Submit, Ledger!Fail
  <2> QED
    BY <2>3, <2>4 DEF LedgerStep, Ledger!Next
<1> QED
  BY <1>1, <1>2

-----------------------------------------------------------------------------
(***************************************************************************)
(* What the places say of the statuses.                                    *)
(***************************************************************************)

\* With no inherited job, what waits in a list behind the line, or is in a pool, is
\* in flight; and so is what the handler or the drainer has dispatched.
LEMMA InFlightView ==
  ASSUME TypeOK, PlaceInv, Inherited = {}, NEW r \in Requests,
         r \in InQueue \cup InBatch \cup InPool \cup unbatched
  PROVE  /\ View(r) = "inflight" /\ answer[r] \notin {"new", "refused"}
         /\ r \notin InLine \cup jobs \cup open \cup Reported
<1>1. /\ r \notin InLine /\ r \notin jobs \cup Reported /\ Accepted(r)
  BY DEF PlaceInv, ApartInv, Somewhere, Listed, InBatch
<1>2. open \subseteq jobs
  BY DEF TypeOK
<1> QED
  BY <1>1, <1>2 DEF View, Accepted

\* What has no place is new or refused.
LEMMA NewView ==
  ASSUME TypeOK, PlaceInv, Inherited = {}, NEW r \in Requests, answer[r] = "new"
  PROVE  /\ View(r) = "new"
         /\ r \notin InLine \cup InQueue \cup InBatch \cup InPool \cup unbatched \cup jobs
                        \cup open \cup Reported
<1>1. ~Accepted(r)
  BY DEF Accepted
<1>2. r \notin InLine \cup InQueue \cup InBatch \cup InPool \cup unbatched \cup jobs \cup Reported
  BY <1>1 DEF PlaceInv, ApartInv, Somewhere, Listed, InBatch
<1>3. open \subseteq jobs
  BY DEF TypeOK
<1> QED
  BY <1>2, <1>3 DEF View

\* What the line holds waits.
LEMMA LineView ==
  ASSUME TypeOK, PlaceInv, Inherited = {}, NEW r \in Requests, r \in InLine
  PROVE  /\ View(r) = "waiting" /\ answer[r] = "pending"
         /\ r \notin jobs \cup open \cup Reported
<1>1. r \notin jobs \cup Reported /\ answer[r] = "pending"
  BY DEF PlaceInv, ApartInv, ListedInv, Listed
<1>2. open \subseteq jobs
  BY DEF TypeOK
<1> QED
  BY <1>1, <1>2 DEF View

\* The ledger counts as the plugin does.
LEMMA LedgerCounts == ASSUME NEW S PROVE Ledger!Cardinality(S) = Cardinality(S)
BY DEF Ledger!Cardinality, Cardinality

\* While the plugin serves under a global cap, what is in flight or a job is open or
\* in _SUBMITTING; so when check_caps lets a request pass there is room in the ledger.
LEMMA RoomToTakeUp ==
  ASSUME LedgerInv, Accountable, pc \in {"post", "drainCheck"}, ~CapReached(seen, item),
         phase = "serving", View(item) \in {"new", "waiting"}
  PROVE  Ledger!Room
<1> SUFFICES ASSUME MaxTotal > 0
             PROVE  Cardinality(Ledger!Having({"inflight", "job"})) < MaxTotal
  BY LedgerCounts DEF Ledger!Room
<1> DEFINE H == Ledger!Having({"inflight", "job"})
<1>1. /\ TypeOK /\ PlaceInv /\ ReleaseInv /\ CapInv /\ Inherited = {} /\ MaxTotal \in Nat
      /\ item \in Requests
  BY LimitsAssumption DEF LedgerInv, Accountable, TypeOK
<1>2. \A q \in Requests : Status(q) = View(q)
  BY <1>1, StatusIsView
<1>3. H = {q \in Requests : View(q) \in {"inflight", "job"}}
  BY <1>2 DEF Ledger!Having
<1> HIDE DEF H
<1>4. ASSUME NEW q \in H PROVE q \in open \cup submitting
  <2>1. q \in Requests /\ View(q) \in {"inflight", "job"}
    BY <1>3
  <2>2. CASE q \notin open
    <3>1. q \notin jobs \cup Reported \cup InLine /\ answer[q] \notin {"new", "refused"}
      BY <2>1, <2>2 DEF View
    <3>2. Accepted(q)
      BY <1>1, <2>1, <3>1 DEF Accepted, TypeOK
    <3>3. q \in InQueue \cup batch \cup unbatched \cup InPool
      <4>1. ~timedOut
        BY <1>1 DEF PlaceInv, FlushInv
      <4> QED
        BY <1>1, <2>1, <3>1, <3>2, <4>1 DEF PlaceInv, ApartInv, Somewhere, Listed
    <3>4. unbatched = {} /\ q \notin InPool
      BY <1>1, <2>1, <3>3 DEF ReleaseInv, CapInv, InPool
    <3> QED
      BY <1>1, <3>3, <3>4 DEF CapInv, InQueue
  <2> QED
    BY <2>2
<1>5. H \cup {item} \subseteq seen \cup submitting \cup {item}
  <2>1. open \subseteq seen \cup submitting
    BY <1>1 DEF CapInv
  <2> QED
    BY <1>4, <2>1
<1>6. ~(Count(seen, submitting) >= MaxTotal)
  BY DEF CapReached, GlobalCapReached
<1>7. Cardinality(H \cup {item}) <= MaxTotal
  <2>1. seen \subseteq Requests /\ submitting \subseteq Requests
    BY <1>1 DEF TypeOK
  <2> QED
    BY <1>1, <1>5, <1>6, <2>1, OneMore
<1>8. item \notin H /\ H \subseteq Requests
  BY <1>3
<1>9. Cardinality(H \cup {item}) = Cardinality(H) + 1 /\ Cardinality(H) \in Nat
  BY <1>8, FiniteRequests, FS_AddElement
<1> QED
  BY <1>1, <1>7, <1>9 DEF H

-----------------------------------------------------------------------------
(***************************************************************************)
(* The simulation, one lemma per group of actions.                         *)
(***************************************************************************)

\* A dispatch takes the item up: from nowhere for the handler, from the line for the
\* drainer.
LEMMA SimPost ==
  ASSUME LedgerInv, TypeOK', Accountable, Post
  PROVE  LedgerStep
<1>1. /\ TypeOK /\ EachOnce /\ PlaceInv /\ Inherited = {}
  BY DEF LedgerInv, Accountable
<1>2. /\ pc = "post" /\ pc' = "idle" /\ item \in Requests /\ answer[item] = "new"
      /\ UNCHANGED <<blocked, jobs, open, phase, told, mute>>
  BY <1>1 DEF Post, PostRefused, PostWaits, PostDispatched, PostDirect, PostEnds, Accept,
              Dispatch, EachOnce, TypeOK
<1>3. /\ View(item) = "new" /\ item \notin InLine \cup jobs \cup open \cup Reported
  BY <1>1, <1>2, NewView
<1>4. Reported' = Reported /\ Running
  BY <1>2 DEF Reported, Running
<1>5. CASE PostRefused
  <2>1. /\ answer'[item] = "refused" /\ \A q \in Requests \ {item} : answer'[q] = answer[q]
        /\ InLine' = InLine
    BY <1>1, <1>2, <1>5 DEF PostRefused, InLine, Checked, TypeOK
  <2>2. Moves({item}, "refused")
    BY <1>2, <1>3, <1>4, <2>1 DEF Moves, View
  <2> QED
    BY <1>1, <1>2, <1>3, <1>4, <2>2, LedgerOne
<1>6. CASE PostWaits
  <2>1. /\ answer'[item] = "pending" /\ \A q \in Requests \ {item} : answer'[q] = answer[q]
        /\ waiting' = Append(waiting, item)
    BY <1>1, <1>2, <1>6 DEF PostWaits, Accept, TypeOK
  <2>2. InLine' = InLine \cup {item}
    BY <1>1, <1>2, <2>1, Appended DEF InLine, Checked, TypeOK
  <2>3. Moves({item}, "waiting")
    BY <1>2, <1>3, <1>4, <2>1, <2>2 DEF Moves, View
  <2> QED
    BY <1>1, <1>2, <1>3, <1>4, <2>3, LedgerOne
<1>7. CASE PostDispatched \/ PostDirect
  <2>1. /\ answer'[item] \in {"pending", "posted"}
        /\ \A q \in Requests \ {item} : answer'[q] = answer[q]
        /\ InLine' = InLine /\ ~CapReached(seen, item)
    BY <1>1, <1>2, <1>7 DEF PostDispatched, PostDirect, Accept, MustWait, InLine, Checked,
                            TypeOK
  <2>2. Moves({item}, "inflight")
    BY <1>2, <1>3, <1>4, <2>1 DEF Moves, View
  <2>3. Ledger!Room \/ phase # "serving"
    BY <1>2, <1>3, <2>1, RoomToTakeUp
  <2> QED
    BY <1>1, <1>2, <1>3, <1>4, <2>2, <2>3, LedgerOne
<1> QED
  BY <1>5, <1>6, <1>7 DEF Post

\* The drainer starts or settles waiting requests: a move of the ledger, or a stutter.
LEMMA SimDrain ==
  ASSUME LedgerInv, TypeOK', Accountable, Drain
  PROVE  LedgerStep
<1>1. /\ TypeOK /\ EachOnce /\ PlaceInv /\ Inherited = {}
  BY DEF LedgerInv, Accountable
<1>2. UNCHANGED <<jobs, open, phase, told, mute, answer>>
  BY DEF Drain, DrainStart, DrainPop, DrainDispatch, DrainBlocked, DrainStop, DrainEnd,
         Dispatch
<1>3. Reported' = Reported /\ Running
  BY <1>2 DEF Reported, Running
<1>4. CASE DrainDispatch
  <2>1. /\ pc = "drainCheck" /\ pc' = "drain" /\ item \in Requests
        /\ UNCHANGED <<blocked, waiting>> /\ ~CapReached(seen, item)
    BY <1>1, <1>4 DEF DrainDispatch, TypeOK
  <2>2. InLine' = InLine \ {item} /\ item \in InLine
    BY <1>1, <2>1 DEF InLine, Checked, EachOnce, Disjoint
  <2>3. /\ View(item) = "waiting" /\ answer[item] = "pending"
        /\ item \notin jobs \cup open \cup Reported
    BY <1>1, <2>1, <2>2, LineView
  <2>4. Moves({item}, "inflight")
    BY <1>2, <1>3, <2>1, <2>2, <2>3 DEF Moves, View
  <2>5. Ledger!Room \/ phase # "serving"
    BY <2>1, <2>3, RoomToTakeUp
  <2> QED
    BY <1>1, <1>3, <2>1, <2>3, <2>4, <2>5, LedgerOne
<1>5. CASE ~DrainDispatch
  <2>1. InLine' = InLine
    BY <1>1, <1>5, DrainLine
  <2>2. \A q \in Requests : View(q)' = View(q)
    BY <1>2, <1>3, <2>1 DEF View
  <2> QED
    BY <1>1, <1>3, <2>2, LedgerStays
<1> QED
  BY <1>4, <1>5

\* A step about one request: a refusal, a submit or its failure, the end of a job.
LEMMA SimRequest ==
  ASSUME LedgerInv, TypeOK', Accountable, NEW r \in Requests,
         \/ PostInvalid(r) \/ PostRead(r) \/ DirectReply(r)
         \/ TaskStart(r) \/ TaskSubmit(r) \/ TaskFail(r) \/ TaskForget(r)
         \/ JobCloses(r)
  PROVE  LedgerStep
<1>1. /\ TypeOK /\ EachOnce /\ PlaceInv /\ Inherited = {}
  BY DEF LedgerInv, Accountable
<1>2. InLine' = InLine /\ Running
  BY DEF PostInvalid, PostRead, DirectReply, TaskStart, TaskSubmit, TaskFail, TaskForget,
         JobCloses, InLine, Checked, Running
<1>3. CASE PostInvalid(r)
  <2>1. /\ answer[r] = "new" /\ answer'[r] = "refused"
        /\ \A q \in Requests \ {r} : answer'[q] = answer[q]
        /\ UNCHANGED <<jobs, open, told, mute>>
    BY <1>1, <1>3 DEF PostInvalid, Reachable, TypeOK
  <2>2. /\ View(r) = "new" /\ r \notin InLine \cup jobs \cup open \cup Reported
    BY <1>1, <2>1, NewView
  <2>3. Moves({r}, "refused")
    BY <1>2, <2>1, <2>2 DEF Moves, View, Reported
  <2> QED
    BY <1>1, <1>2, <2>2, <2>3, LedgerOne
<1>4. CASE PostRead(r) \/ TaskStart(r) \/ TaskForget(r)
  <2>1. UNCHANGED <<jobs, open, told, mute, answer>>
    BY <1>4 DEF PostRead, TaskStart, TaskForget
  <2>2. \A q \in Requests : View(q)' = View(q)
    BY <1>2, <2>1 DEF View, Reported
  <2> QED
    BY <1>1, <1>2, <2>2, LedgerStays
<1>5. CASE TaskSubmit(r)
  <2>1. /\ stage[r] = "running" /\ jobs' = jobs \cup {r} /\ open' = open \cup {r}
        /\ UNCHANGED <<told, mute, answer>>
    BY <1>5 DEF TaskSubmit, Record
  <2>2. r \in InPool
    BY <2>1 DEF InPool
  <2>3. View(r) = "inflight" /\ r \notin Reported
    BY <1>1, <2>2, InFlightView DEF PlaceInv, ApartInv
  <2>4. Moves({r}, "job")
    BY <1>2, <2>1, <2>3 DEF Moves, View, Reported
  <2> QED
    BY <1>1, <1>2, <2>3, <2>4, LedgerGroup
<1>6. CASE TaskFail(r) \/ DirectReply(r)
  <2>1. /\ UNCHANGED <<jobs, open>>
        /\ \/ Reported' = Reported \cup {r}
           \/ Reported' = Reported
    BY <1>6 DEF TaskFail, DirectReply, ReportFailure, Reported
  <2>2. /\ answer[r] \notin {"new", "refused"}
        /\ Reported' # Reported => r \in InPool
    BY <1>1, <1>6 DEF TaskFail, DirectReply, InPool, PlaceInv, TaskInv, Reported
  <2>3. \A q \in Requests : /\ answer'[q] = "new" <=> answer[q] = "new"
                            /\ answer'[q] = "refused" <=> answer[q] = "refused"
    BY <1>1, <1>6, <2>2 DEF TaskFail, DirectReply, TypeOK
  <2>4. CASE Reported' = Reported
    <3>1. \A q \in Requests : View(q)' = View(q)
      BY <1>2, <2>1, <2>3, <2>4 DEF View
    <3> QED
      BY <1>1, <1>2, <3>1, LedgerStays
  <2>5. CASE Reported' # Reported
    <3>1. View(r) = "inflight" /\ r \notin InLine \cup jobs \cup open \cup Reported
      BY <1>1, <2>2, <2>5, InFlightView
    <3>2. Moves({r}, "failed")
      BY <1>2, <2>1, <2>2, <2>3, <2>5, <3>1 DEF Moves, View
    <3> QED
      BY <1>1, <1>2, <3>1, <3>2, LedgerGroup
  <2> QED
    BY <2>4, <2>5
<1>7. CASE JobCloses(r)
  <2>1. /\ r \in open /\ r \in jobs /\ open' = open \ {r}
        /\ UNCHANGED <<jobs, told, mute, answer>>
    BY <1>1, <1>7 DEF JobCloses, TypeOK
  <2>2. r \notin Reported \cup InLine /\ answer[r] \notin {"new", "refused"}
    BY <1>1, <2>1 DEF PlaceInv, ApartInv, Somewhere, Accepted
  <2>3. View(r) = "job"
    BY <2>1, <2>2 DEF View
  <2>4. Moves({r}, "over")
    BY <1>2, <2>1, <2>2 DEF Moves, View, Reported
  <2> QED
    BY <1>1, <1>2, <2>3, <2>4, LedgerOne
<1> QED
  BY <1>3, <1>4, <1>5, <1>6, <1>7

\* The flusher's own steps move nothing that the ledger sees.
LEMMA SimFlusher ==
  ASSUME LedgerInv, TypeOK', Flusher
  PROVE  LedgerStep
<1>1. UNCHANGED <<waiting, blocked, pc, item, jobs, open, told, mute, answer, phase>>
  BY DEF Flusher, FlushTake, FlushGather, FlushClose, GroupStart, GroupForget, FlushStop
<1>2. Running /\ \A q \in Requests : View(q)' = View(q)
  BY <1>1 DEF View, Reported, InLine, Checked, Running
<1> QED
  BY <1>2, LedgerStays DEF LedgerInv

\* The group's requests become jobs, or failures, all at once.
LEMMA SimGroupRpc ==
  ASSUME LedgerInv, TypeOK', Accountable, GroupRpc
  PROVE  LedgerStep
<1>1. /\ TypeOK /\ PlaceInv /\ Inherited = {} /\ group \in SUBSET Requests
  BY DEF LedgerInv, Accountable, TypeOK
<1>2. /\ fpc = "rpc" /\ InLine' = InLine /\ Running /\ answer' = answer
  BY DEF GroupRpc, GroupSubmit, GroupFail, InLine, Checked, Running
<1>3. group \subseteq InBatch
  BY <1>1, <1>2 DEF PlaceInv, FlushInv, InBatch
<1>4. \A q \in group : View(q) = "inflight"
  BY <1>1, <1>3, InFlightView
<1>5. \A q \in group : /\ answer[q] \notin {"new", "refused"}
                       /\ q \notin InLine \cup jobs \cup open \cup Reported
  BY <1>1, <1>3, InFlightView
<1>6. CASE GroupSubmit
  <2>1. /\ jobs' = jobs \cup group /\ open' = open \cup group /\ UNCHANGED <<told, mute>>
    BY <1>6 DEF GroupSubmit, Record
  <2>2. Moves(group, "job")
    BY <1>2, <1>5, <2>1 DEF Moves, View, Reported
  <2> QED
    BY <1>1, <1>2, <1>4, <2>2, LedgerGroup
<1>7. CASE GroupFail
  <2>1. /\ UNCHANGED <<jobs, open>>
        /\ \/ Reported' = Reported \cup group
           \/ Reported' = Reported
    BY <1>7 DEF GroupFail, ReportFailure, Reported
  <2>2. CASE Reported' = Reported
    <3>1. \A q \in Requests : View(q)' = View(q)
      BY <1>2, <2>1, <2>2 DEF View
    <3> QED
      BY <1>1, <1>2, <3>1, LedgerStays
  <2>3. CASE Reported' = Reported \cup group
    <3>1. Moves(group, "failed")
      BY <1>2, <1>5, <2>1, <2>3 DEF Moves, View
    <3> QED
      BY <1>1, <1>2, <1>4, <3>1, LedgerGroup
  <2> QED
    BY <2>1, <2>2, <2>3
<1> QED
  BY <1>6, <1>7 DEF GroupRpc

\* SIGTERM is the ledger's Stop; what is released is taken up whatever the limit.
LEMMA SimShutdown ==
  ASSUME LedgerInv, TypeOK', Accountable, Sigterm \/ Shutdown \/ DrainTimeout
  PROVE  LedgerStep
<1>1. /\ TypeOK /\ EachOnce /\ PlaceInv /\ ReleaseInv /\ Inherited = {}
  BY DEF LedgerInv, Accountable
<1>2. UNCHANGED <<jobs, open, answer>>
  BY DEF Sigterm, Shutdown, ReleaseOne, ReleaseEnd, ReportUnbatched, StopLoop, DrainTimeout
<1>3. CASE Sigterm
  <2>1. /\ phase = "serving" /\ phase' = "releasing" /\ pc = "idle" /\ pc' = "release"
        /\ UNCHANGED <<waiting, blocked, told, mute>>
    BY <1>3 DEF Sigterm
  <2>2. \A q \in Requests : View(q)' = View(q)
    BY <1>2, <2>1 DEF View, Reported, InLine, Checked
  <2>3. /\ \A q \in Requests : Status(q) = View(q)
        /\ \A q \in Requests : Status(q)' = View(q)'
    BY <1>1, StatusIsView, StatusIsViewNext
  <2>4. [q \in Requests |-> Status(q)]' = [q \in Requests |-> Status(q)]
    BY <2>2, <2>3
  <2>5. Ledger!Stop
    BY <2>1, <2>4 DEF Ledger!Stop
  <2> QED
    BY <2>5 DEF LedgerStep, Ledger!Next
<1>4. CASE ReleaseOne
  <2>1. /\ waiting # <<>> /\ waiting' = Tail(waiting) /\ pc = "release" /\ phase # "serving"
        /\ UNCHANGED <<blocked, pc, item, told, mute, phase>>
    BY <1>1, <1>4 DEF ReleaseOne, ReleaseInv
  <2> DEFINE h == Head(waiting)
  <2>2. /\ h \in Requests /\ Range(waiting) = Range(waiting') \cup {h}
        /\ h \notin Range(waiting')
    BY <1>1, <2>1, Popped DEF TypeOK, EachOnce
  <2> HIDE DEF h
  <2>3. InLine = InLine' \cup {h} /\ h \notin InLine'
    <3>1. Range(blocked) = {} /\ Range(blocked') = {} /\ Checked = {} /\ Checked' = {}
      BY <1>1, <2>1 DEF EachOnce, Checked, Range
    <3> QED
      BY <2>2, <3>1 DEF InLine
  <2>4. /\ View(h) = "waiting" /\ answer[h] = "pending"
        /\ h \notin jobs \cup open \cup Reported
    BY <1>1, <2>2, <2>3, LineView
  <2>5. Moves({h}, "inflight") /\ Running
    BY <1>2, <2>1, <2>3, <2>4 DEF Moves, View, Reported, Running
  <2> QED
    BY <1>1, <2>1, <2>2, <2>4, <2>5, LedgerOne
<1>5. CASE ReportUnbatched
  <2>1. /\ Reported' = Reported \cup unbatched /\ InLine' = InLine /\ Running
        /\ unbatched \in SUBSET Requests
    BY <1>1, <1>5 DEF ReportUnbatched, ReportFailure, Reported, InLine, Checked, Running,
                      TypeOK
  <2>2. \A q \in unbatched : /\ View(q) = "inflight" /\ answer[q] \notin {"new", "refused"}
                             /\ q \notin InLine \cup jobs \cup open \cup Reported
    BY <1>1, <2>1, InFlightView
  <2>3. Moves(unbatched, "failed")
    BY <1>2, <2>1, <2>2 DEF Moves, View
  <2> QED
    BY <1>1, <2>1, <2>2, <2>3, LedgerGroup
<1>6. CASE ReleaseEnd \/ StopLoop \/ DrainTimeout
  <2>1. /\ phase # "serving" /\ phase' # "serving" /\ UNCHANGED <<waiting, blocked, told, mute>>
        /\ pc \in {"idle", "release"} /\ pc' = "idle"
    BY <1>1, <1>6 DEF ReleaseEnd, StopLoop, DrainTimeout, ReleaseInv
  <2>2. Running /\ \A q \in Requests : View(q)' = View(q)
    BY <1>2, <2>1 DEF View, Reported, InLine, Checked, Running
  <2> QED
    BY <1>1, <2>2, LedgerStays
<1> QED
  BY <1>3, <1>4, <1>5, <1>6 DEF Shutdown

\* Every step of the plugin is a step of the ledger, or leaves it alone.
LEMMA SimStep ==
  ASSUME LedgerInv, TypeOK', Accountable, [Next]_vars
  PROVE  LedgerStep
<1>1. CASE UNCHANGED vars
  <2>1. TypeOK /\ Running /\ \A q \in Requests : View(q)' = View(q)
    BY <1>1 DEF View, Reported, InLine, Checked, Running, LedgerInv
  <2> QED
    BY <2>1, LedgerStays
<1>2. CASE Rehydrate
  BY <1>2 DEF Rehydrate, Accountable
<1>3. CASE Sigterm \/ Shutdown \/ DrainTimeout
  BY <1>3, SimShutdown
<1>4. CASE Next
  BY <1>2, <1>3, <1>4, SimPost, SimDrain, SimRequest, SimFlusher, SimGroupRpc DEF Next
<1> QED
  BY <1>1, <1>4

\* The plugin starts as an empty ledger.
LEMMA SimInit == Accountable /\ Init => Ledger!Init
<1> SUFFICES ASSUME Accountable, Init PROVE Ledger!Init
  OBVIOUS
<1>1. TypeOK
  BY TypeInit
<1>2. Range(<<>>) = {}
  BY DEF Range
<1>3. \A q \in Requests : View(q) = "new"
  BY <1>2 DEF Init, Accountable, View, Reported, InLine, Checked
<1>4. \A q \in Requests : Status(q) = "new"
  BY <1>1, <1>3, StatusIsView
<1>5. phase = "serving"
  BY DEF Init
<1> QED
  BY <1>4, <1>5 DEF Ledger!Init

\* The front end keeps the ledger's promise: a request is refused, or waits and is
\* taken up when fewer than MaxTotal are under way, and then becomes a job or a
\* reported failure, once and never both, whatever the queues, pools and batches do.
THEOREM FrontEndKeepsLedger ==
  ASSUME Inherited = {}, MaxTotal = 0 \/ \A r \in Requests : Batchable(r)
  PROVE  Spec => ImplementsLedger
<1>0. Accountable /\ (MaxTotal > 0 => Pure)
  BY DEF Accountable, Pure
<1>1. Init => Ledger!Init
  BY <1>0, SimInit
<1>2. Init => (MaxTotal > 0 => CapInv)
  BY <1>0, CapInit
<1>3. TypeOK /\ EachOnce /\ (MaxTotal > 0 => CapInv) /\ [Next]_vars => (MaxTotal > 0 => CapInv)'
  BY <1>0, CapStep
<1>4. TypeOK /\ EachOnce /\ ReleaseInv /\ PlaceInv /\ (MaxTotal > 0 => CapInv)
        /\ TypeOK' /\ [Next]_vars => LedgerStep
  BY <1>0, SimStep DEF LedgerInv
<1> QED
  BY <1>1, <1>2, <1>3, <1>4, PlacesAlways, PTL DEF Spec, ImplementsLedger, Ledger!Spec, LedgerStep
=============================================================================
