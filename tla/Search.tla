------------------------------- MODULE Search -------------------------------
(***************************************************************************)
(* A targeted gravitational-wave search on a worker, from the request to   *)
(* the bundle: pygrb_bridge.py's coherent search, segment by segment,      *)
(* detector by detector and template by template, and aframe_bridge.py's   *)
(* single score, both over the strain igwn_strain.py finds.  Frames may be *)
(* missing at an epoch, and any client may fail at any fetch.  The antenna *)
(* projection is left out: a template's coherent statistic is the sum of   *)
(* its detectors' aligned outputs.                                         *)
(***************************************************************************)
EXTENDS SearchPlan

CONSTANTS
    Cases,      \* requests, workers and skies
    Delay       \* what each detector hears after the earth's centre does

\* The delays are within what the filter leaves of the margin at the end and of the PSD
\* stretch and the padding at the start.
ASSUME SearchAssumption ==
    /\ MjdEpoch \in Int /\ {Edge, Fir, Psd, Pad} \subseteq Nat
    /\ \A i \in Valid : Delay[i] \in -(Pad + Psd - Psd \div 2 - Fir) .. (Edge - Fir)
    /\ Cluster \in Nat /\ Threshold \in Int
    /\ Step \in Nat \ {0} /\ MaxTriggers \in Nat \ {0}
    /\ \A c \in Cases : c.kind \in {"pygrb", "aframe"}

VARIABLES
    case,       \* the request, the worker and what the sky holds
    pc,         \* where the search is
    plan,       \* the resolved trigger, detectors, segments and bank
    online,     \* per segment begun, the detectors whose strain came
    todo,       \* the detectors still to fetch
    route,      \* the last fetch: what the world offered, what came
    ti,         \* templates filtered in this segment
    grid,       \* per time of this segment, the best statistic and its template
    best,       \* the loudest of the segments so far
    trigs,      \* the trigger distribution
    answer      \* the bundle

vars == <<case, pc, plan, online, todo, route, ti, grid, best, trigs, answer>>

NoPlan == [gps |-> 0, window |-> 0, t0 |-> "none", dets |-> <<>>, segs |-> <<>>, bank |-> <<>>]
NoRoute == [ifo |-> "none", works |-> {}, indexed |-> FALSE, got |-> "none"]
NoBest == [snr |-> Unset, at |-> Unset, template |-> <<>>]
NoAnswer == [status |-> "none", snr |-> Unset, at |-> Unset, template |-> <<>>, dets |-> {},
             bound |-> "none", n |-> 0]
Failure == [NoAnswer EXCEPT !.status = "failure"]

Init ==
    /\ case \in Cases /\ pc = "request" /\ plan = NoPlan /\ online = <<>> /\ todo = <<>>
    /\ route = NoRoute /\ ti = 0 /\ grid = <<>> /\ best = NoBest /\ trigs = {}
    /\ answer = NoAnswer

\* An exception anywhere in the bridge: the wrapper makes it a failure.
Raise ==
    /\ pc' = "done" /\ answer' = Failure
    /\ UNCHANGED <<case, plan, online, todo, ti, grid, best, trigs>>

-----------------------------------------------------------------------------
(***************************************************************************)
(* pygrb                                                                   *)
(***************************************************************************)
Segments(q, r) ==
    LET n == SubCount(r.window, q.subseg)
    IN  [k \in 1 .. n |-> Segment(r.gps, r.window, n, k)]

Bad(p) == LET q == Params(p)
          IN  ~ResolveTrigger(q).ok \/ Detectors(q) = <<>>

\* validate_inputs, before a dry run and before a real one; the position is not looked at.
Refuse ==
    /\ pc = "request" /\ case.kind = "pygrb" /\ Bad(case.payload)
    /\ route' = NoRoute /\ Raise

DryRun ==
    /\ pc = "request" /\ case.kind = "pygrb" /\ ~Bad(case.payload) /\ Params(case.payload).dry
    /\ pc' = "done" /\ answer' = [NoAnswer EXCEPT !.status = "success"]
    /\ UNCHANGED <<case, plan, online, todo, route, ti, grid, best, trigs>>

\* _coherent_search begins with the position.
NoSky ==
    /\ pc = "request" /\ case.kind = "pygrb" /\ ~Bad(case.payload) /\ ~Params(case.payload).dry
    /\ Sky(case.payload) = Unset
    /\ route' = NoRoute /\ Raise

Begin ==
    /\ pc = "request" /\ case.kind = "pygrb" /\ ~Bad(case.payload) /\ ~Params(case.payload).dry
    /\ Sky(case.payload) # Unset
    /\ LET q == Params(case.payload)
           r == ResolveTrigger(q)
       IN  plan' = [gps |-> r.gps, window |-> r.window, t0 |-> r.t0, dets |-> Detectors(q),
                    segs |-> Segments(q, r), bank |-> Bank(q)]
    /\ pc' = "fetch" /\ online' = <<{}>> /\ todo' = Detectors(Params(case.payload))
    /\ UNCHANGED <<case, route, ti, grid, best, trigs, answer>>

\* One detector's strain: public data of a named event, or frames over OSDF.
Strain(q, works, indexed) ==
    IF q.source = "gwdatafind" THEN FetchFrames(case.worker, works, indexed)
    ELSE IF q.event /\ "lookup" \in works THEN "frames" ELSE "raised"

\* A detector with no strain, for whatever reason, is left out of this segment.
Joined(q, works, indexed, i) ==
    IF Strain(q, works, indexed) = "frames" THEN online[Len(online)] \cup {i}
    ELSE online[Len(online)]

\* What may work at a fetch; "stuck" if the command line does not come back or start.
Worlds == SUBSET (case.worker \cup {"lookup", "stuck"})

FetchStrain ==
    /\ pc = "fetch" /\ case.kind = "pygrb" /\ todo # <<>>
    /\ \E works \in Worlds, indexed \in BOOLEAN :
         LET q == Params(case.payload)
         IN  /\ route' = [ifo |-> Head(todo), works |-> works, indexed |-> indexed,
                          got |-> Strain(q, works, indexed)]
             /\ online' = [online EXCEPT ![Len(online)] = Joined(q, works, indexed, Head(todo))]
    /\ todo' = Tail(todo)
    /\ UNCHANGED <<case, pc, plan, ti, grid, best, trigs, answer>>

\* A segment no detector saw ends the search, the segments before it included.
NoStrain ==
    /\ pc = "fetch" /\ case.kind = "pygrb" /\ todo = <<>> /\ online[Len(online)] = {}
    /\ route' = NoRoute /\ Raise

Seg == plan.segs[Len(online)]
Conditioned ==
    /\ pc = "fetch" /\ case.kind = "pygrb" /\ todo = <<>> /\ online[Len(online)] # {}
    /\ pc' = "filter" /\ ti' = 0 /\ route' = NoRoute
    /\ grid' = [j \in 0 .. Seg.size - 1 |-> [snr |-> 0, template |-> 1]]
    /\ UNCHANGED <<case, plan, online, todo, best, trigs, answer>>

\* What a template's filter says of a detector at a sample of its data, if there is one.
Output(i, m, at) ==
    LET heard == {g \in case.sky : g.ifo = i /\ g.mass = m /\ g.at \in at}
    IN  IF heard = {} THEN 0 ELSE Max({g.snr : g \in heard})
Coherent(s, on, m, j) == Volume([i \in on |-> Output(i, m, AlignedAt(s, Delay[i], j))])

\* The running maximum over the bank, time by time.
Bug_IndexUnmasked(g, x, t) ==
    [j \in DOMAIN g |-> [snr |-> Max({g[j].snr, x[j]}), template |-> t]]
Merge(g, x, t) ==
    [j \in DOMAIN g |-> IF x[j] > g[j].snr THEN [snr |-> x[j], template |-> t] ELSE g[j]]

Filter ==
    /\ pc = "filter" /\ ti < Len(plan.bank)
    /\ ti' = ti + 1
    /\ grid' = Merge(grid, [j \in DOMAIN grid |->
                              Coherent(Seg, online[Len(online)], plan.bank[ti + 1], j)], ti + 1)
    /\ UNCHANGED <<case, pc, plan, online, todo, route, best, trigs, answer>>

\* argmax: the first of the loudest times.
Peak(g) == CHOOSE j \in DOMAIN g :
             /\ \A i \in DOMAIN g : g[i].snr <= g[j].snr
             /\ \A i \in 0 .. j - 1 : g[i].snr < g[j].snr

\* Of the segments, the first of the loudest.
Keep(b, r) == IF b = NoBest \/ r.snr > b.snr THEN r ELSE b

\* Of a window without a sample there is no argmax: LibraryRaises.
Scored ==
    LET g == [j \in DOMAIN grid |-> grid[j].snr]
        k == Peak(grid)
    IN  /\ DOMAIN grid # {}
        /\ best' = Keep(best, [snr |-> grid[k].snr, at |-> Seg.first + k,
                                  template |-> plan.bank[grid[k].template]])
        /\ \E scipy \in BOOLEAN :
             trigs' = trigs \cup {[seg |-> Len(online), at |-> Seg.first + j, snr |-> g[j]] :
                                     j \in Triggers(g, scipy)}

NextSegment ==
    /\ pc = "filter" /\ ti = Len(plan.bank) /\ Len(online) < Len(plan.segs)
    /\ Scored
    /\ online' = Append(online, {}) /\ todo' = plan.dets /\ pc' = "fetch"
    /\ UNCHANGED <<case, plan, route, ti, grid, answer>>

LastSegment ==
    /\ pc = "filter" /\ ti = Len(plan.bank) /\ Len(online) = Len(plan.segs)
    /\ Scored
    /\ pc' = "report"
    /\ UNCHANGED <<case, plan, online, todo, route, ti, grid, answer>>

Report ==
    /\ pc = "report" /\ case.kind = "pygrb"
    /\ pc' = "done"
    /\ answer' = [NoAnswer EXCEPT !.status = "success", !.snr = best.snr, !.at = best.at,
                    !.template = best.template, !.dets = ToSet(plan.dets), !.n = Cardinality(trigs)]
    /\ UNCHANGED <<case, plan, online, todo, route, ti, grid, best, trigs>>

-----------------------------------------------------------------------------
(***************************************************************************)
(* aframe                                                                  *)
(***************************************************************************)
\* The time asked for or, if none is, the live event's.
EventTime(p) == IF p.req.trigger # Unset THEN p.req.trigger ELSE p.gcn.gps
\* A live event has no public window.
OnOsdf(p) == IF "source" \in DOMAIN p.req THEN p.req.source = "gwdatafind" ELSE p.gcn.gps # Unset

NoTime ==
    /\ pc = "request" /\ case.kind = "aframe" /\ EventTime(case.payload) = Unset
    /\ route' = NoRoute /\ Raise

Target ==
    /\ pc = "request" /\ case.kind = "aframe" /\ EventTime(case.payload) # Unset
    /\ plan' = [NoPlan EXCEPT !.gps = EventTime(case.payload), !.dets = case.payload.req.detectors]
    /\ pc' = "fetch" /\ online' = <<{}>> /\ todo' = case.payload.req.detectors
    /\ UNCHANGED <<case, route, ti, grid, best, trigs, answer>>

Onsource(works, indexed) ==
    IF OnOsdf(case.payload) THEN FetchFrames(case.worker, works, indexed)
    ELSE IF "lookup" \in works THEN "frames" ELSE "raised"

\* Without frames the detector is missing and the next is asked.
FetchOnsource ==
    /\ pc = "fetch" /\ case.kind = "aframe" /\ todo # <<>>
    /\ \E works \in Worlds, indexed \in BOOLEAN :
         LET got == Onsource(works, indexed)
         IN  /\ got # "raised"
             /\ route' = [ifo |-> Head(todo), works |-> works, indexed |-> indexed, got |-> got]
             /\ online' = [online EXCEPT ![1] = IF got = "frames" THEN @ \cup {Head(todo)} ELSE @]
    /\ todo' = Tail(todo)
    /\ UNCHANGED <<case, pc, plan, ti, grid, best, trigs, answer>>

FetchRaises ==
    /\ pc = "fetch" /\ case.kind = "aframe" /\ todo # <<>>
    /\ \E works \in Worlds, indexed \in BOOLEAN :
         /\ Onsource(works, indexed) = "raised"
         /\ route' = [ifo |-> Head(todo), works |-> works, indexed |-> indexed, got |-> "raised"]
    /\ Raise

\* The network knows only the set it was trained on.
Complete == online[1] = ToSet(plan.dets)
Missing ==
    /\ pc = "fetch" /\ case.kind = "aframe" /\ todo = <<>> /\ ~Complete
    /\ route' = NoRoute /\ Raise

\* The loudest score once the network's PSD has warmed up.
Loudest == Max({case.scores[j] : j \in case.warmup + 1 .. Len(case.scores)})

Infer ==
    /\ pc = "fetch" /\ case.kind = "aframe" /\ todo = <<>> /\ Complete
    /\ pc' = "done" /\ route' = NoRoute
    /\ LET far == ComputeFar(Loudest, case.background)
       IN  answer' = [NoAnswer EXCEPT !.status = "success", !.snr = Loudest, !.at = plan.gps,
                        !.dets = ToSet(plan.dets), !.bound = far.bound, !.n = far.n]
    /\ UNCHANGED <<case, plan, online, todo, ti, grid, best, trigs>>

\* The numerical libraries may raise on any data.
LibraryRaises ==
    /\ pc \in {"filter", "report"} \/ (pc = "fetch" /\ todo = <<>>)
    /\ route' = NoRoute /\ Raise

Next ==
    \/ Refuse \/ DryRun \/ NoSky \/ Begin
    \/ FetchStrain \/ NoStrain \/ Conditioned \/ Filter \/ NextSegment \/ LastSegment \/ Report
    \/ NoTime \/ Target \/ FetchOnsource \/ FetchRaises \/ Missing \/ Infer
    \/ LibraryRaises

Spec == Init /\ [][Next]_vars

-----------------------------------------------------------------------------
(***************************************************************************)
(* Properties                                                              *)
(***************************************************************************)
Done(kind) == pc = "done" /\ case.kind = kind /\ answer.status = "success"
Searched == Done("pygrb") /\ plan # NoPlan

\* Type correctness; no more segments are begun than planned.
TypeOK ==
    /\ case \in Cases
    /\ pc \in {"request", "fetch", "filter", "report", "done"}
    /\ \A k \in DOMAIN online : online[k] \subseteq ToSet(plan.dets)
    /\ Len(online) <= Max({1, Len(plan.segs)}) /\ ti \in 0 .. Len(plan.bank)
    /\ answer.status \in {"none", "success", "failure"}

\* The statistic of a template at a time of the earth's centre.
Stat(k, m, t) == Volume([i \in online[k] |-> Output(i, m, {t + Delay[i]})])

\* The candidate reported is one the sky holds, with its template and time, and nothing
\* in the window was louder for the detectors that were online: the maxima over the
\* bank, the times and the subsegments lose none (pygrb_bridge.py 445-459, 536-544).
\* Only the sample where two subsegments meet may be passed over.
LoudestFound ==
    Searched =>
      /\ \E k \in DOMAIN plan.segs : answer.snr = Stat(k, answer.template, answer.at)
      /\ \A k \in DOMAIN plan.segs, m \in ToSet(plan.bank) :
           \A t \in plan.segs[k].first .. plan.segs[k].first + plan.segs[k].size - 1 :
             Stat(k, m, t) <= answer.snr

\* The subsegments cover the on-source window: no two neighbouring samples of it are
\* left out, and none is searched that lies two samples outside it
\* (pygrb_bridge.py 510-518).
WindowTiled ==
    plan.segs # <<>> =>
      LET covered == UNION {s.first .. s.first + s.size - 1 : s \in ToSet(plan.segs)}
          lo == plan.gps - plan.window
          hi == plan.gps + plan.window - 1
      IN  /\ \A t \in lo .. hi - 1 : {t, t + 1} \cap covered # {}
          /\ covered \subseteq lo - 1 .. hi + 1

\* Whatever the delay, if the filter leaves that much of the margin, each grid time of
\* each detector falls on its own strain and none on the zero fill
\* (pygrb_bridge.py 365-373, 407-411, 426).
NoZeroFill ==
    \A k \in DOMAIN plan.segs, i \in ToSet(plan.dets) :
      \A j \in 0 .. plan.segs[k].size - 1 :
        AlignedAt(plan.segs[k], Delay[i], j) = {plan.segs[k].first + j + Delay[i]}

\* A search that follows a light-curve fit is centred on the fit's merger times and holds
\* all but the share Chebyshev's bound allows outside, even when a live event's time came
\* along (pygrb_bridge.py 88-94, 197-232).
WindowHoldsFit ==
    LET q == Over(case.payload.req, Defaults)
    IN  (plan.segs # <<>> /\ q.samples # <<>> /\ q.mode = "t0") =>
          LET out == {i \in DOMAIN q.samples :
                        LET x == q.samples[i] + MjdEpoch - plan.gps
                        IN  x > plan.window \/ -x > plan.window}
          IN  Cardinality(out) * (q.nsigma - 1) * (q.nsigma - 1) <= Len(q.samples)

\* A loud candidate is also in the trigger distribution: beside each top above the
\* threshold, a sample or a level stretch between lower ones, its segment has a trigger as
\* loud or louder, whatever the clustering, the missing scipy and the cap take; and what
\* is a trigger was heard (pygrb_bridge.py 557-575).
LoudestIsTrigger ==
    pc = "report" =>
      \A k \in DOMAIN plan.segs :
        LET s == plan.segs[k]
            inner == 1 .. s.size - 2
            stat == [j \in 0 .. s.size - 1 |->
                       Max({Stat(k, m, s.first + j) : m \in ToSet(plan.bank)})]
            mine == {x \in trigs : x.seg = k}
        IN  /\ Cardinality(mine) <= MaxTriggers
            /\ \A x \in mine : x.snr >= Threshold /\ x.snr = stat[x.at - s.first]
            /\ \A l, r \in inner :
                 (/\ l <= r /\ stat[l] >= Threshold /\ \A j \in l .. r : stat[j] = stat[l]
                  /\ stat[l - 1] < stat[l] /\ stat[r + 1] < stat[r])
                   => \E x \in mine : x.snr >= stat[l]

\* pygrb searches on with the detectors it has and only those: strain it did not get is
\* never part of the statistic (pygrb_bridge.py 414-438), and with frames indexed and a
\* client that works, the command line's or, after it has answered, pelicanfs, no detector
\* asked of the OSDF is given up (igwn_strain.py 133-153).
OverOsdf == IF case.kind = "pygrb" THEN Params(case.payload).source = "gwdatafind"
            ELSE OnOsdf(case.payload)
OnlineIsTrue ==
    (route # NoRoute /\ Len(online) > 0) =>
      /\ route.ifo \in online[Len(online)] <=> route.got = "frames"
      /\ (OverOsdf /\ route.indexed /\ "lookup" \in route.works
           /\ {"gwdatafind", "cvmfs"} \cap case.worker # {}) =>
           ((PelicanExe(case.worker) \in route.works \/ "pelicanfs" \in route.works)
              => route.got = "frames" \/ Stuck(case.worker, route.works))

\* aframe's score is of every detector asked for, after the warm-up
\* (aframe_bridge.py 75-83, 105-116).
ScoreIsWhole ==
    Done("aframe") =>
      /\ online[1] = answer.dets
      /\ \E j \in DOMAIN case.scores : j > case.warmup /\ case.scores[j] = answer.snr

\* The bound of the false-alarm rate is true of the whole background, whatever part of it
\* the file kept and however it is read; but of a score at the very cut of a tail, which
\* may have dropped events as loud, the exact rate may be too low
\* (aframe_bridge.py 119-149, slim_background.py 49-65).
FarIsHonest ==
    Done("aframe") =>
      LET louder == Cardinality({i \in DOMAIN case.events : case.events[i] >= answer.snr})
      IN  CASE answer.bound = "exact" ->
                 /\ louder > 0 /\ answer.n <= louder
                 /\ \/ answer.n = louder
                    \/ case.background.kind = "tail" /\ answer.snr = case.background.cut
            [] answer.bound = "upper" -> louder = 0
            [] answer.bound = "lower" -> answer.n <= louder
            [] answer.bound = "none" -> case.background.kind = "none"

\* A tail file is valid for candidates at or above its cut (slim_background.py 11, "only
\* valid for candidates at/above tail_min").  The code does not satisfy it: TLC finds a
\* score at the cut, counted without the events of that strength the file dropped.
TailIsExact ==
    Done("aframe") /\ case.background.kind = "tail" /\ answer.snr >= case.background.cut =>
      answer.n = Cardinality({i \in DOMAIN case.events : case.events[i] >= answer.snr})

\* Strain is asked for with the scitoken the access point delivered for it
\* (igwn_strain.py 59-60, "Point token consumers at the scitoken the AP delivered via
\* use_oauth_services").  The code does not satisfy it: TLC finds the OSDF token named.
StrainToken ==
    (route.got = "frames" /\ OnOsdf(case.payload)) => Token(case.named) = "scitoken"

\* A search is whole: its subsegments leave no time out, read no strain that is not there,
\* and together report the loudest candidate, which is also among the triggers.
SearchIsWhole ==
    TypeOK /\ WindowTiled /\ NoZeroFill /\ LoudestFound /\ LoudestIsTrigger

\* aframe's answer is honest: a score of all detectors, and a rate no surer than its file.
ScoreIsHonest == ScoreIsWhole /\ FarIsHonest

-----------------------------------------------------------------------------
(***************************************************************************)
(* What the theorems assume of the requests and the data                   *)
(***************************************************************************)
\* A request names each detector once and has a bank; its times and widths are numbers,
\* and no width is negative.
WellAsked ==
    \A c \in Cases :
      LET q == Params(c.payload)
      IN  /\ c.kind = "pygrb" =>
               /\ q.detectors \in Seq(STRING) /\ IsInjective(q.detectors)
               /\ q.bank \in Seq(Nat \X Nat) /\ q.bank_n \in Nat \ {0} /\ q.subseg \in Nat
               /\ q.samples \in Seq(Int) /\ {q.trigger, q.sigma} \subseteq Int
               /\ {q.window, q.nsigma} \subseteq Nat
          /\ c.kind = "aframe" =>
               c.payload.req.detectors \in Seq(STRING) /\ IsInjective(c.payload.req.detectors)

\* Signals are finitely many and have a strength; a score remains after the warm-up.
WellHeard ==
    \A c \in Cases :
      /\ IsFiniteSet(c.sky) /\ \A g \in c.sky : g.snr \in Nat
      /\ c.scores \in Seq(Int) /\ c.warmup \in 0 .. Len(c.scores) - 1

\* A background file holds the events: all of them or, in a tail, so many of the loudest,
\* none louder dropped than the least it kept, which is its cut.
Tails(b, events, from) ==
    /\ \E r \in DOMAIN b.rows : b.rows[r] = b.cut
    /\ \A r \in DOMAIN b.rows : b.rows[r] = events[from[r]] /\ b.cut <= b.rows[r]
    /\ \A i \in DOMAIN events : i \in Range(from) \/ events[i] <= b.cut
Recorded ==
    \A c \in Cases :
      LET b == c.background
      IN  /\ c.events \in Seq(Int) /\ b.rows \in Seq(Int) /\ b.cut \in Int
          /\ \/ b.kind = "none"
             \/ b.kind = "full" /\ b.rows = c.events
             \/ b.kind = "tail"
                /\ \E from \in Injection(DOMAIN b.rows, DOMAIN c.events) : Tails(b, c.events, from)
=============================================================================
