------------------------------ MODULE MCSearch ------------------------------
(* Windows of up to eleven samples in up to four subsegments, two           *)
(* detectors, banks of up to four templates, fits, live events and workers  *)
(* with every mix of clients.                                               *)
EXTENDS Search

MCDelay == [i \in {"H1", "L1", "V1"} |-> CASE i = "H1" -> 0 [] i = "L1" -> 2 [] i = "V1" -> -2]
MCValid == {"H1", "L1", "V1"}

NoGcn == [gps |-> Unset, sky |-> Unset]
Quiet == [kind |-> "none", cut |-> 0, rows |-> <<>>]
Plain == [kind |-> "pygrb", named |-> FALSE, worker |-> {}, sky |-> {}, scores |-> <<1>>, warmup |-> 0,
          background |-> Quiet, events |-> <<>>,
          payload |-> [req |-> <<>>, gcn |-> NoGcn, sky |-> 1]]
Ask(req, gcn) == [Plain EXCEPT !.payload = [req |-> req, gcn |-> gcn, sky |-> 1]]
One == [event |-> TRUE, detectors |-> <<"H1", "XX">>]

\* Windows: half-widths and subsegment lengths that do and do not divide.
WindowCases ==
    {Ask([trigger |-> 20, mode |-> m, window |-> w, sigma |-> g, nsigma |-> 2, subseg |-> s] @@ One,
         NoGcn) : m \in {"t0", "fixed"}, w \in {0, 1, 4, 5}, g \in {Unset, 3}, s \in {0, 3, 4}}

\* Fits, with and without a live event.
Fits == {<<>>, <<4>>, <<4, 5>>, <<3, 4, 5>>, <<4, 4, 4, 4, 8>>, <<0, 4, 4, 4, 4, 4, 4, 4, 4, 8>>}
FitCases == {Ask(KnParams([t0 |-> t, epoch |-> e], 1, k) @@ One, g) :
               t \in Fits, e \in {Unset, 6}, k \in {"BNS", "BBH"},
               g \in {NoGcn, [gps |-> 30, sky |-> 2]}}

\* Skies: a candidate at either end, in the middle, on the joint; two templates; noise.
Heard(t, m, r) == {[ifo |-> i, mass |-> m, at |-> t + MCDelay[i], snr |-> r] : i \in {"H1", "L1"}}
Skies == {Heard(t, <<3, 3>>, 5) \cup Heard(u, <<2, 2>>, r) : t, u \in {16, 19, 20, 23}, r \in {3, 6}}
SkyCases == {[Ask([trigger |-> 20, event |-> TRUE, detectors |-> <<"H1", "L1">>, window |-> 4,
                   subseg |-> s, bank |-> b], NoGcn) EXCEPT !.sky = k] :
               k \in Skies, s \in {0, 4}, b \in {<< <<2, 2>>, <<3, 3>> >>, << <<3, 3>>, <<2, 2>> >>}}
Hiss == [Ask([trigger |-> 20, window |-> 6, mass1 |-> <<2, 3>>, mass2 |-> <<2, 3>>] @@ One, NoGcn) EXCEPT
           !.sky = {[ifo |-> "H1", mass |-> <<2, 3>>, at |-> x, snr |-> IF x % 2 = 0 THEN x - 12 ELSE 0] : x \in 14 .. 26}]
\* Level tops, in the middle and at the edge.
Level == [Ask([trigger |-> 20, window |-> 6] @@ One, NoGcn) EXCEPT
            !.sky = {[ifo |-> "H1", mass |-> <<2, 2>>, at |-> x, snr |-> IF x < 24 THEN 5 ELSE 4] :
                       x \in {14, 15, 18, 19, 20, 23, 24}}]

\* Workers, and requests that cannot be searched.
WorkerCases ==
    {[Ask([source |-> "gwdatafind", trigger |-> 20, window |-> 1, detectors |-> <<"H1", "V1">>], NoGcn)
        EXCEPT !.worker = w, !.named = n] : n \in BOOLEAN, w \in SUBSET {"gwdatafind", "image", "shipped", "cvmfs", "pelicanfs"}}
BadCases == {Ask(<<>>, NoGcn), Ask([detectors |-> <<"XX">>, trigger |-> 20], NoGcn),
             Ask([dry |-> TRUE, trigger |-> 20], NoGcn), Ask([trigger |-> 20], NoGcn),
             [Plain EXCEPT !.payload.req = [trigger |-> 20], !.payload.sky = Unset]}

\* aframe: detectors, scores, backgrounds whole and the loudest k of them.
Events == {<<>>, <<3, 5, 1>>, <<5, 5, 2, 1, 4>>}
Top(e, k) == SubSeq(SortSeq(e, LAMBDA x, y : x > y), 1, k)
Backgrounds(e) == {Quiet, [kind |-> "full", cut |-> 0, rows |-> e]}
    \cup {[kind |-> "tail", cut |-> Top(e, k)[k], rows |-> Top(e, k)] : k \in DOMAIN e}
AframeBase == [Plain EXCEPT !.kind = "aframe", !.warmup = 1,
                 !.payload.req = [trigger |-> 20, source |-> "gwosc", detectors |-> <<"H1", "L1">>]]
AframeCases ==
    {[AframeBase EXCEPT !.events = p[1], !.background = p[2], !.scores = s] :
        p \in UNION {{<<e, b>> : b \in Backgrounds(e)} : e \in Events},
        s \in {<<6, 1, 2>>, <<1, 4>>, <<0, 5, 3>>, <<2, 6>>}}
    \cup {[AframeBase EXCEPT !.payload.req = [trigger |-> t, detectors |-> <<"H1", "L1">>],
                             !.payload.gcn.gps = g, !.worker = {"gwdatafind", "pelicanfs"},
                             !.scores = <<1, 2>>] : t \in {Unset, 20}, g \in {Unset, 14}}

MCCases == WindowCases \cup FitCases \cup SkyCases \cup {Hiss, Level} \cup WorkerCases \cup BadCases \cup AframeCases

\* What the theorems assume holds of the instance.
ASSUME PassAssumption == WellAsked /\ WellHeard /\ Recorded
=============================================================================
