----------------------------- MODULE SearchPlan -----------------------------
(***************************************************************************)
(* What the gravitational-wave bridges compute before and after the        *)
(* filters run: pygrb_bridge.py's parameters, on-source window, template   *)
(* bank, subsegments and triggers, aframe_bridge.py's false-alarm rate and *)
(* igwn_strain.py's choice of a client.  Times are whole samples of the    *)
(* analysis rate, an MJD is a GPS time shifted by MjdEpoch, and a chirp    *)
(* mass stands for the equal-mass template it makes.                       *)
(***************************************************************************)
EXTENDS Integers, SequencesExt, Subsequence, Sums

CONSTANTS
    MjdEpoch,   \* the GPS time of MJD 0
    Valid,      \* _VALID_DETECTORS
    Floor,      \* the default onsource_window
    Nsigma,     \* the default t0_window_nsigma
    Psd, Pad,   \* psd_seconds, pad_seconds
    Fir,        \* what highpass_fir takes off each end: 512 samples
    Edge,       \* the margin for the geocentre shift
    Cluster,    \* the least distance between two triggers
    MaxTriggers,\* max_n
    Threshold,  \* trigger_threshold
    Step        \* rows of a background file read at a time

Unset == -1     \* None

Defaults ==
    [detectors |-> <<"H1", "L1", "V1">>, source |-> "gwosc", event |-> FALSE,
     trigger |-> Unset, format |-> "gps", samples |-> <<>>, sigma |-> Unset,
     mode |-> "t0", window |-> Floor, nsigma |-> Nsigma, subseg |-> 0, dry |-> FALSE,
     bank |-> <<>>, chirp |-> <<>>, mass1 |-> <<>>, mass2 |-> <<>>, bank_n |-> 2, mass |-> <<2, 2>>]

\* {**g, **f}
Over(f, g) == [x \in DOMAIN f \cup DOMAIN g |-> IF x \in DOMAIN f THEN f[x] ELSE g[x]]

\* A live event's time and position stand in for what the request leaves out.
Bug_GcnFirst(p) ==
    LET base == Over(p.req, Defaults)
    IN  IF p.gcn.gps # Unset /\ base.trigger = Unset
        THEN [base EXCEPT !.trigger = p.gcn.gps, !.format = "gps", !.samples = <<>>] ELSE base
Params(p) ==
    LET base == Over(p.req, Defaults)
        timed == IF p.gcn.gps # Unset /\ base.trigger = Unset /\ base.samples = <<>>
                 THEN [base EXCEPT !.trigger = p.gcn.gps, !.format = "gps"] ELSE base
        placed == IF p.gcn.sky # Unset THEN Over(timed, [sky |-> p.gcn.sky]) ELSE timed
    IN  IF p.gcn.gps # Unset /\ "source" \notin DOMAIN p.req
        THEN [placed EXCEPT !.source = "gwdatafind"] ELSE placed

\* The parameters of the search a kilonova fit asks for.
MergerChirp == [BNS |-> <<2, 3>>, NSBH |-> <<3, 9>>]
KnParams(fit, sky, type) ==
    LET time == IF fit.t0 # <<>> THEN [samples |-> fit.t0, format |-> "mjd"]
                ELSE IF fit.epoch # Unset THEN [trigger |-> fit.epoch, format |-> "mjd"] ELSE <<>>
        mass == IF type \in DOMAIN MergerChirp THEN [chirp |-> MergerChirp[type]] ELSE <<>>
    IN  Over([sky |-> sky], Over(time, mass))

ToGps(v, format) == IF format = "mjd" THEN v + MjdEpoch ELSE v

\* The k-th of the sorted samples.
Kth(s, k) ==
    CHOOSE x \in ToSet(s) :
      /\ Cardinality({i \in DOMAIN s : s[i] < x}) < k
      /\ Cardinality({i \in DOMAIN s : s[i] <= x}) >= k
Median(s) ==
    LET n == Len(s)
    IN  IF n % 2 = 1 THEN Kth(s, (n + 1) \div 2)
        ELSE (Kth(s, n \div 2) + Kth(s, n \div 2 + 1)) \div 2
\* The standard deviation, rounded up to a whole sample.
Scatter(s) ==
    Len(s) * Total([i \in 1 .. Len(s) |-> s[i] * s[i]]) - Total(s) * Total(s)
Pstdev(s) ==
    LET n == Len(s) v == Scatter(s)
    IN  CHOOSE d \in 0 .. v : n * n * d * d >= v /\ (d = 0 \/ n * n * (d - 1) * (d - 1) < v)

NoTrigger == [ok |-> FALSE, gps |-> 0, window |-> 0, t0 |-> "none"]
ResolveTrigger(q) ==
    LET sampled == q.samples # <<>>
        gps == IF sampled THEN ToGps(Median(q.samples), "mjd") ELSE ToGps(q.trigger, q.format)
        sigma == IF sampled THEN Pstdev(q.samples) ELSE q.sigma
        widened == Max({q.window, q.nsigma * sigma})
    IN  IF ~sampled /\ q.trigger = Unset THEN NoTrigger
        ELSE IF q.mode = "fixed" \/ sigma = Unset
        THEN [ok |-> TRUE, gps |-> gps, window |-> q.window, t0 |-> "fixed"]
        ELSE [ok |-> TRUE, gps |-> gps, window |-> widened,
              t0 |-> IF sampled THEN "kn_posterior" ELSE "kn_sigma"]

Detectors(q) == Picked(q.detectors, {k \in DOMAIN q.detectors : q.detectors[k] \in Valid})
\* The position of the request or, if it names none, of the source.
Sky(p) == LET q == Params(p) IN IF "sky" \in DOMAIN q THEN q.sky ELSE p.sky

Linspace(lo, hi, n) == [k \in 1 .. n |-> IF n = 1 THEN lo ELSE lo + ((k - 1) * (hi - lo)) \div (n - 1)]
Bank(q) ==
    LET grid(r) == Linspace(r[1], r[2], q.bank_n)
    IN  IF q.bank # <<>> THEN q.bank
        ELSE IF q.chirp # <<>> THEN [k \in 1 .. q.bank_n |-> <<grid(q.chirp)[k], grid(q.chirp)[k]>>]
        ELSE IF q.mass1 # <<>> /\ q.mass2 # <<>>
        THEN [k \in 1 .. q.bank_n * q.bank_n |->
                <<grid(q.mass1)[((k - 1) \div q.bank_n) + 1], grid(q.mass2)[((k - 1) % q.bank_n) + 1]>>]
        ELSE <<q.mass>>

-----------------------------------------------------------------------------
(***************************************************************************)
(* The grid                                                                *)
(***************************************************************************)
\* round(x / n), to the even neighbour from the middle.
Rounded(x, n) ==
    LET f == x \div n r == x % n
    IN  IF 2 * r < n \/ (2 * r = n /\ f % 2 = 0) THEN f ELSE f + 1

\* How many subsegments a window of half-width w is cut into.
SubCount(w, s) == IF s > 0 /\ 2 * w > s THEN (2 * w + s - 1) \div s ELSE 1

\* Subsegment k of n: the first sample of its grid and the number of samples.
Segment(t0, w, n, k) ==
    [first |-> Rounded((t0 - w) * n + 2 * w * (k - 1), n), size |-> Rounded(2 * w, n)]

\* A detector's filtered series: what is left of the strain asked for by the high-pass
\* filter and the crop, of half the PSD stretch and of the padding.
SeriesFrom(s) == s.first - Psd - Pad + Fir + Psd \div 2
SeriesTo(s) == s.first + s.size + Edge - Fir

\* Where grid point j falls in the series of a detector that hears the source d samples
\* after the centre of the earth: at one sample or, outside the series, at none, and the
\* zero fill stays.
AlignedAt(s, d, j) ==
    LET i0 == s.first + d - SeriesFrom(s)
        a == Max({0, -i0})
        b == Min({s.size, SeriesTo(s) - SeriesFrom(s) - i0})
    IN  {t \in {SeriesFrom(s) + i0 + j} : a <= j /\ j < b}

\* find_peaks: the middle of each level stretch above the threshold that is higher than
\* the samples on either side; of two that are too close, the louder.
Crests(g) ==
    LET inner == 1 .. Cardinality(DOMAIN g) - 2
    IN  {x \in inner \X inner :
           /\ x[1] <= x[2] /\ \A j \in x[1] .. x[2] : g[j] = g[x[1]]
           /\ g[x[1]] >= Threshold /\ g[x[1]] > g[x[1] - 1] /\ g[x[2]] > g[x[2] + 1]}
Peaks(g) == {(x[1] + x[2]) \div 2 : x \in Crests(g)}
Louder(g, p, q) == g[p] > g[q] \/ (g[p] = g[q] /\ p > q)
Close(p, q) == p - q < Cluster /\ q - p < Cluster
Spread(g, peaks) ==
    CHOOSE kept \in SUBSET peaks :
      \A p \in peaks : p \in kept <=> ~\E q \in kept : Louder(g, q, p) /\ Close(p, q)
\* Without scipy, every sample above the threshold; either way the MaxTriggers loudest.
Triggers(g, scipy) ==
    LET kept == IF scipy THEN Spread(g, Peaks(g)) ELSE {j \in DOMAIN g : g[j] >= Threshold}
    IN  {p \in kept : Cardinality({q \in kept : Louder(g, q, p)}) < MaxTriggers}

-----------------------------------------------------------------------------
(***************************************************************************)
(* Clients and the false-alarm rate                                        *)
(***************************************************************************)
\* The command-line client a worker has: in the image, shipped, on CVMFS.
PelicanExe(w) == IF "image" \in w THEN "image" ELSE IF "shipped" \in w THEN "shipped"
                 ELSE IF "cvmfs" \in w THEN "cvmfs" ELSE "none"
\* _pelican_get, where the clients of "works" would succeed.  A command line that runs
\* into its time limit, or that cannot be run, raises before pelicanfs is tried.
Stuck(w, works) == PelicanExe(w) # "none" /\ "stuck" \in works
Bug_NoFallback(w, works) ==
    IF ~Stuck(w, works) /\ PelicanExe(w) \in works THEN "frames" ELSE "raised"
PelicanGet(w, works) ==
    IF Stuck(w, works) THEN "raised"
    ELSE IF PelicanExe(w) \in works \/ ("pelicanfs" \in w /\ "pelicanfs" \in works)
    THEN "frames" ELSE "raised"
\* fetch_frames: the lookup in the image or in the CVMFS environment, then the copies.
FetchFrames(w, works, indexed) ==
    IF {"gwdatafind", "cvmfs"} \cap w = {} \/ "lookup" \notin works THEN "raised"
    ELSE IF ~indexed THEN "none" ELSE PelicanGet(w, works)

\* _token_env: a token file named in the environment goes before the delivered one.
Token(named) == IF named THEN "osdf_write" ELSE "scitoken"

\* A background file: every event, or a tail, the loudest of them down to the cut.
\* Counted in blocks.
BlockCount(rows, i, x) ==
    Cardinality({r \in i .. Min({i + Step - 1, Len(rows)}) : rows[r] >= x})
Louds(rows, x) ==
    LET starts == {i \in 1 .. Len(rows) : (i - 1) % Step = 0}
    IN  Volume([i \in starts |-> BlockCount(rows, i, x)])
Bug_TailForgotten(x, bg) ==
    LET n == Louds(bg.rows, x)
    IN  [n |-> n, bound |-> IF bg.kind = "none" THEN "none"
                            ELSE IF n = 0 THEN "upper" ELSE "exact"]
ComputeFar(x, bg) ==
    LET n == Louds(bg.rows, x)
    IN  [n |-> n, bound |-> IF bg.kind = "none" THEN "none"
                            ELSE IF bg.kind = "tail" /\ x < bg.cut THEN "lower"
                            ELSE IF n = 0 THEN "upper" ELSE "exact"]
=============================================================================
