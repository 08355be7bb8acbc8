---------------------------- MODULE AlertContext ----------------------------
(***************************************************************************)
(* What ORACLE and FLARE are given to classify with: the rows of the light *)
(* curve each takes, ORACLE's static features made of the BOOM alert and   *)
(* of SkyPortal's annotations (oracle_bridge.py), and FLARE's context made *)
(* of BOOM's cross-matches (flare_staging.py).                             *)
(***************************************************************************)
EXTENDS Integers, Sequences, FiniteSetsExt

CONSTANTS
    MinRows,    \* ORACLE's MIN_DETECTIONS
    MinPerBand, \* ORACLE's MIN_PER_BAND
    Features    \* the features that come from the alert or the annotations

\* A missing value, ZTF's own missing marker, the model's flag value.
Absent == -1000
Marker == -999
Flag == -9

-----------------------------------------------------------------------------
(***************************************************************************)
(* Light curves: SkyPortal's photometry as in module FleetHost, BOOM's     *)
(* previous candidates as rows [public, band, measured].                   *)
(***************************************************************************)
OracleBand == [ztfg |-> "g", ztfr |-> "r", ztfi |-> "i", g |-> "g", r |-> "r", i |-> "i"]
FlareBand == [ztfg |-> "g", ztfr |-> "r", ztfi |-> "i"]

PhotometryRows(p) ==
    [n \in {m \in DOMAIN p : p[m].filter \in DOMAIN OracleBand /\ p[m].kind = "det"}
        |-> OracleBand[p[n].filter]]
FlareRows(p) ==
    {n \in DOMAIN p : p[n].filter \in DOMAIN FlareBand /\ p[n].kind = "det" /\ p[n].ztf}
BoomRows(prv) ==
    [n \in {m \in DOMAIN prv : prv[m].public /\ prv[m].band \in {"g", "r", "i"}
                                 /\ prv[m].measured} |-> prv[n].band]

\* BOOM's light curve if it has one, else SkyPortal's: never both.
Bug_Pooled(p, prv) ==
    [x \in {<<1, n>> : n \in DOMAIN PhotometryRows(p)} \cup {<<2, n>> : n \in DOMAIN BoomRows(prv)}
        |-> IF x[1] = 1 THEN PhotometryRows(p)[x[2]] ELSE BoomRows(prv)[x[2]]]
OracleRows(p, prv) == IF DOMAIN BoomRows(prv) # {} THEN BoomRows(prv) ELSE PhotometryRows(p)

OfBand(rows, b) == {n \in DOMAIN rows : rows[n] = b}
Sufficient(rows) ==
    /\ Cardinality(DOMAIN rows) >= MinRows
    /\ Cardinality(OfBand(rows, "g")) >= MinPerBand
    /\ Cardinality(OfBand(rows, "r")) >= MinPerBand

-----------------------------------------------------------------------------
(***************************************************************************)
(* ORACLE's features.  An annotation is a function from keys to values; an *)
(* unreadable one has no key.  A feature is looked up under its own key    *)
(* and then, for scorr, under zogy_scorr.                                  *)
(***************************************************************************)
WiseBands == {"W1mag", "W2mag", "W3mag"}
Colours == {"W1_minus_W3", "W2_minus_W3"}
Keys == Features \cup {"zogy_scorr"} \cup WiseBands \cup Colours
AliasesOf(f) == IF f = "scorr" THEN <<"scorr", "zogy_scorr">> ELSE <<f>>

Has(m, k) == k \in DOMAIN m /\ m[k] # Absent
MergedAnnotations(anns) ==
    [k \in {x \in Keys : \E n \in DOMAIN anns : Has(anns[n], x)} |->
        anns[Max({n \in DOMAIN anns : Has(anns[n], k)})][k]]

\* cross_matches.AllWISE: a function from the measured bands to magnitudes.
WiseColour(w, a, b) ==
    IF DOMAIN w = {} THEN 0
    ELSE IF {a, b} \subseteq DOMAIN w THEN w[a] - w[b] ELSE Flag
WiseFeatures(w) ==
    [k \in DOMAIN w \cup Colours |->
        IF k \in DOMAIN w THEN w[k]
        ELSE WiseColour(w, IF k = "W1_minus_W3" THEN "W1mag" ELSE "W2mag", "W3mag")]

Over(m, n) == [k \in DOMAIN m \cup DOMAIN n |-> IF Has(m, k) \/ k \notin DOMAIN n THEN m[k] ELSE n[k]]
Metadata(anns, candidate, wise) ==
    Over(WiseFeatures(wise), Over(candidate, MergedAnnotations(anns)))

Feat(merged, f) ==
    LET good == {n \in DOMAIN AliasesOf(f) :
                    Has(merged, AliasesOf(f)[n]) /\ merged[AliasesOf(f)[n]] # Marker}
    IN  IF good = {} THEN Flag ELSE merged[AliasesOf(f)[Min(good)]]

StaticVector(anns, candidate, wise) ==
    [f \in Features \cup WiseBands \cup Colours |-> Feat(Metadata(anns, candidate, wise), f)]

-----------------------------------------------------------------------------
(***************************************************************************)
(* FLARE's context: cross_matches is a function from catalogues to the     *)
(* sequence of their rows, nearest first.                                  *)
(***************************************************************************)
FirstRow(cm, cats) ==
    LET full == {n \in DOMAIN cats : cats[n] \in DOMAIN cm /\ cm[cats[n]] # <<>>}
    IN  IF full = {} THEN {} ELSE {cm[cats[Min(full)]][1]}

\* A row of the Legacy Survey may have no photometric redshift.
Photoz(cm) ==
    LET ls == {r \in FirstRow(cm, <<"LSDR10", "LS_DR10_PHOTOZ">>) : r.z # Absent}
        ned == {r \in FirstRow(cm, <<"NED">>) : r.z # Absent}
    IN  IF ls # {} THEN ls ELSE ned

Context(cm) ==
    LET blocks == [gaia |-> FirstRow(cm, <<"Gaia_DR3", "Gaia_EDR3">>),
                   wise |-> FirstRow(cm, <<"AllWISE">>),
                   pos |-> FirstRow(cm, <<"PS1_DR2", "PS1_DR1">>),
                   photoz |-> Photoz(cm)]
    IN  [b \in {c \in DOMAIN blocks : blocks[c] # {}} |-> CHOOSE r \in blocks[b] : TRUE]
=============================================================================
