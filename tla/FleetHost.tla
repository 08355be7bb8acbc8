------------------------------ MODULE FleetHost ------------------------------
(***************************************************************************)
(* What FLEET is given to classify with (fleet_bridge.py): the light curve *)
(* made of SkyPortal's photometry, and the catalogue of host candidates    *)
(* made of the BOOM data the listener staged.                              *)
(*                                                                         *)
(* A magnitude is represented by the band it was measured in, a row's      *)
(* photometry by the set of its measured bands, a catalogue row by where   *)
(* it comes from (a crossmatch row, 0 for BOOM's own photometry, -1 for    *)
(* nowhere) and which measurement each of FLEET's bands was filled with.   *)
(***************************************************************************)
EXTENDS Integers, Sequences, FiniteSetsExt

CONSTANTS
    Width,          \* half the bits of a BSON integer (the code: 32)
    MaxSep,         \* _HOST_MAX_SEP_ARCSEC
    PhaseMax,       \* FLEET_PHASE_MAX_DAYS
    MinDetections   \* FLEET_MIN_DETECTIONS

ASSUME FleetAssumption ==
    /\ {Width, MaxSep, PhaseMax, MinDetections} \subseteq Nat
    /\ 2 ^ Width \in Nat \ {0}

-----------------------------------------------------------------------------
(***************************************************************************)
(* The light curve: a function from row numbers to                         *)
(* [filter, day, kind, ztf], kind "det" (five sigma), "weak" (a magnitude  *)
(* of less), "limit" (a limiting magnitude only) or "blank".               *)
(***************************************************************************)
FleetBand == [ztfg |-> "g", ztfr |-> "r", ztfi |-> "i", g |-> "g", r |-> "r", i |-> "i",
              sdssg |-> "g", sdssr |-> "r", sdssi |-> "i"]

LightcurveRows(p) ==
    {n \in DOMAIN p : p[n].filter \in DOMAIN FleetBand /\ p[n].kind # "blank"}
Detections(p) == {n \in LightcurveRows(p) : p[n].kind \in {"det", "weak"}}

\* The detections FLEET's fit looks at.
Early(p) ==
    LET first == Min({p[n].day : n \in Detections(p)})
    IN  {n \in Detections(p) : p[n].day - first < PhaseMax}

InBand(p, S, b) == {n \in S : FleetBand[p[n].filter] = b}

Unclassifiable(p, north) ==
    \/ ~north
    \/ Detections(p) = {}
    \/ InBand(p, Early(p), "g") = {} \/ InBand(p, Early(p), "r") = {}
    \/ Cardinality(Early(p)) < MinDetections

-----------------------------------------------------------------------------
(***************************************************************************)
(* The host.  A crossmatch row is [id, type, dist, mags, coords]; best is  *)
(* BOOM's host_galaxy.best_host, with 0 for a name it does not give.       *)
(***************************************************************************)
Half == 2 ^ Width
Unknown == -1

\* A BSON int64 as JSON delivers it: two signed halves, or a plain number.
Bson(v) == [high |-> v \div Half,
            low |-> IF v % Half < Half \div 2 THEN v % Half ELSE (v % Half) - Half]
Bug_Unmasked(v) == IF "high" \in DOMAIN v THEN v.high * Half + v.low ELSE v.whole
RowId(v) == IF "high" \in DOMAIN v THEN v.high * Half + (v.low % Half) ELSE v.whole

BestName(best) ==
    IF best.catalog = "LSDR10" THEN best.objname
    ELSE IF best.phot = "LSDR10" THEN best.source ELSE 0

\* The number of the one row to use as the host, 0 for none.
Named(rows, best) == {k \in DOMAIN rows : BestName(best) # 0 /\ RowId(rows[k].id) = BestName(best)}
Near(rows) == {k \in DOMAIN rows : rows[k].type # "DUP" /\ rows[k].dist # Unknown}
Nearest(rows) == Min({k \in Near(rows) : \A l \in Near(rows) : rows[k].dist <= rows[l].dist})
SelectHostRow(rows, best) ==
    IF Named(rows, best) # {} THEN Min(Named(rows, best))
    ELSE IF Near(rows) # {} /\ rows[Nearest(rows)].dist <= MaxSep THEN Nearest(rows)
    ELSE 0

CatBands == <<"u", "g", "r", "i", "z">>
Order(b) == CHOOSE k \in DOMAIN CatBands : CatBands[k] = b
Gap(b, c) == IF Order(b) < Order(c) THEN Order(c) - Order(b) ELSE Order(b) - Order(c)

\* The measured band a missing one is filled from; the bluer one on a tie.
Fill(mags, b) ==
    CHOOSE c \in mags : \A d \in mags :
        Gap(b, c) < Gap(b, d) \/ (Gap(b, c) = Gap(b, d) /\ Order(c) <= Order(d))

\* The one record, or none without a position or without g and r.
CatalogRecord(of, coords, mags) ==
    IF coords /\ mags \cap {"g", "r"} # {}
    THEN {[of |-> of, mag |-> [k \in DOMAIN CatBands |-> Fill(mags, CatBands[k])]]}
    ELSE {}
RowToCatalog(rows, k) == CatalogRecord(k, rows[k].coords, rows[k].mags)
PhotometryToCatalog(best) == CatalogRecord(0, best.coords, best.mags)

StarTypes == {"PSF", "DUP"}
HostRows(rows, best) ==
    IF best.phot \notin {"none", "LSDR10"} THEN PhotometryToCatalog(best)
    ELSE IF SelectHostRow(rows, best) # 0 THEN RowToCatalog(rows, SelectHostRow(rows, best))
    ELSE UNION {RowToCatalog(rows, k) : k \in {l \in DOMAIN rows : rows[l].type \notin StarTypes}}

NoHostSentinel == [of |-> -1, mag |-> [k \in DOMAIN CatBands |-> "99"]]

WriteCatalog(rows, best) ==
    IF HostRows(rows, best) = {} THEN {NoHostSentinel} ELSE HostRows(rows, best)
=============================================================================
