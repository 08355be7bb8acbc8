------------------------------ MODULE Classify ------------------------------
(***************************************************************************)
(* One classification, from the listener to the callback's analysis: the   *)
(* handler's check of a FLEET request (main.py), the context the submit    *)
(* thread stages from BOOM ({fleet,oracle,flare}_staging.py), what the     *)
(* bridge on the worker makes of it ({fleet,oracle,flare}_bridge.py) and   *)
(* what the wrapper passes on ({fleet,oracle,flare}_wrapper.py).           *)
(* Staging is optional throughout; the networks themselves are external.   *)
(***************************************************************************)
EXTENDS FleetHost, AlertContext

CONSTANTS
    Cases,      \* the requests and what BOOM holds for them
    Retries,    \* _STAGE_RETRIES
    Classes,    \* the classes of a model, as a sequence
    Labelled    \* those ORACLE_TO_TAXONOMY, FLARE_TO_TAXONOMY have a label for

ASSUME ClassifyAssumption ==
    /\ Retries \in Nat \ {0} /\ MinRows \in Nat /\ MinPerBand \in Nat
    /\ Classes \in Seq(STRING) /\ Labelled \subseteq DOMAIN Classes
    /\ \A c \in Cases : c.wrapper \in {"fleet", "oracle", "flare"}
    /\ Features \cap (WiseBands \cup Colours) = {}

\* What BOOM and SkyPortal send: magnitudes of bands the code knows; a list where
\* it expects one; an object of the survey once among the crossmatches, under its
\* id as BSON gives it.
ASSUME BoomAssumption ==
    \A c \in Cases :
        /\ IsFiniteSet(DOMAIN c.phot)
        /\ Len(c.anns) \in Nat /\ DOMAIN c.anns = 1 .. Len(c.anns)
        /\ \A w \in {c.wise, c.xmatch} : DOMAIN w \subseteq WiseBands
        /\ DOMAIN c.wise # {} => c.matched
        /\ c.best.mags \subseteq {"u", "g", "r", "i", "z"}
        /\ DOMAIN c.rows \subseteq Nat \ {0}
        /\ \A k \in Near(c.rows) : c.rows[k].dist \in Nat
        /\ \A k \in DOMAIN c.rows :
              /\ c.rows[k].mags \subseteq {"u", "g", "r", "i", "z"}
              /\ c.rows[k].real \in Int \ {0} /\ c.rows[k].id = Bson(c.rows[k].real)
              /\ \A l \in DOMAIN c.rows : c.rows[l].real = c.rows[k].real => l = k

VARIABLES
    case,       \* the request, BOOM's data and the configuration
    pc,         \* where the analysis is
    tries,      \* BOOM lookups made
    refused,    \* a lookup came back with a 4xx, or broke in another way
    staged,     \* the pieces in the job's directory
    catalog,    \* catalogs/<name>.cat, FLEET's only source of hosts
    features,   \* ORACLE's static vector
    result,     \* the bridge's result
    analysis    \* the keys of the callback's analysis

vars == <<case, pc, tries, refused, staged, catalog, features, result, analysis>>

Nothing == [status |-> "none", keys |-> {}, class |-> 0, probs |-> <<>>]

Init ==
    /\ case \in Cases
    /\ pc = "request" /\ tries = 0 /\ refused = FALSE
    /\ staged = {} /\ catalog = {} /\ features = <<>>
    /\ result = Nothing /\ analysis = {}

-----------------------------------------------------------------------------
(***************************************************************************)
(* The listener                                                            *)
(***************************************************************************)
\* 422 insufficient_data, for FLEET only.
Refuse ==
    /\ pc = "request" /\ case.wrapper = "fleet" /\ Unclassifiable(case.phot, case.north)
    /\ pc' = "refused"
    /\ UNCHANGED <<case, tries, refused, staged, catalog, features, result, analysis>>

\* FLARE's staging is opt-in; it and the others end at once without SkyPortal's
\* database or an active BOOM broker.
Admit ==
    /\ pc = "request"
    /\ ~(case.wrapper = "fleet" /\ Unclassifiable(case.phot, case.north))
    /\ pc' = IF case.db /\ (case.wrapper = "flare" => case.optin) THEN "find" ELSE "job"
    /\ UNCHANGED <<case, tries, refused, staged, catalog, features, result, analysis>>

Stage(pieces, next) ==
    /\ staged' = staged \cup pieces
    /\ pc' = next
    /\ UNCHANGED <<case, catalog, features, result, analysis>>

\* The exception ends the staging; what it has written so far is shipped.
StagingRaises == refused' = TRUE /\ Stage({}, "job")

\* _boom_find: a 5xx, a timeout or a broken connection.
Attempts == IF case.wrapper = "fleet" THEN Retries ELSE 1
BoomBlip ==
    /\ pc = "find" /\ tries < Attempts
    /\ tries' = tries + 1 /\ refused' = refused
    /\ Stage({}, IF tries' < Attempts THEN "find" ELSE "job")

BoomRefuses == pc = "find" /\ tries < Attempts /\ tries' = tries + 1 /\ StagingRaises

HostPieces == IF case.rows # <<>> \/ case.best.catalog # "none" \/ case.best.phot # "none"
              THEN {"host"} ELSE {}
ContextPieces == IF DOMAIN Context(case.cross) # {} THEN {"context"} ELSE {}

BoomAnswers ==
    /\ pc = "find" /\ tries < Attempts
    /\ tries' = tries + 1 /\ refused' = refused
    /\ \/ case.wrapper = "fleet" /\ Stage(HostPieces, "job")
       \/ case.wrapper = "flare" /\ Stage(ContextPieces, "job")
       \/ case.wrapper = "oracle" /\ Stage({}, IF case.alert THEN "aux" ELSE "job")

\* stage_cutout: the aux document may fail, the alert is written all the same.
AuxAnswers ==
    /\ pc = "aux" /\ UNCHANGED <<tries, refused>>
    /\ Stage(IF DOMAIN case.candidate # {} \/ case.prv # <<>> THEN {"alert", "aux"} ELSE {}, "cutout")
AuxFails ==
    /\ pc = "aux" /\ UNCHANGED <<tries, refused>>
    /\ Stage(IF DOMAIN case.candidate # {} THEN {"alert"} ELSE {}, "cutout")

CutoutAnswers ==
    /\ pc = "cutout" /\ UNCHANGED <<tries, refused>>
    /\ Stage(IF case.cutout THEN {"cutout"} ELSE {}, "job")
CutoutRaises == pc = "cutout" /\ tries' = tries /\ StagingRaises

-----------------------------------------------------------------------------
(***************************************************************************)
(* The worker.  The bridge reads what was staged, and does without what    *)
(* was not.                                                                *)
(***************************************************************************)
\* host_galaxy absent: no row, no best host.
NoBest == [catalog |-> "none", phot |-> "none", objname |-> 0, source |-> 0, mags |-> {},
           coords |-> FALSE]
HostFile == IF "host" \in staged THEN [rows |-> case.rows, best |-> case.best]
            ELSE [rows |-> <<>>, best |-> NoBest]
AlertFile ==
    [candidate |-> IF "alert" \in staged THEN case.candidate ELSE <<>>,
     prv |-> IF "aux" \in staged THEN case.prv ELSE <<>>,
     \* the aux document's cross-matches if it has any, else the alert's own
     wise |-> IF "aux" \in staged /\ case.matched THEN case.wise
              ELSE IF "alert" \in staged THEN case.xmatch ELSE <<>>]

Failure == [Nothing EXCEPT !.status = "failure"]

\* max(probs, key=probs.get): the first of the most probable.
Predicted(probs) == Min({k \in DOMAIN probs : \A l \in DOMAIN probs : probs[l] <= probs[k]})

Classified(probs, predicted, keys, headline) ==
    [status |-> "success",
     keys |-> keys \cup IF headline THEN {"classifications"} ELSE {},
     class |-> IF headline THEN predicted ELSE 0,
     probs |-> probs]

\* The model, any forest or network: the likelihood of each class, some or all
\* missing.
Vectors == UNION {[S -> 0 .. 1] : S \in SUBSET DOMAIN Classes}

Ran(r) ==
    /\ result' = r
    /\ pc' = "bundle"
    /\ UNCHANGED <<case, tries, refused, staged, analysis>>

\* Without a row write_lightcurve raises; predict() of the image may raise or give
\* no probabilities.  Each of FLEET_CLASSES has a label.
RunFleet ==
    /\ pc = "job" /\ case.wrapper = "fleet"
    /\ catalog' = IF LightcurveRows(case.phot) = {} THEN {}
                  ELSE WriteCatalog(HostFile.rows, HostFile.best)
    /\ features' = features
    /\ \E probs \in Vectors :
         Ran(IF LightcurveRows(case.phot) = {} \/ DOMAIN probs = {} THEN Failure
             ELSE Classified(probs, Predicted(probs), {"results", "annotations"}, TRUE))

\* The network may be missing or raise, and a label may be.
RunOracle ==
    /\ pc = "job" /\ case.wrapper = "oracle"
    /\ catalog' = catalog
    /\ LET rows == OracleRows(case.phot, AlertFile.prv)
       IN  IF DOMAIN rows = {}
           THEN Ran(Failure) /\ features' = features
           ELSE \/ Ran(Failure) /\ features' = features
                \/ /\ features' = StaticVector(case.anns, AlertFile.candidate, AlertFile.wise)
                   /\ \E probs \in Vectors :
                        Ran(IF DOMAIN probs = {} THEN Failure
                            ELSE Classified(probs, Predicted(probs), {"results", "annotations"},
                                            Predicted(probs) \in Labelled /\ Sufficient(rows)))

\* analyze() of the FLARE image may fail, and decides on its own what it returns
\* and which class it predicts, one without a probability or none (0) included.
FlareKeys == {"results", "annotations", "model_lightcurve", "plots"}
RunFlare ==
    /\ pc = "job" /\ case.wrapper = "flare"
    /\ UNCHANGED <<catalog, features>>
    /\ IF FlareRows(case.phot) = {} THEN Ran(Failure)
       ELSE \/ Ran(Failure)
            \/ \E probs \in Vectors, predicted \in DOMAIN Classes \cup {0},
                  keys \in SUBSET FlareKeys :
                 /\ "results" \in keys \/ DOMAIN probs = {}
                 /\ Ran(Classified(probs, predicted, keys,
                                   predicted \in Labelled \cap DOMAIN probs))

\* bundle_for_skyportal of each wrapper: the keys it looks for.
FleetForwards == {"results", "annotations", "classifications"}
OracleForwards == {"results", "annotations", "classifications"}
FlareForwards == {"results", "plots", "annotations", "classifications", "model_lightcurve"}
Forwards == CASE case.wrapper = "fleet" -> FleetForwards
              [] case.wrapper = "oracle" -> OracleForwards
              [] case.wrapper = "flare" -> FlareForwards

Bundle ==
    /\ pc = "bundle"
    /\ analysis' = IF result.status = "success" THEN result.keys \cap Forwards ELSE {}
    /\ pc' = "done"
    /\ UNCHANGED <<case, tries, refused, staged, catalog, features, result>>

-----------------------------------------------------------------------------
Next == \/ Refuse \/ Admit \/ BoomBlip \/ BoomRefuses \/ BoomAnswers
        \/ AuxAnswers \/ AuxFails \/ CutoutAnswers \/ CutoutRaises
        \/ RunFleet \/ RunOracle \/ RunFlare \/ Bundle

Spec == Init /\ [][Next]_vars

-----------------------------------------------------------------------------
TypeOK ==
    /\ pc \in {"request", "refused", "find", "aux", "cutout", "job", "bundle", "done"}
    /\ tries \in 0 .. Retries /\ refused \in BOOLEAN
    /\ staged \subseteq (CASE case.wrapper = "fleet" -> {"host"}
                           [] case.wrapper = "oracle" -> {"alert", "aux", "cutout"}
                           [] case.wrapper = "flare" -> IF case.optin THEN {"context"} ELSE {})
    /\ staged # {} => case.db
    /\ result.status \in {"none", "success", "failure"} /\ analysis \subseteq result.keys

(***************************************************************************)
(* The host BOOM's association names is the host FLEET is given, alone,    *)
(* however its 64-bit id was split on the way, whenever it has usable      *)
(* photometry.                                                             *)
(***************************************************************************)
Usable(k) == case.rows[k].coords /\ case.rows[k].mags \cap {"g", "r"} # {}
HostIsBest ==
    catalog # {} /\ "host" \in staged /\ case.best.catalog = "LSDR10" =>
        \A k \in DOMAIN case.rows :
            case.rows[k].real = case.best.objname /\ Usable(k) /\ case.best.phot = "none"
               => {c.of : c \in catalog} = {k}

(***************************************************************************)
(* FLEET always finds a catalogue, so it never queries the network; every  *)
(* host in it is real in every band, so its i-band filter drops none for a *)
(* band the survey lacks; and the far row stands alone.                    *)
(***************************************************************************)
MagsOf(c) == IF c.of = 0 THEN case.best.mags ELSE case.rows[c.of].mags
CatalogIsSound ==
    result.status # "none" /\ case.wrapper = "fleet" =>
        /\ catalog = {} => LightcurveRows(case.phot) = {}
        /\ \A c \in catalog :
             IF c.of = -1 THEN catalog = {c}
             ELSE \A k \in DOMAIN c.mag : c.mag[k] \in MagsOf(c)

(***************************************************************************)
(* A FLEET job goes without the host BOOM has for it only after a definite *)
(* refusal or three lookups that failed in passing.                        *)
(***************************************************************************)
HostNotGivenUp ==
    case.wrapper = "fleet" /\ case.db /\ HostPieces # {} /\ pc \in {"job", "bundle", "done"}
        => staged # {} \/ refused \/ tries = Retries

(***************************************************************************)
(* No missing marker reaches ORACLE's network; the alert it was trained on *)
(* decides what it knows, and the latest annotation that says anything     *)
(* decides the rest.                                                       *)
(***************************************************************************)
FeaturesAreTrue ==
    \A f \in DOMAIN features \cap Features :
        LET said == {n \in DOMAIN case.anns : Has(case.anns[n], f)}
        IN  /\ features[f] \notin {Absent, Marker}
            /\ Has(AlertFile.candidate, f) /\ AlertFile.candidate[f] # Marker
                 => features[f] = AlertFile.candidate[f]
            /\ ~Has(AlertFile.candidate, f) /\ said # {}
                 => \/ features[f] = case.anns[Max(said)][f]
                    \/ case.anns[Max(said)][f] = Marker

(***************************************************************************)
(* A headline classification names a class with a probability and a label. *)
(* FLEET's and ORACLE's is one no other is more likely than (FLARE's is    *)
(* what its analysis predicted), and ORACLE's rests on one light curve     *)
(* that by itself has the detections in g and r.                           *)
(***************************************************************************)
HeadlineHolds ==
    result.class # 0 =>
        /\ result.class \in DOMAIN result.probs
        /\ case.wrapper # "fleet" => result.class \in Labelled
        /\ case.wrapper # "flare" =>
             \A k \in DOMAIN result.probs : result.probs[k] <= result.probs[result.class]
        /\ case.wrapper = "oracle" =>
             \E rows \in {PhotometryRows(case.phot), BoomRows(case.prv)} :
                 /\ Cardinality(DOMAIN rows) >= MinRows
                 /\ \A b \in {"g", "r"} :
                      Cardinality({n \in DOMAIN rows : rows[n] = b}) >= MinPerBand

\* What the bridge returns for SkyPortal is in the callback the wrapper builds.
Arrives == pc = "done" => analysis = result.keys

(***************************************************************************)
(* The host a FLEET job gets is the best BOOM has for it, in the catalogue *)
(* as BOOM measured it, and missing only if BOOM could not be asked.       *)
(***************************************************************************)
HostIsTrue == HostIsBest /\ CatalogIsSound /\ HostNotGivenUp

(***************************************************************************)
(* The class SkyPortal shows was earned: by features that were known, by a *)
(* light curve that suffices, and as the bridge returned it.               *)
(***************************************************************************)
ClassIsEarned == TypeOK /\ FeaturesAreTrue /\ HeadlineHolds /\ Arrives
=============================================================================
