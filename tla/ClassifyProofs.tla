--------------------------- MODULE ClassifyProofs ---------------------------
(***************************************************************************)
(* Proofs about Classify, for every request, light curve, crossmatch and   *)
(* list of annotations its constants allow: the host in the catalogue is   *)
(* the one BOOM names and measured (HostIsTrue), and the class SkyPortal   *)
(* shows was earned (ClassIsEarned).                                       *)
(*                                                                         *)
(* ClassInv is one invariant in three parts: what staging leaves in the    *)
(* directory and why a host may be missing from it, what the bridge made   *)
(* of that (the catalogue and the vector are functions of the case and of  *)
(* what was staged), and what it returned.  The rest is about operators:   *)
(* the catalogue, the vector, the argmax and the 64-bit ids.               *)
(***************************************************************************)
EXTENDS Classify, TLAPS, WellFoundedInduction, NaturalsInduction

-----------------------------------------------------------------------------
(***************************************************************************)
(* Least and greatest elements                                             *)
(***************************************************************************)
\* Every set of naturals has a least element.
LEMMA LeastNat ==
  ASSUME NEW T, T \subseteq Nat, T # {}
  PROVE  \E x \in T : \A y \in T : x <= y
<1>1. IsWellFoundedOn(OpToRel(<, Nat), Nat)
  BY NatLessThanWellFounded
<1>2. PICK x \in T : \A y \in T : ~(<<y, x>> \in OpToRel(<, Nat))
  BY <1>1, WFMin
<1>3. \A y \in T : x <= y
  <2> TAKE y \in T
  <2>1. ~(y < x)
    BY <1>2 DEF OpToRel
  <2> QED
    BY <2>1
<1> QED
  BY <1>3

\* Min finds it.
LEMMA MinIsLeast ==
  ASSUME NEW T, T \subseteq Nat, T # {}
  PROVE  Min(T) \in T /\ \A y \in T : Min(T) <= y
BY LeastNat DEF Min

\* A set of positions of a list has a last one, and Max finds it.
LEMMA MaxIsLast ==
  ASSUME NEW n \in Nat, NEW T, T \subseteq 1 .. n, T # {}
  PROVE  Max(T) \in T
<1> DEFINE U == {n - x : x \in T}
<1>1. U \subseteq Nat /\ U # {}
  <2>1. PICK z \in T : TRUE
    OBVIOUS
  <2>2. n - z \in U
    BY <2>1
  <2>3. \A x \in T : n - x \in Nat
    OBVIOUS
  <2> QED
    BY <2>2, <2>3
<1>2. PICK u \in U : \A y \in U : u <= y
  BY <1>1, LeastNat
<1>3. PICK x \in T : u = n - x
  BY <1>2
<1>4. \A y \in T : x >= y
  <2> TAKE y \in T
  <2>1. n - y \in U
    OBVIOUS
  <2>2. n - x <= n - y /\ x \in Nat /\ y \in Nat
    BY <1>2, <1>3, <2>1
  <2> QED
    BY <2>2
<1> QED
  BY <1>3, <1>4 DEF Max

-----------------------------------------------------------------------------
(***************************************************************************)
(* FLEET's host                                                            *)
(***************************************************************************)
\* The halves of a 64-bit id come back together as the id, whatever its sign and
\* that of its low half ("int(v['low']) & 0xFFFFFFFF").
LEMMA BsonRoundTrip ==
  ASSUME NEW v \in Int
  PROVE  RowId(Bson(v)) = v
<1> DEFINE H == 2 ^ Width
           r == v % H
<1>1. H \in Nat \ {0}
  BY FleetAssumption
<1> HIDE DEF H
<1>2. v = H * (v \div H) + r /\ r \in 0 .. (H - 1) /\ v \div H \in Int
  BY <1>1
<1> HIDE DEF r
<1>3. r % H = r /\ (r - H) % H = r
  BY <1>1, <1>2
<1>4. Bson(v).low % H = r /\ Bson(v).high = v \div H
  BY <1>3 DEF Bson, Half, H, r
<1>5. "high" \in DOMAIN Bson(v)
  BY DEF Bson
<1>6. RowId(Bson(v)) = (v \div H) * H + r
  BY <1>4, <1>5 DEF RowId, Half, H
<1> QED
  BY <1>1, <1>2, <1>6

Bands == {"u", "g", "r", "i", "z"}

\* The position of each band.
LEMMA BandOrder ==
  /\ Order("u") = 1 /\ Order("g") = 2 /\ Order("r") = 3 /\ Order("i") = 4 /\ Order("z") = 5
  /\ DOMAIN CatBands = 1 .. 5 /\ \A k \in 1 .. 5 : CatBands[k] \in Bands
BY DEF Order, CatBands, Bands

\* A missing band is filled from one that was measured, the nearest.
LEMMA FillIsMeasured ==
  ASSUME NEW mags, mags \subseteq Bands, mags # {}, NEW b \in Bands
  PROVE  Fill(mags, b) \in mags
<1>1. \A c \in Bands : Order(c) \in 1 .. 5 /\ Gap(b, c) \in 0 .. 4
  BY BandOrder DEF Bands, Gap
<1> DEFINE rank(c) == 10 * Gap(b, c) + Order(c)
           T == {rank(c) : c \in mags}
<1>2. T \subseteq Nat /\ T # {}
  BY <1>1
<1>3. PICK t \in T : \A u \in T : t <= u
  BY <1>2, LeastNat
<1>4. PICK c \in mags : t = rank(c)
  OBVIOUS
<1>5. ASSUME NEW d \in mags
      PROVE  Gap(b, c) < Gap(b, d) \/ (Gap(b, c) = Gap(b, d) /\ Order(c) <= Order(d))
  <2>1. rank(c) <= rank(d)
    BY <1>3, <1>4
  <2>2. /\ Order(c) \in 1 .. 5 /\ Gap(b, c) \in 0 .. 4
        /\ Order(d) \in 1 .. 5 /\ Gap(b, d) \in 0 .. 4
    BY <1>1
  <2> QED
    BY <2>1, <2>2
<1> QED
  BY <1>4, <1>5 DEF Fill

\* A row of the catalogue is real: its measurements are the host's.
LEMMA RecordIsMeasured ==
  ASSUME NEW of, NEW coords, NEW mags, mags \subseteq Bands,
         NEW c \in CatalogRecord(of, coords, mags)
  PROVE  c.of = of /\ \A k \in DOMAIN c.mag : c.mag[k] \in mags
<1>1. /\ coords /\ mags \cap {"g", "r"} # {}
      /\ c = [of |-> of, mag |-> [k \in DOMAIN CatBands |-> Fill(mags, CatBands[k])]]
  BY DEF CatalogRecord
<1>2. \A k \in DOMAIN CatBands : Fill(mags, CatBands[k]) \in mags
  BY <1>1, BandOrder, FillIsMeasured
<1> QED
  BY <1>1, <1>2

\* The object of BOOM's association is the row FLEET is given.
LEMMA NamedRow ==
  ASSUME NEW c \in Cases, c.best.catalog = "LSDR10", NEW k \in DOMAIN c.rows,
         c.rows[k].real = c.best.objname
  PROVE  k # 0 /\ SelectHostRow(c.rows, c.best) = k
<1>1. /\ DOMAIN c.rows \subseteq Nat \ {0}
      /\ \A l \in DOMAIN c.rows : /\ c.rows[l].real \in Int \ {0}
                                  /\ c.rows[l].id = Bson(c.rows[l].real)
                                  /\ c.rows[l].real = c.rows[k].real => l = k
  BY BoomAssumption
<1>2. \A l \in DOMAIN c.rows : RowId(c.rows[l].id) = c.rows[l].real
  BY <1>1, BsonRoundTrip
<1>3. BestName(c.best) = c.rows[k].real
  BY DEF BestName
<1>4. Named(c.rows, c.best) = {k}
  BY <1>1, <1>2, <1>3 DEF Named
<1>5. Min({k}) = k
  BY <1>1, MinIsLeast
<1> QED
  BY <1>1, <1>4, <1>5 DEF SelectHostRow

\* That row, if it is usable, is all of the catalogue.
LEMMA NamedCatalog ==
  ASSUME NEW c \in Cases, c.best.catalog = "LSDR10", c.best.phot = "none",
         NEW k \in DOMAIN c.rows, c.rows[k].real = c.best.objname,
         c.rows[k].coords, c.rows[k].mags \cap {"g", "r"} # {}
  PROVE  {r.of : r \in WriteCatalog(c.rows, c.best)} = {k}
<1> DEFINE cat == CatalogRecord(k, c.rows[k].coords, c.rows[k].mags)
           rec == [of |-> k, mag |-> [n \in DOMAIN CatBands |-> Fill(c.rows[k].mags, CatBands[n])]]
<1>1. k # 0 /\ SelectHostRow(c.rows, c.best) = k
  BY NamedRow
<1>2. cat = {rec}
  BY DEF CatalogRecord
<1> HIDE DEF cat
<1>3. HostRows(c.rows, c.best) = cat
  BY <1>1 DEF HostRows, RowToCatalog, cat
<1>4. WriteCatalog(c.rows, c.best) = {rec}
  BY <1>2, <1>3 DEF WriteCatalog
<1>5. rec.of = k
  OBVIOUS
<1> HIDE DEF rec
<1> QED
  BY <1>4, <1>5

\* The nearest row is one of the rows.
LEMMA NearestIsNear ==
  ASSUME NEW rows, DOMAIN rows \subseteq Nat \ {0}, Near(rows) # {},
         \A k \in Near(rows) : rows[k].dist \in Nat
  PROVE  Nearest(rows) \in Near(rows)
<1> DEFINE T == {rows[k].dist : k \in Near(rows)}
           first == {k \in Near(rows) : \A l \in Near(rows) : rows[k].dist <= rows[l].dist}
<1>1. T \subseteq Nat /\ T # {}
  OBVIOUS
<1>2. PICK d \in T : \A e \in T : d <= e
  BY <1>1, LeastNat
<1>3. PICK k \in Near(rows) : d = rows[k].dist
  BY <1>2
<1>4. k \in first
  BY <1>2, <1>3
<1>5. first \subseteq Nat
  BY DEF Near
<1>6. Min(first) \in first
  BY <1>4, <1>5, MinIsLeast
<1> QED
  BY <1>6 DEF Nearest

\* What is selected as the host is a row, or nothing.
LEMMA SelectedIsRow ==
  ASSUME NEW rows, NEW best, DOMAIN rows \subseteq Nat \ {0},
         \A k \in Near(rows) : rows[k].dist \in Nat
  PROVE  SelectHostRow(rows, best) \in DOMAIN rows \cup {0}
<1>1. CASE Named(rows, best) # {}
  <2>1. Named(rows, best) \subseteq DOMAIN rows
    BY DEF Named
  <2>2. Min(Named(rows, best)) \in Named(rows, best)
    BY <1>1, <2>1, MinIsLeast
  <2> QED
    BY <1>1, <2>1, <2>2 DEF SelectHostRow
<1>2. CASE Named(rows, best) = {} /\ Near(rows) # {}
  <2>1. Nearest(rows) \in DOMAIN rows
    BY <1>2, NearestIsNear DEF Near
  <2> QED
    BY <1>2, <2>1 DEF SelectHostRow
<1>3. CASE Named(rows, best) = {} /\ Near(rows) = {}
  BY <1>3 DEF SelectHostRow
<1> QED
  BY <1>1, <1>2, <1>3

\* Each row of the catalogue is a host BOOM measured, filled from its own bands.
Measured(rows, best, c) ==
    /\ c.of # -1 /\ c.of \in DOMAIN rows \cup {0}
    /\ \A n \in DOMAIN c.mag : c.mag[n] \in (IF c.of = 0 THEN best.mags ELSE rows[c.of].mags)

\* Every row of the association or of the best host gives such rows.
LEMMA HostsAreMeasured ==
  ASSUME NEW rows, NEW best, best.mags \subseteq Bands, DOMAIN rows \subseteq Nat \ {0},
         \A k \in DOMAIN rows : rows[k].mags \subseteq Bands,
         \A k \in Near(rows) : rows[k].dist \in Nat, NEW c \in HostRows(rows, best)
  PROVE  Measured(rows, best, c)
<1>1. ASSUME NEW k \in DOMAIN rows, c \in RowToCatalog(rows, k)
      PROVE  Measured(rows, best, c)
  <2>1. c \in CatalogRecord(k, rows[k].coords, rows[k].mags)
    BY <1>1 DEF RowToCatalog
  <2>2. c.of = k /\ \A n \in DOMAIN c.mag : c.mag[n] \in rows[k].mags
    BY <2>1, RecordIsMeasured
  <2>3. k # 0 /\ k # -1
    OBVIOUS
  <2> QED
    BY <2>2, <2>3 DEF Measured
<1>2. CASE best.phot \notin {"none", "LSDR10"}
  <2>1. c \in CatalogRecord(0, best.coords, best.mags)
    BY <1>2 DEF HostRows, PhotometryToCatalog
  <2>2. c.of = 0 /\ \A n \in DOMAIN c.mag : c.mag[n] \in best.mags
    BY <2>1, RecordIsMeasured
  <2> QED
    BY <2>2 DEF Measured
<1>3. CASE best.phot \in {"none", "LSDR10"} /\ SelectHostRow(rows, best) # 0
  <2>1. SelectHostRow(rows, best) \in DOMAIN rows
    BY <1>3, SelectedIsRow
  <2>2. c \in RowToCatalog(rows, SelectHostRow(rows, best))
    BY <1>3 DEF HostRows
  <2> QED
    BY <1>1, <2>1, <2>2
<1>4. CASE best.phot \in {"none", "LSDR10"} /\ SelectHostRow(rows, best) = 0
  <2>1. PICK k \in DOMAIN rows : c \in RowToCatalog(rows, k)
    BY <1>4 DEF HostRows
  <2> QED
    BY <1>1, <2>1
<1> QED
  BY <1>2, <1>3, <1>4

\* Where there is no host, the far row stands alone.
LEMMA CatalogIsMeasured ==
  ASSUME NEW rows, NEW best, best.mags \subseteq Bands, DOMAIN rows \subseteq Nat \ {0},
         \A k \in DOMAIN rows : rows[k].mags \subseteq Bands,
         \A k \in Near(rows) : rows[k].dist \in Nat
  PROVE  /\ WriteCatalog(rows, best) # {}
         /\ \A c \in WriteCatalog(rows, best) :
              \/ c.of = -1 /\ WriteCatalog(rows, best) = {c}
              \/ Measured(rows, best, c)
<1>1. CASE HostRows(rows, best) = {}
  <2>1. WriteCatalog(rows, best) = {NoHostSentinel} /\ NoHostSentinel.of = -1
    BY <1>1 DEF WriteCatalog, NoHostSentinel
  <2> QED
    BY <2>1
<1>2. CASE HostRows(rows, best) # {}
  <2>1. WriteCatalog(rows, best) = HostRows(rows, best)
    BY <1>2 DEF WriteCatalog
  <2> QED
    BY <1>2, <2>1, HostsAreMeasured
<1> QED
  BY <1>1, <1>2

-----------------------------------------------------------------------------
(***************************************************************************)
(* ORACLE's features                                                       *)
(***************************************************************************)
\* A feature is looked up under its own key first, and is never a missing marker.
LEMMA FeatureIsKnown ==
  ASSUME NEW m, NEW f
  PROVE  /\ Feat(m, f) \notin {Absent, Marker}
         /\ Has(m, f) /\ m[f] # Marker => Feat(m, f) = m[f]
<1> DEFINE names == AliasesOf(f)
           good == {n \in DOMAIN names : Has(m, names[n]) /\ m[names[n]] # Marker}
<1>1. 1 \in DOMAIN names /\ names[1] = f /\ DOMAIN names \subseteq 1 .. 2
  BY DEF AliasesOf
<1> HIDE DEF names
<1>2. Feat(m, f) = IF good = {} THEN Flag ELSE m[names[Min(good)]]
  BY DEF Feat, names
<1>3. good \subseteq Nat /\ \A n \in good : 1 <= n
  BY <1>1
<1>4. good # {} => Min(good) \in good /\ \A n \in good : Min(good) <= n
  BY <1>3, MinIsLeast
<1>5. Flag \notin {Absent, Marker}
  BY DEF Flag, Absent, Marker
<1>6. Feat(m, f) \notin {Absent, Marker}
  BY <1>2, <1>4, <1>5 DEF Has
<1>7. ASSUME Has(m, f), m[f] # Marker
      PROVE  Feat(m, f) = m[f]
  <2>1. 1 \in good
    BY <1>1, <1>7
  <2>2. Min(good) = 1
    BY <1>3, <1>4, <2>1
  <2> QED
    BY <1>1, <1>2, <2>1, <2>2
<1> QED
  BY <1>6, <1>7

\* The last annotation with a value decides it.
LEMMA LastAnnotation ==
  ASSUME NEW c \in Cases, NEW f \in Features,
         {n \in DOMAIN c.anns : Has(c.anns[n], f)} # {}
  PROVE  LET said == {n \in DOMAIN c.anns : Has(c.anns[n], f)} IN
         /\ f \in DOMAIN MergedAnnotations(c.anns)
         /\ MergedAnnotations(c.anns)[f] = c.anns[Max(said)][f]
         /\ MergedAnnotations(c.anns)[f] # Absent
<1> DEFINE said == {n \in DOMAIN c.anns : Has(c.anns[n], f)}
<1>1. f \in Keys /\ \E n \in DOMAIN c.anns : Has(c.anns[n], f)
  BY DEF Keys
<1>2. f \in DOMAIN MergedAnnotations(c.anns) /\ MergedAnnotations(c.anns)[f] = c.anns[Max(said)][f]
  BY <1>1 DEF MergedAnnotations
<1>3. Len(c.anns) \in Nat /\ said \subseteq 1 .. Len(c.anns)
  BY BoomAssumption
<1>4. Max(said) \in said
  BY <1>3, MaxIsLast
<1> QED
  BY <1>2, <1>4 DEF Has

\* Over the alert, the annotations and the colours, what a feature is made of.
LEMMA FeatureSource ==
  ASSUME NEW f \in Features, NEW anns, NEW candidate, NEW wise, DOMAIN wise \subseteq WiseBands
  PROVE  LET known == Metadata(anns, candidate, wise) IN
         /\ Has(candidate, f) => f \in DOMAIN known /\ known[f] = candidate[f]
         /\ ~Has(candidate, f) /\ f \in DOMAIN MergedAnnotations(anns) =>
              f \in DOMAIN known /\ known[f] = MergedAnnotations(anns)[f]
<1>1. f \notin DOMAIN WiseFeatures(wise)
  BY ClassifyAssumption DEF WiseFeatures
<1> DEFINE rest == Over(candidate, MergedAnnotations(anns))
<1>2. f \in DOMAIN rest => /\ f \in DOMAIN Metadata(anns, candidate, wise)
                           /\ Metadata(anns, candidate, wise)[f] = rest[f]
  BY <1>1 DEF Metadata, Over, Has
<1>3. Has(candidate, f) => f \in DOMAIN rest /\ rest[f] = candidate[f]
  BY DEF Over, Has
<1>4. ~Has(candidate, f) /\ f \in DOMAIN MergedAnnotations(anns) =>
        f \in DOMAIN rest /\ rest[f] = MergedAnnotations(anns)[f]
  BY DEF Over
<1> HIDE DEF rest
<1> QED
  BY <1>2, <1>3, <1>4

\* What FeaturesAreTrue says of one feature of a vector.
IsTrueOf(v, f, anns, candidate) ==
    LET said == {n \in DOMAIN anns : Has(anns[n], f)}
    IN  /\ v[f] \notin {Absent, Marker}
        /\ Has(candidate, f) /\ candidate[f] # Marker => v[f] = candidate[f]
        /\ ~Has(candidate, f) /\ said # {} =>
             v[f] = anns[Max(said)][f] \/ anns[Max(said)][f] = Marker

\* The vector keeps what the alert says, and else the last annotation.
LEMMA VectorIsTrue ==
  ASSUME NEW c \in Cases, NEW f \in Features, NEW candidate,
         NEW wise, DOMAIN wise \subseteq WiseBands
  PROVE  IsTrueOf(StaticVector(c.anns, candidate, wise), f, c.anns, candidate)
<1> DEFINE known == Metadata(c.anns, candidate, wise)
           v == StaticVector(c.anns, candidate, wise)
           said == {n \in DOMAIN c.anns : Has(c.anns[n], f)}
<1>1. v[f] = Feat(known, f)
  BY DEF StaticVector
<1> HIDE DEF known, v
<1>2. v[f] \notin {Absent, Marker} /\ (Has(known, f) /\ known[f] # Marker => v[f] = known[f])
  BY <1>1, FeatureIsKnown
<1>3. Has(candidate, f) => f \in DOMAIN known /\ known[f] = candidate[f]
  BY FeatureSource DEF known
<1>4. Has(candidate, f) /\ candidate[f] # Marker => v[f] = candidate[f]
  BY <1>2, <1>3 DEF Has
<1>5. ASSUME ~Has(candidate, f), said # {}
      PROVE  v[f] = c.anns[Max(said)][f] \/ c.anns[Max(said)][f] = Marker
  <2>1. /\ f \in DOMAIN MergedAnnotations(c.anns)
        /\ MergedAnnotations(c.anns)[f] = c.anns[Max(said)][f]
        /\ MergedAnnotations(c.anns)[f] # Absent
    BY <1>5, LastAnnotation
  <2>2. f \in DOMAIN known /\ known[f] = MergedAnnotations(c.anns)[f]
    BY <1>5, <2>1, FeatureSource DEF known
  <2> QED
    BY <1>2, <2>1, <2>2 DEF Has
<1>6. IsTrueOf(v, f, c.anns, candidate)
  BY <1>2, <1>4, <1>5 DEF IsTrueOf
<1> QED
  BY <1>6 DEF v

-----------------------------------------------------------------------------
(***************************************************************************)
(* The inductive invariant                                                 *)
(***************************************************************************)
\* The requests the listener turns away; the pieces a job's directory may hold.
Refusable == case.wrapper = "fleet" /\ Unclassifiable(case.phot, case.north)
Pieces == CASE case.wrapper = "fleet" -> {"host"}
            [] case.wrapper = "oracle" -> {"alert", "aux", "cutout"}
            [] case.wrapper = "flare" -> IF case.optin THEN {"context"} ELSE {}

\* Before the job: what the listener let through, and why a FLEET job goes without
\* a host.
StagingInv ==
    /\ case \in Cases /\ tries \in 0 .. Retries /\ refused \in BOOLEAN
    /\ pc \in {"request", "refused", "find", "aux", "cutout", "job", "bundle", "done"}
    /\ staged \subseteq Pieces /\ (staged # {} => case.db)
    /\ pc = "request" => staged = {} /\ tries = 0
    /\ pc \notin {"request", "refused"} => ~Refusable
    /\ pc = "refused" => Refusable
    /\ pc \in {"find", "aux", "cutout"} => case.db
    /\ pc = "find" => tries < Attempts /\ (case.wrapper = "flare" => case.optin)
    /\ pc \in {"aux", "cutout"} => case.wrapper = "oracle"
    /\ HostNotGivenUp

\* What the worker was given is what it made of the pieces staged.
Catalogue == IF LightcurveRows(case.phot) = {} THEN {}
             ELSE WriteCatalog(HostFile.rows, HostFile.best)
Vector == StaticVector(case.anns, AlertFile.candidate, AlertFile.wise)
GivenInv ==
    /\ pc \notin {"bundle", "done"} => catalog = {} /\ features = <<>> /\ result = Nothing
    /\ catalog # {} => case.wrapper = "fleet"
    /\ case.wrapper = "fleet" /\ pc \in {"bundle", "done"} => catalog = Catalogue
    /\ features = <<>> \/ features = Vector

\* What a headline rests on: FLARE's class is its analysis's, the others' is the
\* most probable; and ORACLE's light curve suffices.
EarnedBy(wrapper, sufficient, r) ==
    /\ r.probs \in Vectors /\ r.class \in DOMAIN r.probs
    /\ wrapper # "fleet" => r.class \in Labelled
    /\ wrapper # "flare" => r.class = Predicted(r.probs)
    /\ wrapper = "oracle" => sufficient

\* What it returned, and what the wrapper made of that.
ResultInv ==
    /\ result.status \in {"none", "success", "failure"} /\ result.keys \subseteq Forwards
    /\ result.status # "success" => result.keys = {}
    /\ result.class # 0 => EarnedBy(case.wrapper, Sufficient(OracleRows(case.phot, AlertFile.prv)),
                                    result)
    /\ analysis = IF pc = "done" /\ result.status = "success" THEN result.keys ELSE {}

ClassInv == StagingInv /\ GivenInv /\ ResultInv

USE DEF vars

\* The request comes in.
LEMMA ClassInit == Init => ClassInv
<1> SUFFICES ASSUME Init PROVE ClassInv
  OBVIOUS
<1>1. /\ case \in Cases /\ tries = 0 /\ refused = FALSE /\ pc = "request" /\ staged = {}
      /\ 0 \in 0 .. Retries
  BY ClassifyAssumption DEF Init
<1>2. HostNotGivenUp
  BY <1>1 DEF HostNotGivenUp
<1>3. StagingInv
  BY <1>1, <1>2 DEF StagingInv
<1>4. GivenInv
  BY DEF Init, GivenInv
<1>5. ResultInv
  BY DEF Init, ResultInv, Nothing
<1> QED
  BY <1>3, <1>4, <1>5 DEF ClassInv

\* The listener and the staging: no catalogue, no features and no result yet.
Listening == \/ Refuse \/ Admit \/ BoomBlip \/ BoomRefuses \/ BoomAnswers
             \/ AuxAnswers \/ AuxFails \/ CutoutAnswers \/ CutoutRaises

\* What stays as it was until the job runs.
LEMMA ListeningFrame ==
  ASSUME Listening
  PROVE  /\ pc \in {"request", "find", "aux", "cutout"} /\ pc' \notin {"bundle", "done"}
         /\ UNCHANGED <<case, catalog, features, result, analysis>>
BY DEF Listening, Refuse, Admit, BoomBlip, BoomRefuses, BoomAnswers, AuxAnswers, AuxFails,
   CutoutAnswers, CutoutRaises, StagingRaises, Stage

\* Nothing is staged but what the job may have, and the host only goes missing as it may.
LEMMA ListeningStages ==
  ASSUME StagingInv, Listening
  PROVE  StagingInv'
<1> USE ClassifyAssumption DEF StagingInv, Refusable, Pieces, Attempts, HostNotGivenUp, HostPieces
<1>1. CASE Refuse
  BY <1>1 DEF Refuse
<1>2. CASE Admit
  BY <1>2 DEF Admit
<1>3. CASE BoomBlip
  BY <1>3 DEF BoomBlip, Stage
<1>4. CASE BoomRefuses
  <2>1. /\ pc = "find" /\ tries < Attempts /\ tries' = tries + 1 /\ refused' = TRUE
        /\ staged' = staged /\ pc' = "job" /\ UNCHANGED case
    BY <1>4 DEF BoomRefuses, StagingRaises, Stage
  <2> QED
    BY <2>1
<1>5. CASE BoomAnswers
  <2>1. /\ pc = "find" /\ tries < Attempts /\ tries' = tries + 1 /\ refused' = refused
        /\ UNCHANGED case
    BY <1>5 DEF BoomAnswers, Stage
  <2>2. tries' \in 0 .. Retries
    BY <2>1
  <2>3. CASE case.wrapper = "fleet"
    <3>1. staged' = staged \cup HostPieces /\ pc' = "job"
      BY <1>5, <2>3 DEF BoomAnswers, Stage
    <3> QED
      BY <2>1, <2>2, <2>3, <3>1
  <2>4. CASE case.wrapper = "flare"
    <3>1. staged' = staged \cup ContextPieces /\ pc' = "job" /\ ContextPieces \subseteq {"context"}
      BY <1>5, <2>4 DEF BoomAnswers, Stage, ContextPieces
    <3> QED
      BY <2>1, <2>2, <2>4, <3>1
  <2>5. CASE case.wrapper = "oracle"
    <3>1. staged' = staged /\ pc' \in {"aux", "job"}
      BY <1>5, <2>5 DEF BoomAnswers, Stage
    <3> QED
      BY <2>1, <2>2, <2>5, <3>1
  <2> QED
    BY <2>3, <2>4, <2>5
<1>6. CASE AuxAnswers \/ AuxFails
  BY <1>6 DEF AuxAnswers, AuxFails, Stage
<1>7. CASE CutoutAnswers \/ CutoutRaises
  BY <1>7 DEF CutoutAnswers, CutoutRaises, StagingRaises, Stage
<1> QED
  BY <1>1, <1>2, <1>3, <1>4, <1>5, <1>6, <1>7 DEF Listening

\* The listener and the staging keep the invariant.
LEMMA ListeningKeeps ==
  ASSUME ClassInv, Listening
  PROVE  ClassInv'
<1>1. /\ pc \in {"request", "find", "aux", "cutout"} /\ pc' \notin {"bundle", "done"}
      /\ UNCHANGED <<case, catalog, features, result, analysis>>
  BY ListeningFrame
<1>2. catalog = {} /\ features = <<>> /\ result = Nothing
  BY <1>1 DEF ClassInv, GivenInv
<1>3. StagingInv'
  BY ListeningStages DEF ClassInv
<1>4. GivenInv'
  BY <1>1, <1>2 DEF GivenInv
<1>5. ResultInv'
  BY <1>1, <1>2 DEF ClassInv, ResultInv, Nothing, Forwards
<1> QED
  BY <1>3, <1>4, <1>5 DEF ClassInv

\* What a run of the bridge leaves alone.
LEMMA RunFrame ==
  ASSUME ClassInv, pc = "job", pc' = "bundle", UNCHANGED <<case, tries, refused, staged, analysis>>
  PROVE  /\ StagingInv' /\ UNCHANGED <<HostFile, AlertFile>> /\ analysis' = {}
         /\ UNCHANGED <<Catalogue, Vector>>
<1>1. StagingInv'
  BY DEF ClassInv, StagingInv, Refusable, Pieces, Attempts, HostNotGivenUp, HostPieces
<1>2. UNCHANGED <<HostFile, AlertFile>>
  BY DEF HostFile, AlertFile
<1>3. UNCHANGED <<Catalogue, Vector>>
  BY <1>2 DEF Catalogue, Vector
<1>4. analysis' = {}
  BY DEF ClassInv, ResultInv
<1> QED
  BY <1>1, <1>2, <1>3, <1>4

\* A failure returns nothing.
LEMMA FailureIsEmpty == Failure.status = "failure" /\ Failure.keys = {} /\ Failure.class = 0
BY DEF Failure, Nothing

\* What has to be shown of a result that has just been returned.
LEMMA ResultIs ==
  ASSUME pc' # "done", analysis' = {},
         result'.status \in {"success", "failure"}, result'.keys \subseteq Forwards',
         result'.status = "failure" => result'.keys = {},
         result'.class # 0 =>
            EarnedBy(case'.wrapper, Sufficient(OracleRows(case.phot, AlertFile.prv))', result')
  PROVE  ResultInv'
<1>1. /\ result'.status \in {"none", "success", "failure"} /\ result'.keys \subseteq Forwards'
      /\ result'.status # "success" => result'.keys = {}
  OBVIOUS
<1>2. analysis' = IF pc' = "done" /\ result'.status = "success" THEN result'.keys ELSE {}
  OBVIOUS
<1> QED
  BY <1>1, <1>2 DEF ResultInv

\* A result without a headline has nothing to earn.
LEMMA FailureKeeps ==
  ASSUME pc' # "done", analysis' = {}, result' = Failure
  PROVE  ResultInv'
BY FailureIsEmpty, ResultIs

\* The most probable class has a probability, and none is greater.
LEMMA PredictedIsLikeliest ==
  ASSUME NEW probs \in Vectors, DOMAIN probs # {}
  PROVE  /\ Predicted(probs) \in DOMAIN probs
         /\ \A k \in DOMAIN probs : probs[k] <= probs[Predicted(probs)]
<1> DEFINE best == {k \in DOMAIN probs : \A l \in DOMAIN probs : probs[l] <= probs[k]}
<1>1. PICK S \in SUBSET DOMAIN Classes : S # {} /\ probs \in [S -> 0 .. 1]
  BY DEF Vectors
<1>2. S \subseteq Nat
  BY <1>1, ClassifyAssumption
<1>3. best # {}
  <2>1. CASE \E k \in S : probs[k] = 1
    BY <1>1, <2>1
  <2>2. CASE \A k \in S : probs[k] = 0
    BY <1>1, <2>2
  <2> QED
    BY <1>1, <2>1, <2>2
<1>4. Min(best) \in best
  BY <1>1, <1>2, <1>3, MinIsLeast
<1> QED
  BY <1>4 DEF Predicted

\* FLEET runs: it has a catalogue if it has a light curve.
LEMMA RunFleetKeeps ==
  ASSUME ClassInv, RunFleet
  PROVE  ClassInv'
<1>1. /\ pc = "job" /\ pc' = "bundle" /\ case.wrapper = "fleet"
      /\ UNCHANGED <<case, tries, refused, staged, analysis, features>> /\ catalog' = Catalogue
  BY DEF RunFleet, Ran, Catalogue
<1>2. /\ StagingInv' /\ UNCHANGED <<HostFile, AlertFile>> /\ analysis' = {}
      /\ UNCHANGED <<Catalogue, Vector>>
  BY <1>1, RunFrame
<1>3. GivenInv'
  BY <1>1, <1>2 DEF ClassInv, GivenInv
<1>4. \/ result' = Failure
      \/ \E probs \in Vectors :
           /\ DOMAIN probs # {}
           /\ result' = Classified(probs, Predicted(probs), {"results", "annotations"}, TRUE)
  BY DEF RunFleet, Ran
<1>5. ASSUME NEW probs \in Vectors, DOMAIN probs # {},
             result' = Classified(probs, Predicted(probs), {"results", "annotations"}, TRUE)
      PROVE  ResultInv'
  <2>1. Predicted(probs) \in DOMAIN probs
    BY <1>5, PredictedIsLikeliest
  <2>2. /\ result'.status = "success" /\ result'.probs = probs
        /\ result'.class = Predicted(probs)
        /\ result'.keys = {"results", "annotations", "classifications"}
    BY <1>5 DEF Classified
  <2>3. case'.wrapper = "fleet" /\ Forwards' = FleetForwards
    BY <1>1 DEF Forwards, FleetForwards
  <2>4. EarnedBy(case'.wrapper, Sufficient(OracleRows(case.phot, AlertFile.prv))', result')
    BY <2>1, <2>2, <2>3 DEF EarnedBy
  <2>5. result'.keys \subseteq Forwards' /\ pc' # "done" /\ analysis' = {}
    BY <1>1, <1>2, <2>2, <2>3 DEF FleetForwards
  <2> QED
    BY <2>2, <2>4, <2>5, ResultIs
<1>6. ResultInv'
  BY <1>1, <1>2, <1>4, <1>5, FailureKeeps
<1> QED
  BY <1>2, <1>3, <1>6 DEF ClassInv

\* ORACLE runs: its features are made of what was staged, and a headline of enough rows.
LEMMA RunOracleKeeps ==
  ASSUME ClassInv, RunOracle
  PROVE  ClassInv'
<1>1. /\ pc = "job" /\ pc' = "bundle" /\ case.wrapper = "oracle"
      /\ UNCHANGED <<case, tries, refused, staged, analysis, catalog>>
      /\ features' = features \/ features' = Vector
  BY DEF RunOracle, Ran, Vector
<1>2. /\ StagingInv' /\ UNCHANGED <<HostFile, AlertFile>> /\ analysis' = {}
      /\ UNCHANGED <<Catalogue, Vector>>
  BY <1>1, RunFrame
<1>3. GivenInv'
  BY <1>1, <1>2 DEF ClassInv, GivenInv
<1> DEFINE enough == Sufficient(OracleRows(case.phot, AlertFile.prv))
<1>4. \/ result' = Failure
      \/ \E probs \in Vectors :
           /\ DOMAIN probs # {}
           /\ result' = Classified(probs, Predicted(probs), {"results", "annotations"},
                                   Predicted(probs) \in Labelled /\ enough)
  BY DEF RunOracle, Ran
<1>5. enough' = enough
  BY <1>1, <1>2 DEF Sufficient, OfBand
<1> HIDE DEF enough
<1>6. ASSUME NEW probs \in Vectors, DOMAIN probs # {},
             result' = Classified(probs, Predicted(probs), {"results", "annotations"},
                                  Predicted(probs) \in Labelled /\ enough)
      PROVE  ResultInv'
  <2>1. Predicted(probs) \in DOMAIN probs
    BY <1>6, PredictedIsLikeliest
  <2>2. /\ result'.status = "success" /\ result'.probs = probs
        /\ result'.class # 0 =>
              result'.class = Predicted(probs) /\ Predicted(probs) \in Labelled /\ enough
        /\ result'.keys \subseteq {"results", "annotations", "classifications"}
    BY <1>6 DEF Classified
  <2>3. case'.wrapper = "oracle" /\ Forwards' = OracleForwards
    BY <1>1 DEF Forwards, OracleForwards
  <2>4. result'.class # 0 => EarnedBy(case'.wrapper, enough', result')
    BY <1>5, <2>1, <2>2, <2>3 DEF EarnedBy
  <2>5. result'.keys \subseteq Forwards' /\ pc' # "done" /\ analysis' = {}
    BY <1>1, <1>2, <2>2, <2>3 DEF OracleForwards
  <2>6. result'.class # 0 =>
          EarnedBy(case'.wrapper, Sufficient(OracleRows(case.phot, AlertFile.prv))', result')
    BY <2>4 DEF enough
  <2> QED
    BY <2>2, <2>5, <2>6, ResultIs
<1>7. ResultInv'
  BY <1>1, <1>2, <1>4, <1>6, FailureKeeps
<1> QED
  BY <1>2, <1>3, <1>7 DEF ClassInv

\* FLARE runs: whatever its analysis returns, only a labelled class with a
\* probability is a headline.
LEMMA RunFlareKeeps ==
  ASSUME ClassInv, RunFlare
  PROVE  ClassInv'
<1>1. /\ pc = "job" /\ pc' = "bundle" /\ case.wrapper = "flare"
      /\ UNCHANGED <<case, tries, refused, staged, analysis, catalog, features>>
  BY DEF RunFlare, Ran
<1>2. /\ StagingInv' /\ UNCHANGED <<HostFile, AlertFile>> /\ analysis' = {}
      /\ UNCHANGED <<Catalogue, Vector>>
  BY <1>1, RunFrame
<1>3. GivenInv'
  BY <1>1, <1>2 DEF ClassInv, GivenInv
<1>4. \/ result' = Failure
      \/ \E probs \in Vectors, predicted \in DOMAIN Classes \cup {0}, keys \in SUBSET FlareKeys :
           result' = Classified(probs, predicted, keys, predicted \in Labelled \cap DOMAIN probs)
  BY DEF RunFlare, Ran
<1>5. ASSUME NEW probs \in Vectors, NEW predicted \in DOMAIN Classes \cup {0},
             NEW keys \in SUBSET FlareKeys,
             result' = Classified(probs, predicted, keys, predicted \in Labelled \cap DOMAIN probs)
      PROVE  ResultInv'
  <2>1. /\ result'.status = "success" /\ result'.probs = probs
        /\ result'.class # 0 => result'.class \in Labelled \cap DOMAIN probs
        /\ result'.keys \subseteq FlareKeys \cup {"classifications"}
    BY <1>5 DEF Classified
  <2>2. case'.wrapper = "flare" /\ Forwards' = FlareForwards
    BY <1>1 DEF Forwards, FlareForwards
  <2>3. result'.class # 0 =>
          EarnedBy(case'.wrapper, Sufficient(OracleRows(case.phot, AlertFile.prv))', result')
    BY <2>1, <2>2 DEF EarnedBy
  <2>4. result'.keys \subseteq Forwards' /\ pc' # "done" /\ analysis' = {}
    BY <1>1, <1>2, <2>1, <2>2 DEF FlareForwards, FlareKeys
  <2> QED
    BY <2>1, <2>3, <2>4, ResultIs
<1>6. ResultInv'
  BY <1>1, <1>2, <1>4, <1>5, FailureKeeps
<1> QED
  BY <1>2, <1>3, <1>6 DEF ClassInv

\* The wrapper passes on what the bridge returned.
LEMMA BundleKeeps ==
  ASSUME ClassInv, Bundle
  PROVE  ClassInv'
<1>1. /\ pc = "bundle" /\ pc' = "done"
      /\ UNCHANGED <<case, tries, refused, staged, catalog, features, result>>
      /\ analysis' = IF result.status = "success" THEN result.keys \cap Forwards ELSE {}
  BY DEF Bundle
<1>2. UNCHANGED <<HostFile, AlertFile, Forwards, Pieces, Refusable, Attempts, HostPieces>>
  BY <1>1 DEF HostFile, AlertFile, Forwards, Pieces, Refusable, Attempts, HostPieces
<1>3. StagingInv'
  BY <1>1, <1>2 DEF ClassInv, StagingInv, HostNotGivenUp
<1>4. UNCHANGED <<Catalogue, Vector>>
  BY <1>1, <1>2 DEF Catalogue, Vector
<1>5. GivenInv'
  BY <1>1, <1>4 DEF ClassInv, GivenInv
<1>6. ResultInv'
  BY <1>1, <1>2 DEF ClassInv, ResultInv
<1> QED
  BY <1>3, <1>5, <1>6 DEF ClassInv

\* The invariant holds in every reachable state.
THEOREM ClassSafe == Spec => []ClassInv
<1>1. ClassInv /\ [Next]_vars => ClassInv'
  <2> SUFFICES ASSUME ClassInv, [Next]_vars PROVE ClassInv'
    OBVIOUS
  <2>1. CASE Listening
    BY <2>1, ListeningKeeps
  <2>2. CASE RunFleet \/ RunOracle \/ RunFlare
    BY <2>2, RunFleetKeeps, RunOracleKeeps, RunFlareKeeps
  <2>3. CASE Bundle
    BY <2>3, BundleKeeps
  <2>4. CASE UNCHANGED vars
    <3>1. UNCHANGED <<HostFile, AlertFile, Forwards, Pieces, Refusable, Attempts, HostPieces>>
      BY <2>4 DEF HostFile, AlertFile, Forwards, Pieces, Refusable, Attempts, HostPieces
    <3>2. UNCHANGED <<Catalogue, Vector>>
      BY <2>4, <3>1 DEF Catalogue, Vector
    <3> QED
      BY <2>4, <3>1, <3>2 DEF ClassInv, StagingInv, HostNotGivenUp, GivenInv, ResultInv
  <2> QED
    BY <2>1, <2>2, <2>3, <2>4 DEF Next, Listening
<1> QED
  BY <1>1, ClassInit, PTL DEF Spec

-----------------------------------------------------------------------------
(***************************************************************************)
(* The theorems                                                            *)
(***************************************************************************)
\* The host BOOM's association names is the one FLEET is given; every host is in
\* the catalogue with its own magnitudes; and a job is without only for a reason.
THEOREM FleetHostIsTrue == Spec => []HostIsTrue
<1>1. ASSUME ClassInv
      PROVE  HostIsBest
  <2> SUFFICES ASSUME catalog # {}, "host" \in staged, case.best.catalog = "LSDR10",
                      NEW k \in DOMAIN case.rows, case.rows[k].real = case.best.objname,
                      Usable(k), case.best.phot = "none"
               PROVE  {c.of : c \in catalog} = {k}
    BY DEF HostIsBest
  <2>1. case \in Cases /\ catalog = Catalogue
    BY <1>1 DEF ClassInv, StagingInv, GivenInv
  <2>2. HostFile.rows = case.rows /\ HostFile.best = case.best
    BY DEF HostFile
  <2>3. catalog = WriteCatalog(case.rows, case.best)
    BY <2>1, <2>2 DEF Catalogue
  <2> QED
    BY <2>1, <2>3, NamedCatalog DEF Usable
<1>2. ASSUME ClassInv
      PROVE  CatalogIsSound
  <2> SUFFICES ASSUME result.status # "none", case.wrapper = "fleet"
               PROVE  /\ catalog = {} => LightcurveRows(case.phot) = {}
                      /\ \A c \in catalog : IF c.of = -1 THEN catalog = {c}
                                            ELSE \A k \in DOMAIN c.mag : c.mag[k] \in MagsOf(c)
    BY DEF CatalogIsSound
  <2>1. case \in Cases /\ catalog = Catalogue
    BY <1>2 DEF ClassInv, StagingInv, GivenInv, Nothing
  <2> DEFINE rows == HostFile.rows
             best == HostFile.best
  <2>2. /\ best.mags \subseteq Bands /\ DOMAIN rows \subseteq Nat \ {0}
        /\ \A k \in DOMAIN rows : rows[k].mags \subseteq Bands
        /\ \A k \in Near(rows) : rows[k].dist \in Nat
        /\ best = case.best \/ best.mags = {}
        /\ rows = case.rows \/ rows = <<>>
    BY <2>1, BoomAssumption DEF HostFile, NoBest, Bands, Near
  <2> HIDE DEF rows, best
  <2>3. /\ WriteCatalog(rows, best) # {}
        /\ \A c \in WriteCatalog(rows, best) :
             \/ c.of = -1 /\ WriteCatalog(rows, best) = {c}
             \/ Measured(rows, best, c)
    BY <2>2, CatalogIsMeasured
  <2>4. catalog = {} \/ catalog = WriteCatalog(rows, best)
    BY <2>1 DEF Catalogue, rows, best
  <2>5. catalog = {} => LightcurveRows(case.phot) = {}
    BY <2>1, <2>3 DEF Catalogue, rows, best
  <2>6. ASSUME NEW c \in catalog
        PROVE  IF c.of = -1 THEN catalog = {c}
               ELSE \A k \in DOMAIN c.mag : c.mag[k] \in MagsOf(c)
    <3>1. catalog = WriteCatalog(rows, best)
      BY <2>4
    <3>2. CASE c.of = -1
      BY <2>3, <3>1, <3>2 DEF Measured
    <3>3. CASE c.of # -1
      <4>1. Measured(rows, best, c)
        BY <2>3, <3>1, <3>3
      <4>2. CASE c.of = 0
        BY <2>2, <4>1, <4>2 DEF Measured, MagsOf
      <4>3. CASE c.of # 0
        <5>1. rows = case.rows
          BY <2>2, <4>1, <4>3 DEF Measured
        <5> QED
          BY <4>1, <4>3, <5>1 DEF Measured, MagsOf
      <4> QED
        BY <4>2, <4>3
    <3> QED
      BY <3>2, <3>3
  <2> QED
    BY <2>5, <2>6
<1>3. ClassInv => HostIsTrue
  BY <1>1, <1>2 DEF HostIsTrue, ClassInv, StagingInv
<1> QED
  BY <1>3, ClassSafe, PTL

\* Without BOOM's history ORACLE has SkyPortal's photometry.
LEMMA EitherLightCurve ==
  OracleRows(case.phot, AlertFile.prv) \in {PhotometryRows(case.phot), BoomRows(case.prv)}
<1>1. AlertFile.prv = case.prv \/ AlertFile.prv = <<>>
  BY DEF AlertFile
<1>2. DOMAIN BoomRows(<<>>) = {}
  BY DEF BoomRows
<1> QED
  BY <1>1, <1>2 DEF OracleRows

\* The class SkyPortal shows was earned: by features no missing marker is among, by
\* a light curve that suffices by itself, and it arrives as the bridge returned it.
THEOREM ClassesAreEarned == Spec => []ClassIsEarned
<1>1. ASSUME ClassInv
      PROVE  TypeOK
  <2>1. analysis \subseteq result.keys
    BY <1>1 DEF ClassInv, ResultInv
  <2> QED
    BY <1>1, <2>1 DEF ClassInv, StagingInv, ResultInv, TypeOK, Pieces
<1>2. ASSUME ClassInv
      PROVE  FeaturesAreTrue
  <2>1. case \in Cases /\ (features = <<>> \/ features = Vector)
    BY <1>1, <1>2 DEF ClassInv, StagingInv, GivenInv
  <2>2. DOMAIN AlertFile.wise \subseteq WiseBands
    BY <2>1, BoomAssumption DEF AlertFile
  <2>3. CASE features = <<>>
    BY <2>3 DEF FeaturesAreTrue
  <2>4. CASE features = Vector
    <3>1. features = StaticVector(case.anns, AlertFile.candidate, AlertFile.wise)
      BY <2>4 DEF Vector
    <3>2. \A f \in DOMAIN features \cap Features :
             IsTrueOf(features, f, case.anns, AlertFile.candidate)
      BY <2>1, <2>2, <3>1, VectorIsTrue
    <3> QED
      BY <3>2 DEF FeaturesAreTrue, IsTrueOf
  <2> QED
    BY <2>1, <2>3, <2>4
<1>3. ASSUME ClassInv
      PROVE  HeadlineHolds
  <2> SUFFICES ASSUME result.class # 0
               PROVE  /\ result.class \in DOMAIN result.probs
                      /\ case.wrapper # "fleet" => result.class \in Labelled
                      /\ case.wrapper # "flare" =>
                           \A k \in DOMAIN result.probs :
                             result.probs[k] <= result.probs[result.class]
                      /\ case.wrapper = "oracle" =>
                           \E rows \in {PhotometryRows(case.phot), BoomRows(case.prv)} :
                             /\ Cardinality(DOMAIN rows) >= MinRows
                             /\ \A b \in {"g", "r"} :
                                  Cardinality({n \in DOMAIN rows : rows[n] = b}) >= MinPerBand
    BY DEF HeadlineHolds
  <2>1. EarnedBy(case.wrapper, Sufficient(OracleRows(case.phot, AlertFile.prv)), result)
    BY <1>3 DEF ClassInv, ResultInv
  <2>2. /\ result.probs \in Vectors /\ result.class \in DOMAIN result.probs
        /\ case.wrapper # "fleet" => result.class \in Labelled
        /\ case.wrapper # "flare" => result.class = Predicted(result.probs)
        /\ case.wrapper = "oracle" => Sufficient(OracleRows(case.phot, AlertFile.prv))
    BY <2>1 DEF EarnedBy
  <2>3. case.wrapper # "flare" =>
          \A k \in DOMAIN result.probs : result.probs[k] <= result.probs[result.class]
    BY <2>2, PredictedIsLikeliest
  <2> QED
    BY <2>2, <2>3, EitherLightCurve DEF Sufficient, OfBand
<1>4. ASSUME ClassInv
      PROVE  Arrives
  BY <1>4 DEF ClassInv, ResultInv, GivenInv, Nothing, Arrives
<1>5. ClassInv => ClassIsEarned
  BY <1>1, <1>2, <1>3, <1>4 DEF ClassIsEarned
<1> QED
  BY <1>5, ClassSafe, PTL
=============================================================================
