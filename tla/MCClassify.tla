----------------------------- MODULE MCClassify -----------------------------
(* Light curves of four points, hosts of up to two crossmatch rows, alerts  *)
(* with and without their pieces.                                           *)
EXTENDS Classify

AnyPhot == <<[filter |-> "ztfg", day |-> 0, kind |-> "det", ztf |-> TRUE],
             [filter |-> "r", day |-> 1, kind |-> "weak", ztf |-> TRUE],
             [filter |-> "ztfr", day |-> 1, kind |-> "det", ztf |-> TRUE]>>
Plain == [wrapper |-> "fleet", north |-> TRUE, phot |-> AnyPhot, anns |-> <<>>, db |-> TRUE,
          optin |-> TRUE, rows |-> <<>>, best |-> NoBest, alert |-> TRUE, candidate |-> <<>>,
          prv |-> <<>>, wise |-> <<>>, matched |-> FALSE, xmatch |-> <<>>, cutout |-> TRUE, cross |-> <<>>]

Upto(S, n) == UNION {[1 .. k -> S] : k \in 0 .. n}

\* Light curves: two g points, an r point and one no model has a band for.
Filters == <<"ztfg", "sdssr", "g", "uvw1">>
Curves == {[n \in 1 .. 4 |-> [filter |-> Filters[n], day |-> x[n][1], kind |-> x[n][2], ztf |-> TRUE]]
             : x \in [1 .. 4 -> {0, 2} \X {"det", "limit"}]}
CurveCases == {[Plain EXCEPT !.phot = p, !.north = n, !.db = FALSE] :
                 p \in Curves, n \in BOOLEAN}

\* Hosts: ids whose low half is negative as BSON splits them, and one that is not.
Row(v, t, d, m) == [real |-> v, id |-> Bson(v), type |-> t, dist |-> d, mags |-> m, coords |-> TRUE]
Rows == {Row(v, t, d, m) : v \in {6}, t \in {"REX", "PSF", "DUP"}, d \in {Unknown, 1, 3},
                           m \in {{"i"}, {"r", "z"}}}
Others == {Row(v, t, d, m) : v \in {5}, t \in {"REX", "PSF"}, d \in {0, 3}, m \in {{}, {"g"}}}
RowSeqs == {<<>>} \cup {<<a>> : a \in Rows} \cup {<<a, b>> : a \in Rows, b \in Others}
Bests == {NoBest}
    \cup {[NoBest EXCEPT !.catalog = "LSDR10", !.objname = v] : v \in {5, 6, 7}}
    \cup {[NoBest EXCEPT !.phot = "LSDR10", !.source = 6]}
    \cup {[NoBest EXCEPT !.phot = "PS1", !.mags = m, !.coords = TRUE] : m \in {{"g", "i"}, {"z"}}}
HostCases == {[Plain EXCEPT !.rows = r, !.best = b] : r \in RowSeqs, b \in Bests}

\* ORACLE: what the alert says, what the annotations say, what only one says.
Said == {<<>>, [drb |-> 1, scorr |-> Marker, zogy_scorr |-> 2], [drb |-> Absent, W1_minus_W3 |-> 4]}
Candidates == {<<>>, [drb |-> 3], [drb |-> Marker, scorr |-> Absent], [drb |-> Absent, scorr |-> 5]}
Point(b) == [public |-> TRUE, band |-> b, measured |-> TRUE]
Histories == {<<>>, <<Point("g")>>, <<Point("g"), Point("r"), Point("r")>>,
              <<Point("g"), [Point("r") EXCEPT !.public = FALSE], Point("g")>>}
Wises == {<<>>, [W1mag |-> 7], [W1mag |-> 7, W3mag |-> 4]}
Oracle == [Plain EXCEPT !.wrapper = "oracle", !.xmatch = [W2mag |-> 6]]
OracleCases ==
    {[Oracle EXCEPT !.anns = a, !.candidate = c, !.wise = w, !.matched = DOMAIN w # {} \/ m,
                    !.prv = <<Point("g")>>] :
        a \in Upto(Said, 2), c \in Candidates, w \in Wises, m \in BOOLEAN}
    \cup {[Oracle EXCEPT !.phot = p, !.prv = h, !.candidate = c, !.cutout = x] :
        p \in {<<>>, AnyPhot}, h \in Histories, c \in {<<>>, [drb |-> 3]}, x \in BOOLEAN}
    \cup {[Oracle EXCEPT !.alert = FALSE]}

\* FLARE: context from the first and the second choice of catalogue.
Gaia == [z |-> Absent]
Crosses == {<<>>, [Gaia_EDR3 |-> <<Gaia>>, NED |-> <<[z |-> 2]>>],
            [LSDR10 |-> <<[z |-> Absent]>>, NED |-> <<[z |-> 2]>>], [AllWISE |-> <<>>]}
FlareCases == {[Plain EXCEPT !.wrapper = "flare", !.cross = x, !.optin = o, !.phot = p] :
                 x \in Crosses, o \in BOOLEAN, p \in {<<>>, AnyPhot}}

MCCases == CurveCases \cup HostCases \cup OracleCases \cup FlareCases
MCFeatures == {"drb", "scorr"}
MCClasses == <<"SNIa", "TDE">>
=============================================================================
