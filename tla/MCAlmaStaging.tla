--------------------------- MODULE MCAlmaStaging ----------------------------
(***************************************************************************)
(* Instances of AlmaStaging for TLC: two threads, as alma_submit_threads   *)
(* has it, and an archive with a dataset of each kind.                     *)
(***************************************************************************)
EXTENDS AlmaStaging, TLC

File1(id, role, listed, size) ==
    [id |-> id, role |-> role, offered |-> TRUE, listed |-> listed, size |-> size]

\* A small product and a large one; only a placeholder; two small products beside
\* their auxiliary files; a large product whose stream is shorter than listed.
Archive ==
    [cubes |-> <<File1("small", "#this", 2, 2), File1("large", "#this", 4, 4),
                 File1("raw", "#progenitor", 9, 9)>>,
     empty |-> <<[File1("none", "#this", 0, 0) EXCEPT !.offered = FALSE]>>,
     pair  |-> <<File1("left", "#this", 2, 2), File1("right", "#auxiliary", 2, 2)>>,
     gzip  |-> <<File1("packed", "#this", 4, 3)>>,
     huge  |-> <<File1("survey", "#this", 9, 9)>>]

Row(from, datasets) == [origin |-> from, datasets |-> datasets]
Annotated == [explicit |-> <<>>,
              annotations |-> <<Row("other", <<"gzip">>), Row("alma-archive", <<>>),
                                Row("alma-archive", <<"empty", "huge", "cubes">>)>>]
Named == [explicit |-> <<"gone", "gzip", "pair">>, annotations |-> <<>>]
TwoRequests == [one |-> Annotated, two |-> Named]
BothSettings ==
    {[osdf |-> TRUE, auxiliary |-> TRUE, spool |-> TRUE],
     [osdf |-> FALSE, auxiliary |-> FALSE, spool |-> FALSE]}
Both == {"one", "two"}
Gone == {"gone"}
ArchiveAndGone == Archive @@ [gone |-> <<>>]

\* What the theorems assume holds of the instance.
ASSUME PassAssumption == Sensible /\ AsListed /\ DiskShared /\ NoRepeats
=============================================================================
