---------------------------- MODULE MCSizerScreen ----------------------------
EXTENDS SizerScreen

\* A third row may be made by "save as new".
PageOf == <<"import", "dr">>

\* The bounds: the properties say nothing of a screen once it crossed or bled, two
\* sizings are opened in one document, and openings overlap before anything is entered
\* and a third is made.
AsStudied ==
    /\ ~crossed /\ ~bled
    /\ Cardinality(visited) <= 2
    /\ Cardinality(opens) < MaxOpens \/ (edits = 0 /\ \E s \in Sizings : ~Exists(s))
=============================================================================
