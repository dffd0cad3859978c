---------------------------- MODULE MCImportMerge ----------------------------
EXTENDS ImportMerge

\* a is in both files, b and c in one each; when the second file was made, a had moved
\* to another cluster.
TwoFiles == <<<<"a", "b">>, <<"a", "c">>>>
Moved    == <<[e \in {"a", "b", "c"} |-> "A"],
              [e \in {"a", "b", "c"} |-> IF e = "a" THEN "B" ELSE "A"]>>
=============================================================================
