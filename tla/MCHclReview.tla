----------------------------- MODULE MCHclReview -----------------------------
EXTENDS HclReview, TLC

\* Between the two, a platform and a part come and go, and a part is described anew.
Published1 == [page |-> (11 :> <<"plain", "tce">>) @@ (12 :> None),
               text |-> <<"a", "a">>, complete |-> TRUE]
Published2 == [page |-> (11 :> <<"plain", "no">>) @@ (12 :> <<"tce", "no">>),
               text |-> <<"b", "a">>, complete |-> TRUE]
Publications == {Published1, Published2}
=============================================================================
