-------------------------- MODULE MCRetrievalIndexes --------------------------
(* Two documents with two contents that share a term, and small thresholds.   *)
EXTENDS RetrievalIndexes

MCContents == {{"a"}, {"a", "b"}}
MCRatio    == <<1, 2>>

=============================================================================
