------------------------------- MODULE Corpus -------------------------------
(* The documents of a retrieval index and what they can hold.               *)
CONSTANTS
    Docs,
    Contents,    \* sets of terms
    Absent       \* the content of a document that is not there
=============================================================================
