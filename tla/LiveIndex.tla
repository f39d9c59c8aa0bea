------------------------------ MODULE LiveIndex ------------------------------
(***************************************************************************)
(* What a retrieval index of src/core/memory promises to its readers.  Its  *)
(* owner tells it contents; a query finds a document by the content last     *)
(* told, or by an older one until the index has taken the change in, and     *)
(* never again by one that it had already left behind (Spec).  An index that *)
(* takes every change in at once finds exactly what it was told (SpecAtOnce). *)
(* Segments, deltas, tombstones, compaction and the threads that run it are  *)
(* not to be seen.                                                           *)
(***************************************************************************)
EXTENDS Corpus

VARIABLES
    told,    \* told[d]: the content the owner last asked for
    live     \* live[d]: the content a query finds d by

Nothing == [d \in Docs |-> Absent]

Init == told = Nothing /\ live = Nothing

\* upsert, delete: asked for, and taken in at once or later.
Tell(d, c) ==
    /\ told' = [told EXCEPT ![d] = c]
    /\ live' \in {live, [live EXCEPT ![d] = c]}

TakeIn(d) ==
    /\ live' = [live EXCEPT ![d] = told[d]]
    /\ UNCHANGED told

\* The index is emptied, to be filled again.
Clear ==
    /\ told' = Nothing
    /\ live' \in {live, Nothing}

Next ==
    \/ \E d \in Docs, c \in Contents \cup {Absent} : Tell(d, c)
    \/ \E d \in Docs : TakeIn(d)
    \/ Clear

Spec == Init /\ [][Next]_<<told, live>>

-----------------------------------------------------------------------------
\* The same index without the delay: nothing told is still to be taken in.

TellAtOnce(d, c) == told' = [told EXCEPT ![d] = c] /\ live' = told'
ClearAtOnce      == told' = Nothing /\ live' = told'

NextAtOnce ==
    \/ \E d \in Docs, c \in Contents \cup {Absent} : TellAtOnce(d, c)
    \/ ClearAtOnce

SpecAtOnce == Init /\ [][NextAtOnce]_<<told, live>>

=============================================================================
