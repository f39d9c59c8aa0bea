-------------------------- MODULE MCChangeControl --------------------------
(* Small instances of ChangeControl for TLC.                               *)
EXTENDS ChangeControl, TLC

CONSTANTS c1, c2

\* Two changes of one device. The first writes an item twice, as a port that
\* is taken down and up again, and then a second item; the second change
\* writes an item of the first.
OneDevice == c1 :> "d" @@ c2 :> "d"
MCFactory == [k \in Keys |-> "old"]
Step(k, v) == [key |-> k, after |-> v, irreversible |-> FALSE]
Transient(k, v) == [key |-> k, after |-> v, irreversible |-> TRUE]

LongPlan  == c1 :> <<Step("k", "one"), Step("k", "old"), Step("l", "one")>>
          @@ c2 :> <<Step("k", "two"), Transient("l", "two")>>
SinglePlan == c1 :> <<Step("k", "one")>> @@ c2 :> <<Step("k", "two")>>

\* Threads differ by name only; sound for the safety runs.
WorkerSymmetry == Permutations(Workers)
=============================================================================
