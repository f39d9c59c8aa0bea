-------------------------- MODULE VectorLifecycle --------------------------
(***************************************************************************)
(* The dense index of src/core/memory/vector_lifecycle.py as a value: a     *)
(* base that only compaction replaces, a delta that only grows, and a table  *)
(* of versions that tells which vectors are current.  Nothing is ever taken  *)
(* out of base or delta in place.  An embedding is the content it stands for.*)
(***************************************************************************)
EXTENDS Corpus, Integers, FiniteSets

CONSTANTS
    DeltaMax,         \* delta_max_entries
    DeltaRatio,       \* delta_ratio_threshold, a pair
    StaleRatio        \* obsolete_ratio_threshold, a pair

\* _Entry with its vector, and a row of the version table; version 0: no row.
VecEntry == [doc : Docs, version : Nat, vector : Contents]
NoRow    == [version |-> 0, deleted |-> TRUE]

NewVecIndex ==
    [versions |-> [d \in Docs |-> NoRow], base |-> {}, delta |-> {},
     serial |-> 0, generation |-> 0]

VecPhysical(vx) == vx.base \cup vx.delta

VecUpsert(vx, d, c) ==
    LET version == vx.versions[d].version + 1
    IN  [vx EXCEPT !.delta = @ \cup {[doc |-> d, version |-> version, vector |-> c]},
                   !.versions[d] = [version |-> version, deleted |-> FALSE],
                   !.serial = @ + 1]

\* A mutant for the check of SnapshotsRestore: a deletion forgets the version.
VecDeleteRow(vx, d) ==
    [vx EXCEPT !.versions[d] = NoRow, !.serial = @ + 1]

VecDelete(vx, d) ==
    [vx EXCEPT !.versions[d] = [version |-> @.version + 1, deleted |-> TRUE],
               !.serial = @ + 1]

\* _is_current
Current(vx, e) == /\ ~vx.versions[e.doc].deleted
                  /\ vx.versions[e.doc].version = e.version

\* should_compact; obsolete is physical less live, not a count of stale entries.
VecLiveDocs(vx) == {d \in Docs : ~vx.versions[d].deleted}
VecDue(vx) ==
    LET base     == Cardinality(vx.base)
        delta    == Cardinality(vx.delta)
        obsolete == base + delta - Cardinality(VecLiveDocs(vx))
    IN  \/ delta >= DeltaMax
        \/ base > 0 /\ delta * DeltaRatio[2] >= base * DeltaRatio[1]
        \/ base + delta > 0 /\ obsolete * StaleRatio[2] >= (base + delta) * StaleRatio[1]

\* compact, the part before and the part after the build off the lock
VecCapture(vx) == [serial |-> vx.serial, generation |-> vx.generation,
                   rows |-> {e \in VecPhysical(vx) : Current(vx, e)}]

\* A mutant for the check of DenseServes: only another compaction is noticed.
VecFreshGeneration(vx, cap) == cap.generation = vx.generation

VecFresh(vx, cap) == cap.serial = vx.serial /\ cap.generation = vx.generation

VecCompacted(vx, cap) ==
    [vx EXCEPT !.base = cap.rows,
               !.delta = {},
               !.versions = [d \in Docs |-> IF vx.versions[d].deleted THEN NoRow ELSE vx.versions[d]],
               !.generation = @ + 1]

\* search_hits: what a document is found by.
VecView(vx) ==
    [d \in Docs |-> IF \E e \in VecPhysical(vx) : e.doc = d /\ Current(vx, e)
                    THEN (CHOOSE e \in VecPhysical(vx) : e.doc = d /\ Current(vx, e)).vector
                    ELSE Absent]

\* _validate_loaded_state: what load demands of a snapshot.
VecLoads(vx) ==
    /\ vx.base \cap vx.delta = {}
    /\ \A e, x \in VecPhysical(vx) : e.doc = x.doc /\ e.version = x.version => e = x
    /\ \A e \in VecPhysical(vx) : 0 < e.version /\ e.version <= vx.versions[e.doc].version
    /\ \A d \in VecLiveDocs(vx) : \E e \in VecPhysical(vx) : e.doc = d /\ Current(vx, e)

=============================================================================
