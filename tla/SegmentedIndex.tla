--------------------------- MODULE SegmentedIndex ---------------------------
(***************************************************************************)
(* The lexical index of src/core/memory/segmented_bm25.py as a value: an    *)
(* index is a record, and each operation that the code runs under the lock  *)
(* of the index is a function from index to index.                          *)
(*                                                                         *)
(* A document is the set of its terms.  Sealed segments are never changed   *)
(* and their order is read by nothing, so they are one set of entries and   *)
(* their number.                                                            *)
(***************************************************************************)
EXTENDS Corpus, Integers, FiniteSets

CONSTANTS
    SealAt,           \* seal_threshold
    SegmentsDue,      \* compact_segment_threshold
    EntriesDue,       \* min_compaction_entries
    ObsoleteRatio     \* obsolete_ratio_threshold, a pair

Terms == UNION Contents

\* _DocumentVersion; a tombstone has no terms.
Live(d, v, c)   == [doc |-> d, version |-> v, terms |-> c, deleted |-> FALSE]
Tombstone(d, v) == [doc |-> d, version |-> v, terms |-> {}, deleted |-> TRUE]
Unseen(d)       == [doc |-> d, version |-> 0, terms |-> {}, deleted |-> TRUE]

SegEntry == [doc : Docs, version : Nat, terms : Contents \cup {{}}, deleted : BOOLEAN]

\* The statistics that scores are computed from, kept up to date by increments.
NoStats == [count |-> 0, length |-> 0, df |-> [t \in Terms |-> 0]]

Counted(stats, e, by) ==
    IF e.deleted THEN stats
    ELSE [count  |-> stats.count + by,
          length |-> stats.length + by * Cardinality(e.terms),
          df     |-> [t \in Terms |-> stats.df[t] + IF t \in e.terms THEN by ELSE 0]]

NewSegIndex ==
    [sealed |-> {}, segments |-> 0, delta |-> {}, clock |-> 0,
     latest |-> [d \in Docs |-> Unseen(d)], stats |-> NoStats]

SegPhysical(ix) == ix.sealed \cup ix.delta

\* _seal_locked
Sealed(ix) ==
    [ix EXCEPT !.sealed = @ \cup ix.delta, !.segments = @ + 1, !.delta = {}]

\* _install_mutation_locked: the delta is a dictionary, so an unsealed version
\* of the same document is replaced.
SegInstall(ix, e) ==
    LET next == [ix EXCEPT !.latest[e.doc] = e,
                           !.delta = {x \in @ : x.doc # e.doc} \cup {e},
                           !.clock = @ + 1,
                           !.stats = Counted(Counted(@, ix.latest[e.doc], -1), e, 1)]
    IN  IF Cardinality(next.delta) >= SealAt THEN Sealed(next) ELSE next

SegUpsert(ix, d, c) == SegInstall(ix, Live(d, ix.clock + 1, c))
SegDelete(ix, d)    == SegInstall(ix, Tombstone(d, ix.clock + 1))

\* _growth_locked and _compaction_due_locked
SegObsolete(ix) == {e \in SegPhysical(ix) : ix.latest[e.doc] # e \/ e.deleted}
SegDue(ix) ==
    LET physical == Cardinality(SegPhysical(ix))
    IN  \/ ix.segments >= SegmentsDue
        \/ /\ physical >= EntriesDue
           /\ Cardinality(SegObsolete(ix)) * ObsoleteRatio[2] >= physical * ObsoleteRatio[1]

\* compact, the part before and the part after the rebuild off the lock
SegLive(ix)    == {ix.latest[d] : d \in {x \in Docs : ~ix.latest[x].deleted}}
SegCapture(ix) == [clock |-> ix.clock, live |-> SegLive(ix)]

\* A mutant for the check of LexicalServes: any captured view is installed.
SegFreshAlways(ix, cap) == cap.clock <= ix.clock

SegFresh(ix, cap) == cap.clock = ix.clock

SegCompacted(ix, cap) ==
    [ix EXCEPT !.sealed = cap.live,
               !.segments = IF cap.live = {} THEN 0 ELSE 1,
               !.delta = {},
               !.latest = [d \in Docs |-> IF \E e \in cap.live : e.doc = d
                                          THEN CHOOSE e \in cap.live : e.doc = d
                                          ELSE Unseen(d)]]

\* _candidate_documents_locked, over all terms: what a document is found by.
SegView(ix) ==
    [d \in Docs |-> IF \E e \in SegPhysical(ix) : e.doc = d /\ e = ix.latest[d] /\ ~e.deleted
                    THEN ix.latest[d].terms
                    ELSE Absent]

\* load's count of the newest versions: the live documents, their lengths (an
\* occurrence per document and term), and the documents of each term.
Occurrences(latest) ==
    {o \in Docs \X Terms : ~latest[o[1]].deleted /\ o[2] \in latest[o[1]].terms}
Recounted(latest) ==
    [count  |-> Cardinality({d \in Docs : ~latest[d].deleted}),
     length |-> Cardinality(Occurrences(latest)),
     df     |-> [t \in Terms |-> Cardinality({d \in Docs : ~latest[d].deleted /\ t \in latest[d].terms})]]

\* What load demands of a snapshot: no version twice, none past the clock, and
\* one delta entry for a document.
SegLoads(ix) ==
    /\ ix.sealed \cap ix.delta = {}
    /\ \A e, x \in SegPhysical(ix) : e.version = x.version => e = x
    /\ \A e \in SegPhysical(ix) : e.version <= ix.clock
    /\ \A e, x \in ix.delta : e.doc = x.doc => e = x

\* load of what save wrote: the newest entry of each document, counted anew.
SegLoaded(ix) ==
    LET newest(d) == {e \in SegPhysical(ix) : /\ e.doc = d
                                              /\ \A x \in SegPhysical(ix) : x.doc = d => x.version <= e.version}
        latest    == [d \in Docs |-> IF newest(d) = {} THEN Unseen(d) ELSE CHOOSE e \in newest(d) : TRUE]
    IN  [ix EXCEPT !.latest = latest, !.stats = Recounted(latest)]

=============================================================================
