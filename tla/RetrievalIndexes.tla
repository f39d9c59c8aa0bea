-------------------------- MODULE RetrievalIndexes --------------------------
(***************************************************************************)
(* The two retrieval indexes of the memory store at work: a writer, under    *)
(* the request lock, changes records one by one, first in the lexical index *)
(* and then in the dense one (TieredMemoryStore.reindex); a batch that fails *)
(* is rolled back by filling both again from the durable records            *)
(* (replace_records); and a maintenance thread per index compacts it, off    *)
(* every lock but for two short sections (IndexMaintenanceWorker).           *)
(***************************************************************************)
EXTENDS SegmentedIndex, VectorLifecycle

CONSTANTS
    NotReady,      \* a record the quality gate keeps from retrieval
    MaxWrites,     \* bound: changes of records
    MaxFaults      \* bound: failed embeddings and flushes

ASSUME IndexAssumption ==
    /\ IsFiniteSet(Docs)
    /\ \A c \in Contents : IsFiniteSet(c) /\ c # {}
    /\ Absent \notin Contents /\ NotReady \notin Contents /\ NotReady # Absent
    /\ {SealAt, EntriesDue, DeltaMax} \subseteq Nat \ {0}
    /\ SegmentsDue \in Nat \ {0, 1}
    /\ {ObsoleteRatio, DeltaRatio, StaleRatio} \subseteq (Nat \ {0}) \X (Nat \ {0})
    /\ {MaxWrites, MaxFaults} \subseteq Nat

Indexes == {"lexical", "dense"}
Bodies  == Contents \cup {Absent, NotReady}

VARIABLES
    records,     \* records[d]: what the working set holds of d
    durable,     \* the same in the repository
    lex,         \* the lexical index
    object,      \* number of lexical indexes made: a rollback makes a new one
    vec,         \* the dense index
    pc,          \* where the writer stands
    kind,        \* "run": a verified diagnosis; "other": a writer that neither
                 \* rolls back nor wakes the maintenance threads
    job,         \* the record being written
    todo,        \* records a rollback has still to take out or to put back
    wake,        \* the maintenance threads' events
    phase,       \* where each maintenance thread stands
    built,       \* the lexical thread's capture, and the index it is of
    rebuilt,     \* the dense thread's capture
    writes, faults,
    \* history, read by no action
    torn,        \* records whose embedding failed after the lexical write
    triggered    \* the last batch ended by asking for maintenance

writer == <<records, durable, pc, kind, job, todo, writes, faults, torn, triggered>>
worker == <<wake, phase, built, rebuilt>>
vars   == <<writer, lex, object, vec, worker>>

NoJob == [doc |-> CHOOSE d \in Docs : TRUE, body |-> Absent]
NoBuild   == [clock |-> 0, live |-> {}, object |-> 0]
NoRebuild == [serial |-> 0, generation |-> 0, rows |-> {}]

Init ==
    /\ records = [d \in Docs |-> Absent]
    /\ durable = records
    /\ lex = NewSegIndex
    /\ object = 1
    /\ vec = NewVecIndex
    /\ pc = "idle" /\ kind = "run" /\ job = NoJob /\ todo = {}
    /\ wake = [i \in Indexes |-> FALSE]
    /\ phase = [i \in Indexes |-> "wait"]
    /\ built = NoBuild /\ rebuilt = NoRebuild
    /\ writes = 0 /\ faults = 0
    /\ torn = {}
    /\ triggered = TRUE

-----------------------------------------------------------------------------
(* The writer.                                                             *)

Begin(k) ==
    /\ pc = "idle"
    /\ writes < MaxWrites
    /\ pc' = "open"
    /\ kind' = k
    /\ triggered' = FALSE
    /\ UNCHANGED <<records, durable, lex, object, vec, job, todo, worker, writes, faults, torn>>

\* add, an in-place change with reindex, quarantine, restore: the lexical half.
\* A reindex takes out only what was indexed, a quarantine whatever is there.
Write(d, body) ==
    /\ pc = "open"
    /\ writes < MaxWrites
    /\ records' = [records EXCEPT ![d] = body]
    /\ lex' = IF body \in Contents THEN SegUpsert(lex, d, body)
              ELSE IF records[d] \in Contents \/ (records[d] = NotReady /\ body = Absent)
              THEN SegDelete(lex, d)
              ELSE lex
    /\ job' = [doc |-> d, body |-> body]
    /\ pc' = "dense"
    /\ writes' = writes + 1
    /\ UNCHANGED <<durable, object, vec, kind, todo, worker, faults, torn, triggered>>

\* redact, delete, purge: erased in the repository at once, then taken out of the
\* indexes, also when a quarantine had taken it out already.
Redact(d) ==
    /\ pc = "open" /\ kind = "other"
    /\ writes < MaxWrites
    /\ records' = [records EXCEPT ![d] = Absent]
    /\ durable' = [durable EXCEPT ![d] = Absent]
    /\ lex' = SegDelete(lex, d)
    /\ job' = [doc |-> d, body |-> Absent]
    /\ pc' = "dense"
    /\ writes' = writes + 1
    /\ UNCHANGED <<object, vec, kind, todo, worker, faults, torn, triggered>>

\* The dense half, in the same call; `next` is where the writer goes on.
Dense(from, next) ==
    /\ pc = from
    /\ vec' = IF job.body \in Contents THEN VecUpsert(vec, job.doc, job.body)
              ELSE VecDelete(vec, job.doc)
    /\ torn' = torn \ {job.doc}
    /\ job' = NoJob
    /\ pc' = next
    /\ UNCHANGED <<records, durable, lex, object, kind, todo, worker, writes, faults, triggered>>

\* The embedder raises, which a deletion does not call.
EmbedFails(from) ==
    /\ pc = from
    /\ job.body \in Contents
    /\ faults < MaxFaults
    /\ faults' = faults + 1
    /\ torn' = torn \cup {job.doc}
    /\ job' = NoJob
    /\ pc' = IF from = "dense" /\ kind = "run" THEN "failed" ELSE "idle"
    /\ todo' = {}
    /\ UNCHANGED <<records, durable, lex, object, vec, kind, worker, writes, triggered>>

\* The flush at the end of the batch, then trigger_if_due of each worker.
Commit ==
    /\ pc = "open"
    /\ durable' = records
    /\ wake' = [i \in Indexes |->
                   \/ wake[i]
                   \/ kind = "run" /\ IF i = "lexical" THEN SegDue(lex) ELSE VecDue(vec)]
    /\ triggered' = (kind = "run")
    /\ pc' = "idle"
    /\ UNCHANGED <<records, lex, object, vec, kind, job, todo, phase, built, rebuilt, writes, faults, torn>>

\* The flush raises.
FlushFails ==
    /\ pc = "open"
    /\ faults < MaxFaults
    /\ faults' = faults + 1
    /\ pc' = IF kind = "run" THEN "failed" ELSE "idle"
    /\ UNCHANGED <<records, durable, lex, object, vec, kind, job, todo, worker, writes, torn, triggered>>

\* A mutant for the check of IndexesAgree: only what is to be put back is
\* taken out.
RollbackDurable ==
    /\ pc = "failed"
    /\ todo' = {d \in Docs : durable[d] # Absent}
    /\ pc' = "dropping"
    /\ UNCHANGED <<records, durable, lex, object, vec, kind, job, worker, writes, faults, torn, triggered>>

\* replace_records takes every retrievable record out of the dense index, ...
Rollback ==
    /\ pc = "failed"
    /\ todo' = {d \in Docs : records[d] # Absent}
    /\ pc' = "dropping"
    /\ UNCHANGED <<records, durable, lex, object, vec, kind, job, worker, writes, faults, torn, triggered>>

Drop(d) ==
    /\ pc = "dropping"
    /\ d \in todo
    /\ vec' = VecDelete(vec, d)
    /\ todo' = todo \ {d}
    /\ UNCHANGED <<records, durable, lex, object, pc, kind, job, worker, writes, faults, torn, triggered>>

\* ... starts with another lexical index, ...
Renew ==
    /\ pc = "dropping"
    /\ todo = {}
    /\ records' = [d \in Docs |-> Absent]
    /\ lex' = NewSegIndex
    /\ object' = object + 1
    /\ torn' = {}
    /\ todo' = {d \in Docs : durable[d] # Absent}
    /\ pc' = "filling"
    /\ UNCHANGED <<durable, vec, kind, job, worker, writes, faults, triggered>>

\* ... and adds the durable records one by one.
Add(d) ==
    /\ pc = "filling"
    /\ d \in todo
    /\ records' = [records EXCEPT ![d] = durable[d]]
    /\ lex' = IF durable[d] \in Contents THEN SegUpsert(lex, d, durable[d]) ELSE lex
    /\ todo' = todo \ {d}
    /\ job' = [doc |-> d, body |-> durable[d]]
    /\ pc' = "refill"
    /\ UNCHANGED <<durable, object, vec, kind, worker, writes, faults, torn, triggered>>

Filled ==
    /\ pc = "filling"
    /\ todo = {}
    /\ pc' = "idle"
    /\ UNCHANGED <<records, durable, lex, object, vec, kind, job, todo, worker, writes, faults, torn, triggered>>

-----------------------------------------------------------------------------
(* A maintenance thread: _loop and _run_once.                              *)

Wake(i) ==
    /\ phase[i] = "wait"
    /\ wake[i]
    /\ wake' = [wake EXCEPT ![i] = FALSE]
    /\ phase' = [phase EXCEPT ![i] = "check"]
    /\ UNCHANGED <<writer, lex, object, vec, built, rebuilt>>

\* should_compact: the policy is asked under the index's lock, then given up.
Check(i) ==
    /\ phase[i] = "check"
    /\ phase' = [phase EXCEPT ![i] =
                    IF IF i = "lexical" THEN SegDue(lex) ELSE VecDue(vec) THEN "capture" ELSE "wait"]
    /\ UNCHANGED <<writer, lex, object, vec, wake, built, rebuilt>>

\* The lexical index asks again under the lock; the dense one does not.
CaptureLexical ==
    /\ phase["lexical"] = "capture"
    /\ IF SegDue(lex)
       THEN /\ built' = [clock |-> lex.clock, live |-> SegLive(lex), object |-> object]
            /\ phase' = [phase EXCEPT !["lexical"] = "build"]
       ELSE /\ phase' = [phase EXCEPT !["lexical"] = "wait"]
            /\ UNCHANGED built
    /\ UNCHANGED <<writer, lex, object, vec, wake, rebuilt>>

CaptureDense ==
    /\ phase["dense"] = "capture"
    /\ rebuilt' = VecCapture(vec)
    /\ phase' = [phase EXCEPT !["dense"] = "build"]
    /\ UNCHANGED <<writer, lex, object, vec, wake, built>>

\* A mutant for the check of MaintenanceSettles: the event is cleared after the
\* pass it started, with what was asked for meanwhile.
InstallLexicalClears ==
    /\ phase["lexical"] = "build"
    /\ lex' = IF built.object = object /\ SegFresh(lex, built) THEN SegCompacted(lex, built) ELSE lex
    /\ built' = NoBuild
    /\ phase' = [phase EXCEPT !["lexical"] = "wait"]
    /\ wake' = [wake EXCEPT !["lexical"] = FALSE]
    /\ UNCHANGED <<writer, object, vec, rebuilt>>

\* A build of an index that changed meanwhile is dropped, and one of an index
\* that a rollback replaced ends up in the replaced one.
InstallLexical ==
    /\ phase["lexical"] = "build"
    /\ lex' = IF built.object = object /\ SegFresh(lex, built) THEN SegCompacted(lex, built) ELSE lex
    /\ built' = NoBuild
    /\ phase' = [phase EXCEPT !["lexical"] = "wait"]
    /\ UNCHANGED <<writer, object, vec, wake, rebuilt>>

InstallDense ==
    /\ phase["dense"] = "build"
    /\ vec' = IF VecFresh(vec, rebuilt) THEN VecCompacted(vec, rebuilt) ELSE vec
    /\ rebuilt' = NoRebuild
    /\ phase' = [phase EXCEPT !["dense"] = "wait"]
    /\ UNCHANGED <<writer, lex, object, wake, built>>

-----------------------------------------------------------------------------
Continue ==
    \/ Dense("dense", "open") \/ Dense("refill", "filling")
    \/ Rollback \/ Renew \/ Filled
    \/ \E d \in Docs : Drop(d) \/ Add(d)

Fail ==
    \/ EmbedFails("dense")
    \/ EmbedFails("refill")
    \/ FlushFails

Maintain(i) == Wake(i) \/ Check(i)

Next ==
    \/ \E k \in {"run", "other"} : Begin(k)
    \/ \E d \in Docs, body \in Bodies : Write(d, body)
    \/ \E d \in Docs : Redact(d)
    \/ Commit \/ Continue \/ Fail
    \/ \E i \in Indexes : Maintain(i)
    \/ CaptureLexical \/ CaptureDense \/ InstallLexical \/ InstallDense

Spec == Init /\ [][Next]_vars

\* Threads are scheduled, a batch that was begun ends, and calls return.
FairSpec ==
    /\ Spec
    /\ WF_vars(Continue) /\ WF_vars(Commit)
    /\ \A i \in Indexes : WF_vars(Maintain(i))
    /\ WF_vars(CaptureLexical) /\ WF_vars(InstallLexical)
    /\ WF_vars(CaptureDense) /\ WF_vars(InstallDense)

-----------------------------------------------------------------------------
TypeOK ==
    /\ records \in [Docs -> Bodies] /\ durable \in [Docs -> Bodies]
    /\ pc \in {"idle", "open", "dense", "failed", "dropping", "filling", "refill"}
    /\ kind \in {"run", "other"}
    /\ job \in [doc : Docs, body : Bodies]
    /\ todo \subseteq Docs /\ torn \subseteq Docs
    /\ wake \in [Indexes -> BOOLEAN]
    /\ phase \in [Indexes -> {"wait", "check", "capture", "build"}]
    /\ lex.latest \in [Docs -> SegEntry] /\ SegPhysical(lex) \subseteq SegEntry
    /\ {lex.segments, lex.clock} \subseteq Nat /\ lex.stats.count \in Int
    /\ vec.versions \in [Docs -> [version : Nat, deleted : BOOLEAN]]
    /\ VecPhysical(vec) \subseteq VecEntry
    /\ writes \in 0..MaxWrites /\ faults \in 0..MaxFaults
    /\ triggered \in BOOLEAN

\* What the working set holds for retrieval.
Wanted == [d \in Docs |-> IF records[d] \in Contents THEN records[d] ELSE Absent]

\* A lexical query sees every write at once and nothing else: sealing and
\* compaction are invisible, no document comes back after its deletion, and no
\* write is lost to a compaction that was being built when it came.
Lexical == INSTANCE LiveIndex WITH told <- Wanted, live <- SegView(lex)
LexicalServes == Lexical!SpecAtOnce

\* The same of the dense index, which is told of a write when the lexical one
\* has it, and of a rollback one document at a time.
Kept == [d \in Docs |-> IF pc = "dropping" /\ d \notin todo THEN Absent ELSE Wanted[d]]
DenseIndex == INSTANCE LiveIndex WITH told <- Kept, live <- VecView(vec)
DenseServes == DenseIndex!Spec

\* Between two writes both indexes serve what the working set holds, but for
\* records whose embedding failed: half of such a write stays.
IndexesAgree ==
    /\ TypeOK
    /\ pc \in {"idle", "open"} =>
        \A d \in Docs : /\ SegView(lex)[d] = Wanted[d]
                        /\ d \notin torn => VecView(vec)[d] = Wanted[d]

\* What save writes at any moment is what load accepts and rebuilds: the newest
\* versions, and the statistics, which are kept by increments over updates,
\* tombstones of what the index holds or does not hold, and compactions, come
\* out the same, and no version was given twice.
SnapshotsRestore == SegLoads(lex) /\ SegLoaded(lex) = lex /\ VecLoads(vec)

\* Once a verified run has asked for maintenance and nobody writes, neither
\* index stays due: a build dropped because of a write is made again.
MaintenanceSettles ==
    (pc = "idle" /\ triggered) ~> (pc # "idle" \/ (~SegDue(lex) /\ ~VecDue(vec)))

=============================================================================
