----------------------------- MODULE CaseMemory -----------------------------
(***************************************************************************)
(* The gateway's working set of memory records over the repository in       *)
(* PostgreSQL: TieredMemoryStore.flush with a version expected of every      *)
(* record, and what its callers do when that fails.  Verified diagnoses,     *)
(* the sentinel's memory and reflections take the request lock; the          *)
(* procedures that investigations confirm do not.  Scripts of the operator   *)
(* change, redact and purge records in the database meanwhile, transactions  *)
(* fail with or without effect, and the gateway may die.                     *)
(*                                                                         *)
(* A record's content is the set of the edits it was made of: a number per   *)
(* operation, 0 for a tombstone.                                            *)
(***************************************************************************)
EXTENDS Integers

CONSTANTS
    RunIds,         \* records that diagnoses and sentinel chains create
    ReflectIds,     \* records of reflections
    ProcedureIds,   \* records of confirmed procedures
    Gone,           \* the content of a record that is not there
    MaxEdits,       \* bound: operations that edit records
    MaxFaults,      \* bound: failed calls of database or embedder
    MaxCrashes,     \* bound: deaths of the gateway
    MaxScripts      \* bound: changes by scripts

Ids   == RunIds \cup ReflectIds \cup ProcedureIds
Edits == 0..MaxEdits
Body  == (SUBSET Edits) \cup {Gone}

ASSUME MemoryAssumption ==
    /\ {MaxEdits, MaxFaults, MaxCrashes, MaxScripts} \subseteq Nat
    /\ \A body \in SUBSET Edits : body # Gone

\* A reflection is named by the incident it is of, in names of its own.
ASSUME IdsAssumption == ReflectIds \cap (RunIds \cup ProcedureIds) = {}

VARIABLES
    db,          \* memory_records: version and content; version 0: no row
    work,        \* the working set
    known,       \* _repository_versions
    base,        \* _repository_snapshots
    pc,          \* where the holder of the request lock stands
    kind,        \* its operation: "run", "sync" or "reflect"
    edit,        \* the number of its edit
    before,      \* the snapshot a reflection takes
    loaded,      \* what a reload read
    written,     \* versions its last transaction wrote
    pcP,         \* where the investigation stands
    noted,       \* its last transaction: versions, and the content of the
                 \* record objects it holds if a rollback replaced them
    edits, faults, crashes, scripts,
    \* history, read by no action
    mine, mineP,       \* edits of the two operations under way
    doubtful,          \* a transaction under way may have had effect
    unsure,            \* one had effect and raised
    acknowledged,      \* edits reported as committed
    rejected,          \* edits reported as rolled back
    erased,            \* edits redacted or purged
    purged,            \* records purged
    raced,             \* the investigation wrote while the lock was held
    torn               \* a rollback stopped half way

memory  == <<work, known, base>>
holder  == <<pc, kind, edit, before, loaded, written>>
outside == <<pcP, noted>>
bounds  == <<edits, faults, crashes, scripts>>
history == <<mine, mineP, doubtful, unsure, acknowledged, rejected, erased, purged, raced, torn>>
vars    == <<db, memory, holder, outside, bounds, history>>

NoBefore == [m \in Ids |-> Gone]
NoWrite  == [m \in Ids |-> 0]
NoLoad   == [m \in Ids |-> [version |-> 0, body |-> Gone]]
NoNote   == [versions |-> NoWrite, detached |-> FALSE, bodies |-> NoBefore]

Init ==
    /\ db = NoLoad
    /\ work = NoBefore /\ known = NoWrite /\ base = NoBefore
    /\ pc = "idle" /\ kind = "run" /\ edit = 0 /\ before = NoBefore /\ loaded = NoLoad /\ written = NoWrite
    /\ pcP = "idle" /\ noted = NoNote
    /\ edits = 0 /\ faults = 0 /\ crashes = 0 /\ scripts = 0
    /\ mine = {} /\ mineP = {} /\ doubtful = FALSE /\ unsure = FALSE
    /\ acknowledged = {} /\ rejected = {} /\ erased = {} /\ purged = {}
    /\ raced = FALSE /\ torn = FALSE

-----------------------------------------------------------------------------
(* flush.                                                                  *)

Dirty == {m \in Ids : work[m] # Gone /\ work[m] # base[m]}

\* Mutant: only a new record is checked.
ExpectedNew(ids) == \A m \in ids : known[m] = 0 => db[m].version = 0

\* sync_records: every expected version is the row's, or nothing is written.
Expected(ids) == \A m \in ids : db[m].version = known[m]
\* A row that has the content already keeps its version.
Written(m)    == IF db[m].body = work[m] THEN known[m] ELSE known[m] + 1
Synced(ids)   == [m \in Ids |-> IF m \in ids THEN [version |-> Written(m), body |-> work[m]] ELSE db[m]]
Versions(ids) == [m \in Ids |-> IF m \in ids THEN Written(m) ELSE 0]

\* After it: the versions, and the snapshot of each record as it is by now.
NotedVersions(versions) == [m \in Ids |-> IF versions[m] > 0 THEN versions[m] ELSE known[m]]
NotedBase(versions, body) == [m \in Ids |-> IF versions[m] > 0 THEN body[m] ELSE base[m]]

-----------------------------------------------------------------------------
(* The holder of the request lock.                                         *)

With(m, k) == (IF work[m] = Gone THEN {} ELSE work[m]) \cup {k}

Begin(k) ==
    /\ pc = "idle"
    /\ edits < MaxEdits
    /\ edits' = edits + 1
    /\ edit' = edits + 1
    /\ kind' = k
    /\ pc' = IF k = "reflect" THEN "reflect" ELSE "consolidate"
    /\ mine' = {}
    /\ doubtful' = FALSE
    /\ raced' = (raced \/ pcP # "idle")
    /\ UNCHANGED <<db, memory, before, loaded, written, outside, faults, crashes, scripts,
                   mineP, unsure, acknowledged, rejected, erased, purged, torn>>

\* It changes records, and adds some of its own.
Change(ids) ==
    /\ \A m \in ids : m \in RunIds \/ work[m] # Gone
    /\ work' = [m \in Ids |-> IF m \in ids THEN With(m, edit) ELSE work[m]]
    /\ mine' = mine \cup {<<m, edit>> : m \in ids}
    /\ UNCHANGED <<db, known, base, kind, edit, before, loaded, written, outside, bounds,
                   mineP, doubtful, unsure, acknowledged, rejected, erased, purged, raced, torn>>

\* consolidate_run.  A run holds the flush back until retention has joined; a
\* sentinel chain that passed flushes, another leaves that to the timeline.
Consolidate(ids, next) ==
    /\ pc = "consolidate"
    /\ next \in IF kind = "run" THEN {"retain"} ELSE {"flush", "timeline"}
    /\ pc' = next
    /\ Change(ids)

\* _apply_memory_retention: decay, with its checkpoint, and eviction.
Retain(ids) ==
    /\ pc = "retain"
    /\ pc' = "last"
    /\ Change(ids)

Flushing == {"flush", "timeline", "last", "pending"}
Noting(stage) == CASE stage = "flush"    -> "note"
                   [] stage = "timeline" -> "notetimeline"
                   [] stage = "last"     -> "notelast"
                   [] OTHER              -> "notepending"

\* Where an exception leaves the operation: a run and a chain reload, a
\* reflection restores its snapshot, the sentinel's timeline and a pending
\* flush do neither.
Failure ==
    CASE kind = "reflect" /\ pc # "pending"           -> "restore"
      [] kind = "run" \/ (kind = "sync" /\ pc = "flush") -> "reload"
      [] OTHER                                        -> "idle"

Flush ==
    /\ pc \in Flushing
    /\ IF Expected(Dirty)
       THEN /\ db' = Synced(Dirty)
            /\ written' = Versions(Dirty)
            /\ pc' = Noting(pc)
       ELSE /\ pc' = Failure
            /\ UNCHANGED <<db, written>>
    /\ UNCHANGED <<memory, kind, edit, before, loaded, outside, bounds, history>>

\* The transaction raises, without effect or after it was committed.
FlushFails(effect) ==
    /\ pc \in Flushing
    /\ faults < MaxFaults
    /\ faults' = faults + 1
    /\ effect => Expected(Dirty)
    /\ db' = IF effect THEN Synced(Dirty) ELSE db
    /\ doubtful' = (doubtful \/ effect)
    /\ unsure' = (unsure \/ effect)
    /\ pc' = Failure
    /\ UNCHANGED <<memory, kind, edit, before, loaded, written, outside, edits, crashes, scripts,
                   mine, mineP, acknowledged, rejected, erased, purged, raced, torn>>

Note ==
    /\ pc \in {Noting(stage) : stage \in Flushing}
    /\ known' = NotedVersions(written)
    /\ base' = NotedBase(written, work)
    /\ written' = NoWrite
    /\ pc' = CASE pc = "note" /\ kind = "sync" -> "timeline"
               [] pc = "note" /\ kind # "sync" -> "readback"
               [] pc = "notetimeline"          -> "retain"
               [] pc = "notelast"              -> "idle"
               [] pc = "notepending"           -> "reload"
    /\ acknowledged' = IF pc = "notelast" THEN acknowledged \cup mine ELSE acknowledged
    /\ UNCHANGED <<db, work, kind, edit, before, loaded, outside, bounds,
                   mine, mineP, doubtful, unsure, rejected, erased, purged, raced, torn>>

\* reload_from_repository reads the rows, ...
Reload ==
    /\ pc = "reload"
    /\ loaded' = db
    /\ pc' = "replace"
    /\ UNCHANGED <<db, memory, kind, edit, before, written, outside, bounds, history>>

\* ... or cannot: what was not committed stays in the working set.
ReloadFails ==
    /\ pc = "reload"
    /\ faults < MaxFaults
    /\ faults' = faults + 1
    /\ pc' = "idle"
    /\ UNCHANGED <<db, memory, kind, edit, before, loaded, written, outside, edits, crashes, scripts, history>>

\* Mutant: the old records are not cleared first.
ReplacingMerges(ids, bodies) ==
    /\ work' = [m \in Ids |-> IF m \in ids /\ bodies[m] # Gone THEN bodies[m] ELSE work[m]]
    /\ noted' = noted
    /\ before' = NoBefore

\* replace_records.  An investigation in its flush still holds the record
\* objects that are replaced.
Replacing(ids, bodies) ==
    /\ work' = [m \in Ids |-> IF m \in ids THEN bodies[m] ELSE Gone]
    /\ noted' = IF pcP = "note" /\ ~noted.detached
                THEN [noted EXCEPT !.detached = TRUE, !.bodies = work] ELSE noted
    /\ before' = NoBefore

\* With the rows read; then their versions and snapshots.
Replace ==
    /\ pc = "replace"
    /\ Replacing(Ids, [m \in Ids |-> loaded[m].body])
    /\ pc' = "versions"
    /\ UNCHANGED <<db, known, base, kind, edit, loaded, written, pcP, bounds, history>>

\* With the snapshot of a reflection: versions and snapshots stay.
Restore ==
    /\ pc = "restore"
    /\ Replacing(Ids, before)
    /\ rejected' = IF doubtful THEN rejected ELSE rejected \cup mine
    /\ pc' = "idle"
    /\ UNCHANGED <<db, known, base, kind, edit, loaded, written, pcP, bounds,
                   mine, mineP, doubtful, unsure, acknowledged, erased, purged, raced, torn>>

\* The embedder raises: the working set is what had been added by then.
ReplaceFails(ids) ==
    /\ faults < MaxFaults
    /\ faults' = faults + 1
    /\ \/ pc = "replace" /\ Replacing(ids, [m \in Ids |-> loaded[m].body])
       \/ pc = "restore" /\ Replacing(ids, before)
    /\ loaded' = NoLoad
    /\ torn' = TRUE
    /\ pc' = "idle"
    /\ UNCHANGED <<db, known, base, kind, edit, written, pcP, edits, crashes, scripts,
                   mine, mineP, doubtful, unsure, acknowledged, rejected, erased, purged, raced>>

\* Mutant: the versions are read again, after the records.
TakeVersionsLate ==
    /\ pc = "versions"
    /\ known' = [m \in Ids |-> db[m].version]
    /\ base' = [m \in Ids |-> loaded[m].body]
    /\ loaded' = NoLoad
    /\ rejected' = IF doubtful THEN rejected ELSE rejected \cup mine
    /\ pc' = "idle"
    /\ UNCHANGED <<db, work, kind, edit, before, written, outside, bounds,
                   mine, mineP, doubtful, unsure, acknowledged, erased, purged, raced, torn>>

\* Mutant: the snapshots stay as they were.
TakeVersionsOnly ==
    /\ pc = "versions"
    /\ known' = [m \in Ids |-> loaded[m].version]
    /\ base' = base
    /\ loaded' = NoLoad
    /\ rejected' = IF doubtful THEN rejected ELSE rejected \cup mine
    /\ pc' = "idle"
    /\ UNCHANGED <<db, work, kind, edit, before, written, outside, bounds,
                   mine, mineP, doubtful, unsure, acknowledged, erased, purged, raced, torn>>

TakeVersions ==
    /\ pc = "versions"
    /\ known' = [m \in Ids |-> loaded[m].version]
    /\ base' = [m \in Ids |-> loaded[m].body]
    /\ loaded' = NoLoad
    /\ rejected' = IF doubtful THEN rejected ELSE rejected \cup mine
    /\ pc' = "idle"
    /\ UNCHANGED <<db, work, kind, edit, before, written, outside, bounds,
                   mine, mineP, doubtful, unsure, acknowledged, erased, purged, raced, torn>>

\* reflect: a reflection that is durable already is only taken into the working
\* set, after a flush of what is pending.
Reflect(m) ==
    /\ pc = "reflect"
    /\ IF db[m].version = 0
       THEN /\ before' = work
            /\ IF work[m] = Gone
               THEN /\ work' = [work EXCEPT ![m] = {edit}]
                    /\ mine' = {<<m, edit>>}
                    /\ pc' = "flush"
               ELSE pc' = "restore" /\ UNCHANGED <<work, mine>>
       ELSE /\ pc' = IF work[m] = Gone THEN "pending" ELSE "idle"
            /\ UNCHANGED <<work, before, mine>>
    /\ UNCHANGED <<db, known, base, kind, edit, loaded, written, outside, bounds,
                   mineP, doubtful, unsure, acknowledged, rejected, erased, purged, raced, torn>>

\* The reflection must be read back.
Readback ==
    /\ pc = "readback"
    /\ IF \A w \in mine : db[w[1]].version > 0
       THEN /\ acknowledged' = acknowledged \cup mine
            /\ before' = NoBefore
            /\ pc' = "idle"
       ELSE pc' = "restore" /\ UNCHANGED <<acknowledged, before>>
    /\ UNCHANGED <<db, memory, kind, edit, loaded, written, outside, bounds,
                   mine, mineP, doubtful, unsure, rejected, erased, purged, raced, torn>>

ReadbackFails ==
    /\ pc = "readback"
    /\ faults < MaxFaults
    /\ faults' = faults + 1
    /\ doubtful' = TRUE
    /\ pc' = "restore"
    /\ UNCHANGED <<db, memory, kind, edit, before, loaded, written, outside, edits, crashes, scripts,
                   mine, mineP, unsure, acknowledged, rejected, erased, purged, raced, torn>>

-----------------------------------------------------------------------------
(* An investigation that confirmed a procedure.                            *)

\* While a run consolidates, the store's flush is replaced by one that does
\* nothing: the call returns as if the procedure were stored.
Held == pc = "consolidate" /\ kind = "run"

Remember(m) ==
    /\ pcP = "idle"
    /\ edits < MaxEdits
    /\ edits' = edits + 1
    /\ work' = [work EXCEPT ![m] = With(m, edits + 1)]
    /\ mineP' = {<<m, edits + 1>>}
    /\ pcP' = "flush"
    /\ raced' = (raced \/ pc # "idle")
    /\ UNCHANGED <<db, known, base, holder, noted, faults, crashes, scripts,
                   mine, doubtful, unsure, acknowledged, rejected, erased, purged, torn>>

FlushHeld ==
    /\ pcP = "flush"
    /\ Held
    /\ acknowledged' = acknowledged \cup mineP
    /\ pcP' = "idle"
    /\ UNCHANGED <<db, memory, holder, noted, bounds,
                   mine, mineP, doubtful, unsure, rejected, erased, purged, raced, torn>>

\* A conflict is an exception: nothing is rolled back.
FlushProcedure ==
    /\ pcP = "flush"
    /\ ~Held
    /\ IF Expected(Dirty)
       THEN /\ db' = Synced(Dirty)
            /\ noted' = [NoNote EXCEPT !.versions = Versions(Dirty)]
            /\ pcP' = "note"
       ELSE /\ pcP' = "idle"
            /\ UNCHANGED <<db, noted>>
    /\ UNCHANGED <<memory, holder, bounds, history>>

FlushProcedureFails(effect) ==
    /\ pcP = "flush"
    /\ ~Held
    /\ faults < MaxFaults
    /\ faults' = faults + 1
    /\ effect => Expected(Dirty)
    /\ db' = IF effect THEN Synced(Dirty) ELSE db
    /\ unsure' = (unsure \/ effect)
    /\ pcP' = "idle"
    /\ UNCHANGED <<memory, holder, noted, edits, crashes, scripts,
                   mine, mineP, doubtful, acknowledged, rejected, erased, purged, raced, torn>>

NoteProcedure ==
    /\ pcP = "note"
    /\ known' = NotedVersions(noted.versions)
    /\ base' = NotedBase(noted.versions, IF noted.detached THEN noted.bodies ELSE work)
    /\ noted' = NoNote
    /\ acknowledged' = acknowledged \cup mineP
    /\ pcP' = "idle"
    /\ UNCHANGED <<db, work, holder, bounds,
                   mine, mineP, doubtful, unsure, rejected, erased, purged, raced, torn>>

-----------------------------------------------------------------------------
(* The rest of the world.                                                  *)

\* A script writes what it read, if the version is still the same.
Edit(m) ==
    /\ scripts < MaxScripts /\ edits < MaxEdits
    /\ db[m].version > 0
    /\ db' = [db EXCEPT ![m] = [version |-> @.version + 1, body |-> @.body \cup {edits + 1}]]
    /\ edits' = edits + 1
    /\ scripts' = scripts + 1
    /\ acknowledged' = acknowledged \cup {<<m, edits + 1>>}
    /\ UNCHANGED <<memory, holder, outside, faults, crashes,
                   mine, mineP, doubtful, unsure, rejected, erased, purged, raced, torn>>

\* redact_memory leaves a tombstone with the next version, ...
Redact(m) ==
    /\ scripts < MaxScripts
    /\ db[m].version > 0
    /\ db' = [db EXCEPT ![m] = [version |-> @.version + 1, body |-> {0}]]
    /\ erased' = erased \cup {<<m, k>> : k \in db[m].body \ {0}}
    /\ scripts' = scripts + 1
    /\ UNCHANGED <<memory, holder, outside, edits, faults, crashes,
                   mine, mineP, doubtful, unsure, acknowledged, rejected, purged, raced, torn>>

\* ... purge_memory leaves nothing.
Purge(m) ==
    /\ scripts < MaxScripts
    /\ db[m].version > 0
    /\ db' = [db EXCEPT ![m] = [version |-> 0, body |-> Gone]]
    /\ erased' = erased \cup {<<m, k>> : k \in db[m].body \ {0}}
    /\ purged' = purged \cup {m}
    /\ scripts' = scripts + 1
    /\ UNCHANGED <<memory, holder, outside, edits, faults, crashes,
                   mine, mineP, doubtful, unsure, acknowledged, rejected, raced, torn>>

\* The gateway dies; the next process loads what is durable.
Crash ==
    /\ crashes < MaxCrashes
    /\ crashes' = crashes + 1
    /\ work' = [m \in Ids |-> db[m].body]
    /\ known' = [m \in Ids |-> db[m].version]
    /\ base' = [m \in Ids |-> db[m].body]
    /\ pc' = "idle" /\ kind' = "run" /\ edit' = 0
    /\ before' = NoBefore /\ loaded' = NoLoad /\ written' = NoWrite
    /\ pcP' = "idle" /\ noted' = NoNote
    /\ mine' = {} /\ mineP' = {} /\ doubtful' = FALSE
    /\ UNCHANGED <<db, edits, faults, scripts, unsure, acknowledged, rejected, erased, purged, raced, torn>>

-----------------------------------------------------------------------------
Operate ==
    \/ \E k \in {"run", "sync", "reflect"} : Begin(k)
    \/ \E ids \in SUBSET Ids, next \in {"retain", "flush", "timeline"} : Consolidate(ids, next)
    \/ \E ids \in SUBSET Ids : Retain(ids)
    \/ Flush
    \/ \E effect \in BOOLEAN : FlushFails(effect)
    \/ Note
    \/ Reload
    \/ ReloadFails
    \/ Replace
    \/ Restore
    \/ \E ids \in SUBSET Ids : ReplaceFails(ids)
    \/ TakeVersions
    \/ \E m \in ReflectIds : Reflect(m)
    \/ Readback
    \/ ReadbackFails

Investigate ==
    \/ \E m \in ProcedureIds : Remember(m)
    \/ FlushHeld
    \/ FlushProcedure
    \/ \E effect \in BOOLEAN : FlushProcedureFails(effect)
    \/ NoteProcedure

Outside ==
    \/ \E m \in Ids : Edit(m)
    \/ \E m \in Ids : Redact(m)
    \/ \E m \in Ids : Purge(m)
    \/ Crash

Next == Operate \/ Investigate \/ Outside

Spec == Init /\ [][Next]_vars

-----------------------------------------------------------------------------
Stages == {"idle", "consolidate", "retain", "reflect", "readback", "restore", "reload", "replace", "versions"}
            \cup Flushing \cup {Noting(stage) : stage \in Flushing}
Records  == [Ids -> [version : Nat, body : Body]]
Marked   == SUBSET (Ids \X Edits)

TypeOK ==
    /\ db \in Records /\ loaded \in Records
    /\ {work, base, before} \subseteq [Ids -> Body]
    /\ {known, written} \subseteq [Ids -> Nat]
    /\ pc \in Stages /\ kind \in {"run", "sync", "reflect"} /\ edit \in Edits
    /\ pcP \in {"idle", "flush", "note"}
    /\ noted \in [versions : [Ids -> Nat], detached : BOOLEAN, bodies : [Ids -> Body]]
    /\ edits \in Edits /\ faults \in 0..MaxFaults /\ crashes \in 0..MaxCrashes /\ scripts \in 0..MaxScripts
    /\ {mine, mineP, acknowledged, rejected, erased} \subseteq Marked
    /\ purged \subseteq Ids
    /\ {doubtful, unsure, raced, torn} \subseteq BOOLEAN

Stored(w) == db[w[1]].body # Gone /\ w[2] \in db[w[1]].body
Cached(w) == work[w[1]] # Gone /\ w[2] \in work[w[1]]
AtRest    == pc = "idle" /\ pcP = "idle"

\* No edit that an operator redacted is ever written back, by no caller, no
\* stale working set, no retry and no race.  A purge leaves no version to refuse
\* by: there it takes that no transaction was reported as failed that was not,
\* and that the investigation has kept out of the lock holder's way.
ErasureHolds == \A w \in erased : Stored(w) => w[1] \in purged /\ (unsure \/ raced)

\* Unless the investigation wrote under the lock holder or an embedder broke
\* off a rollback: what was reported as committed stays in the database,
\* whatever conflicts, rollbacks, deaths and scripts come after.
AcknowledgedKept == ~raced /\ ~torn => \A w \in acknowledged \ erased : Stored(w)

\* Under the same condition: what was reported as rolled back is in neither of
\* the two, and no later flush brings it in.
RolledBackGone == ~raced /\ ~torn => \A w \in rejected : ~Stored(w) /\ ~Cached(w)

\* At rest, a record whose version is the row's has the row's content for
\* baseline: the next flush sends all that differs, and overwrites nothing it
\* has not seen.
BaselineTrue ==
    /\ TypeOK
    /\ ~raced /\ AtRest => \A m \in Ids : known[m] = db[m].version => base[m] = db[m].body

=============================================================================
