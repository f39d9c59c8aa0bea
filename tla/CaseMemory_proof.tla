-------------------------- MODULE CaseMemory_proof --------------------------
(***************************************************************************)
(* For any records, edits, faults, deaths and scripts: what an operator has*)
(* redacted or purged is not written back, what was reported as committed  *)
(* stays, what was reported as rolled back is gone, and no flush overwrites*)
(* what the process has not seen.                                          *)
(***************************************************************************)
EXTENDS CaseMemory, TLAPS

In(k, body) == body # Gone /\ k \in body

\* Edit k of record m is somewhere in the process.
Kept(m, k) == In(k, work[m]) \/ In(k, before[m]) \/ In(k, loaded[m].body)

\* Nothing disturbed the holder of the lock, no transaction was misreported.
Quiet  == ~unsure /\ ~raced
Guarded(m) == m \notin purged \/ Quiet

\* v is a version the process expects of m, or will once it has noted its last
\* transaction.  Of a purged record, not the one that is about to be replaced.
Expects(m, v) ==
    \/ v > 0 /\ v \in {written[m], noted.versions[m]}
    \/ v = known[m] /\ (m \in purged => written[m] = 0 /\ noted.versions[m] = 0)

\* The version the process will expect of m, if one transaction is pending.
Soon(m) == IF written[m] > 0 THEN written[m]
           ELSE IF noted.versions[m] > 0 THEN noted.versions[m] ELSE known[m]

\* v will be refused.
Late(m, v) == v < db[m].version \/ (db[m].version = 0 /\ v > 0)

Reloading == pc \in {"replace", "versions"}

Working == {"flush", "note", "timeline", "notetimeline", "retain"}

\* Numbers: an edit is new when its operation begins, and what the holder of
\* the lock has written or lost of it is still in the working set.
Dated(m, k) == In(k, db[m].body) \/ Kept(m, k) \/ <<m, k>> \in erased

Fresh ==
    /\ edit <= edits
    /\ \A m \in Ids, k \in Edits : Dated(m, k) => k <= edits
    /\ \A m \in Ids : <<m, 0>> \notin erased
    /\ pc \in {"consolidate", "reflect"} \cup Working => edit > 0
    /\ pc \in {"consolidate", "reflect"} =>
          \A m \in Ids : ~In(edit, db[m].body) /\ ~In(edit, work[m]) /\ <<m, edit>> \notin erased
    /\ pc \in Working =>
          \A m \in Ids : In(edit, db[m].body) \/ <<m, edit>> \in erased => In(edit, work[m])

\* Places: what is pending, and where.
Pending ==
    /\ pc \notin {Noting(stage) : stage \in Flushing} => written = NoWrite
    /\ pcP # "note" => noted = NoNote
    /\ raced \/ pc = "idle" \/ pcP = "idle"
    /\ pc = "reflect" => kind = "reflect"
    /\ before = NoBefore \/ (kind = "reflect" /\ pc \in {"flush", "note", "readback", "restore"})
    /\ ~Reloading => loaded = NoLoad

\* A row has a version.
Rows == \A m \in Ids : db[m].version = 0 <=> db[m].body = Gone

Bounded ==
    \A m \in Ids :
       /\ m \notin purged => /\ known[m] <= db[m].version /\ written[m] <= db[m].version
                             /\ noted.versions[m] <= db[m].version
                             /\ loaded[m].version <= db[m].version
       /\ Quiet /\ db[m].version > 0 =>
             /\ Soon(m) \in 1 .. db[m].version
             /\ Reloading => loaded[m].version \in 1 .. db[m].version

Erased ==
    \A m \in Ids, k \in Edits :
        <<m, k>> \in erased /\ Guarded(m) =>
           /\ ~In(k, db[m].body)
           /\ Kept(m, k) => \A v \in Nat : Expects(m, v) => Late(m, v)
           /\ In(k, loaded[m].body) => Late(m, loaded[m].version)
           /\ pc = "versions" /\ In(k, work[m]) => Late(m, loaded[m].version)

-----------------------------------------------------------------------------
(* Types.                                                                  *)

\* TypeOK, as far as the argument needs it.
Sorts ==
    /\ db \in Records /\ loaded \in Records
    /\ work \in [Ids -> Body] /\ before \in [Ids -> Body]
    /\ known \in [Ids -> Nat] /\ written \in [Ids -> Nat]
    /\ noted \in [versions : [Ids -> Nat], detached : BOOLEAN, bodies : [Ids -> Body]]
    /\ edit \in Edits /\ edits \in Edits
    /\ erased \in Marked

Inv == Sorts /\ Rows /\ Fresh /\ Pending /\ Bounded /\ Erased

LEMMA Nothing ==
    /\ NoBefore \in [Ids -> Body] /\ NoWrite \in [Ids -> Nat] /\ NoLoad \in Records
    /\ NoNote \in [versions : [Ids -> Nat], detached : BOOLEAN, bodies : [Ids -> Body]]
  <1>1. NoBefore \in [Ids -> Body] /\ NoWrite \in [Ids -> Nat]
    BY DEF NoBefore, NoWrite, Body
  <1>2. NoLoad \in Records
    BY DEF NoLoad, Records, Body
  <1>3. NoNote \in [versions : [Ids -> Nat], detached : BOOLEAN, bodies : [Ids -> Body]]
    BY <1>1 DEF NoNote
  <1> QED BY <1>1, <1>2, <1>3

LEMMA Numbers ==
    /\ MaxEdits \in Nat /\ 0 \in Edits
    /\ \A s \in SUBSET Edits : s \in Body /\ s # Gone
    /\ \A s \in Body : s # Gone => s \in SUBSET Edits
  <1>1. MaxEdits \in Nat
    BY MemoryAssumption
  <1>2. \A s \in SUBSET Edits : s # Gone
    BY MemoryAssumption
  <1> QED BY <1>1, <1>2 DEF Body, Edits

LEMMA Counted == ASSUME edits \in Edits, edits < MaxEdits PROVE edits + 1 \in Edits
  BY Numbers DEF Edits

LEMMA WithType ==
    ASSUME Sorts, NEW k \in Edits, NEW m \in Ids
    PROVE  With(m, k) \in SUBSET Edits /\ With(m, k) \in Body /\ With(m, k) # Gone
  <1>1. work[m] \in Body
    BY DEF Sorts
  <1>2. With(m, k) \in SUBSET Edits
    BY <1>1, Numbers DEF With
  <1> QED BY <1>2, Numbers

LEMMA SyncedType ==
    ASSUME Sorts
    PROVE  Synced(Dirty) \in Records /\ Versions(Dirty) \in [Ids -> Nat]
  <1>1. \A m \in Ids : Written(m) \in Nat
    BY DEF Written, Sorts
  <1> QED BY <1>1 DEF Synced, Versions, Sorts, Records

LEMMA OperateSorts == ASSUME Sorts, Operate PROVE Sorts'
  <1> USE DEF Sorts
  <1>1. ASSUME NEW k \in {"run", "sync", "reflect"}, Begin(k) PROVE Sorts'
    BY <1>1, Counted DEF Begin, memory, outside
  <1>2. ASSUME NEW ids \in SUBSET Ids, Change(ids) PROVE Sorts'
    <2>1. work' \in [Ids -> Body]
      BY <1>2, WithType DEF Change
    <2> QED BY <1>2, <2>1 DEF Change, outside, bounds
  <1>3. ASSUME NEW ids \in SUBSET Ids, NEW next \in {"retain", "flush", "timeline"},
               Retain(ids) \/ Consolidate(ids, next)
        PROVE  Sorts'
    BY <1>2, <1>3 DEF Retain, Consolidate
  <1>4. CASE Flush \/ \E effect \in BOOLEAN : FlushFails(effect)
    <2>1. UNCHANGED <<loaded, work, before, known, noted, edit, edits, erased>>
      BY <1>4 DEF Flush, FlushFails, memory, outside, bounds, history
    <2>2. db' \in {db, Synced(Dirty)} /\ written' \in {written, Versions(Dirty)}
      BY <1>4 DEF Flush, FlushFails
    <2> QED BY <2>1, <2>2, SyncedType
  <1>5. CASE Note
    <2>1. known' \in [Ids -> Nat] /\ written' \in [Ids -> Nat]
      BY <1>5, Nothing DEF Note, NotedVersions
    <2> QED BY <1>5, <2>1 DEF Note, outside, bounds
  <1>6. CASE Reload \/ ReloadFails \/ Readback \/ ReadbackFails
    <2>1. UNCHANGED <<db, work, known, written, noted, edit, edits, erased>>
      BY <1>6 DEF Reload, ReloadFails, Readback, ReadbackFails, memory, outside, bounds, history
    <2>2. loaded' \in {db, loaded} /\ before' \in {before, NoBefore}
      BY <1>6 DEF Reload, ReloadFails, Readback, ReadbackFails
    <2> QED BY <2>1, <2>2, Nothing
  <1>7. CASE Replace \/ Restore \/ \E ids \in SUBSET Ids : ReplaceFails(ids)
    <2>1. [m \in Ids |-> loaded[m].body] \in [Ids -> Body]
      BY DEF Records
    <2>2. PICK ids \in SUBSET Ids, bodies \in [Ids -> Body] : Replacing(ids, bodies)
      BY <1>7, <2>1 DEF Replace, Restore, ReplaceFails
    <2>3. /\ work' \in [Ids -> Body] /\ before' \in [Ids -> Body]
          /\ noted' \in [versions : [Ids -> Nat], detached : BOOLEAN, bodies : [Ids -> Body]]
      BY <2>2, Nothing, Numbers DEF Replacing, Body
    <2>4. UNCHANGED <<db, known, written, edit, edits, erased>> /\ loaded' \in {loaded, NoLoad}
      BY <1>7 DEF Replace, Restore, ReplaceFails, bounds, history
    <2> QED BY <2>3, <2>4, Nothing
  <1>8. CASE TakeVersions
    <2>1. known' \in [Ids -> Nat]
      BY <1>8 DEF TakeVersions, Records
    <2> QED BY <1>8, <2>1, Nothing DEF TakeVersions, outside, bounds
  <1>9. ASSUME NEW m \in ReflectIds, Reflect(m) PROVE Sorts'
    <2>1. {edit} \in Body
      BY Numbers
    <2>2. work' \in [Ids -> Body] /\ before' \in {work, before}
      BY <1>9, <2>1 DEF Reflect
    <2> QED BY <1>9, <2>2 DEF Reflect, outside, bounds
  <1> QED BY <1>1, <1>3, <1>4, <1>5, <1>6, <1>7, <1>8, <1>9 DEF Operate

LEMMA OthersSorts == ASSUME Sorts, Rows, Investigate \/ Outside \/ UNCHANGED vars PROVE Sorts'
  <1> USE DEF Sorts
  <1>1. ASSUME NEW m \in ProcedureIds, Remember(m) PROVE Sorts'
    <2>1. m \in Ids /\ edits + 1 \in Edits
      BY <1>1, Counted DEF Ids, Remember
    <2>2. work' \in [Ids -> Body]
      BY <1>1, <2>1, WithType DEF Remember
    <2> QED BY <1>1, <2>1, <2>2 DEF Remember, holder
  <1>2. CASE FlushProcedure \/ \E effect \in BOOLEAN : FlushProcedureFails(effect)
    <2>1. UNCHANGED <<loaded, work, before, known, written, edit, edits, erased>>
      BY <1>2 DEF FlushProcedure, FlushProcedureFails, memory, holder, bounds, history
    <2>2. db' \in {db, Synced(Dirty)} /\ noted' \in {noted, [NoNote EXCEPT !.versions = Versions(Dirty)]}
      BY <1>2 DEF FlushProcedure, FlushProcedureFails
    <2> QED BY <2>1, <2>2, SyncedType, Nothing
  <1>3. CASE FlushHeld \/ NoteProcedure
    <2>1. known' \in [Ids -> Nat]
      BY <1>3 DEF FlushHeld, NoteProcedure, NotedVersions, memory
    <2> QED BY <1>3, <2>1, Nothing DEF FlushHeld, NoteProcedure, memory, holder, bounds
  <1>4. ASSUME NEW m \in Ids, Edit(m) \/ Redact(m) \/ Purge(m) PROVE Sorts'
    <2>1. db[m].version \in Nat /\ db[m].body \in SUBSET Edits /\ db[m].version > 0
      BY <1>4, Numbers DEF Edit, Redact, Purge, Records, Rows
    <2>2. CASE Edit(m)
      <3>1. edits + 1 \in Edits
        BY <2>2, Counted DEF Edit
      <3>2. db[m].body \cup {edits + 1} \in Body
        BY <2>1, <3>1, Numbers
      <3>3. db' \in Records
        BY <2>1, <2>2, <3>2 DEF Edit, Records
      <3> QED BY <2>2, <3>1, <3>3 DEF Edit, memory, holder, outside
    <2>3. CASE Redact(m) \/ Purge(m)
      <3>1. {0} \in Body /\ Gone \in Body
        BY Numbers DEF Body
      <3>2. db' \in Records
        <4>1. CASE Redact(m)
          BY <2>1, <3>1, <4>1 DEF Redact, Records
        <4>2. CASE Purge(m)
          BY <3>1, <4>2 DEF Purge, Records
        <4> QED BY <2>3, <4>1, <4>2
      <3>3. erased' \in Marked
        BY <2>1, <2>3 DEF Redact, Purge, Marked
      <3> QED BY <2>3, <3>2, <3>3 DEF Redact, Purge, memory, holder, outside
    <2> QED BY <1>4, <2>2, <2>3
  <1>5. CASE Crash
    BY <1>5, Nothing, Numbers DEF Crash, Records
  <1>6. CASE UNCHANGED vars
    BY <1>6 DEF vars, memory, holder, outside, bounds, history
  <1> QED BY <1>1, <1>2, <1>3, <1>4, <1>5, <1>6 DEF Investigate, Outside

-----------------------------------------------------------------------------
(* Rows and places.                                                        *)

Notes == {"note", "notetimeline", "notelast", "notepending"}

LEMMA Places ==
    /\ \A stage \in Flushing : Noting(stage) \in Notes
    /\ {Noting(stage) : stage \in Flushing} = Notes
  BY DEF Noting, Flushing, Notes

\* What a transaction leaves: the records it changes carry the working set's
\* content, under the version that was expected or the next one.
LEMMA Transaction ==
    ASSUME Sorts, Rows, Expected(Dirty), NEW m \in Ids
    PROVE  /\ db[m].version \in Nat /\ known[m] \in Nat
           /\ m \notin Dirty => Synced(Dirty)[m] = db[m] /\ Versions(Dirty)[m] = 0
           /\ m \in Dirty =>
                 /\ known[m] = db[m].version
                 /\ Synced(Dirty)[m].body = work[m] /\ work[m] # Gone
                 /\ Synced(Dirty)[m].version = Versions(Dirty)[m]
                 /\ Versions(Dirty)[m] \in {db[m].version, db[m].version + 1}
                 /\ Versions(Dirty)[m] > 0
  <1>1. db[m].version \in Nat /\ known[m] \in Nat
    BY DEF Sorts, Records
  <1>2. CASE m \notin Dirty
    BY <1>1, <1>2 DEF Synced, Versions
  <1>3. CASE m \in Dirty
    <2>1. known[m] = db[m].version /\ work[m] # Gone
      BY <1>3 DEF Expected, Dirty
    <2>2. Written(m) \in {db[m].version, db[m].version + 1} /\ Written(m) > 0
      BY <1>1, <2>1 DEF Written, Rows
    <2> QED BY <1>1, <1>3, <2>1, <2>2 DEF Synced, Versions
  <1> QED BY <1>2, <1>3

\* The steps that send a transaction, successful or not.
Sends ==
    \/ Flush \/ FlushProcedure
    \/ \E effect \in BOOLEAN : FlushFails(effect) \/ FlushProcedureFails(effect)

Scripts == \E m \in Ids : Edit(m) \/ Redact(m) \/ Purge(m)

LEMMA Untouched ==
    ASSUME [Next]_vars, ~Sends, ~Scripts PROVE db' = db
  BY DEF Next, Operate, Investigate, Outside, Sends, Scripts, Begin, Consolidate, Retain, Change, Note, Reload,
         ReloadFails, Replace, Restore, ReplaceFails, TakeVersions, Reflect, Readback, ReadbackFails,
         Remember, FlushHeld, NoteProcedure, Crash, vars

LEMMA SentRows == ASSUME Sends PROVE db' = db \/ (Expected(Dirty) /\ db' = Synced(Dirty))
  <1>1. CASE Flush \/ FlushProcedure
    BY <1>1 DEF Flush, FlushProcedure
  <1>2. ASSUME NEW effect \in BOOLEAN, FlushFails(effect) \/ FlushProcedureFails(effect)
        PROVE  db' = db \/ (Expected(Dirty) /\ db' = Synced(Dirty))
    <2>1. CASE effect
      BY <1>2, <2>1 DEF FlushFails, FlushProcedureFails
    <2>2. CASE ~effect
      BY <1>2, <2>2 DEF FlushFails, FlushProcedureFails
    <2> QED BY <2>1, <2>2
  <1> QED BY <1>1, <1>2 DEF Sends

LEMMA RowsStep == ASSUME Sorts, Rows, [Next]_vars PROVE Rows'
  <1>1. CASE Sends
    <2>1. db' = db \/ (Expected(Dirty) /\ db' = Synced(Dirty))
      BY <1>1, SentRows
    <2>2. CASE Expected(Dirty) /\ db' = Synced(Dirty)
      BY <2>2, Transaction DEF Rows
    <2> QED BY <2>1, <2>2 DEF Rows
  <1>2. CASE Scripts
    <2>1. PICK m \in Ids : Edit(m) \/ Redact(m) \/ Purge(m)
      BY <1>2 DEF Scripts
    <2>2. db[m].version \in Nat /\ db[m].version > 0 /\ db[m].body \in SUBSET Edits
      BY <2>1, Numbers DEF Edit, Redact, Purge, Sorts, Records, Rows
    <2>3. /\ \A q \in Ids : q # m => db'[q] = db[q]
          /\ db'[m].version = 0 <=> db'[m].body = Gone
      <3>1. CASE Edit(m)
        <4>1. db[m].body \cup {edits + 1} # Gone
          BY <2>2, <3>1, Counted, Numbers DEF Edit, Sorts
        <4> QED BY <2>2, <3>1, <4>1 DEF Edit, Sorts, Records
      <3>2. CASE Redact(m)
        <4>1. {0} # Gone
          BY Numbers
        <4>2. db' = [db EXCEPT ![m] = [version |-> @.version + 1, body |-> {0}]]
          BY <3>2 DEF Redact
        <4> QED BY <2>2, <4>1, <4>2 DEF Sorts, Records
      <3>3. CASE Purge(m)
        BY <3>3 DEF Purge, Sorts, Records
      <3> QED BY <2>1, <3>1, <3>2, <3>3
    <2> QED BY <2>3 DEF Rows
  <1>3. CASE ~Sends /\ ~Scripts
    BY <1>3, Untouched DEF Rows
  <1> QED BY <1>1, <1>2, <1>3

LEMMA PendingStep == ASSUME Pending, [Next]_vars PROVE Pending'
  <1> USE DEF Pending, Reloading, Notes
  <1>1. ASSUME NEW k \in {"run", "sync", "reflect"}, Begin(k) PROVE Pending'
    BY <1>1, Places DEF Begin, memory, outside
  <1>2. ASSUME NEW ids \in SUBSET Ids, NEW next \in {"retain", "flush", "timeline"},
               Retain(ids) \/ Consolidate(ids, next)
        PROVE  Pending'
    BY <1>2, Places DEF Retain, Consolidate, Change, outside, bounds
  <1>3. CASE Flush
    BY <1>3, Places DEF Flush, Failure, Flushing, Noting, memory, outside, bounds, history
  <1>4. ASSUME NEW effect \in BOOLEAN, FlushFails(effect) PROVE Pending'
    BY <1>4, Places DEF FlushFails, Failure, Flushing, memory, outside
  <1>5. CASE Note
    BY <1>5, Places DEF Note, outside, bounds
  <1>6. CASE Reload \/ ReloadFails \/ Readback \/ ReadbackFails
    BY <1>6, Places DEF Reload, ReloadFails, Readback, ReadbackFails, memory, outside, bounds, history
  <1>7. CASE Replace \/ Restore \/ \E ids \in SUBSET Ids : ReplaceFails(ids)
    <2>1. /\ pc \in {"replace", "restore"} /\ pc' \in {"versions", "idle"} /\ before' = NoBefore
          /\ pcP' = pcP /\ written' = written /\ raced' = raced /\ (pcP # "note" => noted' = noted)
          /\ pc' = "idle" => loaded' = NoLoad \/ (loaded' = loaded /\ pc = "restore")
      <3>1. CASE Replace
        BY <3>1 DEF Replace, Replacing, bounds, history
      <3>2. CASE Restore
        BY <3>2 DEF Restore, Replacing, bounds
      <3>3. ASSUME NEW ids \in SUBSET Ids, ReplaceFails(ids)
            PROVE  /\ pc \in {"replace", "restore"} /\ pc' \in {"versions", "idle"} /\ before' = NoBefore
                   /\ pcP' = pcP /\ written' = written /\ raced' = raced /\ (pcP # "note" => noted' = noted)
                   /\ pc' = "idle" => loaded' = NoLoad \/ (loaded' = loaded /\ pc = "restore")
        BY <3>3 DEF ReplaceFails, Replacing
      <3> QED BY <1>7, <3>1, <3>2, <3>3
    <2> QED BY <2>1, Places
  <1>8. CASE TakeVersions
    BY <1>8, Places DEF TakeVersions, outside, bounds
  <1>9. ASSUME NEW m \in ReflectIds, Reflect(m) PROVE Pending'
    BY <1>9, Places DEF Reflect, outside, bounds
  <1>10. ASSUME NEW m \in ProcedureIds, Remember(m) PROVE Pending'
    BY <1>10, Places DEF Remember, holder
  <1>11. CASE FlushHeld \/ FlushProcedure \/ NoteProcedure \/ \E effect \in BOOLEAN : FlushProcedureFails(effect)
    BY <1>11, Places DEF FlushHeld, FlushProcedure, NoteProcedure, FlushProcedureFails,
                         memory, holder, bounds, history
  <1>12. ASSUME NEW m \in Ids, Edit(m) \/ Redact(m) \/ Purge(m) PROVE Pending'
    BY <1>12, Places DEF Edit, Redact, Purge, memory, holder, outside
  <1>13. CASE Crash
    BY <1>13, Places DEF Crash
  <1>14. CASE UNCHANGED vars
    BY <1>14, Places DEF vars, memory, holder, outside, bounds, history
  <1> QED BY <1>1, <1>2, <1>3, <1>4, <1>5, <1>6, <1>7, <1>8, <1>9, <1>10, <1>11, <1>12, <1>13, <1>14
          DEF Next, Operate, Investigate, Outside

-----------------------------------------------------------------------------
(* Numbers.                                                                *)

LEMMA InWith ==
    ASSUME Sorts, NEW m \in Ids, NEW k \in Edits, NEW j
    PROVE  In(j, With(m, k)) <=> In(j, work[m]) \/ j = k
  BY WithType DEF With, In

LEMMA FreshChange ==
    ASSUME Sorts, Fresh, NEW ids \in SUBSET Ids, Change(ids),
           \/ pc = "consolidate" /\ pc' \in {"retain", "flush", "timeline"}
           \/ pc = "retain" /\ pc' = "last"
    PROVE  Fresh'
  <1>1. UNCHANGED <<db, before, loaded, erased, edit, edits>>
    BY DEF Change, outside, bounds
  <1>2. \A m \in Ids, k \in Edits :
            /\ In(k, work[m]) => In(k, work'[m])
            /\ In(k, work'[m]) => In(k, work[m]) \/ k = edit
    BY InWith DEF Change, Sorts
  <1>3. edit \in Edits
    BY DEF Sorts
  <1>4. \A m \in Ids, k \in Edits : Dated(m, k)' => k <= edits
    BY <1>1, <1>2 DEF Fresh, Dated, Kept
  <1> QED BY <1>1, <1>2, <1>3, <1>4 DEF Fresh, Working

LEMMA FreshSends == ASSUME Sorts, Rows, Fresh, Sends PROVE Fresh'
  <1>1. UNCHANGED <<work, before, loaded, erased, edit, edits>>
    BY DEF Sends, Flush, FlushProcedure, FlushFails, FlushProcedureFails, memory, holder, bounds, history
  <1>2. \A m \in Ids, k \in Edits : In(k, db'[m].body) => In(k, db[m].body) \/ In(k, work[m])
    <2>1. db' = db \/ (Expected(Dirty) /\ db' = Synced(Dirty))
      BY SentRows
    <2>2. CASE Expected(Dirty) /\ db' = Synced(Dirty)
      BY <2>2, Transaction DEF In
    <2> QED BY <2>1, <2>2
  <1>3. pc' = pc \/ pc' = Failure \/ (pc \in Flushing /\ pc' = Noting(pc))
    BY DEF Sends, Flush, FlushProcedure, FlushFails, FlushProcedureFails, holder
  <1>4. pc' \in Working => pc \in Working
    BY <1>3 DEF Failure, Noting, Flushing, Working
  <1>5. pc' \in {"consolidate", "reflect"} => pc \in {"consolidate", "reflect"}
    BY <1>3 DEF Failure, Noting, Flushing
  <1>6. edit \in Edits
    BY DEF Sorts
  <1>7. \A m \in Ids, k \in Edits : Dated(m, k)' => k <= edits
    BY <1>1, <1>2 DEF Fresh, Dated, Kept
  <1> QED BY <1>1, <1>2, <1>4, <1>5, <1>6, <1>7 DEF Fresh

\* Steps that add nothing, and lose nothing of the operation under way.
LEMMA FreshFrame ==
    ASSUME Sorts, Fresh, UNCHANGED <<db, erased, edit, edits>>,
           \A m \in Ids, k \in Edits : Kept(m, k)' => Kept(m, k) \/ In(k, db[m].body),
           \/ pc' \notin {"consolidate", "reflect"} \cup Working
           \/ work' = work /\ pc' = pc
           \/ work' = work /\ pc \in Working /\ pc' \in Working
    PROVE  Fresh'
  <1>1. \A m \in Ids, k \in Edits : Dated(m, k)' => k <= edits
    BY DEF Fresh, Dated
  <1> QED BY <1>1 DEF Fresh, Working

LEMMA FreshScripts == ASSUME Sorts, Rows, Fresh, NEW m \in Ids, Edit(m) \/ Redact(m) \/ Purge(m) PROVE Fresh'
  <1>1. UNCHANGED <<work, before, loaded, edit, pc>>
    BY DEF Edit, Redact, Purge, memory, holder
  <1>2. edit \in Edits /\ edits \in Int /\ edit \in Int
    BY Numbers DEF Sorts, Edits
  <1>3. db[m].body \in SUBSET Edits /\ db[m].body # Gone
    BY Numbers DEF Edit, Redact, Purge, Sorts, Records, Rows
  <1>4. CASE Edit(m)
    <2>1. edits' = edits + 1 /\ erased' = erased
      BY <1>4 DEF Edit
    <2>2. \A q \in Ids, k \in Edits : In(k, db'[q].body) => In(k, db[q].body) \/ k = edits + 1
      BY <1>3, <1>4 DEF Edit, Sorts, Records, In
    <2>3. \A q \in Ids, k \in Edits : Dated(q, k)' => k <= edits'
      BY <1>1, <1>2, <2>1, <2>2 DEF Fresh, Dated, Kept, Edits
    <2> QED BY <1>1, <1>2, <2>1, <2>2, <2>3 DEF Fresh
  <1>5. CASE Redact(m) \/ Purge(m)
    <2>1. edits' = edits /\ erased' = erased \cup {<<m, k>> : k \in db[m].body \ {0}}
      BY <1>5 DEF Redact, Purge, holder
    <2>2. \A q \in Ids, k \in Edits : In(k, db'[q].body) => In(k, db[q].body) \/ k = 0
      <3>1. CASE Redact(m)
        BY <3>1 DEF Redact, Sorts, Records, In
      <3>2. CASE Purge(m)
        BY <3>2 DEF Purge, Sorts, Records, In
      <3> QED BY <1>5, <3>1, <3>2
    <2>3. \A q \in Ids, k \in Edits : <<q, k>> \in erased' => <<q, k>> \in erased \/ (In(k, db[q].body) /\ k # 0)
      BY <1>3, <2>1 DEF In
    <2>4. \A q \in Ids, k \in Edits : Dated(q, k)' => k <= edits'
      BY <1>1, <1>2, <2>1, <2>2, <2>3 DEF Fresh, Dated, Kept, Edits
    <2>5. 0 \in Edits
      BY Numbers
    <2> QED BY <1>1, <1>2, <2>1, <2>2, <2>3, <2>4, <2>5 DEF Fresh
  <1> QED BY <1>4, <1>5

LEMMA FreshStep == ASSUME Sorts, Rows, Fresh, Pending, [Next]_vars PROVE Fresh'
  <1>1. ASSUME NEW k \in {"run", "sync", "reflect"}, Begin(k) PROVE Fresh'
    <2>1. /\ UNCHANGED <<db, work, before, loaded, erased>> /\ edits' = edits + 1 /\ edit' = edits + 1
          /\ pc' \in {"consolidate", "reflect"}
      BY <1>1 DEF Begin, memory
    <2>2. edits \in Int /\ edits + 1 \in Edits /\ edits >= 0
      BY <1>1, Counted, Numbers DEF Begin, Sorts, Edits
    <2>3. \A m \in Ids, j \in Edits : Dated(m, j)' <=> Dated(m, j)
      BY <2>1 DEF Dated, Kept
    <2>4. \A m \in Ids : ~Dated(m, edits + 1)
      BY <2>2 DEF Fresh
    <2>5. \A j \in Edits : j \in Int
      BY Numbers DEF Edits
    <2> QED BY <2>1, <2>2, <2>3, <2>4, <2>5 DEF Fresh, Dated, Kept, Working
  <1>2. ASSUME NEW ids \in SUBSET Ids, NEW next \in {"retain", "flush", "timeline"},
               Retain(ids) \/ Consolidate(ids, next)
        PROVE  Fresh'
    BY <1>2, FreshChange DEF Retain, Consolidate
  <1>3. CASE Note \/ Reload \/ ReloadFails \/ TakeVersions \/ Readback \/ ReadbackFails \/ FlushHeld \/ NoteProcedure
             \/ UNCHANGED vars
    <2>1. /\ UNCHANGED <<db, work, edit, edits, erased>>
          /\ loaded' \in {loaded, db, NoLoad} /\ before' \in {before, NoBefore}
      BY <1>3 DEF Note, Reload, ReloadFails, TakeVersions, Readback, ReadbackFails, FlushHeld, NoteProcedure,
                  vars, memory, holder, outside, bounds, history
    <2>2. pc' = pc \/ (pc \in Working /\ pc' \in Working) \/ pc' \notin {"consolidate", "reflect"} \cup Working
      <3>1. CASE Note
        <4>1. pc \in {"note", "notetimeline"} \/ pc \in {"notelast", "notepending"}
          BY <3>1, Places DEF Note, Notes
        <4>2. CASE pc \in {"note", "notetimeline"}
          <5>1. pc' \in {"timeline", "readback", "retain"}
            BY <3>1, <4>2 DEF Note
          <5> QED BY <4>2, <5>1 DEF Working
        <4>3. CASE pc \in {"notelast", "notepending"}
          <5>1. pc' \in {"idle", "reload"}
            BY <3>1, <4>3 DEF Note
          <5> QED BY <5>1 DEF Working
        <4> QED BY <4>1, <4>2, <4>3
      <3>2. CASE Reload \/ ReloadFails \/ TakeVersions \/ Readback \/ ReadbackFails
        BY <3>2 DEF Reload, ReloadFails, TakeVersions, Readback, ReadbackFails, Working
      <3>3. CASE FlushHeld \/ NoteProcedure \/ UNCHANGED vars
        BY <3>3 DEF FlushHeld, NoteProcedure, vars, holder
      <3> QED BY <1>3, <3>1, <3>2, <3>3
    <2>3. \A m \in Ids, k \in Edits : Kept(m, k)' => Kept(m, k) \/ In(k, db[m].body)
      BY <2>1 DEF Kept, In, NoLoad, NoBefore
    <2> QED BY <2>1, <2>2, <2>3, FreshFrame
  <1>4. CASE Replace \/ Restore \/ \E ids \in SUBSET Ids : ReplaceFails(ids)
    <2>1. UNCHANGED <<db, edit, edits, erased>> /\ loaded' \in {loaded, NoLoad} /\ pc' \in {"versions", "idle"}
      BY <1>4 DEF Replace, Restore, ReplaceFails, bounds, history
    <2>2. PICK ids \in SUBSET Ids, bodies \in {[m \in Ids |-> loaded[m].body], before} : Replacing(ids, bodies)
      BY <1>4 DEF Replace, Restore, ReplaceFails
    <2>3. \A m \in Ids, k \in Edits : Kept(m, k)' => Kept(m, k)
      BY <2>1, <2>2 DEF Kept, In, NoLoad, NoBefore, Replacing
    <2> QED BY <2>1, <2>3, FreshFrame DEF Working
  <1>5. ASSUME NEW m \in ReflectIds, Reflect(m) PROVE Fresh'
    <2>1. pc = "reflect" /\ UNCHANGED <<db, loaded, erased, edit, edits>> /\ before' \in {work, before}
          /\ pc' \in {"flush", "restore", "pending", "idle"}
      BY <1>5 DEF Reflect, bounds
    <2>2. \A q \in Ids, k \in Edits : In(k, work'[q]) => In(k, work[q]) \/ k = edit
      BY <1>5 DEF Reflect, Sorts, In
    <2>3. \A q \in Ids, k \in Edits : Dated(q, k)' => k <= edits
      BY <2>1, <2>2 DEF Fresh, Dated, Kept
    <2> QED BY <2>1, <2>3 DEF Fresh, Working, Sorts
  <1>6. ASSUME NEW m \in ProcedureIds, Remember(m) PROVE Fresh'
    <2>1. UNCHANGED <<db, before, loaded, erased, edit, pc>> /\ edits' = edits + 1
      BY <1>6 DEF Remember, holder
    <2>2. edits \in Int /\ edits + 1 \in Edits /\ m \in Ids /\ edit \in Edits
      BY <1>6, Counted DEF Remember, Sorts, Edits, Ids
    <2>3. \A q \in Ids, k \in Edits :
             /\ In(k, work[q]) => In(k, work'[q])
             /\ In(k, work'[q]) => In(k, work[q]) \/ k = edits + 1
      BY <1>6, <2>2, InWith DEF Remember, Sorts
    <2>4. \A j \in Edits : j \in Int
      BY Numbers DEF Edits
    <2>5. \A q \in Ids, k \in Edits : Dated(q, k)' => k <= edits'
      BY <2>1, <2>2, <2>3, <2>4 DEF Fresh, Dated, Kept
    <2> QED BY <2>1, <2>2, <2>3, <2>4, <2>5 DEF Fresh
  <1>7. CASE Crash
    <2>1. /\ db' = db /\ erased' = erased /\ edits' = edits /\ edit' = 0 /\ pc' = "idle" /\ loaded' = NoLoad
          /\ before' = NoBefore /\ work' = [m \in Ids |-> db[m].body]
      BY <1>7 DEF Crash
    <2>2. \A q \in Ids, k \in Edits : Dated(q, k)' => k <= edits'
      BY <2>1 DEF Fresh, Dated, Kept, In, NoLoad, NoBefore
    <2>3. 0 <= edits
      BY DEF Sorts, Edits
    <2> QED BY <2>1, <2>2, <2>3 DEF Fresh, Working
  <1> QED BY <1>1, <1>2, <1>3, <1>4, <1>5, <1>6, <1>7, FreshSends, FreshScripts
          DEF Next, Operate, Investigate, Outside, Sends
-----------------------------------------------------------------------------
(* Versions.                                                               *)

LEMMA VersionTypes ==
    ASSUME Sorts, NEW m \in Ids
    PROVE  /\ db[m].version \in Nat /\ loaded[m].version \in Nat
           /\ known[m] \in Nat /\ written[m] \in Nat /\ noted.versions[m] \in Nat /\ Soon(m) \in Nat
  BY DEF Sorts, Records, Soon

\* What has disturbed the argument stays on record.
LEMMA Latched == ASSUME [Next]_vars PROVE Quiet' => Quiet
  <1>1. ASSUME NEW k \in {"run", "sync", "reflect"}, Begin(k) PROVE Quiet' => Quiet
    BY <1>1 DEF Quiet, Begin
  <1>2. ASSUME NEW ids \in SUBSET Ids, NEW next \in {"retain", "flush", "timeline"},
               Retain(ids) \/ Consolidate(ids, next)
        PROVE  Quiet' => Quiet
    BY <1>2 DEF Quiet, Retain, Consolidate, Change
  <1>3. CASE Flush \/ \E effect \in BOOLEAN : FlushFails(effect)
    BY <1>3 DEF Quiet, Flush, FlushFails, history
  <1>4. CASE Note \/ Reload \/ ReloadFails \/ TakeVersions \/ Readback \/ ReadbackFails
    BY <1>4 DEF Quiet, Note, Reload, ReloadFails, TakeVersions, Readback, ReadbackFails, history
  <1>5. CASE Replace \/ Restore \/ \E ids \in SUBSET Ids : ReplaceFails(ids)
    BY <1>5 DEF Quiet, Replace, Restore, ReplaceFails, history
  <1>6. ASSUME NEW m \in ReflectIds, Reflect(m) PROVE Quiet' => Quiet
    BY <1>6 DEF Quiet, Reflect
  <1>7. CASE Investigate
    BY <1>7 DEF Quiet, Investigate, Remember, FlushHeld, FlushProcedure, FlushProcedureFails, NoteProcedure, history
  <1>8. CASE Outside \/ UNCHANGED vars
    BY <1>8 DEF Quiet, Outside, Edit, Redact, Purge, Crash, vars, history
  <1> QED BY <1>1, <1>2, <1>3, <1>4, <1>5, <1>6, <1>7, <1>8 DEF Next, Operate

\* With nobody disturbed, at most one transaction is pending.
LEMMA OnePending ==
    ASSUME Pending, Quiet
    PROVE  (pc = "idle" /\ written = NoWrite) \/ noted = NoNote
  <1>1. "idle" \notin {Noting(stage) : stage \in Flushing}
    BY Places DEF Notes
  <1> QED BY <1>1 DEF Pending, Quiet

\* What a transaction that was sent leaves.
LEMMA Sent ==
    ASSUME Sorts, Rows, Pending, Sends
    PROVE  /\ UNCHANGED <<memory, before, loaded, erased, purged>>
           /\ \/ UNCHANGED <<db, written, noted>>
              \/ /\ Expected(Dirty) /\ db' = Synced(Dirty)
                 /\ \/ unsure' /\ UNCHANGED <<written, noted>>
                    \/ pc \in Flushing /\ written = NoWrite /\ written' = Versions(Dirty) /\ noted' = noted
                    \/ /\ pcP = "flush" /\ noted = NoNote /\ written' = written
                       /\ noted' = [NoNote EXCEPT !.versions = Versions(Dirty)]
           /\ Reloading' => Reloading
           /\ pc' = "versions" => pc = "versions"
  <1>1. UNCHANGED <<memory, before, loaded, erased, purged>>
    BY DEF Sends, Flush, FlushProcedure, FlushFails, FlushProcedureFails, holder, bounds, history
  <1>2. pc' \in {"restore", "reload", "idle"} \cup Notes \/ pc' = pc
    BY Places DEF Sends, Flush, FlushProcedure, FlushFails, FlushProcedureFails, holder, Failure
  <1>3. pc \in Flushing => written = NoWrite
    BY Places DEF Flushing, Notes, Pending
  <1>4. pcP = "flush" => noted = NoNote
    BY DEF Pending
  <1>5. \/ UNCHANGED <<db, written, noted>>
        \/ /\ Expected(Dirty) /\ db' = Synced(Dirty)
           /\ \/ unsure' /\ UNCHANGED <<written, noted>>
              \/ pc \in Flushing /\ written = NoWrite /\ written' = Versions(Dirty) /\ noted' = noted
              \/ /\ pcP = "flush" /\ noted = NoNote /\ written' = written
                 /\ noted' = [NoNote EXCEPT !.versions = Versions(Dirty)]
    <2>1. CASE Flush
      BY <2>1, <1>3 DEF Flush, outside
    <2>2. CASE FlushProcedure
      BY <2>2, <1>4 DEF FlushProcedure, holder
    <2>3. ASSUME NEW effect \in BOOLEAN, FlushFails(effect) \/ FlushProcedureFails(effect)
          PROVE  \/ UNCHANGED <<db, written, noted>>
                 \/ Expected(Dirty) /\ db' = Synced(Dirty) /\ unsure' /\ UNCHANGED <<written, noted>>
      <3>1. UNCHANGED <<written, noted>>
        BY <2>3 DEF FlushFails, FlushProcedureFails, outside, holder
      <3>2. CASE effect
        BY <2>3, <3>1, <3>2 DEF FlushFails, FlushProcedureFails
      <3>3. CASE ~effect
        BY <2>3, <3>1, <3>3 DEF FlushFails, FlushProcedureFails
      <3> QED BY <3>2, <3>3
    <2> QED BY <2>1, <2>2, <2>3 DEF Sends
  <1> QED BY <1>1, <1>2, <1>5 DEF Reloading, Notes

\* Steps that touch no version but those read.
LEMMA BoundedFrame ==
    ASSUME Sorts, Bounded, UNCHANGED <<db, known, written, purged>>, noted.versions' = noted.versions,
           Quiet' => Quiet,
           loaded' = loaded \/ loaded' = db \/ loaded' = NoLoad,
           Reloading' => loaded' = db \/ (Reloading /\ loaded' = loaded)
    PROVE  Bounded'
  <1> SUFFICES ASSUME NEW m \in Ids
               PROVE  /\ m \notin purged => /\ known[m] <= db[m].version /\ written[m] <= db[m].version
                                            /\ noted.versions[m] <= db[m].version
                                            /\ loaded'[m].version <= db[m].version
                      /\ Quiet' /\ db[m].version > 0 =>
                             /\ Soon(m)' \in 1 .. db[m].version
                             /\ Reloading' => loaded'[m].version \in 1 .. db[m].version
    BY DEF Bounded
  <1>1. Soon(m)' = Soon(m)
    BY DEF Soon
  <1>2. NoLoad[m].version = 0
    BY DEF NoLoad
  <1> QED BY <1>1, <1>2, VersionTypes DEF Bounded

LEMMA BoundedSends == ASSUME Sorts, Rows, Pending, Bounded, Sends, Quiet' => Quiet PROVE Bounded'
  <1>1. CASE UNCHANGED <<db, written, noted>>
    BY <1>1, Sent, BoundedFrame DEF memory
  <1>2. CASE ~UNCHANGED <<db, written, noted>>
    <2> SUFFICES ASSUME NEW m \in Ids
                 PROVE  /\ m \notin purged => /\ known[m] <= db'[m].version /\ written'[m] <= db'[m].version
                                              /\ noted'.versions[m] <= db'[m].version
                                              /\ loaded[m].version <= db'[m].version
                        /\ Quiet' /\ db'[m].version > 0 =>
                               /\ Soon(m)' \in 1 .. db'[m].version
                               /\ Reloading' => loaded[m].version \in 1 .. db'[m].version
      BY Sent DEF Bounded, memory
    <2>1. Expected(Dirty) /\ db' = Synced(Dirty) /\ known' = known
      BY <1>2, Sent DEF memory
    <2>2. \/ unsure' /\ UNCHANGED <<written, noted>>
          \/ pc \in Flushing /\ written = NoWrite /\ written' = Versions(Dirty) /\ noted' = noted
          \/ /\ pcP = "flush" /\ noted = NoNote /\ written' = written
             /\ noted' = [NoNote EXCEPT !.versions = Versions(Dirty)]
      BY <1>2, Sent
    <2>3. db'[m].version \in Nat /\ db[m].version <= db'[m].version
          /\ (m \in Dirty => db'[m].version = Versions(Dirty)[m] /\ Versions(Dirty)[m] > 0)
          /\ (m \notin Dirty => db'[m] = db[m] /\ Versions(Dirty)[m] = 0)
      BY <2>1, Transaction, VersionTypes
    <2>4. NoWrite[m] = 0 /\ NoNote.versions[m] = 0
      BY DEF NoNote, NoWrite
    <2>5. NoNote \in [versions : [Ids -> Nat], detached : BOOLEAN, bodies : [Ids -> Body]]
      BY Nothing
    <2>6. \/ written'[m] = written[m] /\ noted'.versions[m] = noted.versions[m] /\ unsure'
          \/ written'[m] = Versions(Dirty)[m] /\ written[m] = 0 /\ noted'.versions[m] = noted.versions[m]
             /\ pc \in Flushing
          \/ noted'.versions[m] = Versions(Dirty)[m] /\ noted.versions[m] = 0 /\ written'[m] = written[m]
             /\ pcP = "flush"
      BY <2>2, <2>4, <2>5
    <2>7. m \notin purged => /\ known[m] <= db'[m].version /\ written'[m] <= db'[m].version
                             /\ noted'.versions[m] <= db'[m].version
                             /\ loaded[m].version <= db'[m].version
      BY <2>3, <2>6, VersionTypes DEF Bounded
    <2>8. ASSUME Quiet', db'[m].version > 0
          PROVE  Soon(m)' \in 1 .. db'[m].version /\ ~Reloading'
      <3>1. Quiet /\ ~unsure'
        BY <2>8 DEF Quiet
      <3>2. pc \in Flushing \/ pc = "idle"
        BY <2>2, <3>1 DEF Pending, Quiet
      <3>3. ~Reloading'
        BY <3>2, Sent DEF Reloading, Flushing
      <3>4. (pcP = "flush" => written[m] = 0) /\ (pc \in Flushing => noted.versions[m] = 0)
        <4>1. pcP = "flush" => pc = "idle" /\ written = NoWrite
          BY <3>1, OnePending, Places DEF Pending, Quiet, Notes
        <4>2. pc \in Flushing => noted = NoNote
          BY <3>1 DEF Pending, Quiet, Flushing
        <4> QED BY <2>4, <4>1, <4>2
      <3>5. CASE m \in Dirty
        <4>1. Soon(m)' = Versions(Dirty)[m]
          BY <2>3, <2>6, <3>1, <3>4, <3>5 DEF Soon
        <4> QED BY <2>3, <3>3, <3>5, <4>1
      <3>6. CASE m \notin Dirty
        <4>1. Soon(m)' = Soon(m)
          BY <2>1, <2>3, <2>6, <3>1, <3>4, <3>6 DEF Soon
        <4>2. Soon(m) \in 1 .. db[m].version
          BY <2>3, <2>8, <3>1, <3>6 DEF Bounded
        <4> QED BY <2>3, <3>3, <3>6, <4>1, <4>2
      <3> QED BY <3>5, <3>6
    <2> QED BY <2>7, <2>8
  <1> QED BY <1>1, <1>2

LEMMA BoundedScripts ==
    ASSUME Sorts, Rows, Bounded, NEW m \in Ids, Edit(m) \/ Redact(m) \/ Purge(m)
    PROVE  Bounded'
  <1>1. UNCHANGED <<known, loaded, written, noted, pc, unsure, raced>>
    BY DEF Edit, Redact, Purge, memory, holder, outside
  <1>2. \A q \in Ids : Soon(q)' = Soon(q)
    BY <1>1 DEF Soon
  <1>3. ASSUME NEW q \in Ids, q # m PROVE db'[q] = db[q] /\ (q \in purged' <=> q \in purged)
    BY <1>3 DEF Edit, Redact, Purge, Sorts, Records
  <1>4. CASE Edit(m) \/ Redact(m)
    <2>1. db'[m].version = db[m].version + 1 /\ db[m].version > 0 /\ purged' = purged
      BY <1>4 DEF Edit, Redact, Sorts, Records
    <2> QED BY <1>1, <1>2, <1>3, <2>1, VersionTypes DEF Bounded, Quiet, Reloading
  <1>5. CASE Purge(m)
    <2>1. db'[m].version = 0 /\ m \in purged'
      BY <1>5 DEF Purge, Sorts, Records
    <2> QED BY <1>1, <1>2, <1>3, <2>1, VersionTypes DEF Bounded, Quiet, Reloading
  <1> QED BY <1>4, <1>5

LEMMA BoundedStep == ASSUME Sorts, Rows, Pending, Bounded, [Next]_vars PROVE Bounded'
  <1> USE Latched
  <1>1. CASE Sends
    BY <1>1, BoundedSends
  <1>2. CASE Scripts
    BY <1>2, BoundedScripts DEF Scripts
  <1>3. ASSUME NEW k \in {"run", "sync", "reflect"}, Begin(k) PROVE Bounded'
    BY <1>3, BoundedFrame DEF Begin, memory, outside, Reloading
  <1>4. ASSUME NEW ids \in SUBSET Ids, NEW next \in {"retain", "flush", "timeline"},
               Retain(ids) \/ Consolidate(ids, next)
        PROVE  Bounded'
    BY <1>4, BoundedFrame DEF Retain, Consolidate, Change, outside, Reloading
  <1>5. CASE Note
    <2>1. UNCHANGED <<db, loaded, noted, purged>> /\ known' = NotedVersions(written) /\ written' = NoWrite
          /\ pc' \in {"timeline", "readback", "retain", "idle", "reload"} /\ pc \in Notes
      BY <1>5, Places DEF Note, outside, Notes
    <2>2. ~Reloading' /\ (Quiet => noted = NoNote)
      BY <2>1, OnePending DEF Reloading, Notes
    <2>3. ASSUME NEW m \in Ids
          PROVE  /\ known'[m] = IF written[m] > 0 THEN written[m] ELSE known[m]
                 /\ written'[m] = 0
                 /\ Quiet => Soon(m)' = Soon(m)
      BY <2>1, <2>2 DEF NotedVersions, NoWrite, NoNote, Soon
    <2> QED BY <2>1, <2>2, <2>3, VersionTypes DEF Bounded
  <1>6. CASE NoteProcedure
    <2>1. UNCHANGED <<db, loaded, written, purged, pc>> /\ known' = NotedVersions(noted.versions)
          /\ noted' = NoNote
      BY <1>6 DEF NoteProcedure, holder
    <2>2. ASSUME NEW m \in Ids
          PROVE  /\ known'[m] = IF noted.versions[m] > 0 THEN noted.versions[m] ELSE known[m]
                 /\ noted'.versions[m] = 0
                 /\ Soon(m)' = Soon(m)
      BY <2>1 DEF NotedVersions, NoWrite, NoNote, Soon
    <2> QED BY <2>1, <2>2, VersionTypes DEF Bounded, Reloading
  <1>7. CASE Reload \/ ReloadFails \/ Readback \/ ReadbackFails
    BY <1>7, BoundedFrame DEF Reload, ReloadFails, Readback, ReadbackFails, memory, outside, history, Reloading
  <1>8. CASE Replace \/ Restore \/ \E ids \in SUBSET Ids : ReplaceFails(ids)
    <2>1. UNCHANGED <<db, known, written, purged>> /\ noted.versions' = noted.versions
          /\ loaded' \in {loaded, NoLoad} /\ (Reloading' => Reloading /\ loaded' = loaded)
      <3>1. UNCHANGED <<db, known, written, purged>> /\ loaded' \in {loaded, NoLoad}
        BY <1>8 DEF Replace, Restore, ReplaceFails, history
      <3>2. Reloading' => Reloading /\ loaded' = loaded
        BY <1>8 DEF Replace, Restore, ReplaceFails, Reloading
      <3>3. noted.versions' = noted.versions
        <4>1. PICK ids \in SUBSET Ids, bodies \in {[m \in Ids |-> loaded[m].body], before} : Replacing(ids, bodies)
          BY <1>8 DEF Replace, Restore, ReplaceFails
        <4> QED BY <4>1 DEF Replacing, Sorts
      <3> QED BY <3>1, <3>2, <3>3
    <2> QED BY <2>1, BoundedFrame
  <1>9. CASE TakeVersions
    <2>1. UNCHANGED <<db, noted, written, purged>> /\ known' = [m \in Ids |-> loaded[m].version]
          /\ loaded' = NoLoad /\ pc = "versions" /\ pc' = "idle"
      BY <1>9 DEF TakeVersions, outside
    <2>2. (Quiet => noted = NoNote) /\ written = NoWrite
      BY <2>1, OnePending, Places DEF Pending, Notes
    <2>3. ASSUME NEW m \in Ids
          PROVE  /\ known'[m] = loaded[m].version /\ loaded'[m].version = 0
                 /\ Quiet => Soon(m)' = loaded[m].version
      BY <2>1, <2>2 DEF NoWrite, NoNote, NoLoad, Soon
    <2> QED BY <2>1, <2>3, VersionTypes DEF Bounded, Reloading
  <1>10. ASSUME NEW m \in ReflectIds, Reflect(m) PROVE Bounded'
    BY <1>10, BoundedFrame DEF Reflect, outside, Reloading
  <1>11. CASE FlushHeld \/ \E m \in ProcedureIds : Remember(m)
    BY <1>11, BoundedFrame DEF FlushHeld, Remember, memory, holder, Reloading
  <1>12. CASE Crash
    <2>1. /\ db' = db /\ purged' = purged /\ known' = [m \in Ids |-> db[m].version]
          /\ written' = NoWrite /\ noted' = NoNote /\ loaded' = NoLoad /\ pc' = "idle"
      BY <1>12 DEF Crash
    <2>2. ASSUME NEW m \in Ids
          PROVE  /\ known'[m] = db[m].version /\ loaded'[m].version = 0 /\ written'[m] = 0
                 /\ noted'.versions[m] = 0 /\ Soon(m)' = db[m].version
      BY <2>1 DEF NoWrite, NoNote, NoLoad, Soon
    <2> QED BY <2>1, <2>2, VersionTypes DEF Bounded, Reloading
  <1>13. CASE UNCHANGED vars
    BY <1>13, BoundedFrame DEF vars, memory, holder, outside, history, Reloading
  <1> QED BY <1>1, <1>2, <1>3, <1>4, <1>5, <1>6, <1>7, <1>8, <1>9, <1>10, <1>11, <1>12, <1>13
          DEF Next, Operate, Investigate, Outside, Sends, Scripts

-----------------------------------------------------------------------------
(* What was erased.                                                        *)

Banned(m, k) == <<m, k>> \in erased /\ Guarded(m)

\* Steps that leave the rows and the history of erasures alone, keep nothing
\* new of what was erased, and expect no other versions.
LEMMA ErasedFrame ==
    ASSUME Erased, UNCHANGED <<db, erased, purged>>, Quiet' => Quiet,
           \A m \in Ids, k \in Edits : Banned(m, k) =>
              /\ Kept(m, k)' => Kept(m, k) \/ In(k, db[m].body)
              /\ \A v \in Nat : Expects(m, v)' => Expects(m, v)
              /\ In(k, loaded'[m].body) =>
                    In(k, db[m].body) \/ (In(k, loaded[m].body) /\ loaded'[m].version = loaded[m].version)
              /\ pc' = "versions" /\ In(k, work'[m]) =>
                    /\ loaded'[m].version = loaded[m].version
                    /\ In(k, loaded[m].body) \/ (pc = "versions" /\ In(k, work[m]))
    PROVE  Erased'
  <1> SUFFICES ASSUME NEW m \in Ids, NEW k \in Edits, <<m, k>> \in erased, Guarded(m)'
               PROVE  /\ ~In(k, db[m].body)
                      /\ Kept(m, k)' => \A v \in Nat : Expects(m, v)' => Late(m, v)'
                      /\ In(k, loaded'[m].body) => Late(m, loaded'[m].version)
                      /\ pc' = "versions" /\ In(k, work'[m]) => Late(m, loaded'[m].version)
    BY DEF Erased, Late
  <1>1. Banned(m, k)
    BY DEF Banned, Guarded
  <1>2. ~In(k, db[m].body)
    BY <1>1 DEF Banned, Erased
  <1>3. \A v : Late(m, v)' <=> Late(m, v)
    BY DEF Late
  <1>4. Kept(m, k)' => \A v \in Nat : Expects(m, v)' => Late(m, v)'
    BY <1>1, <1>2, <1>3 DEF Banned, Erased
  <1>5. In(k, loaded'[m].body) => Late(m, loaded'[m].version)
    BY <1>1, <1>2 DEF Banned, Erased
  <1>6. pc' = "versions" /\ In(k, work'[m]) => Late(m, loaded'[m].version)
    BY <1>1 DEF Banned, Erased
  <1> QED BY <1>2, <1>4, <1>5, <1>6

\* The same of steps that change only the working set and where its holder is.
LEMMA ErasedAside ==
    ASSUME Erased, UNCHANGED <<db, erased, purged, known, written, noted, loaded>>, Quiet' => Quiet,
           pc' = "versions" => pc = "versions",
           \A m \in Ids, k \in Edits : Banned(m, k) =>
              /\ In(k, work'[m]) => In(k, work[m])
              /\ In(k, before'[m]) => In(k, work[m]) \/ In(k, before[m])
    PROVE  Erased'
  <1>1. \A m \in Ids, v \in Nat : Expects(m, v)' <=> Expects(m, v)
    BY DEF Expects
  <1>2. \A m \in Ids, k \in Edits : Banned(m, k) => (Kept(m, k)' => Kept(m, k))
    BY DEF Kept
  <1> QED BY <1>1, <1>2, ErasedFrame

\* A transaction does not send what was erased: the version it expects is late.
LEMMA ErasedSends == ASSUME Sorts, Rows, Pending, Erased, Sends, Quiet' => Quiet PROVE Erased'
  <1>1. CASE UNCHANGED <<db, written, noted>>
    <2>1. UNCHANGED <<work, known, before, loaded, erased, purged>> /\ (pc' = "versions" => pc = "versions")
      BY Sent DEF memory
    <2> QED BY <1>1, <2>1, ErasedAside
  <1>2. CASE ~UNCHANGED <<db, written, noted>>
    <2>1. /\ UNCHANGED <<work, known, before, loaded, erased, purged>> /\ (pc' = "versions" => pc = "versions")
          /\ Expected(Dirty) /\ db' = Synced(Dirty)
          /\ \/ unsure' /\ UNCHANGED <<written, noted>>
             \/ pc \in Flushing /\ written = NoWrite /\ written' = Versions(Dirty) /\ noted' = noted
             \/ /\ pcP = "flush" /\ noted = NoNote /\ written' = written
                /\ noted' = [NoNote EXCEPT !.versions = Versions(Dirty)]
      BY <1>2, Sent DEF memory
    <2> SUFFICES ASSUME NEW m \in Ids, NEW k \in Edits, <<m, k>> \in erased, Guarded(m)'
                 PROVE  /\ ~In(k, db'[m].body)
                        /\ Kept(m, k) => \A v \in Nat : Expects(m, v)' => Late(m, v)'
                        /\ In(k, loaded[m].body) => Late(m, loaded[m].version)'
                        /\ pc' = "versions" /\ In(k, work[m]) => Late(m, loaded[m].version)'
      BY <2>1 DEF Erased, Kept
    <2>2. Banned(m, k)
      BY <2>1 DEF Banned, Guarded
    <2>3. m \in purged => written[m] = 0 /\ noted.versions[m] = 0
      <3>1. ASSUME m \in purged PROVE written = NoWrite /\ noted = NoNote
        <4>1. Quiet /\ ~unsure'
          BY <2>1, <3>1 DEF Guarded, Quiet
        <4>2. CASE pc \in Flushing
          <5>1. pc # "idle" /\ written = NoWrite
            BY <4>2, Places DEF Flushing, Pending, Notes
          <5> QED BY <4>1, <5>1, OnePending
        <4>3. CASE pcP = "flush"
          <5>1. pc = "idle"
            BY <4>1, <4>3 DEF Pending, Quiet
          <5>2. written = NoWrite
            BY <5>1, Places DEF Pending, Notes
          <5> QED BY <4>3, <5>2 DEF Pending
        <4> QED BY <2>1, <4>1, <4>2, <4>3
      <3> QED BY <3>1 DEF NoWrite, NoNote
    <2>4. Kept(m, k) => m \notin Dirty
      <3>1. ASSUME Kept(m, k), m \in Dirty PROVE FALSE
        <4>1. known[m] = db[m].version /\ known[m] \in Nat
          BY <2>1, <3>1, Transaction
        <4>2. Expects(m, known[m])
          BY <2>3 DEF Expects
        <4>3. Late(m, known[m])
          BY <2>2, <3>1, <4>1, <4>2 DEF Erased, Banned
        <4> QED BY <4>1, <4>3 DEF Late
      <3> QED BY <3>1
    <2>5. m \notin Dirty => db'[m] = db[m] /\ Versions(Dirty)[m] = 0
      BY <2>1, Transaction
    <2>6. ~In(k, db'[m].body)
      <3>1. CASE m \in Dirty
        <4>1. db'[m].body = work[m]
          BY <2>1, <3>1, Transaction
        <4> QED BY <2>4, <3>1, <4>1 DEF Kept
      <3>2. CASE m \notin Dirty
        BY <2>2, <2>5, <3>2 DEF Banned, Erased
      <3> QED BY <3>1, <3>2
    <2>7. ASSUME m \notin Dirty, NEW v \in Nat, Expects(m, v)' PROVE Expects(m, v)
      <3>1. NoWrite[m] = 0 /\ NoNote.versions[m] = 0
        BY DEF NoNote, NoWrite
      <3>2. NoNote \in [versions : [Ids -> Nat], detached : BOOLEAN, bodies : [Ids -> Body]]
        BY Nothing
      <3>3. written'[m] = written[m] /\ noted'.versions[m] = noted.versions[m]
        BY <2>1, <2>5, <2>7, <3>1, <3>2
      <3> QED BY <2>1, <2>7, <3>3 DEF Expects
    <2>8. \A v : m \notin Dirty => (Late(m, v)' <=> Late(m, v))
      BY <2>5 DEF Late
    <2>9. In(k, loaded[m].body) => Kept(m, k)
      BY DEF Kept
    <2>10. In(k, work[m]) => Kept(m, k)
      BY DEF Kept
    <2>11. loaded[m].version' = loaded[m].version
      BY <2>1
    <2>12. Kept(m, k) => \A v \in Nat : Expects(m, v)' => Late(m, v)'
      BY <2>2, <2>4, <2>7, <2>8 DEF Banned, Erased
    <2>13. In(k, loaded[m].body) => Late(m, loaded[m].version)'
      BY <2>1, <2>2, <2>4, <2>5, <2>9 DEF Banned, Erased, Late
    <2>14. pc' = "versions" /\ In(k, work[m]) => Late(m, loaded[m].version)'
      BY <2>1, <2>2, <2>4, <2>5, <2>10 DEF Banned, Erased, Late
    <2> QED BY <2>6, <2>12, <2>13, <2>14
  <1> QED BY <1>1, <1>2

\* What the process expects of a row is its version at most, and a version:
\* what is erased is refused from then on.
LEMMA ExpectsBounded ==
    ASSUME Sorts, Pending, Bounded, NEW m \in Ids, Guarded(m), db[m].version > 0,
           NEW v \in Nat, Expects(m, v)
    PROVE  v <= db[m].version /\ (m \in purged => v > 0)
  <1>1. CASE m \notin purged
    BY <1>1, VersionTypes DEF Bounded, Expects
  <1>2. CASE m \in purged
    <2>1. Quiet /\ Soon(m) \in 1 .. db[m].version
      BY <1>2 DEF Guarded, Bounded
    <2>2. written[m] = 0 \/ noted.versions[m] = 0
      BY <2>1, OnePending DEF NoWrite, NoNote
    <2>3. v = Soon(m)
      BY <1>2, <2>2, VersionTypes DEF Expects, Soon
    <2> QED BY <2>1, <2>3, VersionTypes
  <1> QED BY <1>1, <1>2

LEMMA LoadedBounded ==
    ASSUME Sorts, Pending, Bounded, NEW m \in Ids, Guarded(m), db[m].version > 0
    PROVE  /\ loaded[m].version <= db[m].version
           /\ m \in purged /\ Reloading => loaded[m].version > 0
           /\ \A k : In(k, loaded[m].body) => Reloading
  <1>1. NoLoad[m].body = Gone /\ NoLoad[m].version = 0
    BY DEF NoLoad
  <1>2. ~Reloading => loaded[m].version = 0 /\ loaded[m].body = Gone
    BY <1>1 DEF Pending
  <1>3. CASE m \notin purged
    BY <1>2, <1>3 DEF Bounded, In
  <1>4. CASE m \in purged
    <2>1. Quiet
      BY <1>4 DEF Guarded
    <2> QED BY <1>2, <2>1, VersionTypes DEF Bounded, In
  <1> QED BY <1>3, <1>4

LEMMA ErasedScripts ==
    ASSUME Sorts, Rows, Fresh, Pending, Bounded, Erased, NEW m \in Ids, Edit(m) \/ Redact(m) \/ Purge(m)
    PROVE  Erased'
  <1>1. /\ UNCHANGED <<known, work, before, loaded, written, noted, pc, unsure, raced>>
        /\ db[m].version > 0 /\ db[m].version \in Nat
    BY VersionTypes DEF Edit, Redact, Purge, memory, holder, outside
  <1>2. /\ \A q \in Ids : q # m => db'[q] = db[q] /\ (q \in purged' <=> q \in purged)
        /\ \A q \in Ids : Guarded(q)' => Guarded(q)
        /\ \A q \in Ids, k \in Edits : q # m => (<<q, k>> \in erased' <=> <<q, k>> \in erased)
    <2>1. \A q \in Ids : q # m => db'[q] = db[q] /\ (q \in purged' <=> q \in purged)
      BY DEF Edit, Redact, Purge, Sorts, Records
    <2>2. purged \subseteq purged'
      BY DEF Edit, Redact, Purge
    <2>3. \A q \in Ids, k \in Edits : q # m => (<<q, k>> \in erased' <=> <<q, k>> \in erased)
      BY DEF Edit, Redact, Purge
    <2> QED BY <1>1, <2>1, <2>2, <2>3 DEF Guarded, Quiet
  <1>3. ASSUME NEW q \in Ids, q # m, NEW k \in Edits, <<q, k>> \in erased', Guarded(q)'
        PROVE  /\ ~In(k, db'[q].body)
               /\ Kept(q, k)' => \A v \in Nat : Expects(q, v)' => Late(q, v)'
               /\ In(k, loaded'[q].body) => Late(q, loaded[q].version)'
               /\ pc' = "versions" /\ In(k, work'[q]) => Late(q, loaded[q].version)'
    <2>1. <<q, k>> \in erased /\ Guarded(q) /\ db'[q] = db[q] /\ (q \in purged' <=> q \in purged)
      BY <1>2, <1>3
    <2>2. \A v \in Nat : (Expects(q, v)' <=> Expects(q, v)) /\ (Late(q, v)' <=> Late(q, v))
      BY <1>1, <2>1 DEF Expects, Late
    <2>3. Kept(q, k)' <=> Kept(q, k)
      BY <1>1 DEF Kept
    <2>4. (Kept(q, k)' => \A v \in Nat : Expects(q, v)' => Late(q, v)') /\ ~In(k, db'[q].body)
      BY <2>1, <2>2, <2>3 DEF Erased
    <2>5. Late(q, loaded[q].version)' <=> Late(q, loaded[q].version)
      BY <1>1, <2>1 DEF Late
    <2> QED BY <1>1, <2>1, <2>4, <2>5 DEF Erased
  <1>4. ASSUME NEW k \in Edits, <<m, k>> \in erased', Guarded(m)'
        PROVE  /\ ~In(k, db'[m].body)
               /\ Kept(m, k)' => \A v \in Nat : Expects(m, v)' => Late(m, v)'
               /\ In(k, loaded'[m].body) => Late(m, loaded[m].version)'
               /\ pc' = "versions" /\ In(k, work'[m]) => Late(m, loaded[m].version)'
    <2>1. Guarded(m) /\ (Kept(m, k)' <=> Kept(m, k))
      BY <1>1, <1>2, <1>4 DEF Kept
    <2>2. CASE Edit(m)
      <3>1. /\ db'[m].version = db[m].version + 1 /\ db'[m].body = db[m].body \cup {edits + 1}
            /\ erased' = erased /\ purged' = purged
        BY <2>2 DEF Edit, Sorts, Records
      <3>2. <<m, k>> \in erased /\ k # edits + 1
        <4>1. <<m, k>> \in erased
          BY <1>4, <3>1
        <4>2. k <= edits /\ edits \in Int
          BY <4>1 DEF Fresh, Dated, Sorts, Edits
        <4> QED BY <4>1, <4>2
      <3>3. \A v \in Nat : Late(m, v) => Late(m, v)'
        BY <1>1, <3>1 DEF Late
      <3>4. \A v \in Nat : Expects(m, v)' <=> Expects(m, v)
        BY <1>1, <3>1 DEF Expects
      <3>5. ~In(k, db[m].body) /\ db[m].body # Gone
        BY <1>1, <2>1, <3>2 DEF Erased, Rows
      <3>6. ~In(k, db'[m].body)
        BY <3>1, <3>2, <3>5 DEF In
      <3>7. Kept(m, k)' => \A v \in Nat : Expects(m, v)' => Late(m, v)'
        BY <2>1, <3>2, <3>3, <3>4 DEF Erased
      <3>8. /\ In(k, loaded'[m].body) => Late(m, loaded[m].version)
            /\ pc' = "versions" /\ In(k, work'[m]) => Late(m, loaded[m].version)
        BY <1>1, <2>1, <3>2 DEF Erased
      <3>9. Late(m, loaded[m].version) => Late(m, loaded[m].version)'
        BY <1>1, <3>1, VersionTypes DEF Late
      <3> QED BY <3>6, <3>7, <3>8, <3>9
    <2>3. CASE Redact(m) \/ Purge(m)
      <3>1. k # 0
        <4>1. erased' = erased \cup {<<m, j>> : j \in db[m].body \ {0}}
          BY <2>3 DEF Redact, Purge
        <4> QED BY <1>4, <4>1 DEF Fresh
      <3>2. \/ /\ db'[m].version = db[m].version + 1 /\ db'[m].body = {0} /\ purged' = purged
            \/ /\ db'[m].version = 0 /\ db'[m].body = Gone /\ m \in purged'
        BY <2>3 DEF Redact, Purge, Sorts, Records
      <3>3. ~In(k, db'[m].body)
        BY <3>1, <3>2 DEF In
      <3>4. db'[m].version = 0 => Quiet
        BY <1>1, <1>4, <3>2 DEF Guarded, Quiet
      <3>5. ASSUME NEW v \in Nat, Expects(m, v)' PROVE Late(m, v)'
        <4>1. CASE db'[m].version = db[m].version + 1 /\ purged' = purged
          <5>1. Expects(m, v)
            BY <1>1, <3>5, <4>1 DEF Expects
          <5>2. v <= db[m].version
            BY <1>1, <2>1, <5>1, ExpectsBounded
          <5> QED BY <1>1, <4>1, <5>2 DEF Late
        <4>2. CASE db'[m].version = 0 /\ m \in purged'
          <5>1. Quiet /\ Soon(m) \in 1 .. db[m].version
            BY <1>1, <3>4, <4>2 DEF Bounded
          <5>2. v > 0
            BY <1>1, <3>5, <4>2, <5>1, VersionTypes DEF Expects, Soon
          <5> QED BY <4>2, <5>2 DEF Late
        <4> QED BY <3>2, <4>1, <4>2
      <3>6. ASSUME Reloading PROVE Late(m, loaded[m].version)'
        <4>1. CASE db'[m].version = db[m].version + 1
          <5>1. loaded[m].version <= db[m].version
            BY <1>1, <2>1, LoadedBounded
          <5> QED BY <1>1, <4>1, <5>1, VersionTypes DEF Late
        <4>2. CASE db'[m].version = 0
          <5>1. loaded[m].version > 0
            BY <1>1, <3>4, <3>6, <4>2, VersionTypes DEF Bounded
          <5> QED BY <1>1, <4>2, <5>1 DEF Late
        <4> QED BY <3>2, <4>1, <4>2
      <3>7. In(k, loaded'[m].body) => Reloading
        BY <1>1, <2>1, LoadedBounded
      <3>8. pc' = "versions" => Reloading
        BY <1>1 DEF Reloading
      <3> QED BY <3>3, <3>5, <3>6, <3>7, <3>8
    <2> QED BY <2>2, <2>3
  <1> QED BY <1>3, <1>4 DEF Erased

LEMMA ErasedStep == ASSUME Inv, [Next]_vars PROVE Erased'
  <1> USE Latched
  <1> USE DEF Inv
  <1>1. CASE Sends
    BY <1>1, ErasedSends
  <1>2. CASE Scripts
    BY <1>2, ErasedScripts DEF Scripts
  <1>3. ASSUME NEW k \in {"run", "sync", "reflect"}, Begin(k) PROVE Erased'
    BY <1>3, ErasedAside DEF Begin, memory, outside
  <1>4. ASSUME NEW ids \in SUBSET Ids, Change(ids), pc \in {"consolidate", "retain"}, pc' # "versions"
        PROVE  Erased'
    <2>1. UNCHANGED <<db, before, erased, purged, known, written, noted, loaded>>
      BY <1>4 DEF Change, outside
    <2>2. \A m \in Ids, k \in Edits : Banned(m, k) /\ In(k, work'[m]) => In(k, work[m])
      <3>1. \A m \in Ids, k \in Edits : In(k, work'[m]) => In(k, work[m]) \/ k = edit
        BY <1>4, InWith DEF Change, Sorts
      <3>2. \A m \in Ids : <<m, edit>> \in erased => In(edit, work[m])
        BY <1>4 DEF Fresh, Working
      <3> QED BY <3>1, <3>2 DEF Banned
    <2> QED BY <1>4, <2>1, <2>2, ErasedAside
  <1>5. ASSUME NEW ids \in SUBSET Ids, NEW next \in {"retain", "flush", "timeline"},
               Retain(ids) \/ Consolidate(ids, next)
        PROVE  Erased'
    BY <1>4, <1>5 DEF Retain, Consolidate
  <1>6. CASE Note
    <2>1. UNCHANGED <<db, work, before, loaded, noted, erased, purged>> /\ known' = NotedVersions(written)
          /\ written' = NoWrite /\ pc' # "versions"
      BY <1>6, Places DEF Note, outside, Notes
    <2>2. ASSUME NEW m \in Ids, NEW v \in Nat, Expects(m, v)' PROVE Expects(m, v)
      BY <2>1, <2>2, VersionTypes DEF Expects, NotedVersions, NoWrite
    <2>3. \A m \in Ids, k \in Edits : Kept(m, k)' <=> Kept(m, k)
      BY <2>1 DEF Kept
    <2> QED BY <2>1, <2>2, <2>3, ErasedFrame
  <1>7. CASE NoteProcedure
    <2>1. UNCHANGED <<db, work, before, loaded, written, erased, purged, pc>>
          /\ known' = NotedVersions(noted.versions) /\ noted' = NoNote
      BY <1>7 DEF NoteProcedure, holder
    <2>2. ASSUME NEW m \in Ids, NEW v \in Nat, Expects(m, v)' PROVE Expects(m, v)
      BY <2>1, <2>2, VersionTypes DEF Expects, NotedVersions, NoWrite, NoNote
    <2>3. \A m \in Ids, k \in Edits : Kept(m, k)' <=> Kept(m, k)
      BY <2>1 DEF Kept
    <2> QED BY <2>1, <2>2, <2>3, ErasedFrame
  <1>8. CASE Reload
    <2>1. UNCHANGED <<db, work, before, known, written, noted, erased, purged>> /\ loaded' = db
          /\ pc' # "versions"
      BY <1>8 DEF Reload, memory, outside, history
    <2>2. \A m \in Ids, v \in Nat : Expects(m, v)' <=> Expects(m, v)
      BY <2>1 DEF Expects
    <2>3. \A m \in Ids, k \in Edits : Kept(m, k)' => Kept(m, k) \/ In(k, db[m].body)
      BY <2>1 DEF Kept
    <2> QED BY <2>1, <2>2, <2>3, ErasedFrame
  <1>9. CASE ReloadFails \/ Readback \/ ReadbackFails
    <2>1. UNCHANGED <<db, work, known, written, noted, loaded, erased, purged>> /\ before' \in {before, NoBefore}
          /\ pc' # "versions"
      BY <1>9 DEF ReloadFails, Readback, ReadbackFails, memory, outside, history
    <2>2. \A m \in Ids, k \in Edits : In(k, before'[m]) => In(k, before[m])
      BY <2>1 DEF NoBefore, In
    <2> QED BY <2>1, <2>2, ErasedAside
  <1>10. CASE Replace \/ Restore \/ \E ids \in SUBSET Ids : ReplaceFails(ids)
    <2>1. UNCHANGED <<db, known, written, erased, purged>> /\ loaded' \in {loaded, NoLoad}
      BY <1>10 DEF Replace, Restore, ReplaceFails, history
    <2>2. PICK ids \in SUBSET Ids, bodies \in {[m \in Ids |-> loaded[m].body], before} : Replacing(ids, bodies)
      BY <1>10 DEF Replace, Restore, ReplaceFails
    <2>3. noted.versions' = noted.versions
      BY <2>2 DEF Replacing, Sorts
    <2>4. \A m \in Ids, v \in Nat : Expects(m, v)' <=> Expects(m, v)
      BY <2>1, <2>3 DEF Expects
    <2>5. \A m \in Ids, k \in Edits : Kept(m, k)' => Kept(m, k)
      BY <2>1, <2>2 DEF Kept, In, NoLoad, NoBefore, Replacing
    <2>6. \A m \in Ids, k \in Edits :
             In(k, loaded'[m].body) => In(k, loaded[m].body) /\ loaded'[m].version = loaded[m].version
      BY <2>1 DEF In, NoLoad
    <2>7. ASSUME pc' = "versions", NEW m \in Ids, NEW k \in Edits, In(k, work'[m])
          PROVE  loaded' = loaded /\ In(k, loaded[m].body)
      <3>1. Replace
        BY <1>10, <2>7 DEF Restore, ReplaceFails
      <3> QED BY <2>7, <3>1 DEF Replace, Replacing
    <2> QED BY <2>1, <2>4, <2>5, <2>6, <2>7, ErasedFrame
  <1>11. CASE TakeVersions
    <2>1. UNCHANGED <<db, work, before, noted, written, erased, purged, unsure, raced>> /\ loaded' = NoLoad
          /\ known' = [m \in Ids |-> loaded[m].version] /\ pc = "versions" /\ pc' = "idle"
      BY <1>11 DEF TakeVersions, outside
    <2>2. written = NoWrite /\ before = NoBefore
      BY <2>1, Places DEF Pending, Notes
    <2> SUFFICES ASSUME NEW m \in Ids, NEW k \in Edits, <<m, k>> \in erased, Guarded(m)
                 PROVE  /\ ~In(k, db[m].body)
                        /\ Kept(m, k)' => \A v \in Nat : Expects(m, v)' => Late(m, v)'
                        /\ ~In(k, loaded'[m].body)
      BY <2>1 DEF Erased, Guarded, Quiet
    <2>3. ~In(k, db[m].body) /\ ~In(k, loaded'[m].body)
      BY <2>1 DEF Erased, In, NoLoad
    <2>4. ASSUME Kept(m, k)' PROVE In(k, work[m])
      BY <2>1, <2>2, <2>4 DEF Kept, In, NoLoad, NoBefore
    <2>5. ASSUME Kept(m, k)', NEW v \in Nat, Expects(m, v)' PROVE Late(m, v)
      <3>1. CASE v = loaded[m].version
        BY <2>1, <2>4, <2>5, <3>1 DEF Erased
      <3>2. CASE v > 0 /\ v = noted.versions[m]
        BY <2>4, <2>5, <3>2 DEF Erased, Kept, Expects
      <3> QED BY <2>1, <2>2, <2>5, <3>1, <3>2 DEF Expects, NoWrite
    <2> QED BY <2>1, <2>3, <2>5 DEF Late
  <1>12. ASSUME NEW m \in ReflectIds, Reflect(m) PROVE Erased'
    <2>1. UNCHANGED <<db, known, written, noted, loaded, erased, purged>> /\ before' \in {work, before}
          /\ pc = "reflect" /\ pc' # "versions"
      BY <1>12 DEF Reflect, outside
    <2>2. \A q \in Ids, k \in Edits : In(k, work'[q]) => In(k, work[q]) \/ k = edit
      BY <1>12 DEF Reflect, Sorts, In
    <2>3. \A q \in Ids : <<q, edit>> \notin erased
      BY <2>1 DEF Fresh
    <2> QED BY <2>1, <2>2, <2>3, ErasedAside DEF Banned
  <1>13. ASSUME NEW m \in ProcedureIds, Remember(m) PROVE Erased'
    <2>1. UNCHANGED <<db, before, known, written, noted, loaded, erased, purged, pc>>
      BY <1>13 DEF Remember, holder
    <2>2. edits \in Int /\ edits + 1 \in Edits /\ m \in Ids
      BY <1>13, Counted DEF Remember, Sorts, Edits, Ids
    <2>3. \A q \in Ids, k \in Edits : In(k, work'[q]) => In(k, work[q]) \/ k = edits + 1
      BY <1>13, <2>2, InWith DEF Remember, Sorts
    <2>4. \A q \in Ids : <<q, edits + 1>> \notin erased
      BY <2>2 DEF Fresh, Dated
    <2> QED BY <2>1, <2>3, <2>4, ErasedAside DEF Banned
  <1>14. CASE FlushHeld \/ UNCHANGED vars
    BY <1>14, ErasedAside DEF FlushHeld, vars, memory, holder, outside, history
  <1>15. CASE Crash
    <2>1. /\ UNCHANGED <<db, erased, purged, unsure, raced>> /\ pc' = "idle" /\ loaded' = NoLoad
          /\ before' = NoBefore /\ work' = [m \in Ids |-> db[m].body]
      BY <1>15 DEF Crash
    <2>2. \A m \in Ids, k \in Edits : Kept(m, k)' => In(k, db[m].body)
      BY <2>1 DEF Kept, In, NoLoad, NoBefore
    <2>3. \A m \in Ids, k \in Edits : ~In(k, loaded'[m].body)
      BY <2>1 DEF In, NoLoad
    <2> QED BY <2>1, <2>2, <2>3 DEF Erased, Guarded, Quiet
  <1> QED BY <1>1, <1>2, <1>3, <1>5, <1>6, <1>7, <1>8, <1>9, <1>10, <1>11, <1>12, <1>13, <1>14, <1>15
          DEF Next, Operate, Investigate, Outside, Sends, Scripts

-----------------------------------------------------------------------------
LEMMA InitInv == Init => Inv
  <1> SUFFICES ASSUME Init PROVE Inv
    OBVIOUS
  <1>1. Sorts
    BY Nothing, Numbers DEF Init, Sorts, Marked
  <1>2. Rows
    BY DEF Init, Rows, NoLoad
  <1>3. Fresh
    <2>1. \A m \in Ids, k \in Edits : ~Dated(m, k)
      BY DEF Init, Dated, Kept, In, NoLoad, NoBefore
    <2> QED BY <2>1 DEF Init, Fresh, Working
  <1>4. Pending
    BY DEF Init, Pending, Reloading
  <1>5. Bounded
    BY DEF Init, Bounded, NoLoad, NoWrite, NoNote
  <1>6. Erased
    BY DEF Init, Erased
  <1> QED BY <1>1, <1>2, <1>3, <1>4, <1>5, <1>6 DEF Inv

LEMMA NextInv == Inv /\ [Next]_vars => Inv'
  <1> SUFFICES ASSUME Inv, [Next]_vars PROVE Inv'
    OBVIOUS
  <1>1. Sorts /\ Rows /\ Fresh /\ Pending /\ Bounded
    BY DEF Inv
  <1>2. Sorts'
    BY <1>1, OperateSorts, OthersSorts DEF Next
  <1>3. Rows' /\ Fresh' /\ Pending' /\ Bounded'
    BY <1>1, RowsStep, FreshStep, PendingStep, BoundedStep
  <1> QED BY <1>2, <1>3, ErasedStep DEF Inv

\* What redact_memory or purge_memory took out of the database never comes back
\* by a flush, for any records, scripts, failures and deaths: of a purged
\* record only after a transaction raised that had been committed, or after the
\* investigation wrote under the holder of the lock.
THEOREM Erasure == Spec => []ErasureHolds
  <1>1. Inv => ErasureHolds
    <2> SUFFICES ASSUME Inv, NEW w \in erased, Stored(w)
                 PROVE  w[1] \in purged /\ (unsure \/ raced)
      BY DEF ErasureHolds
    <2>1. w \in Ids \X Edits
      BY DEF Inv, Sorts, Marked
    <2>2. w[1] \in Ids /\ w[2] \in Edits /\ w = <<w[1], w[2]>>
      BY <2>1
    <2>3. <<w[1], w[2]>> \in erased /\ In(w[2], db[w[1]].body)
      BY <2>2 DEF Stored, In
    <2>4. ~Guarded(w[1])
      BY <2>2, <2>3 DEF Inv, Erased
    <2> QED BY <2>4 DEF Guarded, Quiet
  <1> QED BY <1>1, InitInv, NextInv, PTL DEF Spec

-----------------------------------------------------------------------------
(* The rest of the types.                                                  *)

LEMMA Lines == ASSUME Sorts PROVE \A m \in Ids, k \in Edits : {<<m, k>>} \in Marked
  BY DEF Marked

LEMMA TypesOperate == ASSUME TypeOK, Rows, Operate PROVE TypeOK'
  <1>1. Sorts
    BY DEF TypeOK, Sorts
  <1>2. Sorts'
    BY <1>1, OperateSorts
  <1>3. SUFFICES
          /\ base' \in [Ids -> Body]
          /\ pc' \in Stages /\ kind' \in {"run", "sync", "reflect"} /\ pcP' \in {"idle", "flush", "note"}
          /\ faults' \in 0..MaxFaults /\ crashes' \in 0..MaxCrashes /\ scripts' \in 0..MaxScripts
          /\ mine' \in Marked /\ mineP' \in Marked /\ acknowledged' \in Marked /\ rejected' \in Marked
          /\ purged' \subseteq Ids
          /\ doubtful' \in BOOLEAN /\ unsure' \in BOOLEAN /\ raced' \in BOOLEAN /\ torn' \in BOOLEAN
    BY <1>2 DEF TypeOK, Sorts
  <1>4. MaxFaults \in Nat /\ 0 \in 0..MaxFaults
    BY MemoryAssumption
  <1>5. faults < MaxFaults => faults + 1 \in 0..MaxFaults
    BY <1>4 DEF TypeOK
  <1> USE DEF TypeOK
  <1>6. ASSUME NEW k \in {"run", "sync", "reflect"}, Begin(k) PROVE <1>3!1
    BY <1>6 DEF Begin, memory, outside, Stages, Marked
  <1>7. ASSUME NEW ids \in SUBSET Ids, NEW next \in {"retain", "flush", "timeline"},
               Retain(ids) \/ Consolidate(ids, next)
        PROVE  <1>3!1
    <2>1. {<<m, edit>> : m \in ids} \in Marked
      BY DEF Marked
    <2>2. pc' \in Stages
      BY <1>7 DEF Retain, Consolidate, Stages, Flushing
    <2> QED BY <1>7, <2>1, <2>2 DEF Retain, Consolidate, Change, outside, bounds, Marked
  <1>8. CASE Flush
    <2>1. pc' \in Stages
      BY <1>8 DEF Flush, Stages, Failure
    <2> QED BY <1>8, <2>1 DEF Flush, memory, outside, bounds, history
  <1>9. ASSUME NEW effect \in BOOLEAN, FlushFails(effect) PROVE <1>3!1
    <2>1. pc' \in Stages
      BY <1>9 DEF FlushFails, Stages, Failure
    <2> QED BY <1>5, <1>9, <2>1 DEF FlushFails, memory, outside
  <1>10. CASE Note
    <2>1. pc' \in Stages
      <3>1. pc \in Notes
        BY <1>10, Places DEF Note
      <3>2. pc' \in {"timeline", "readback", "retain", "idle", "reload"}
        BY <1>10, <3>1 DEF Note, Notes
      <3> QED BY <3>2 DEF Stages, Flushing
    <2>2. base' \in [Ids -> Body] /\ acknowledged' \in Marked
      BY <1>10 DEF Note, NotedBase, Marked
    <2> QED BY <1>10, <2>1, <2>2 DEF Note, outside, bounds
  <1>11. CASE Reload \/ ReloadFails
    <2>1. pc' \in Stages /\ faults' \in 0..MaxFaults
      BY <1>5, <1>11 DEF Reload, ReloadFails, Stages, bounds
    <2> QED BY <1>11, <2>1 DEF Reload, ReloadFails, memory, outside, bounds, history
  <1>12. CASE Readback \/ ReadbackFails
    <2>1. pc' \in Stages /\ faults' \in 0..MaxFaults /\ acknowledged' \in Marked /\ doubtful' \in BOOLEAN
      BY <1>5, <1>12 DEF Readback, ReadbackFails, Stages, bounds, Marked
    <2> QED BY <1>12, <2>1 DEF Readback, ReadbackFails, memory, outside, bounds
  <1>13. CASE Replace \/ Restore
    <2>1. pc' \in Stages /\ rejected' \in Marked
      BY <1>13 DEF Replace, Restore, Stages, Marked, history
    <2> QED BY <1>13, <2>1 DEF Replace, Restore, bounds, history
  <1>14. ASSUME NEW ids \in SUBSET Ids, ReplaceFails(ids) PROVE <1>3!1
    BY <1>5, <1>14 DEF ReplaceFails, Stages
  <1>15. CASE TakeVersions
    <2>1. base' \in [Ids -> Body] /\ rejected' \in Marked
      BY <1>15 DEF TakeVersions, Records, Marked
    <2> QED BY <1>15, <2>1 DEF TakeVersions, outside, bounds, Stages
  <1>16. ASSUME NEW m \in ReflectIds, Reflect(m) PROVE <1>3!1
    <2>1. m \in Ids
      BY DEF Ids
    <2>2. mine' \in {mine, {<<m, edit>>}} /\ pc' \in Stages
      BY <1>16 DEF Reflect, Stages, Flushing
    <2>3. mine' \in Marked
      BY <1>1, <2>1, <2>2, Lines
    <2> QED BY <1>16, <2>2, <2>3 DEF Reflect, outside, bounds
  <1> QED BY <1>6, <1>7, <1>8, <1>9, <1>10, <1>11, <1>12, <1>13, <1>14, <1>15, <1>16 DEF Operate

LEMMA TypesOthers == ASSUME TypeOK, Rows, Investigate \/ Outside \/ UNCHANGED vars PROVE TypeOK'
  <1>1. Sorts
    BY DEF TypeOK, Sorts
  <1>2. Sorts'
    BY <1>1, OthersSorts
  <1>3. SUFFICES
          /\ base' \in [Ids -> Body]
          /\ pc' \in Stages /\ kind' \in {"run", "sync", "reflect"} /\ pcP' \in {"idle", "flush", "note"}
          /\ faults' \in 0..MaxFaults /\ crashes' \in 0..MaxCrashes /\ scripts' \in 0..MaxScripts
          /\ mine' \in Marked /\ mineP' \in Marked /\ acknowledged' \in Marked /\ rejected' \in Marked
          /\ purged' \subseteq Ids
          /\ doubtful' \in BOOLEAN /\ unsure' \in BOOLEAN /\ raced' \in BOOLEAN /\ torn' \in BOOLEAN
    BY <1>2 DEF TypeOK, Sorts
  <1>4. /\ faults < MaxFaults => faults + 1 \in 0..MaxFaults
        /\ crashes < MaxCrashes => crashes + 1 \in 0..MaxCrashes
        /\ scripts < MaxScripts => scripts + 1 \in 0..MaxScripts
    BY MemoryAssumption DEF TypeOK
  <1> USE DEF TypeOK
  <1>5. ASSUME NEW m \in ProcedureIds, Remember(m) PROVE <1>3!1
    <2>1. {<<m, edits + 1>>} \in Marked
      BY <1>1, <1>5, Lines, Counted DEF Remember, Ids
    <2> QED BY <1>5, <2>1 DEF Remember, holder
  <1>6. CASE FlushHeld \/ FlushProcedure
    BY <1>6 DEF FlushHeld, FlushProcedure, memory, holder, bounds, history, Marked
  <1>7. ASSUME NEW effect \in BOOLEAN, FlushProcedureFails(effect) PROVE <1>3!1
    BY <1>4, <1>7 DEF FlushProcedureFails, memory, holder
  <1>8. CASE NoteProcedure
    <2>1. base' \in [Ids -> Body]
      BY <1>8 DEF NoteProcedure, NotedBase
    <2> QED BY <1>8, <2>1 DEF NoteProcedure, holder, bounds, Marked
  <1>9. ASSUME NEW m \in Ids, Edit(m) PROVE <1>3!1
    <2>1. {<<m, edits + 1>>} \in Marked
      BY <1>1, <1>9, Lines, Counted DEF Edit
    <2> QED BY <1>4, <1>9, <2>1 DEF Edit, memory, holder, outside, Marked
  <1>10. ASSUME NEW m \in Ids, Redact(m) \/ Purge(m) PROVE <1>3!1
    BY <1>4, <1>10 DEF Redact, Purge, memory, holder, outside
  <1>11. CASE Crash
    <2>1. base' \in [Ids -> Body]
      BY <1>11 DEF Crash, Records
    <2>2. mine' = {} /\ mineP' = {} /\ doubtful' = FALSE /\ pc' = "idle" /\ kind' = "run" /\ pcP' = "idle"
      BY <1>11 DEF Crash
    <2>3. crashes' \in 0..MaxCrashes /\ UNCHANGED <<faults, scripts, unsure, acknowledged, rejected, purged, raced, torn>>
      BY <1>4, <1>11 DEF Crash
    <2> QED BY <2>1, <2>2, <2>3 DEF Stages, Marked
  <1>12. CASE UNCHANGED vars
    BY <1>12 DEF vars, memory, holder, outside, bounds, history
  <1> QED BY <1>5, <1>6, <1>7, <1>8, <1>9, <1>10, <1>11, <1>12 DEF Investigate, Outside

LEMMA TypesStep == ASSUME TypeOK, Rows, [Next]_vars PROVE TypeOK'
  BY TypesOperate, TypesOthers DEF Next

LEMMA TypesInit == Init => TypeOK
  <1> SUFFICES ASSUME Init PROVE TypeOK
    OBVIOUS
  <1>1. Sorts
    BY InitInv DEF Inv
  <1>2. base \in [Ids -> Body]
    BY Nothing DEF Init
  <1>3. faults \in 0..MaxFaults /\ crashes \in 0..MaxCrashes /\ scripts \in 0..MaxScripts
    BY MemoryAssumption DEF Init
  <1> QED BY <1>1, <1>2, <1>3 DEF Init, TypeOK, Sorts, Stages, Marked

-----------------------------------------------------------------------------
(* Where an operation of each kind can stand.                              *)

Paths ==
    /\ kind \in {"run", "sync", "reflect"}
    /\ kind = "run" => pc \in {"idle", "consolidate", "retain", "last", "notelast", "reload", "replace", "versions"}
    /\ kind = "sync" => pc \in {"idle", "consolidate", "flush", "note", "timeline", "notetimeline", "retain",
                                "last", "notelast", "reload", "replace", "versions"}
    /\ kind = "reflect" => pc \in {"idle", "reflect", "flush", "note", "readback", "restore", "pending",
                                   "notepending", "reload", "replace", "versions"}

LEMMA Stays == ASSUME [Next]_vars PROVE (raced => raced') /\ (torn => torn')
  <1>1. ASSUME NEW k \in {"run", "sync", "reflect"}, Begin(k) PROVE (raced => raced') /\ (torn => torn')
    BY <1>1 DEF Begin
  <1>2. ASSUME NEW ids \in SUBSET Ids, NEW next \in {"retain", "flush", "timeline"},
               Retain(ids) \/ Consolidate(ids, next)
        PROVE  (raced => raced') /\ (torn => torn')
    BY <1>2 DEF Retain, Consolidate, Change
  <1>3. CASE Flush \/ \E effect \in BOOLEAN : FlushFails(effect)
    BY <1>3 DEF Flush, FlushFails, history
  <1>4. CASE Note \/ Reload \/ ReloadFails \/ TakeVersions \/ Readback \/ ReadbackFails
    BY <1>4 DEF Note, Reload, ReloadFails, TakeVersions, Readback, ReadbackFails, history
  <1>5. CASE Replace \/ Restore
    BY <1>5 DEF Replace, Restore, history
  <1>6. ASSUME NEW ids \in SUBSET Ids, ReplaceFails(ids) PROVE (raced => raced') /\ (torn => torn')
    BY <1>6 DEF ReplaceFails
  <1>7. ASSUME NEW m \in ReflectIds, Reflect(m) PROVE (raced => raced') /\ (torn => torn')
    BY <1>7 DEF Reflect
  <1>8. ASSUME NEW m \in ProcedureIds, Remember(m) PROVE (raced => raced') /\ (torn => torn')
    BY <1>8 DEF Remember
  <1>10. CASE FlushHeld \/ FlushProcedure \/ NoteProcedure \/ \E effect \in BOOLEAN : FlushProcedureFails(effect)
    BY <1>10 DEF FlushHeld, FlushProcedure, FlushProcedureFails, NoteProcedure, history
  <1>9. CASE Outside \/ UNCHANGED vars
    BY <1>9 DEF Outside, Edit, Redact, Purge, Crash, vars, history
  <1> QED BY <1>1, <1>2, <1>3, <1>4, <1>5, <1>6, <1>7, <1>8, <1>9, <1>10 DEF Next, Operate, Investigate

LEMMA PathsStep == ASSUME Paths, [Next]_vars PROVE Paths'
  <1> USE DEF Paths
  <1>1. ASSUME NEW k \in {"run", "sync", "reflect"}, Begin(k) PROVE Paths'
    BY <1>1 DEF Begin
  <1>2. ASSUME NEW ids \in SUBSET Ids, Retain(ids) PROVE Paths'
    BY <1>2 DEF Retain, Change
  <1>3. ASSUME NEW ids \in SUBSET Ids, NEW next \in {"retain", "flush", "timeline"}, Consolidate(ids, next)
        PROVE  Paths'
    BY <1>3 DEF Consolidate, Change
  <1>4. CASE Flush \/ \E effect \in BOOLEAN : FlushFails(effect)
    <2>1. kind' = kind /\ pc \in Flushing /\ pc' \in {Failure, Noting(pc)}
      BY <1>4 DEF Flush, FlushFails
    <2>2. Failure \in {"restore", "reload", "idle"} /\ (Failure = "restore" => kind = "reflect" /\ pc = "flush")
          /\ (Failure = "reload" => kind # "reflect")
      BY <2>1 DEF Failure, Flushing
    <2>3. CASE pc' = Failure
      BY <2>1, <2>2, <2>3
    <2>4. CASE pc' = Noting(pc)
      BY <2>1, <2>4 DEF Noting, Flushing
    <2> QED BY <2>1, <2>3, <2>4
  <1>5. CASE Note
    <2>1. kind' = kind /\ pc \in Notes
      BY <1>5, Places DEF Note
    <2>2. CASE pc = "note"
      BY <1>5, <2>1, <2>2 DEF Note
    <2>3. CASE pc = "notetimeline"
      BY <1>5, <2>1, <2>3 DEF Note
    <2>4. CASE pc = "notelast"
      BY <1>5, <2>1, <2>4 DEF Note
    <2>5. CASE pc = "notepending"
      BY <1>5, <2>1, <2>5 DEF Note
    <2> QED BY <2>1, <2>2, <2>3, <2>4, <2>5 DEF Notes
  <1>6. CASE Reload \/ ReloadFails \/ TakeVersions \/ Readback \/ ReadbackFails
    BY <1>6 DEF Reload, ReloadFails, TakeVersions, Readback, ReadbackFails
  <1>7. CASE Replace \/ Restore \/ \E ids \in SUBSET Ids : ReplaceFails(ids)
    BY <1>7 DEF Replace, Restore, ReplaceFails
  <1>8. ASSUME NEW m \in ReflectIds, Reflect(m) PROVE Paths'
    BY <1>8 DEF Reflect
  <1>9. CASE Investigate
    BY <1>9 DEF Investigate, Remember, FlushHeld, FlushProcedure, FlushProcedureFails, NoteProcedure, holder
  <1>10. CASE Outside \/ UNCHANGED vars
    BY <1>10 DEF Outside, Edit, Redact, Purge, Crash, vars, holder
  <1> QED BY <1>1, <1>2, <1>3, <1>4, <1>5, <1>6, <1>7, <1>8, <1>9, <1>10 DEF Next, Operate

-----------------------------------------------------------------------------
(* What the process takes a row for.                                       *)

\* It expects version v of m, or will once it has noted its last transaction or
\* taken what it reloaded, and takes body for that version's content.
Trusts(m, v, body) ==
    \/ v = known[m] /\ body = base[m]
    \/ v > 0 /\ v \in {written[m], noted.versions[m]} /\ body = work[m]
    \/ Reloading /\ v = loaded[m].version /\ body = loaded[m].body

\* Version v of m had that content, unless m was purged since.
Seen(m, v, body) ==
    /\ v <= db[m].version \/ db[m].version = 0
    /\ v = db[m].version => body = db[m].body
    /\ v = 0 => body = Gone

Trusted ==
    ~raced => /\ ~noted.detached
              /\ \A m \in Ids, v \in Nat, body \in Body : Trusts(m, v, body) => Seen(m, v, body)

\* While nobody writes under the holder of the lock, one of the two rests.
LEMMA Alone ==
    ASSUME Pending, ~raced
    PROVE  \/ pc = "idle" /\ written = NoWrite /\ ~Reloading
           \/ pc # "idle" /\ pcP = "idle" /\ noted = NoNote
  BY Places DEF Pending, Reloading, Notes

\* What it trusts after a step it trusted before, or it is the row.
LEMMA TrustsStep ==
    ASSUME Sorts, Rows, Pending, Trusted, [Next]_vars, ~raced',
           NEW m \in Ids, NEW v \in Nat, NEW body, Trusts(m, v, body)'
    PROVE  Trusts(m, v, body) \/ (v = db'[m].version /\ body = db'[m].body)
  <1>1. ~raced /\ ~noted.detached
    BY Stays DEF Trusted
  <1>2. \/ pc = "idle" /\ written = NoWrite /\ ~Reloading
        \/ pc # "idle" /\ pcP = "idle" /\ noted = NoNote
    BY <1>1, Alone
  <1>3. NoWrite[m] = 0 /\ NoNote.versions[m] = 0
    BY DEF NoWrite, NoNote
  <1>4. CASE Sends
    <2>1. UNCHANGED <<work, known, base, loaded>> /\ (Reloading' => Reloading)
      BY <1>4, Sent DEF memory
    <2>2. \/ UNCHANGED <<written, noted>>
          \/ /\ Expected(Dirty) /\ db' = Synced(Dirty)
             /\ \/ written = NoWrite /\ written' = Versions(Dirty) /\ noted' = noted
                \/ noted = NoNote /\ written' = written /\ noted' = [NoNote EXCEPT !.versions = Versions(Dirty)]
      BY <1>4, Sent
    <2>3. CASE v > 0 /\ v \in {written'[m], noted'.versions[m]} /\ body = work[m]
      <3>1. CASE UNCHANGED <<written, noted>>
        BY <2>3, <3>1 DEF Trusts
      <3>2. CASE /\ Expected(Dirty) /\ db' = Synced(Dirty)
                 /\ v = Versions(Dirty)[m]
        <4>1. m \in Dirty
          BY <2>3, <3>2, Transaction
        <4> QED BY <2>3, <3>2, <4>1, Transaction
      <3>3. CASE Expected(Dirty) /\ db' = Synced(Dirty) /\ v # Versions(Dirty)[m] /\ ~UNCHANGED <<written, noted>>
        <4>1. NoNote \in [versions : [Ids -> Nat], detached : BOOLEAN, bodies : [Ids -> Body]]
          BY Nothing
        <4>2. \/ written'[m] = Versions(Dirty)[m] /\ noted' = noted
              \/ noted'.versions[m] = Versions(Dirty)[m] /\ written' = written
          BY <2>2, <3>3, <4>1
        <4> QED BY <2>3, <3>3, <4>2 DEF Trusts
      <3> QED BY <2>2, <3>1, <3>2, <3>3
    <2> QED BY <2>1, <2>3 DEF Trusts
  <1>5. CASE Scripts
    <2>1. UNCHANGED <<work, known, base, loaded, written, noted, pc>>
      BY <1>5 DEF Scripts, Edit, Redact, Purge, memory, holder, outside
    <2> QED BY <2>1 DEF Trusts, Reloading
  <1>6. ASSUME NEW k \in {"run", "sync", "reflect"}, Begin(k) PROVE Trusts(m, v, body)
    <2>1. UNCHANGED <<work, known, base, loaded, written, noted>> /\ ~Reloading'
      BY <1>6 DEF Begin, memory, outside, Reloading
    <2> QED BY <2>1 DEF Trusts
  <1>7. ASSUME NEW ids \in SUBSET Ids, NEW next \in {"retain", "flush", "timeline"},
               Retain(ids) \/ Consolidate(ids, next)
        PROVE  Trusts(m, v, body)
    <2>1. UNCHANGED <<known, base, loaded, written, noted>> /\ ~Reloading' /\ pc \in {"consolidate", "retain"}
      BY <1>7 DEF Retain, Consolidate, Change, outside, Reloading
    <2>2. written = NoWrite /\ noted = NoNote
      BY <1>2, <2>1, Places DEF Pending, Notes
    <2> QED BY <1>3, <2>1, <2>2 DEF Trusts
  <1>8. CASE Note
    <2>1. UNCHANGED <<work, loaded, noted>> /\ pc \in Notes /\ ~Reloading' /\ known' = NotedVersions(written)
          /\ base' = NotedBase(written, work) /\ written' = NoWrite
      BY <1>8, Places DEF Note, outside, Notes, Reloading
    <2>2. noted'.versions[m] = 0 /\ written'[m] = 0
      BY <1>2, <1>3, <2>1 DEF Notes
    <2> QED BY <2>1, <2>2, VersionTypes DEF Trusts, NotedVersions, NotedBase
  <1>9. CASE NoteProcedure
    <2>1. UNCHANGED <<work, loaded, written, pc>> /\ known' = NotedVersions(noted.versions)
          /\ base' = NotedBase(noted.versions, work) /\ noted' = NoNote
      BY <1>1, <1>9 DEF NoteProcedure, holder
    <2> QED BY <1>3, <2>1, VersionTypes DEF Trusts, NotedVersions, NotedBase, Reloading
  <1>10. CASE Reload
    <2>1. UNCHANGED <<db, work, known, base, written, noted>> /\ loaded' = db
      BY <1>10 DEF Reload, memory, outside
    <2> QED BY <2>1 DEF Trusts
  <1>11. CASE ReloadFails \/ Readback \/ ReadbackFails \/ FlushHeld \/ UNCHANGED vars
    <2>1. UNCHANGED <<work, known, base, written, noted, loaded>> /\ (Reloading' => Reloading)
      BY <1>11 DEF ReloadFails, Readback, ReadbackFails, FlushHeld, vars, memory, outside, holder, Reloading
    <2> QED BY <2>1 DEF Trusts
  <1>12. CASE Replace \/ Restore \/ \E ids \in SUBSET Ids : ReplaceFails(ids)
    <2>1. UNCHANGED <<known, base, written>> /\ pc \in {"replace", "restore"}
          /\ (Reloading' => Reloading /\ loaded' = loaded)
      BY <1>12 DEF Replace, Restore, ReplaceFails, Reloading
    <2>2. PICK ids \in SUBSET Ids, bodies \in {[q \in Ids |-> loaded[q].body], before} : Replacing(ids, bodies)
      BY <1>12 DEF Replace, Restore, ReplaceFails
    <2>3. written = NoWrite /\ noted' = NoNote
      BY <1>2, <2>1, <2>2, Places DEF Pending, Notes, Replacing
    <2> QED BY <1>3, <2>1, <2>3 DEF Trusts
  <1>13. CASE TakeVersions
    <2>1. UNCHANGED <<work, written, noted>> /\ known' = [q \in Ids |-> loaded[q].version] /\ pc = "versions"
          /\ base' = [q \in Ids |-> loaded[q].body] /\ ~Reloading'
      BY <1>13 DEF TakeVersions, outside, Reloading
    <2> QED BY <2>1 DEF Trusts, Reloading
  <1>14. ASSUME NEW q \in ReflectIds, Reflect(q) PROVE Trusts(m, v, body)
    <2>1. UNCHANGED <<known, base, loaded, written, noted>> /\ ~Reloading' /\ pc = "reflect"
      BY <1>14 DEF Reflect, outside, Reloading
    <2>2. written = NoWrite /\ noted = NoNote
      BY <1>2, <2>1, Places DEF Pending, Notes
    <2> QED BY <1>3, <2>1, <2>2 DEF Trusts
  <1>15. ASSUME NEW q \in ProcedureIds, Remember(q) PROVE Trusts(m, v, body)
    <2>1. UNCHANGED <<known, base, loaded, written, noted, pc>> /\ pc = "idle" /\ pcP = "idle"
      BY <1>15 DEF Remember, holder
    <2>2. written = NoWrite /\ noted = NoNote
      BY <1>2, <2>1 DEF Pending
    <2> QED BY <1>3, <2>1, <2>2 DEF Trusts, Reloading
  <1>16. CASE Crash
    <2>1. db' = db /\ known' = [q \in Ids |-> db[q].version] /\ base' = [q \in Ids |-> db[q].body]
          /\ written' = NoWrite /\ noted' = NoNote /\ ~Reloading'
      BY <1>16 DEF Crash, Reloading
    <2> QED BY <1>3, <2>1 DEF Trusts
  <1> QED BY <1>4, <1>5, <1>6, <1>7, <1>8, <1>9, <1>10, <1>11, <1>12, <1>13, <1>14, <1>15, <1>16
          DEF Next, Operate, Investigate, Outside, Sends, Scripts

LEMMA TrustedStep == ASSUME Inv, TypeOK, Trusted, [Next]_vars PROVE Trusted'
  <1> SUFFICES ASSUME ~raced' PROVE Trusted'
    BY DEF Trusted
  <1>1. Sorts /\ Rows /\ Pending /\ Rows' /\ Sorts'
    BY NextInv DEF Inv
  <1>2. ~raced /\ ~noted.detached
    BY Stays DEF Trusted
  <1>3. \/ pc = "idle" /\ written = NoWrite /\ ~Reloading
        \/ pc # "idle" /\ pcP = "idle" /\ noted = NoNote
    BY <1>1, <1>2, Alone
  <1>4. ~noted'.detached
    <2>1. CASE FlushProcedure
      BY <1>2, <2>1, Nothing DEF FlushProcedure, NoNote
    <2>2. CASE Replace \/ Restore \/ \E ids \in SUBSET Ids : ReplaceFails(ids)
      <3>1. pc # "idle"
        BY <2>2 DEF Replace, Restore, ReplaceFails
      <3>2. noted' = noted
        BY <1>3, <2>2, <3>1 DEF Replace, Restore, ReplaceFails, Replacing
      <3> QED BY <1>2, <3>2
    <2>3. CASE NoteProcedure \/ Crash
      BY <2>3 DEF NoteProcedure, Crash, NoNote
    <2>4. CASE ~(FlushProcedure \/ NoteProcedure \/ Crash \/ Replace \/ Restore \/ \E ids \in SUBSET Ids : ReplaceFails(ids))
      <3>1. noted' = noted
        BY <2>4 DEF Next, Operate, Investigate, Outside, Begin, Consolidate, Retain, Change, Flush, FlushFails, Note,
                    Reload, ReloadFails, TakeVersions, Reflect, Readback, ReadbackFails, Remember, FlushHeld,
                    FlushProcedureFails, Edit, Redact, Purge, vars, outside
      <3> QED BY <1>2, <3>1
    <2> QED BY <2>1, <2>2, <2>3, <2>4
  <1>5. ASSUME NEW m \in Ids, NEW v \in Nat, NEW body \in Body, Trusts(m, v, body), Trusts(m, v, body)'
        PROVE  Seen(m, v, body)'
    <2>1. Seen(m, v, body) /\ db[m].version \in Nat
      BY <1>1, <1>2, <1>5, VersionTypes DEF Trusted
    <2>2. CASE Sends
      <3>1. db' = db \/ (Expected(Dirty) /\ db' = Synced(Dirty))
        BY <2>2, SentRows
      <3>2. CASE m \notin Dirty \/ db' = db
        <4>1. db'[m] = db[m]
          BY <1>1, <3>1, <3>2, Transaction
        <4> QED BY <2>1, <4>1 DEF Seen
      <3>3. CASE m \in Dirty /\ Expected(Dirty) /\ db' = Synced(Dirty)
        <4>1. known[m] = db[m].version /\ work[m] # base[m]
          BY <3>3 DEF Dirty, Expected
        <4>2. base[m] \in Body
          BY DEF TypeOK
        <4>3. Seen(m, known[m], base[m])
          BY <1>1, <1>2, <4>2, VersionTypes DEF Trusted, Trusts
        <4>4. db'[m].version = db[m].version + 1
          BY <3>3, <4>1, <4>3 DEF Seen, Synced, Written
        <4>5. pc \in Flushing \/ pcP = "flush"
          BY <2>2 DEF Sends, Flush, FlushFails, FlushProcedure, FlushProcedureFails
        <4>6. written = NoWrite /\ noted = NoNote /\ ~Reloading
          BY <1>1, <1>3, <4>5, Places DEF Flushing, Pending, Notes, Reloading
        <4>7. v = known[m]
          BY <1>5, <4>6 DEF Trusts, NoWrite, NoNote
        <4> QED BY <2>1, <4>1, <4>4, <4>7 DEF Seen
      <3> QED BY <3>1, <3>2, <3>3
    <2>3. ASSUME NEW q \in Ids, Edit(q) \/ Redact(q) \/ Purge(q) PROVE Seen(m, v, body)'
      <3>1. \/ db'[m] = db[m]
            \/ db[m].version > 0 /\ db'[m].version = db[m].version + 1
            \/ db'[m].version = 0 /\ db'[m].body = Gone
        BY <1>1, <2>3 DEF Edit, Redact, Purge, Sorts, Records
      <3> QED BY <2>1, <3>1 DEF Seen
    <2>4. CASE ~Sends /\ ~Scripts
      BY <2>1, <2>4, Untouched DEF Seen
    <2> QED BY <2>2, <2>3, <2>4 DEF Scripts
  <1>6. ASSUME NEW m \in Ids, NEW v \in Nat, NEW body \in Body, v = db'[m].version, body = db'[m].body
        PROVE  Seen(m, v, body)'
    BY <1>1, <1>6 DEF Seen, Rows
  <1>7. ASSUME NEW m \in Ids, NEW v \in Nat, NEW body \in Body, Trusts(m, v, body)'
        PROVE  Seen(m, v, body)'
    <2>1. Trusts(m, v, body) \/ (v = db'[m].version /\ body = db'[m].body)
      BY <1>1, <1>7, TrustsStep
    <2> QED BY <1>5, <1>6, <1>7, <2>1
  <1> QED BY <1>4, <1>7 DEF Trusted

LEMMA TrustedInit == Init => Trusted
  BY DEF Init, Trusted, Trusts, Seen, NoLoad, NoWrite, NoNote, NoBefore, Reloading

\* At rest the baseline the process keeps of a record whose version is the
\* row's is the row's content, whatever operations, conflicts, lost answers,
\* scripts and deaths came before: a flush overwrites nothing it has not seen.
THEOREM Baselines == Spec => []BaselineTrue
  <1> DEFINE All == Inv /\ TypeOK /\ Trusted
  <1>1. Init => All
    BY InitInv, TypesInit, TrustedInit
  <1>2. All /\ [Next]_vars => All'
    BY NextInv, TypesStep, TrustedStep DEF Inv
  <1>3. All => BaselineTrue
    <2> SUFFICES ASSUME All, ~raced, NEW m \in Ids, known[m] = db[m].version PROVE base[m] = db[m].body
      BY DEF BaselineTrue
    <2>1. base[m] \in Body /\ known[m] \in Nat
      BY DEF TypeOK
    <2>2. Seen(m, known[m], base[m])
      BY <2>1 DEF Trusted, Trusts
    <2> QED BY <2>2 DEF Seen
  <1> QED BY <1>1, <1>2, <1>3, PTL DEF Spec

-----------------------------------------------------------------------------
(* What was committed lasts.                                               *)

Undisturbed == ~raced /\ ~torn

\* Edit k of m is in the database, or was redacted or purged.
Lasts(m, k) == In(k, db[m].body) \/ <<m, k>> \in erased

\* body has all that the baseline has, or is no record of a reflection.
Covers(m, body) ==
    \/ body # Gone /\ (\A k \in Edits : In(k, base[m]) => In(k, body))
    \/ body = Gone /\ m \in ReflectIds

\* A record that a flush may send has all that it replaces.
Above ==
    Undisturbed => \A m \in Ids :
       /\ pc = "versions" => work[m] = loaded[m].body
       /\ pc # "versions" /\ known[m] = db[m].version /\ base[m] # Gone => Covers(m, work[m])

\* What a reflection restores is what it found.
Snapped == pc \in {"readback", "restore"} \/ (kind = "reflect" /\ pc \in {"flush", "note"})

Snapshot ==
    Undisturbed /\ Snapped => \A m \in Ids : before[m] = work[m] \/ (before[m] = Gone /\ m \in ReflectIds)

\* What a transaction that has gone out did not write, is as it was.
Settled(m) == work[m] = Gone \/ work[m] = base[m]

Whole ==
    Undisturbed => \A m \in Ids :
       /\ pc \in Notes /\ written[m] = 0 => Settled(m)
       /\ pcP = "note" /\ noted.versions[m] = 0 => Settled(m)

Standing == Inv /\ TypeOK /\ Trusted /\ Paths

\* A record that is sent gets the next version: the row had the baseline.
LEMMA DirtyNext ==
    ASSUME Standing, ~raced, Expected(Dirty), NEW m \in Dirty
    PROVE  /\ m \in Ids /\ known[m] = db[m].version /\ base[m] = db[m].body /\ work[m] # Gone
           /\ Synced(Dirty)[m].version = known[m] + 1 /\ Synced(Dirty)[m].body = work[m]
           /\ Versions(Dirty)[m] = known[m] + 1
  <1>1. m \in Ids /\ known[m] = db[m].version /\ work[m] # base[m] /\ work[m] # Gone
    BY DEF Dirty, Expected
  <1>2. base[m] \in Body /\ known[m] \in Nat
    BY <1>1 DEF Standing, TypeOK
  <1>3. Seen(m, known[m], base[m])
    BY <1>1, <1>2 DEF Standing, Trusted, Trusts
  <1> QED BY <1>1, <1>3 DEF Seen, Synced, Versions, Written

\* A transaction goes out while nothing else is pending.
LEMMA Clear ==
    ASSUME Pending, ~raced, Sends
    PROVE  /\ written = NoWrite /\ noted = NoNote /\ ~Reloading
           /\ (pc \in Flushing /\ pcP = "idle") \/ (pc = "idle" /\ pcP = "flush")
  <1>1. pc \in Flushing \/ pcP = "flush"
    BY DEF Sends, Flush, FlushFails, FlushProcedure, FlushProcedureFails
  <1>2. CASE pc \in Flushing
    <2>1. pc # "idle" /\ pc \notin Notes /\ ~Reloading
      BY <1>2 DEF Flushing, Notes, Reloading
    <2>2. written = NoWrite
      BY <2>1, Places DEF Pending
    <2> QED BY <1>2, <2>1, <2>2, Alone
  <1>3. CASE pcP = "flush"
    BY <1>3, Alone DEF Pending
  <1> QED BY <1>1, <1>2, <1>3

\* A script gives a row its next version, or no version.
LEMMA Scripted ==
    ASSUME Sorts, NEW q \in Ids, Edit(q) \/ Redact(q) \/ Purge(q), NEW m \in Ids
    PROVE  /\ UNCHANGED <<memory, holder, outside, mine, mineP, doubtful, unsure, rejected, raced, torn>>
           /\ \/ db'[m] = db[m]
              \/ db[m].version > 0 /\ db'[m].version = db[m].version + 1
              \/ db'[m].version = 0 /\ db'[m].body = Gone
  BY DEF Edit, Redact, Purge, Sorts, Records

LEMMA LastsStep ==
    ASSUME Standing, Above, [Next]_vars, ~raced', ~torn', NEW m \in Ids, NEW k \in Edits, k # 0, Lasts(m, k)
    PROVE  Lasts(m, k)'
  <1>1. ~raced /\ ~torn /\ Sorts /\ Pending /\ Rows
    BY Stays DEF Standing, Inv
  <1>2. CASE Sends
    <2>1. UNCHANGED <<work, known, base, erased>>
      BY <1>1, <1>2, Sent DEF memory
    <2>2. db' = db \/ (Expected(Dirty) /\ db' = Synced(Dirty))
      BY <1>2, SentRows
    <2>3. CASE m \in Dirty /\ Expected(Dirty) /\ db' = Synced(Dirty)
      <3>1. known[m] = db[m].version /\ base[m] = db[m].body /\ work[m] # Gone /\ db'[m].body = work[m]
        BY <1>1, <2>3, DirtyNext
      <3>2. pc # "versions"
        BY <1>1, <1>2, Clear DEF Flushing
      <3>3. base[m] # Gone => Covers(m, work[m])
        BY <1>1, <3>1, <3>2 DEF Above, Undisturbed
      <3> QED BY <2>1, <3>1, <3>3 DEF Covers, Lasts, In
    <2>4. CASE db' = db \/ (m \notin Dirty /\ Expected(Dirty) /\ db' = Synced(Dirty))
      <3>1. db'[m] = db[m]
        BY <2>4 DEF Synced
      <3> QED BY <2>1, <3>1 DEF Lasts
    <2> QED BY <2>2, <2>3, <2>4
  <1>3. ASSUME NEW q \in Ids, Edit(q) PROVE Lasts(m, k)'
    <2>1. db[q].body # Gone /\ db[q].body \in SUBSET Edits
      <3>1. db[q].version > 0 /\ db[q].body \in Body
        BY <1>1, <1>3 DEF Edit, Sorts, Records
      <3> QED BY <1>1, <3>1, Numbers DEF Rows
    <2>2. db[q].body \cup {edits + 1} # Gone
      BY <1>1, <1>3, <2>1, Counted, Numbers DEF Edit, Sorts
    <2> QED BY <1>1, <1>3, <2>1, <2>2 DEF Edit, Lasts, In, Sorts, Records
  <1>4. ASSUME NEW q \in Ids, Redact(q) \/ Purge(q) PROVE Lasts(m, k)'
    <2>1. erased' = erased \cup {<<q, j>> : j \in db[q].body \ {0}}
      BY <1>4 DEF Redact, Purge
    <2>2. CASE q = m
      BY <2>1, <2>2 DEF Lasts, In
    <2>3. CASE q # m
      <3>1. db'[m] = db[m]
        BY <1>1, <1>4, <2>3 DEF Redact, Purge, Sorts, Records
      <3> QED BY <2>1, <3>1 DEF Lasts
    <2> QED BY <2>2, <2>3
  <1>5. CASE ~Sends /\ ~Scripts
    <2>1. db' = db
      BY <1>5, Untouched
    <2>2. erased' = erased
      BY <1>5 DEF Next, Operate, Investigate, Outside, Sends, Scripts, Begin, Consolidate, Retain, Change, Note, Reload,
                  ReloadFails, Replace, Restore, ReplaceFails, TakeVersions, Reflect, Readback, ReadbackFails,
                  Remember, FlushHeld, NoteProcedure, Crash, vars, history
    <2> QED BY <2>1, <2>2 DEF Lasts
  <1> QED BY <1>2, <1>3, <1>4, <1>5 DEF Scripts

LEMMA ReflectIsOwn == ASSUME NEW m \in ReflectIds PROVE m \in Ids /\ m \notin RunIds /\ m \notin ProcedureIds
  BY IdsAssumption DEF Ids

LEMMA AboveStep == ASSUME Standing, Above, Snapshot, [Next]_vars PROVE Above'
  <1> SUFFICES ASSUME ~raced', ~torn', NEW m \in Ids
               PROVE  /\ pc' = "versions" => work'[m] = loaded'[m].body
                      /\ pc' # "versions" /\ known'[m] = db'[m].version /\ base'[m] # Gone => Covers(m, work[m])'
    BY DEF Above, Undisturbed
  <1>1. ~raced /\ ~torn /\ Sorts /\ Pending /\ Rows /\ TypeOK
    BY Stays DEF Standing, Inv
  <1>2. /\ pc = "versions" => work[m] = loaded[m].body
        /\ pc # "versions" /\ known[m] = db[m].version /\ base[m] # Gone => Covers(m, work[m])
    BY <1>1 DEF Above, Undisturbed
  <1>3. Seen(m, known[m], base[m]) /\ known[m] \in Nat /\ db[m].version \in Nat
    <2>1. base[m] \in Body /\ known[m] \in Nat
      BY <1>1 DEF TypeOK
    <2> QED BY <1>1, <2>1, VersionTypes DEF Standing, Trusted, Trusts
  <1>4. CASE Sends
    <2>1. UNCHANGED <<work, known, base, loaded>> /\ (pc' = "versions" => pc = "versions") /\ ~Reloading
      BY <1>1, <1>4, Sent, Clear DEF memory
    <2>2. db' = db \/ (Expected(Dirty) /\ db' = Synced(Dirty))
      BY <1>4, SentRows
    <2>3. CASE m \in Dirty /\ Expected(Dirty) /\ db' = Synced(Dirty)
      <3>1. db'[m].version = known[m] + 1
        BY <1>1, <2>3, DirtyNext
      <3> QED BY <1>3, <2>1, <3>1 DEF Reloading
    <2>4. CASE db' = db \/ (m \notin Dirty /\ Expected(Dirty) /\ db' = Synced(Dirty))
      <3>1. db'[m] = db[m]
        BY <2>4 DEF Synced
      <3> QED BY <1>2, <2>1, <3>1 DEF Covers, Reloading
    <2> QED BY <2>2, <2>3, <2>4
  <1>5. ASSUME NEW q \in Ids, Edit(q) \/ Redact(q) \/ Purge(q)
        PROVE  /\ pc' = "versions" => work'[m] = loaded'[m].body
               /\ pc' # "versions" /\ known'[m] = db'[m].version /\ base'[m] # Gone => Covers(m, work[m])'
    <2>1. UNCHANGED <<work, known, base, loaded, pc>>
      BY <1>1, <1>5, Scripted DEF memory, holder
    <2>2. \/ db'[m] = db[m]
          \/ db[m].version > 0 /\ db'[m].version = db[m].version + 1
          \/ db'[m].version = 0 /\ db'[m].body = Gone
      BY <1>1, <1>5, Scripted
    <2>3. known[m] = db'[m].version /\ base[m] # Gone => db'[m] = db[m]
      BY <1>3, <2>2 DEF Seen
    <2> QED BY <1>2, <2>1, <2>3 DEF Covers
  <1>6. CASE Note \/ NoteProcedure
    <2>1. db' = db /\ work' = work /\ pc' # "versions" /\ pc # "versions"
      <3>1. CASE Note
        BY <3>1, Places DEF Note, Notes
      <3>2. CASE NoteProcedure
        <4>1. pc = "idle"
          BY <1>1, <3>2, Alone DEF NoteProcedure
        <4> QED BY <3>2, <4>1 DEF NoteProcedure, holder
      <3> QED BY <1>6, <3>1, <3>2
    <2>2. \/ known'[m] = known[m] /\ base'[m] = base[m]
          \/ base'[m] = work[m]
      <3>1. CASE Note
        BY <3>1 DEF Note, NotedVersions, NotedBase
      <3>2. CASE NoteProcedure
        <4>1. ~noted.detached
          BY <1>1 DEF Standing, Trusted
        <4> QED BY <3>2, <4>1 DEF NoteProcedure, NotedVersions, NotedBase
      <3> QED BY <1>6, <3>1, <3>2
    <2> QED BY <1>2, <2>1, <2>2 DEF Covers
  <1>7. ASSUME NEW k \in Edits, work'[m] = With(m, k), pc # "versions", pc' # "versions",
               UNCHANGED <<db, known, base>>, m \notin ReflectIds \/ work[m] # Gone
        PROVE  known'[m] = db'[m].version /\ base'[m] # Gone => Covers(m, work[m])'
    <2>1. \A j : In(j, work[m]) => In(j, work'[m])
      BY <1>1, <1>7, InWith
    <2>2. work'[m] # Gone
      BY <1>1, <1>7, WithType
    <2> QED BY <1>2, <1>7, <2>1, <2>2 DEF Covers, In
  <1>8. ASSUME NEW ids \in SUBSET Ids, NEW next \in {"retain", "flush", "timeline"},
               Retain(ids) \/ Consolidate(ids, next)
        PROVE  pc' # "versions" /\ (known'[m] = db'[m].version /\ base'[m] # Gone => Covers(m, work[m])')
    <2>1. UNCHANGED <<db, known, base>> /\ pc # "versions" /\ pc' # "versions"
      BY <1>8 DEF Retain, Consolidate, Change
    <2>2. \A q \in ids : q \in RunIds \/ work[q] # Gone
      BY <1>8 DEF Retain, Consolidate, Change
    <2>3. work' = [q \in Ids |-> IF q \in ids THEN With(q, edit) ELSE work[q]]
      BY <1>8 DEF Retain, Consolidate, Change
    <2>4. edit \in Edits
      BY <1>1 DEF Sorts
    <2>5. CASE m \in ids
      BY <1>7, <2>1, <2>2, <2>3, <2>4, <2>5, ReflectIsOwn
    <2>6. CASE m \notin ids
      BY <1>2, <2>1, <2>3, <2>6 DEF Covers
    <2> QED BY <2>1, <2>5, <2>6
  <1>9. ASSUME NEW q \in ProcedureIds, Remember(q)
        PROVE  pc' # "versions" /\ (known'[m] = db'[m].version /\ base'[m] # Gone => Covers(m, work[m])')
    <2>1. UNCHANGED <<db, known, base>> /\ pc = "idle" /\ pc' = "idle"
      BY <1>9 DEF Remember, holder
    <2>2. work' = [work EXCEPT ![q] = With(q, edits + 1)] /\ edits + 1 \in Edits
      BY <1>1, <1>9, Counted DEF Remember, Sorts
    <2>3. CASE m = q
      <3>1. work'[m] = With(m, edits + 1)
        BY <1>1, <2>2, <2>3 DEF Sorts
      <3> QED BY <1>7, <2>1, <2>2, <2>3, <3>1, ReflectIsOwn
    <2>4. CASE m # q
      <3>1. work'[m] = work[m]
        BY <2>2, <2>4
      <3> QED BY <1>2, <2>1, <3>1 DEF Covers
    <2> QED BY <2>1, <2>3, <2>4
  <1>10. ASSUME NEW q \in ReflectIds, Reflect(q)
         PROVE  pc' # "versions" /\ (known'[m] = db'[m].version /\ base'[m] # Gone => Covers(m, work[m])')
    <2>1. UNCHANGED <<db, known, base>> /\ pc # "versions" /\ pc' # "versions"
      BY <1>10 DEF Reflect
    <2>2. work'[m] = work[m] \/ (m = q /\ db[m].version = 0)
      BY <1>1, <1>10 DEF Reflect, Sorts
    <2>3. CASE db[m].version = 0
      BY <1>3, <2>1, <2>3 DEF Seen
    <2>4. CASE work'[m] = work[m]
      BY <1>2, <2>1, <2>4 DEF Covers
    <2> QED BY <2>1, <2>2, <2>3, <2>4
  <1>11. CASE Replace
    BY <1>11 DEF Replace, Replacing
  <1>12. CASE Restore
    <2>1. UNCHANGED <<db, known, base>> /\ pc = "restore" /\ pc' = "idle" /\ work'[m] = before[m]
      BY <1>12 DEF Restore, Replacing
    <2>2. before[m] = work[m] \/ (before[m] = Gone /\ m \in ReflectIds)
      BY <1>1, <2>1 DEF Snapshot, Snapped, Undisturbed
    <2> QED BY <1>2, <2>1, <2>2 DEF Covers
  <1>13. CASE TakeVersions
    <2>1. pc = "versions" /\ pc' = "idle" /\ work' = work /\ base'[m] = loaded[m].body
      BY <1>13 DEF TakeVersions
    <2> QED BY <1>2, <2>1 DEF Covers
  <1>14. CASE Crash
    BY <1>14 DEF Crash, Covers
  <1>15. CASE (\E k \in {"run", "sync", "reflect"} : Begin(k)) \/ Reload \/ ReloadFails \/ Readback
                 \/ ReadbackFails \/ FlushHeld \/ UNCHANGED vars
    <2>1. UNCHANGED <<db, work, known, base>>
      BY <1>15 DEF Begin, Reload, ReloadFails, Readback, ReadbackFails, FlushHeld, vars, memory
    <2>2. \/ pc # "versions" /\ pc' # "versions"
          \/ pc' = pc /\ loaded' = loaded
      BY <1>15 DEF Begin, Reload, ReloadFails, Readback, ReadbackFails, FlushHeld, vars, holder
    <2> QED BY <1>2, <2>1, <2>2 DEF Covers
  <1>16. ASSUME NEW ids \in SUBSET Ids, ReplaceFails(ids) PROVE FALSE
    BY <1>16 DEF ReplaceFails
  <1> QED BY <1>4, <1>5, <1>6, <1>8, <1>9, <1>10, <1>11, <1>12, <1>13, <1>14, <1>15, <1>16
          DEF Next, Operate, Investigate, Outside, Sends

LEMMA SnapshotStep == ASSUME Standing, Snapshot, [Next]_vars PROVE Snapshot'
  <1> SUFFICES ASSUME ~raced', ~torn', Snapped', NEW m \in Ids
               PROVE  before'[m] = work'[m] \/ (before'[m] = Gone /\ m \in ReflectIds)
    BY DEF Snapshot, Undisturbed
  <1>1. ~raced /\ ~torn /\ Pending /\ Paths
    BY Stays DEF Standing, Inv
  <1>2. Snapped => before[m] = work[m] \/ (before[m] = Gone /\ m \in ReflectIds)
    BY <1>1 DEF Snapshot, Undisturbed
  <1>3. CASE Flush \/ \E effect \in BOOLEAN : FlushFails(effect)
    <2>1. UNCHANGED <<work, before, kind>> /\ pc \in Flushing /\ pc' \in {Failure, Noting(pc)}
      BY <1>3 DEF Flush, FlushFails, memory
    <2>2. CASE pc' = Failure
      BY <1>1, <1>2, <2>1, <2>2 DEF Failure, Snapped, Paths, Flushing
    <2>3. CASE pc' = Noting(pc)
      BY <1>1, <1>2, <2>1, <2>3 DEF Noting, Snapped, Paths, Flushing
    <2> QED BY <2>1, <2>2, <2>3
  <1>4. CASE Note
    <2>1. UNCHANGED <<work, before, kind>> /\ pc \in Notes
      BY <1>4, Places DEF Note
    <2>2. CASE pc = "note"
      BY <1>1, <1>2, <1>4, <2>1, <2>2 DEF Note, Snapped, Paths
    <2>3. CASE pc # "note"
      <3>1. pc' \in {"retain", "idle", "reload"}
        BY <1>4, <2>1, <2>3 DEF Note, Notes
      <3> QED BY <3>1 DEF Snapped
    <2> QED BY <2>2, <2>3
  <1>5. CASE Readback \/ ReadbackFails
    BY <1>2, <1>5 DEF Readback, ReadbackFails, memory, Snapped
  <1>6. ASSUME NEW q \in ReflectIds, Reflect(q)
        PROVE  before'[m] = work'[m] \/ (before'[m] = Gone /\ m \in ReflectIds)
    <2>1. before' = work /\ work' \in {work, [work EXCEPT ![q] = {edit}]} /\ (work' = work \/ work[q] = Gone)
      BY <1>6 DEF Reflect, Snapped
    <2>2. work \in [Ids -> Body]
      BY DEF Standing, TypeOK
    <2> QED BY <2>1, <2>2
  <1>7. ASSUME NEW ids \in SUBSET Ids, NEW next \in {"retain", "flush", "timeline"}, Consolidate(ids, next)
        PROVE  FALSE
    BY <1>1, <1>7 DEF Consolidate, Change, Snapped, Paths
  <1>8. CASE FlushHeld \/ FlushProcedure \/ NoteProcedure \/ \E effect \in BOOLEAN : FlushProcedureFails(effect)
    BY <1>2, <1>8 DEF FlushHeld, FlushProcedure, NoteProcedure, FlushProcedureFails, memory, holder, Snapped
  <1>9. ASSUME NEW q \in ProcedureIds, Remember(q) PROVE FALSE
    BY <1>9 DEF Remember, holder, Snapped
  <1>10. CASE Outside \/ UNCHANGED vars
    BY <1>2, <1>10 DEF Outside, Edit, Redact, Purge, Crash, vars, memory, holder, Snapped
  <1>11. CASE (\E k \in {"run", "sync", "reflect"} : Begin(k)) \/ (\E ids \in SUBSET Ids : Retain(ids))
                 \/ Reload \/ ReloadFails \/ Replace \/ Restore \/ (\E ids \in SUBSET Ids : ReplaceFails(ids)) \/ TakeVersions
    <2>1. pc' \in {"consolidate", "reflect", "last", "replace", "idle", "versions"}
      BY <1>11 DEF Begin, Retain, Reload, ReloadFails, Replace, Restore, ReplaceFails, TakeVersions
    <2> QED BY <2>1 DEF Snapped
  <1> QED BY <1>3, <1>4, <1>5, <1>6, <1>7, <1>8, <1>9, <1>10, <1>11 DEF Next, Operate, Investigate

LEMMA WholeStep == ASSUME Standing, Whole, [Next]_vars PROVE Whole'
  <1> SUFFICES ASSUME ~raced', ~torn', NEW m \in Ids
               PROVE  /\ pc' \in Notes /\ written'[m] = 0 => Settled(m)'
                      /\ pcP' = "note" /\ noted'.versions[m] = 0 => Settled(m)'
    BY DEF Whole, Undisturbed
  <1>1. ~raced /\ ~torn /\ Sorts /\ Rows /\ Pending
    BY Stays DEF Standing, Inv
  <1>2. /\ pc \in Notes /\ written[m] = 0 => Settled(m)
        /\ pcP = "note" /\ noted.versions[m] = 0 => Settled(m)
    BY <1>1 DEF Whole, Undisturbed
  <1>3. Expected(Dirty) /\ Versions(Dirty)[m] = 0 => Settled(m)
    <2>1. ASSUME Expected(Dirty), Versions(Dirty)[m] = 0 PROVE m \notin Dirty
      BY <1>1, <2>1, Transaction
    <2> QED BY <2>1 DEF Dirty, Settled
  <1>4. CASE Flush
    <2>1. UNCHANGED <<work, base, noted, pcP>> /\ pcP # "note"
      BY <1>1, <1>4, Clear DEF Flush, memory, outside, Sends
    <2>2. CASE Expected(Dirty)
      BY <1>3, <1>4, <2>1, <2>2 DEF Flush, Settled
    <2>3. CASE ~Expected(Dirty)
      <3>1. pc' = Failure
        BY <1>4, <2>3 DEF Flush
      <3> QED BY <2>1, <3>1 DEF Failure, Notes
    <2> QED BY <2>2, <2>3
  <1>5. ASSUME NEW effect \in BOOLEAN, FlushFails(effect)
        PROVE  pc' \notin Notes /\ pcP' # "note"
    <2>1. pcP # "note" /\ pcP' = pcP /\ pc' = Failure
      BY <1>1, <1>5, Clear DEF FlushFails, outside, Sends
    <2> QED BY <2>1 DEF Failure, Notes
  <1>6. CASE FlushProcedure
    <2>1. UNCHANGED <<work, base, pc>> /\ pc \notin Notes
      BY <1>1, <1>6, Clear DEF FlushProcedure, memory, holder, Sends, Notes, Flushing
    <2>2. CASE Expected(Dirty)
      <3>1. noted'.versions = Versions(Dirty)
        BY <1>6, <2>2, Nothing DEF FlushProcedure
      <3> QED BY <1>3, <2>1, <2>2, <3>1 DEF Settled
    <2>3. CASE ~Expected(Dirty)
      BY <1>6, <2>1, <2>3 DEF FlushProcedure
    <2> QED BY <2>2, <2>3
  <1>7. ASSUME NEW effect \in BOOLEAN, FlushProcedureFails(effect)
        PROVE  pc' \notin Notes /\ pcP' # "note"
    BY <1>1, <1>7, Clear DEF FlushProcedureFails, holder, Sends, Notes, Flushing
  <1>8. CASE Scripts
    BY <1>1, <1>2, <1>8 DEF Scripts, Edit, Redact, Purge, memory, holder, outside, Settled
  <1>9. CASE Note \/ NoteProcedure \/ Crash
    <2>1. CASE Note
      <3>1. pc \in Notes
        BY <2>1, Places DEF Note
      <3>2. pc' \in {"timeline", "readback", "retain", "idle", "reload"} /\ pcP' = pcP /\ pcP # "note"
        BY <1>1, <2>1, <3>1, Alone DEF Note, Notes, outside
      <3> QED BY <3>2 DEF Notes
    <2>2. CASE NoteProcedure
      BY <1>1, <2>2, Alone DEF NoteProcedure, holder, Notes
    <2>3. CASE Crash
      BY <2>3 DEF Crash, Notes
    <2> QED BY <1>9, <2>1, <2>2, <2>3
  <1>10. CASE FlushHeld \/ UNCHANGED vars
    BY <1>2, <1>10 DEF FlushHeld, vars, memory, holder, outside, Settled
  <1>11. ASSUME NEW q \in ProcedureIds, Remember(q) PROVE pc' \notin Notes /\ pcP' # "note"
    BY <1>11 DEF Remember, holder, Notes
  <1>12. ASSUME NEW k \in {"run", "sync", "reflect"}, Begin(k) PROVE pc' \notin Notes /\ pcP' # "note"
    BY <1>12 DEF Begin, outside, Notes
  <1>13. CASE \/ \E ids \in SUBSET Ids, next \in {"retain", "flush", "timeline"} : Consolidate(ids, next)
              \/ \E ids \in SUBSET Ids : Retain(ids) \/ ReplaceFails(ids)
              \/ Reload \/ ReloadFails \/ Replace \/ Restore \/ TakeVersions \/ Readback \/ ReadbackFails
              \/ \E q \in ReflectIds : Reflect(q)
    <2>1. pc # "idle" /\ pcP' = pcP /\ pc' \notin Notes
      BY <1>13 DEF Consolidate, Retain, Change, ReplaceFails, Reload, ReloadFails, Replace, Restore, TakeVersions,
                   Readback, ReadbackFails, Reflect, outside, Notes
    <2> QED BY <1>1, <2>1, Alone
  <1> QED BY <1>4, <1>5, <1>6, <1>7, <1>8, <1>9, <1>10, <1>11, <1>12, <1>13
          DEF Next, Operate, Investigate, Outside, Scripts

-----------------------------------------------------------------------------
(* Whose edits they are.                                                   *)

\* Stages with all edits of the operation in the working set.
Carrying == {"consolidate", "flush", "note", "timeline", "notetimeline", "retain", "last", "notelast"}

Carried ==
    Undisturbed =>
       /\ pc \in Carrying => \A w \in mine : In(w[2], work[w[1]])
       /\ pc = "readback" => \A w \in mine : In(w[2], base[w[1]])
       /\ pcP # "idle" => \A w \in mineP : In(w[2], work[w[1]])

Marks ==
    /\ \A w \in mine \cup mineP \cup acknowledged \cup rejected : w[2] \in 1 .. edits
    /\ pc # "idle" => edit > 0 /\ \A w \in mine : w[2] = edit
    /\ pc \in {"reflect", "pending", "notepending"} => mine = {}
    /\ kind = "reflect" => \A v, w \in mine : v = w

LEMMA MarkedPairs == ASSUME NEW s \in Marked, NEW w \in s PROVE w[1] \in Ids /\ w[2] \in Edits /\ w = <<w[1], w[2]>>
  BY DEF Marked

LEMMA CarriedStep == ASSUME Standing, Whole, Carried, [Next]_vars PROVE Carried'
  <1> SUFFICES ASSUME ~raced', ~torn'
               PROVE  /\ pc' \in Carrying => \A w \in mine' : In(w[2], work'[w[1]])
                      /\ pc' = "readback" => \A w \in mine' : In(w[2], base'[w[1]])
                      /\ pcP' # "idle" => \A w \in mineP' : In(w[2], work'[w[1]])
    BY DEF Carried, Undisturbed
  <1>1. ~raced /\ ~torn /\ Sorts /\ Rows /\ Pending /\ TypeOK /\ Paths
    BY Stays DEF Standing, Inv
  <1>2. /\ pc \in Carrying => \A w \in mine : In(w[2], work[w[1]])
        /\ pc = "readback" => \A w \in mine : In(w[2], base[w[1]])
        /\ pcP # "idle" => \A w \in mineP : In(w[2], work[w[1]])
    BY <1>1 DEF Carried, Undisturbed
  <1>3. pc # "idle" => pcP = "idle"
    BY <1>1, Alone
  <1>4. ASSUME NEW k \in {"run", "sync", "reflect"}, Begin(k)
        PROVE  mine' = {} /\ pcP' = "idle"
    BY <1>1, <1>4 DEF Begin, outside, TypeOK
  <1>5. ASSUME NEW ids \in SUBSET Ids, NEW next \in {"retain", "flush", "timeline"},
               Retain(ids) \/ Consolidate(ids, next)
        PROVE  /\ \A w \in mine' : In(w[2], work'[w[1]])
               /\ pc' # "readback" /\ pcP' = "idle"
    <2>1. /\ pc \in {"consolidate", "retain"} /\ pc' # "readback" /\ pcP' = pcP
          /\ work' = [m \in Ids |-> IF m \in ids THEN With(m, edit) ELSE work[m]]
          /\ mine' = mine \cup {<<m, edit>> : m \in ids}
      BY <1>5 DEF Retain, Consolidate, Change, outside
    <2>2. edit \in Edits
      BY <1>1 DEF Sorts
    <2>3. \A m \in Ids, j \in Edits : In(j, work[m]) \/ (m \in ids /\ j = edit) => In(j, work'[m])
      BY <1>1, <2>1, <2>2, InWith
    <2>4. ASSUME NEW w \in mine' PROVE In(w[2], work'[w[1]])
      <3>1. CASE w \in mine
        <4>1. w[1] \in Ids /\ w[2] \in Edits
          BY <1>1, <3>1, MarkedPairs DEF TypeOK
        <4> QED BY <1>2, <2>1, <2>3, <3>1, <4>1 DEF Carrying
      <3>2. CASE w \in {<<m, edit>> : m \in ids}
        BY <2>2, <2>3, <3>2
      <3> QED BY <2>1, <3>1, <3>2
    <2> QED BY <1>3, <2>1, <2>4
  <1>6. CASE Flush \/ \E effect \in BOOLEAN : FlushFails(effect)
    <2>1. UNCHANGED <<work, base, mine, pcP>> /\ pc \in Flushing /\ pc' \in {Failure, Noting(pc)}
      BY <1>6 DEF Flush, FlushFails, memory, outside, history
    <2>2. pc' # "readback" /\ (pc' \in Carrying => pc \in Carrying)
      BY <2>1 DEF Failure, Noting, Flushing, Carrying
    <2>3. pcP' = "idle"
      BY <1>3, <2>1 DEF Flushing
    <2> QED BY <1>2, <2>1, <2>2, <2>3
  <1>7. CASE Note
    <2>1. /\ UNCHANGED <<work, mine, pcP>> /\ pc \in Notes /\ base' = NotedBase(written, work)
      BY <1>7, Places DEF Note, outside
    <2>2. pc' \in Carrying => pc \in Carrying
      BY <1>7, <2>1 DEF Note, Notes, Carrying
    <2>3. ASSUME pc' = "readback", NEW w \in mine PROVE In(w[2], base'[w[1]])
      <3>1. pc = "note" /\ w[1] \in Ids
        BY <1>1, <1>7, <2>1, <2>3, MarkedPairs DEF Note, Notes, TypeOK
      <3>2. In(w[2], work[w[1]])
        BY <1>2, <3>1 DEF Carrying
      <3>3. written[w[1]] = 0 => base[w[1]] = work[w[1]]
        BY <1>1, <3>1, <3>2 DEF Whole, Undisturbed, Settled, Notes, In
      <3>4. written[w[1]] \in Nat
        BY <1>1, <3>1 DEF Sorts
      <3> QED BY <2>1, <3>1, <3>2, <3>3, <3>4 DEF NotedBase
    <2>4. pcP' = "idle"
      BY <1>3, <2>1 DEF Notes
    <2> QED BY <1>2, <2>1, <2>2, <2>3, <2>4
  <1>8. ASSUME NEW m \in ReflectIds, Reflect(m)
        PROVE  pc' \in Carrying => \A w \in mine' : In(w[2], work'[w[1]])
    <2>1. ASSUME pc' \in Carrying PROVE work' = [work EXCEPT ![m] = {edit}] /\ mine' = {<<m, edit>>}
      BY <1>8, <2>1 DEF Reflect, Carrying
    <2>2. m \in Ids /\ {edit} # Gone
      BY <1>1, Numbers DEF Ids, Sorts
    <2> QED BY <1>1, <2>1, <2>2 DEF In, Sorts
  <1>9. ASSUME NEW m \in ProcedureIds, Remember(m)
        PROVE  pc' = "idle" /\ \A w \in mineP' : In(w[2], work'[w[1]])
    <2>1. pc' = "idle"
      BY <1>1, <1>9 DEF Remember, holder
    <2>2. work' = [work EXCEPT ![m] = With(m, edits + 1)] /\ mineP' = {<<m, edits + 1>>} /\ m \in Ids
          /\ edits + 1 \in Edits
      BY <1>1, <1>9, Counted DEF Remember, Ids, Sorts
    <2>3. In(edits + 1, work'[m])
      BY <1>1, <2>2, InWith DEF Sorts
    <2> QED BY <2>1, <2>2, <2>3
  <1>10. CASE FlushHeld \/ FlushProcedure \/ \E effect \in BOOLEAN : FlushProcedureFails(effect)
    <2>1. UNCHANGED <<pc, work, base, mine, mineP>> /\ (pcP' # "idle" => pcP # "idle")
      BY <1>10 DEF FlushHeld, FlushProcedure, FlushProcedureFails, memory, holder, history
    <2> QED BY <1>2, <2>1
  <1>11. CASE NoteProcedure
    <2>1. pc' = "idle" /\ pcP' = "idle"
      BY <1>1, <1>11, Alone DEF NoteProcedure, holder
    <2> QED BY <2>1 DEF Carrying
  <1>12. ASSUME NEW q \in Ids, Edit(q) \/ Redact(q) \/ Purge(q)
         PROVE  UNCHANGED <<pc, pcP, work, base, mine, mineP>>
    BY <1>12 DEF Edit, Redact, Purge, memory, holder, outside
  <1>13. CASE \/ \E ids \in SUBSET Ids : ReplaceFails(ids)
              \/ Reload \/ ReloadFails \/ Replace \/ Restore \/ TakeVersions \/ Readback \/ ReadbackFails
    <2>1. pc # "idle" /\ pcP' = pcP /\ pc' \notin Carrying /\ pc' # "readback"
      BY <1>13 DEF ReplaceFails, Reload, ReloadFails, Replace, Restore, TakeVersions, Readback, ReadbackFails,
                   outside, Carrying
    <2> QED BY <1>3, <2>1
  <1>14. ASSUME NEW m \in ReflectIds, Reflect(m) PROVE pc' # "readback" /\ pcP' = "idle"
    BY <1>3, <1>14 DEF Reflect, outside
  <1>15. CASE Crash
    BY <1>15 DEF Crash, Carrying
  <1>16. CASE UNCHANGED vars
    BY <1>2, <1>16 DEF vars, memory, holder, outside, history
  <1> QED BY <1>2, <1>4, <1>5, <1>6, <1>7, <1>8, <1>9, <1>10, <1>11, <1>12, <1>13, <1>14, <1>15, <1>16
          DEF Next, Operate, Investigate, Outside, Carrying

LEMMA MarksStep == ASSUME Standing, Marks, [Next]_vars PROVE Marks'
  <1>1. Sorts /\ Pending /\ TypeOK /\ Paths /\ Fresh
    BY DEF Standing, Inv
  <1>2. edits \in Int /\ edit \in Int /\ edits >= 0
    BY <1>1 DEF Sorts, Edits
  <1> USE DEF Marks
  <1>3. ASSUME UNCHANGED <<mine, mineP, rejected, edits, edit, kind>>,
               acknowledged' \subseteq acknowledged \cup mine \cup mineP,
               pc' # "idle" => pc # "idle",
               pc' \in {"reflect", "pending", "notepending"} => pc \in {"reflect", "pending", "notepending"}
        PROVE  Marks'
    BY <1>3
  <1>4. ASSUME NEW k \in {"run", "sync", "reflect"}, Begin(k) PROVE Marks'
    BY <1>2, <1>4 DEF Begin
  <1>5. ASSUME NEW ids \in SUBSET Ids, NEW next \in {"retain", "flush", "timeline"},
               Retain(ids) \/ Consolidate(ids, next)
        PROVE  Marks'
    <2>1. /\ UNCHANGED <<mineP, acknowledged, rejected, edits, edit, kind>>
          /\ mine' = mine \cup {<<m, edit>> : m \in ids}
          /\ pc \in {"consolidate", "retain"} /\ pc' \in {"flush", "timeline", "retain", "last"}
      BY <1>5 DEF Retain, Consolidate, Change, bounds
    <2>2. kind # "reflect" /\ edit \in 1 .. edits
      BY <1>1, <1>2, <2>1 DEF Paths, Fresh
    <2> QED BY <2>1, <2>2
  <1>6. CASE Flush \/ \E effect \in BOOLEAN : FlushFails(effect)
    <2>1. /\ UNCHANGED <<mine, mineP, acknowledged, rejected, edits, edit, kind>>
          /\ pc \in Flushing /\ pc' \in {Failure, Noting(pc)}
      BY <1>6 DEF Flush, FlushFails, outside, bounds, history
    <2>2. pc' \in {"reflect", "pending", "notepending"} => pc = "pending"
      BY <2>1 DEF Failure, Noting, Flushing
    <2> QED BY <1>3, <2>1, <2>2 DEF Flushing
  <1>7. CASE Note
    <2>1. /\ UNCHANGED <<mine, mineP, rejected, edits, edit, kind>> /\ pc \in Notes
          /\ acknowledged' \subseteq acknowledged \cup mine
      BY <1>7, Places DEF Note, bounds
    <2>2. pc' \in {"timeline", "readback", "retain", "idle", "reload"}
      BY <1>7, <2>1 DEF Note, Notes
    <2> QED BY <1>3, <2>1, <2>2 DEF Notes
  <1>8. CASE Reload \/ ReloadFails \/ Replace \/ Readback \/ ReadbackFails
    <2>1. /\ UNCHANGED <<mine, mineP, rejected, edits, edit, kind>>
          /\ acknowledged' \subseteq acknowledged \cup mine
          /\ pc # "idle" /\ pc' \in {"idle", "replace", "versions", "restore"}
      BY <1>8 DEF Reload, ReloadFails, Replace, Readback, ReadbackFails, bounds, history
    <2> QED BY <1>3, <2>1
  <1>9. CASE Restore \/ TakeVersions \/ \E ids \in SUBSET Ids : ReplaceFails(ids)
    <2>1. /\ UNCHANGED <<mine, mineP, acknowledged, edits, edit, kind>> /\ pc' = "idle"
          /\ rejected' \subseteq rejected \cup mine
      BY <1>9 DEF Restore, TakeVersions, ReplaceFails, bounds
    <2> QED BY <2>1
  <1>10. ASSUME NEW m \in ReflectIds, Reflect(m) PROVE Marks'
    <2>1. /\ UNCHANGED <<mineP, acknowledged, rejected, edits, edit, kind>> /\ pc = "reflect"
          /\ \/ mine' = mine
             \/ mine' = {<<m, edit>>} /\ pc' = "flush"
      BY <1>10 DEF Reflect, bounds
    <2>2. edit \in 1 .. edits /\ mine = {}
      BY <1>1, <1>2, <2>1 DEF Fresh
    <2> QED BY <2>1, <2>2
  <1>11. ASSUME NEW m \in ProcedureIds, Remember(m) PROVE Marks'
    BY <1>2, <1>11 DEF Remember, holder
  <1>12. CASE FlushHeld \/ FlushProcedure \/ NoteProcedure \/ \E effect \in BOOLEAN : FlushProcedureFails(effect)
    <2>1. /\ UNCHANGED <<mine, mineP, rejected, edits, edit, kind, pc>>
          /\ acknowledged' \subseteq acknowledged \cup mineP
      BY <1>12 DEF FlushHeld, FlushProcedure, NoteProcedure, FlushProcedureFails, holder, bounds, history
    <2> QED BY <1>3, <2>1
  <1>13. ASSUME NEW m \in Ids, Edit(m) PROVE Marks'
    <2>1. /\ UNCHANGED <<mine, mineP, rejected, edit, kind, pc>> /\ edits' = edits + 1
          /\ acknowledged' = acknowledged \cup {<<m, edits + 1>>}
      BY <1>13 DEF Edit, holder
    <2> QED BY <1>2, <2>1
  <1>14. ASSUME NEW m \in Ids, Redact(m) \/ Purge(m) PROVE Marks'
    BY <1>3, <1>14 DEF Redact, Purge, holder
  <1>15. CASE Crash
    BY <1>15 DEF Crash
  <1>16. CASE UNCHANGED vars
    BY <1>3, <1>16 DEF vars, holder, bounds, history
  <1> QED BY <1>4, <1>5, <1>6, <1>7, <1>8, <1>9, <1>10, <1>11, <1>12, <1>13, <1>14, <1>15, <1>16
          DEF Next, Operate, Investigate, Outside

-----------------------------------------------------------------------------
\* What the process takes for the content of a row, and what was acknowledged,
\* lasts.
Lasting ==
    Undisturbed => \A m \in Ids, k \in Edits : k # 0 =>
       /\ \A v \in Nat, body \in Body : Trusts(m, v, body) /\ In(k, body) => Lasts(m, k)
       /\ <<m, k>> \in acknowledged => Lasts(m, k)

LEMMA AcknowledgedStep ==
    ASSUME Standing, Whole, Carried, Marks, Lasting, [Next]_vars, ~raced', ~torn',
           NEW m \in Ids, NEW k \in Edits, k # 0, <<m, k>> \in acknowledged'
    PROVE  Lasts(m, k) \/ Lasts(m, k)'
  <1>1. ~raced /\ ~torn /\ Sorts /\ Rows /\ Pending /\ TypeOK
    BY Stays DEF Standing, Inv
  <1>2. known[m] \in Nat /\ base[m] \in Body /\ work[m] \in Body /\ written[m] \in Nat /\ noted.versions[m] \in Nat
    BY <1>1 DEF TypeOK
  <1>3. /\ In(k, base[m]) => Lasts(m, k)
        /\ written[m] > 0 \/ noted.versions[m] > 0 => (In(k, work[m]) => Lasts(m, k))
        /\ <<m, k>> \in acknowledged => Lasts(m, k)
    BY <1>1, <1>2 DEF Lasting, Undisturbed, Trusts
  <1>4. CASE Note
    <2>1. CASE pc = "notelast"
      <3>1. <<m, k>> \in acknowledged \cup mine
        BY <1>4, <2>1 DEF Note
      <3>2. ASSUME <<m, k>> \in mine PROVE Lasts(m, k)
        <4>1. In(k, work[m])
          BY <1>1, <2>1, <3>2 DEF Carried, Carrying, Undisturbed
        <4>2. written[m] = 0 => base[m] = work[m]
          BY <1>1, <2>1, <4>1 DEF Whole, Undisturbed, Settled, Notes, In
        <4> QED BY <1>2, <1>3, <4>1, <4>2
      <3> QED BY <1>3, <3>1, <3>2
    <2>2. CASE pc # "notelast"
      BY <1>3, <1>4, <2>2 DEF Note
    <2> QED BY <2>1, <2>2
  <1>5. CASE NoteProcedure
    <2>1. <<m, k>> \in acknowledged \cup mineP /\ pcP = "note"
      BY <1>5 DEF NoteProcedure
    <2>2. ASSUME <<m, k>> \in mineP PROVE Lasts(m, k)
      <3>1. In(k, work[m])
        BY <1>1, <2>1, <2>2 DEF Carried, Undisturbed
      <3>2. noted.versions[m] = 0 => base[m] = work[m]
        BY <1>1, <2>1, <3>1 DEF Whole, Undisturbed, Settled, In
      <3> QED BY <1>2, <1>3, <3>1, <3>2
    <2> QED BY <1>3, <2>1, <2>2
  <1>6. CASE Readback
    <2>1. <<m, k>> \in acknowledged \cup mine /\ pc = "readback"
      BY <1>6 DEF Readback
    <2>2. <<m, k>> \in mine => In(k, base[m])
      BY <1>1, <2>1 DEF Carried, Undisturbed
    <2> QED BY <1>3, <2>1, <2>2
  <1>7. CASE FlushHeld
    BY <1>1, <1>7, Alone DEF FlushHeld, Held
  <1>8. ASSUME NEW q \in Ids, Edit(q) PROVE Lasts(m, k) \/ Lasts(m, k)'
    <2>1. <<m, k>> \in acknowledged \/ (q = m /\ k = edits + 1)
      BY <1>8 DEF Edit
    <2>2. CASE q = m /\ k = edits + 1
      <3>1. db[m].version > 0 /\ db[m].body \in Body
        BY <1>1, <1>8, <2>2 DEF Edit, Sorts, Records
      <3>2. db[m].body \in SUBSET Edits
        BY <1>1, <3>1, Numbers DEF Rows
      <3>3. db[m].body \cup {k} # Gone
        BY <3>2, Numbers
      <3>4. db'[m].body = db[m].body \cup {k}
        BY <1>1, <1>8, <2>2 DEF Edit, Sorts, Records
      <3> QED BY <3>3, <3>4 DEF Lasts, In
    <2> QED BY <1>3, <2>1, <2>2
  <1>9. CASE ~(Note \/ NoteProcedure \/ Readback \/ FlushHeld \/ \E q \in Ids : Edit(q))
    <2>1. acknowledged' = acknowledged
      BY <1>9 DEF Next, Operate, Investigate, Outside, Begin, Consolidate, Retain, Change, Flush, FlushFails, Reload,
                  ReloadFails, Replace, Restore, ReplaceFails, TakeVersions, Reflect, ReadbackFails, Remember,
                  FlushProcedure, FlushProcedureFails, Redact, Purge, Crash, vars, history
    <2> QED BY <1>3, <2>1
  <1> QED BY <1>4, <1>5, <1>6, <1>7, <1>8, <1>9

LEMMA LastingStep ==
    ASSUME Standing, Above, Whole, Carried, Marks, Lasting, [Next]_vars PROVE Lasting'
  <1> SUFFICES ASSUME ~raced', ~torn', NEW m \in Ids, NEW k \in Edits, k # 0
               PROVE  /\ \A v \in Nat, body \in Body : Trusts(m, v, body)' /\ In(k, body) => Lasts(m, k)'
                      /\ <<m, k>> \in acknowledged' => Lasts(m, k)'
    BY DEF Lasting, Undisturbed
  <1>1. ~raced /\ ~torn /\ Sorts /\ Rows /\ Pending /\ Trusted
    BY Stays DEF Standing, Inv
  <1>2. Lasts(m, k) => Lasts(m, k)'
    BY LastsStep
  <1>3. ASSUME NEW v \in Nat, NEW body \in Body, Trusts(m, v, body)', In(k, body) PROVE Lasts(m, k)'
    <2>1. Trusts(m, v, body) \/ body = db'[m].body
      BY <1>1, <1>3, TrustsStep
    <2>2. CASE Trusts(m, v, body)
      BY <1>1, <1>2, <1>3, <2>2 DEF Lasting, Undisturbed
    <2>3. CASE body = db'[m].body
      BY <1>3, <2>3 DEF Lasts
    <2> QED BY <2>1, <2>2, <2>3
  <1>4. ASSUME <<m, k>> \in acknowledged' PROVE Lasts(m, k)'
    BY <1>2, <1>4, AcknowledgedStep
  <1> QED BY <1>3, <1>4

-----------------------------------------------------------------------------
(* What was rolled back is gone.                                           *)

\* No transaction that may have had effect carried the operation's edits.
Unmade ==
    /\ ~doubtful
    /\ \/ pc \in {"consolidate", "flush", "reload", "replace", "versions", "restore"}
       \/ kind = "run" /\ pc \in {"retain", "last"}

Own ==
    Undisturbed =>
       /\ pc # "idle" => \A m \in Ids :
             /\ In(edit, db[m].body) \/ In(edit, work[m]) \/ In(edit, loaded[m].body) => <<m, edit>> \in mine
             /\ ~In(edit, before[m])
       /\ Unmade => \A w \in mine : ~In(w[2], db[w[1]].body) /\ ~In(w[2], loaded[w[1]].body)

Rejected ==
    Undisturbed => \A w \in rejected :
       /\ ~In(w[2], db[w[1]].body) /\ ~Kept(w[1], w[2])
       /\ pc # "idle" => w[2] # edit

\* Where the content of a row comes from, ...
LEMMA RowSource ==
    ASSUME Standing, [Next]_vars, NEW m \in Ids, NEW k \in Edits, In(k, db'[m].body)
    PROVE  \/ In(k, db[m].body) \/ In(k, work[m]) \/ k = 0
           \/ k = edits + 1 /\ edit' = edit /\ pc' = pc
  <1>1. Sorts /\ Rows
    BY DEF Standing, Inv
  <1>2. CASE Sends
    <2>1. db' = db \/ (Expected(Dirty) /\ db' = Synced(Dirty))
      BY <1>2, SentRows
    <2> QED BY <1>1, <2>1, Transaction
  <1>3. ASSUME NEW q \in Ids, Edit(q)
        PROVE  In(k, db[m].body) \/ (k = edits + 1 /\ edit' = edit /\ pc' = pc)
    <2>1. db[q].version > 0 /\ db[q].body # Gone
      BY <1>1, <1>3 DEF Edit, Rows
    <2> QED BY <1>1, <1>3, <2>1 DEF Edit, holder, In, Sorts, Records
  <1>4. ASSUME NEW q \in Ids, Redact(q) \/ Purge(q) PROVE In(k, db[m].body) \/ k = 0
    BY <1>1, <1>4 DEF Redact, Purge, In, Sorts, Records
  <1>5. CASE ~Sends /\ ~Scripts
    BY <1>5, Untouched
  <1> QED BY <1>2, <1>3, <1>4, <1>5 DEF Scripts

\* ... that of a record ...
LEMMA WorkSource ==
    ASSUME Standing, [Next]_vars, ~raced', NEW m \in Ids, NEW k \in Edits, In(k, work'[m])
    PROVE  \/ In(k, work[m])
           \/ pc' # "idle" /\ In(k, loaded[m].body)
           \/ pc' = "idle" /\ (In(k, loaded[m].body) \/ In(k, db[m].body) \/ In(k, before[m]) \/ k = edits + 1)
           \/ pc # "idle" /\ k = edit /\ <<m, k>> \in mine'
  <1>1. Sorts /\ ~raced
    BY Stays DEF Standing, Inv
  <1>2. ASSUME NEW ids \in SUBSET Ids, NEW next \in {"retain", "flush", "timeline"},
               Retain(ids) \/ Consolidate(ids, next)
        PROVE  In(k, work[m]) \/ (pc # "idle" /\ k = edit /\ <<m, k>> \in mine')
    <2>1. /\ work' = [q \in Ids |-> IF q \in ids THEN With(q, edit) ELSE work[q]] /\ pc # "idle"
          /\ mine' = mine \cup {<<q, edit>> : q \in ids}
      BY <1>2 DEF Retain, Consolidate, Change
    <2>2. edit \in Edits
      BY <1>1 DEF Sorts
    <2> QED BY <1>1, <2>1, <2>2, InWith
  <1>3. ASSUME NEW q \in ReflectIds, Reflect(q)
        PROVE  In(k, work[m]) \/ (pc # "idle" /\ k = edit /\ <<m, k>> \in mine')
    BY <1>1, <1>3 DEF Reflect, In, Sorts
  <1>4. ASSUME NEW q \in ProcedureIds, Remember(q) PROVE In(k, work[m]) \/ (pc' = "idle" /\ k = edits + 1)
    <2>1. /\ work' = [work EXCEPT ![q] = With(q, edits + 1)] /\ pc' = "idle" /\ q \in Ids
          /\ edits + 1 \in Edits
      BY <1>1, <1>4, Counted DEF Remember, holder, Ids, Sorts
    <2> QED BY <1>1, <2>1, InWith DEF Sorts
  <1>5. CASE Replace
    BY <1>5 DEF Replace, Replacing
  <1>6. CASE Restore \/ \E ids \in SUBSET Ids : ReplaceFails(ids)
    <2>1. PICK ids \in SUBSET Ids, bodies \in {[q \in Ids |-> loaded[q].body], before} : Replacing(ids, bodies)
      BY <1>6 DEF Restore, ReplaceFails
    <2>2. pc' = "idle"
      BY <1>6 DEF Restore, ReplaceFails
    <2> QED BY <2>1, <2>2 DEF Replacing, In
  <1>7. CASE Crash
    BY <1>7 DEF Crash
  <1>8. CASE UNCHANGED work
    BY <1>8
  <1> QED BY <1>2, <1>3, <1>4, <1>5, <1>6, <1>7, <1>8
          DEF Next, Operate, Investigate, Outside, Begin, Flush, FlushFails, Note, Reload, ReloadFails, TakeVersions,
              Readback, ReadbackFails, FlushHeld, FlushProcedure, FlushProcedureFails, NoteProcedure, Edit, Redact,
              Purge, vars, memory

\* ... and that of a snapshot and of what is reloaded.
LEMMA SnapSource ==
    ASSUME [Next]_vars, NEW m \in Ids, NEW k \in Edits
    PROVE  /\ In(k, before'[m]) => In(k, before[m]) \/ (In(k, work[m]) /\ pc = "reflect" /\ edit' = edit)
           /\ In(k, loaded'[m].body) => In(k, loaded[m].body) \/ In(k, db[m].body)
  <1>1. before' \in {before, NoBefore} \/ (before' = work /\ pc = "reflect" /\ edit' = edit)
    BY DEF Next, Operate, Investigate, Outside, Begin, Consolidate, Retain, Change, Flush, FlushFails, Note, Reload,
           ReloadFails, Replace, Restore, ReplaceFails, Replacing, TakeVersions, Reflect, Readback, ReadbackFails,
           Remember, FlushHeld, FlushProcedure, FlushProcedureFails, NoteProcedure, Edit, Redact, Purge, Crash, vars,
           holder, memory
  <1>2. loaded' \in {loaded, NoLoad, db}
    BY DEF Next, Operate, Investigate, Outside, Begin, Consolidate, Retain, Change, Flush, FlushFails, Note, Reload,
           ReloadFails, Replace, Restore, ReplaceFails, TakeVersions, Reflect, Readback, ReadbackFails,
           Remember, FlushHeld, FlushProcedure, FlushProcedureFails, NoteProcedure, Edit, Redact, Purge, Crash, vars,
           holder, memory
  <1> QED BY <1>1, <1>2 DEF In, NoBefore, NoLoad

\* How the operation under way goes on.
LEMMA Onward ==
    ASSUME [Next]_vars, pc' # "idle"
    PROVE  \/ \E k \in {"run", "sync", "reflect"} : Begin(k)
           \/ pc # "idle" /\ edit' = edit /\ kind' = kind /\ (mine \subseteq mine' \/ pc = "reflect")
  <1>1. CASE \E ids \in SUBSET Ids, next \in {"retain", "flush", "timeline"} : Retain(ids) \/ Consolidate(ids, next)
    BY <1>1 DEF Retain, Consolidate, Change
  <1>2. CASE Flush \/ \E effect \in BOOLEAN : FlushFails(effect)
    <2>1. pc # "idle"
      BY <1>2 DEF Flush, FlushFails, Flushing
    <2> QED BY <1>2, <2>1 DEF Flush, FlushFails, history
  <1>3. CASE Note
    <2>1. pc # "idle"
      BY <1>3, Places DEF Note, Notes
    <2> QED BY <1>3, <2>1 DEF Note
  <1>4. CASE Reload \/ ReloadFails \/ Replace \/ Restore \/ (\E ids \in SUBSET Ids : ReplaceFails(ids)) \/ TakeVersions
    BY <1>4 DEF Reload, ReloadFails, Replace, Restore, ReplaceFails, TakeVersions, history
  <1>5. CASE (\E m \in ReflectIds : Reflect(m)) \/ Readback \/ ReadbackFails
    BY <1>5 DEF Reflect, Readback, ReadbackFails
  <1>6. CASE Investigate
    BY <1>6 DEF Investigate, Remember, FlushHeld, FlushProcedure, FlushProcedureFails, NoteProcedure, holder, history
  <1>7. CASE Outside \/ UNCHANGED vars
    BY <1>7 DEF Outside, Edit, Redact, Purge, Crash, vars, holder, history
  <1> QED BY <1>1, <1>2, <1>3, <1>4, <1>5, <1>6, <1>7 DEF Next, Operate

LEMMA RejectedStep ==
    ASSUME Standing, Above, Marks, Own, Rejected, [Next]_vars PROVE Rejected'
  <1> SUFFICES ASSUME ~raced', ~torn', NEW w \in rejected'
               PROVE  /\ ~In(w[2], db'[w[1]].body) /\ ~Kept(w[1], w[2])'
                      /\ pc' # "idle" => w[2] # edit'
    BY DEF Rejected, Undisturbed
  <1>1. ~raced /\ ~torn /\ Undisturbed /\ Sorts /\ Rows /\ Pending /\ TypeOK /\ Fresh
    BY Stays DEF Standing, Inv, Undisturbed
  <1>2. edits \in Int /\ edit \in Int /\ \A k \in Edits : k \in Int
    BY <1>1, Numbers DEF Sorts, Edits
  <1>3. CASE w \in rejected
    <2>1. w[1] \in Ids /\ w[2] \in Edits
      BY <1>1, <1>3, MarkedPairs DEF TypeOK
    <2>2. /\ ~In(w[2], db[w[1]].body) /\ ~In(w[2], work[w[1]]) /\ ~In(w[2], before[w[1]])
          /\ ~In(w[2], loaded[w[1]].body) /\ (pc # "idle" => w[2] # edit)
      BY <1>1, <1>3 DEF Rejected, Kept
    <2>3. w[2] > 0 /\ w[2] <= edits /\ w[2] # 0 /\ w[2] # edits + 1
      BY <1>2, <1>3, <2>1 DEF Marks
    <2>4. ~In(w[2], db'[w[1]].body)
      BY <2>1, <2>2, <2>3, RowSource
    <2>5. ~In(w[2], work'[w[1]])
      BY <1>1, <2>1, <2>2, <2>3, WorkSource
    <2>6. ~In(w[2], before'[w[1]]) /\ ~In(w[2], loaded'[w[1]].body)
      BY <2>1, <2>2, SnapSource
    <2>7. pc' # "idle" => w[2] # edit'
      BY <2>2, <2>3, Onward DEF Begin
    <2> QED BY <2>4, <2>5, <2>6, <2>7 DEF Kept
  <1>4. CASE w \notin rejected
    <2>1. (Restore \/ TakeVersions) /\ ~doubtful /\ w \in mine
      BY <1>4 DEF Next, Operate, Investigate, Outside, Begin, Consolidate, Retain, Change, Flush, FlushFails, Note, Reload,
                  ReloadFails, Replace, Restore, ReplaceFails, TakeVersions, Reflect, Readback, ReadbackFails, Remember,
                  FlushHeld, FlushProcedure, FlushProcedureFails, NoteProcedure, Edit, Redact, Purge, Crash, vars, history
    <2>2. w[1] \in Ids /\ w[2] \in Edits /\ w = <<w[1], w[2]>>
      BY <1>1, <2>1, MarkedPairs DEF TypeOK
    <2>3. pc \in {"restore", "versions"} /\ pc' = "idle" /\ db' = db
      BY <2>1 DEF Restore, TakeVersions
    <2>4. w[2] = edit
      BY <2>1, <2>3 DEF Marks
    <2>5. ~In(w[2], db[w[1]].body) /\ ~In(w[2], loaded[w[1]].body) /\ ~In(w[2], before[w[1]])
      <3>1. Unmade
        BY <2>1, <2>3 DEF Unmade
      <3> QED BY <1>1, <2>1, <2>2, <2>3, <2>4, <3>1 DEF Own
    <2>6. ~In(w[2], work'[w[1]]) /\ ~In(w[2], before'[w[1]]) /\ ~In(w[2], loaded'[w[1]].body)
      <3>1. CASE Restore
        BY <2>2, <2>5, <3>1 DEF Restore, Replacing, In, NoBefore
      <3>2. CASE TakeVersions
        <4>1. work'[w[1]] = loaded[w[1]].body
          BY <1>1, <2>2, <3>2 DEF TakeVersions, Above
        <4> QED BY <2>2, <2>5, <3>2, <4>1 DEF TakeVersions, In, NoLoad
      <3> QED BY <2>1, <3>1, <3>2
    <2> QED BY <2>3, <2>5, <2>6 DEF Kept
  <1> QED BY <1>3, <1>4

LEMMA OwnStep == ASSUME Standing, Marks, Own, [Next]_vars PROVE Own'
  <1> SUFFICES ASSUME ~raced', ~torn'
               PROVE  /\ pc' # "idle" => \A m \in Ids :
                            /\ In(edit', db'[m].body) \/ In(edit', work'[m]) \/ In(edit', loaded'[m].body)
                                  => <<m, edit'>> \in mine'
                            /\ ~In(edit', before'[m])
                      /\ Unmade' => \A w \in mine' : ~In(w[2], db'[w[1]].body) /\ ~In(w[2], loaded'[w[1]].body)
    BY DEF Own, Undisturbed
  <1>1. ~raced /\ ~torn /\ Undisturbed /\ Sorts /\ Rows /\ Pending /\ TypeOK /\ Fresh /\ Paths
    BY Stays DEF Standing, Inv, Undisturbed
  <1>2. edits \in Int /\ edit \in Edits /\ edit \in Int /\ \A k \in Edits : k \in Int
    BY <1>1, Numbers DEF Sorts, Edits
  <1>3. ASSUME NEW k \in {"run", "sync", "reflect"}, Begin(k)
        PROVE  /\ mine' = {}
               /\ \A m \in Ids : /\ ~In(edit', db'[m].body) /\ ~In(edit', work'[m]) /\ ~In(edit', loaded'[m].body)
                                 /\ ~In(edit', before'[m])
    <2>1. UNCHANGED <<db, work, loaded, before>> /\ mine' = {} /\ edit' = edits + 1 /\ edits + 1 \in Edits
      BY <1>1, <1>3, Counted DEF Begin, memory, Sorts
    <2>2. \A m \in Ids : ~Dated(m, edits + 1)
      BY <1>1, <1>2, <2>1 DEF Fresh
    <2> QED BY <2>1, <2>2 DEF Dated, Kept
  <1>4. ASSUME pc' # "idle", ~\E k \in {"run", "sync", "reflect"} : Begin(k)
        PROVE  /\ pc # "idle" /\ edit' = edit /\ edit > 0 /\ edit # edits + 1
               /\ (mine \subseteq mine' \/ mine = {})
               /\ kind' = kind
    <2>1. /\ pc # "idle" /\ edit' = edit /\ kind' = kind /\ (mine \subseteq mine' \/ pc = "reflect")
      BY <1>4, Onward
    <2>2. edit > 0 /\ edit <= edits
      BY <1>1, <2>1 DEF Marks, Fresh
    <2> QED BY <1>2, <2>1, <2>2 DEF Marks
  <1>5. ASSUME pc' # "idle", ~\E k \in {"run", "sync", "reflect"} : Begin(k), NEW m \in Ids
        PROVE  /\ In(edit, db'[m].body) \/ In(edit, work'[m]) \/ In(edit, loaded'[m].body) => <<m, edit>> \in mine'
               /\ ~In(edit, before'[m])
    <2>1. /\ In(edit, db[m].body) \/ In(edit, work[m]) \/ In(edit, loaded[m].body) => <<m, edit>> \in mine
          /\ ~In(edit, before[m])
      BY <1>1, <1>4, <1>5 DEF Own
    <2>2. <<m, edit>> \in mine => <<m, edit>> \in mine'
      BY <1>4, <1>5
    <2>3. In(edit, db'[m].body) => <<m, edit>> \in mine'
      BY <1>2, <1>4, <1>5, <2>1, <2>2, RowSource
    <2>4. In(edit, work'[m]) => <<m, edit>> \in mine'
      BY <1>1, <1>2, <1>5, <2>1, <2>2, WorkSource
    <2>5. In(edit, loaded'[m].body) => <<m, edit>> \in mine'
      BY <1>2, <2>1, <2>2, SnapSource
    <2>6. ~In(edit, before'[m])
      <3>1. pc = "reflect" => mine = {}
        BY DEF Marks
      <3> QED BY <1>2, <2>1, <3>1, SnapSource
    <2> QED BY <2>3, <2>4, <2>5, <2>6
  <1>6. ASSUME Unmade', ~\E k \in {"run", "sync", "reflect"} : Begin(k), NEW w \in mine'
        PROVE  ~In(w[2], db'[w[1]].body) /\ ~In(w[2], loaded'[w[1]].body)
    <2>1. pc' # "idle" /\ pc # "idle" /\ pc' \notin Notes
      <3>1. pc' # "idle" /\ pc' \notin Notes
        BY <1>6 DEF Unmade, Notes
      <3> QED BY <1>4, <1>6, <3>1
    <2>2. pcP = "idle"
      BY <1>1, <2>1, Alone
    <2>3. ASSUME UNCHANGED <<db, loaded, mine>>, Unmade PROVE ~In(w[2], db'[w[1]].body) /\ ~In(w[2], loaded'[w[1]].body)
      BY <1>1, <1>6, <2>3 DEF Own
    <2>4. ASSUME NEW ids \in SUBSET Ids, NEW next \in {"retain", "flush", "timeline"},
                 Retain(ids) \/ Consolidate(ids, next)
          PROVE  ~In(w[2], db'[w[1]].body) /\ ~In(w[2], loaded'[w[1]].body)
      <3>1. /\ UNCHANGED <<db, loaded, kind, doubtful>> /\ mine' = mine \cup {<<m, edit>> : m \in ids}
            /\ \/ pc = "retain" /\ pc' = "last"
               \/ pc = "consolidate" /\ pc' \in {"retain", "flush", "timeline"}
        BY <2>4 DEF Retain, Consolidate, Change
      <3>2. Unmade
        BY <1>6, <3>1 DEF Unmade
      <3>3. CASE w \in mine
        BY <1>1, <3>1, <3>2, <3>3 DEF Own
      <3>4. CASE w \in {<<m, edit>> : m \in ids} /\ w \notin mine
        <4>1. PICK m \in ids : w = <<m, edit>>
          BY <3>4
        <4> QED BY <1>1, <2>1, <3>1, <3>4, <4>1 DEF Own
      <3> QED BY <3>1, <3>3, <3>4
    <2>5. CASE Flush \/ \E effect \in BOOLEAN : FlushFails(effect)
      <3>1. pc \in Flushing /\ UNCHANGED <<mine, loaded, kind>> /\ pc' \in {Failure, Noting(pc)}
        BY <2>5 DEF Flush, FlushFails, history
      <3>2. pc' = Failure
        BY <2>1, <3>1, Places
      <3>3. db' = db /\ ~doubtful
        <4>1. CASE Flush
          BY <1>6, <2>1, <3>1, <4>1, Places DEF Flush, history, Unmade
        <4>2. ASSUME NEW effect \in BOOLEAN, FlushFails(effect) PROVE db' = db /\ ~doubtful
          <5>1. ~doubtful'
            BY <1>6 DEF Unmade
          <5>2. CASE effect
            BY <4>2, <5>1, <5>2 DEF FlushFails
          <5>3. CASE ~effect
            BY <4>2, <5>1, <5>3 DEF FlushFails
          <5> QED BY <5>2, <5>3
        <4> QED BY <2>5, <4>1, <4>2
      <3>4. pc = "flush" \/ (kind = "run" /\ pc = "last")
        BY <1>1, <2>1, <3>1, <3>2 DEF Failure, Paths, Flushing
      <3>5. Unmade
        BY <3>3, <3>4 DEF Unmade
      <3> QED BY <2>3, <3>1, <3>3, <3>5
    <2>6. CASE Note
      <3>1. pc \in Notes /\ kind' = kind /\ mine' = mine
        BY <2>6, Places DEF Note
      <3>2. pc = "notepending"
        BY <1>1, <1>6, <2>6, <3>1 DEF Note, Notes, Unmade, Paths
      <3> QED BY <1>6, <3>1, <3>2 DEF Marks
    <2>7. CASE Reload
      <3>1. db' = db /\ loaded' = db /\ mine' = mine /\ Unmade
        BY <1>6, <2>7 DEF Reload, history, Unmade
      <3> QED BY <1>1, <1>6, <3>1 DEF Own
    <2>8. CASE Replace
      <3>1. UNCHANGED <<db, loaded, mine>> /\ Unmade
        BY <1>6, <2>8 DEF Replace, history, Unmade
      <3> QED BY <2>3, <3>1
    <2>9. CASE ReloadFails \/ Restore \/ (\E ids \in SUBSET Ids : ReplaceFails(ids)) \/ TakeVersions \/ Crash
      BY <2>1, <2>9 DEF ReloadFails, Restore, ReplaceFails, TakeVersions, Crash
    <2>10. ASSUME NEW q \in ReflectIds, Reflect(q)
           PROVE  ~In(w[2], db'[w[1]].body) /\ ~In(w[2], loaded'[w[1]].body)
      <3>1. /\ UNCHANGED <<db, loaded>> /\ mine' \in {mine, {<<q, edit>>}} /\ q \in Ids /\ pc = "reflect"
        BY <2>10 DEF Reflect, Ids
      <3>2. mine = {}
        BY <3>1 DEF Marks
      <3>3. w = <<q, edit>>
        BY <1>6, <3>1, <3>2
      <3> QED BY <1>1, <2>1, <3>1, <3>2, <3>3 DEF Own
    <2>11. CASE Readback
      <3>1. UNCHANGED <<db, loaded, mine>> /\ pc = "readback"
        BY <2>11 DEF Readback, history
      <3>2. PICK v \in mine : ~(db[v[1]].version > 0)
        BY <1>6, <2>11 DEF Readback, Unmade
      <3>3. w = v
        BY <1>1, <1>6, <3>1 DEF Marks, Paths
      <3>4. w[1] \in Ids
        BY <1>1, <1>6, <3>1, MarkedPairs DEF TypeOK
      <3>5. db[w[1]].version = 0
        BY <1>1, <3>2, <3>3, <3>4, VersionTypes
      <3>6. db[w[1]].body = Gone
        BY <1>1, <3>4, <3>5 DEF Rows
      <3>7. loaded[w[1]].body = Gone
        BY <1>1, <3>1, <3>4 DEF Pending, Reloading, NoLoad
      <3> QED BY <3>1, <3>6, <3>7 DEF In
    <2>12. CASE ReadbackFails
      BY <1>6, <2>12 DEF ReadbackFails, Unmade
    <2>13. ASSUME NEW q \in ProcedureIds, Remember(q) PROVE FALSE
      BY <2>1, <2>13 DEF Remember
    <2>14. CASE FlushHeld \/ FlushProcedure \/ NoteProcedure \/ \E effect \in BOOLEAN : FlushProcedureFails(effect)
      BY <2>2, <2>14 DEF FlushHeld, FlushProcedure, NoteProcedure, FlushProcedureFails
    <2>15. ASSUME NEW q \in Ids, Edit(q) \/ Redact(q) \/ Purge(q)
           PROVE  ~In(w[2], db'[w[1]].body) /\ ~In(w[2], loaded'[w[1]].body)
      <3>1. UNCHANGED <<loaded, mine, pc, kind, doubtful>>
        BY <2>15 DEF Edit, Redact, Purge, holder
      <3>2. Unmade
        BY <1>6, <3>1 DEF Unmade
      <3>3. w[1] \in Ids /\ w[2] \in Edits /\ w = <<w[1], w[2]>> /\ w \in mine
        BY <1>1, <1>6, <3>1, MarkedPairs DEF TypeOK
      <3>4. w[2] = edit /\ edit > 0 /\ edit # edits + 1
        BY <1>4, <1>6, <2>1, <3>3 DEF Marks
      <3>5. ~In(w[2], db[w[1]].body) /\ ~In(w[2], loaded[w[1]].body)
        BY <1>1, <3>2, <3>3 DEF Own
      <3>6. ~In(w[2], db'[w[1]].body)
        <4>1. CASE Edit(q)
          <5>1. db[q].version > 0 /\ db[q].body # Gone
            BY <1>1, <4>1 DEF Edit, Rows
          <5> QED BY <1>1, <3>3, <3>4, <3>5, <4>1, <5>1 DEF Edit, In, Sorts, Records
        <4>2. CASE Redact(q) \/ Purge(q)
          BY <1>1, <3>3, <3>4, <3>5, <4>2 DEF Redact, Purge, In, Sorts, Records
        <4> QED BY <2>15, <4>1, <4>2
      <3> QED BY <3>1, <3>5, <3>6
    <2>16. CASE UNCHANGED vars
      <3>1. UNCHANGED <<db, loaded, mine, pc, kind, doubtful>>
        BY <2>16 DEF vars, holder, history
      <3>2. Unmade
        BY <1>6, <3>1 DEF Unmade
      <3> QED BY <2>3, <3>1, <3>2
    <2> QED BY <1>6, <2>4, <2>5, <2>6, <2>7, <2>8, <2>9, <2>10, <2>11, <2>12, <2>13, <2>14, <2>15, <2>16
            DEF Next, Operate, Investigate, Outside
  <1>7. CASE \E k \in {"run", "sync", "reflect"} : Begin(k)
    BY <1>3, <1>7
  <1>8. CASE ~\E k \in {"run", "sync", "reflect"} : Begin(k)
    BY <1>4, <1>5, <1>6, <1>8
  <1> QED BY <1>7, <1>8

-----------------------------------------------------------------------------
Durable ==
    Standing /\ Above /\ Snapshot /\ Whole /\ Carried /\ Marks /\ Lasting /\ Own /\ Rejected

LEMMA DurableInit == Init => Durable
  <1> SUFFICES ASSUME Init PROVE Durable
    OBVIOUS
  <1>1. Standing
    BY InitInv, TypesInit, TrustedInit DEF Init, Standing, Paths
  <1>2. edits \in Nat /\ pc = "idle" /\ pcP = "idle" /\ mine = {} /\ mineP = {} /\ acknowledged = {} /\ rejected = {}
    BY DEF Init
  <1>3. Above /\ Snapshot
    BY DEF Init, Above, Snapshot, Snapped, NoBefore
  <1>4. Whole /\ Carried /\ Marks /\ Own /\ Rejected
    BY <1>2 DEF Whole, Notes, Carried, Carrying, Marks, Own, Unmade, Rejected, Init
  <1>5. Lasting
    BY <1>2 DEF Init, Lasting, Trusts, In, NoBefore, NoLoad, NoWrite, NoNote, Reloading
  <1> QED BY <1>1, <1>3, <1>4, <1>5 DEF Durable

LEMMA DurableNext == Durable /\ [Next]_vars => Durable'
  <1> SUFFICES ASSUME Durable, [Next]_vars PROVE Durable'
    OBVIOUS
  <1>1. Standing'
    BY NextInv, TypesStep, TrustedStep, PathsStep DEF Durable, Standing, Inv
  <1> QED BY <1>1, AboveStep, SnapshotStep, WholeStep, CarriedStep, MarksStep, LastingStep, OwnStep, RejectedStep
          DEF Durable

\* Unless the investigation wrote under the holder of the lock or an embedder
\* broke off a rollback: an edit that was reported as committed stays in the
\* database until an operator redacts or purges it, for any records,
\* operations, conflicts, reloads, rollbacks, lost answers and deaths.
THEOREM Acknowledged == Spec => []AcknowledgedKept
  <1>1. Durable => AcknowledgedKept
    <2> SUFFICES ASSUME Durable, ~raced, ~torn, NEW w \in acknowledged \ erased PROVE Stored(w)
      BY DEF AcknowledgedKept
    <2>1. w[1] \in Ids /\ w[2] \in Edits /\ w = <<w[1], w[2]>>
      BY MarkedPairs DEF Durable, Standing, TypeOK
    <2>2. w[2] # 0
      BY DEF Durable, Marks
    <2>3. Lasts(w[1], w[2])
      BY <2>1, <2>2 DEF Durable, Lasting, Undisturbed
    <2> QED BY <2>1, <2>3 DEF Lasts, In, Stored
  <1> QED BY <1>1, DurableInit, DurableNext, PTL DEF Spec

\* Under the same condition: an edit that was reported as rolled back is neither
\* in the database nor in the working set, and comes back by no later flush,
\* reload, rollback or restart.
THEOREM RolledBack == Spec => []RolledBackGone
  <1>1. Durable => RolledBackGone
    BY DEF Durable, Rejected, RolledBackGone, Undisturbed, Kept, In, Stored, Cached
  <1> QED BY <1>1, DurableInit, DurableNext, PTL DEF Spec

=============================================================================
