----------------------- MODULE RetrievalIndexes_proof -----------------------
(***************************************************************************)
(* Both retrieval indexes implement the live index of their readers, for   *)
(* every set of documents and contents and every threshold: sealing,       *)
(* tombstones and compactions that race with writes change no answer.  A   *)
(* snapshot taken at any moment restores them, and they agree.             *)
(***************************************************************************)
EXTENDS RetrievalIndexes, FiniteSetTheorems, TLAPS

-----------------------------------------------------------------------------
(* The lexical index.                                                      *)

Stats == [count : Int, length : Int, df : [Terms -> Int]]
SegIndex == [sealed : SUBSET SegEntry, segments : Nat, delta : SUBSET SegEntry, clock : Nat,
             latest : [Docs -> SegEntry], stats : Stats]

\* An index value, with a table of newest versions.
SegShape(ix) ==
    /\ ix \in SegIndex
    /\ \A d \in Docs : ix.latest[d].doc = d

\* The newest version of a document says what the index was told of it, and
\* is stored in a segment or in the delta.
Tells(ix, want) == \A d \in Docs :
    IF want[d] \in Contents
    THEN ~ix.latest[d].deleted /\ ix.latest[d].terms = want[d] /\ ix.latest[d] \in SegPhysical(ix)
    ELSE ix.latest[d].deleted

\* What the maintenance thread captured is still the live view, unless the
\* clock has advanced or a rollback has replaced the index.
Captured ==
    /\ built.clock \in Nat /\ built.object \in Nat /\ object \in Nat
    /\ built.object <= object
    /\ phase["lexical"] = "build" /\ built.object = object
         => /\ built.clock <= lex.clock
            /\ built.clock = lex.clock => built.live = SegLive(lex)

\* What a rollback has still to put back is not there yet.
Emptied == pc \in {"filling", "refill"} => \A d \in todo : records[d] = Absent

Bodied ==
    /\ records \in [Docs -> Bodies] /\ durable \in [Docs -> Bodies]
    /\ todo \subseteq Docs
    /\ phase \in [Indexes -> {"wait", "check", "capture", "build"}]

LexInv == Bodied /\ Emptied /\ SegShape(lex) /\ Tells(lex, records) /\ Captured

\* Counting an entry keeps the statistics' type.
LEMMA CountedType ==
    ASSUME NEW stats \in Stats, NEW e \in SegEntry, NEW by \in Int
    PROVE  Counted(stats, e, by) \in Stats
  <1>1. IsFiniteSet(e.terms)
    BY IndexAssumption, FS_EmptySet DEF SegEntry
  <1>2. Cardinality(e.terms) \in Int
    BY <1>1, FS_CardinalityType
  <1>3. by * Cardinality(e.terms) \in Int
    BY <1>2
  <1>4. stats.count + by \in Int /\ stats.length + by * Cardinality(e.terms) \in Int
    BY <1>3 DEF Stats
  <1>5. [t \in Terms |-> stats.df[t] + IF t \in e.terms THEN by ELSE 0] \in [Terms -> Int]
    BY DEF Stats
  <1> QED BY <1>4, <1>5 DEF Counted, Stats

\* Each field of an index value can be replaced by one of its type.
LEMMA Fields ==
    ASSUME NEW ix \in SegIndex
    PROVE  /\ \A x \in SUBSET SegEntry :
                [ix EXCEPT !.sealed = x] = [sealed |-> x, segments |-> ix.segments, delta |-> ix.delta,
                    clock |-> ix.clock, latest |-> ix.latest, stats |-> ix.stats]
           /\ \A x \in Nat :
                [ix EXCEPT !.segments = x] = [sealed |-> ix.sealed, segments |-> x, delta |-> ix.delta,
                    clock |-> ix.clock, latest |-> ix.latest, stats |-> ix.stats]
           /\ \A x \in SUBSET SegEntry :
                [ix EXCEPT !.delta = x] = [sealed |-> ix.sealed, segments |-> ix.segments, delta |-> x,
                    clock |-> ix.clock, latest |-> ix.latest, stats |-> ix.stats]
           /\ \A x \in Nat :
                [ix EXCEPT !.clock = x] = [sealed |-> ix.sealed, segments |-> ix.segments,
                    delta |-> ix.delta, clock |-> x, latest |-> ix.latest, stats |-> ix.stats]
           /\ \A x \in [Docs -> SegEntry] :
                [ix EXCEPT !.latest = x] = [sealed |-> ix.sealed, segments |-> ix.segments,
                    delta |-> ix.delta, clock |-> ix.clock, latest |-> x, stats |-> ix.stats]
           /\ \A x \in Stats :
                [ix EXCEPT !.stats = x] = [sealed |-> ix.sealed, segments |-> ix.segments,
                    delta |-> ix.delta, clock |-> ix.clock, latest |-> ix.latest, stats |-> x]
  BY DEF SegIndex

\* A new version becomes the newest of its document, is stored, and leaves the
\* versions of the other documents where they were, sealed or not.
LEMMA InstallLatest ==
    ASSUME NEW ix, SegShape(ix), NEW e \in SegEntry
    PROVE  LET after == SegInstall(ix, e)
           IN  /\ SegShape(after)
               /\ after.clock = ix.clock + 1
               /\ after.latest = [ix.latest EXCEPT ![e.doc] = e]
               /\ SegPhysical(after) = ix.sealed \union {x \in ix.delta : x.doc # e.doc} \union {e}
               /\ after.stats = Counted(Counted(ix.stats, ix.latest[e.doc], -1), e, 1)
               /\ LET kept == {x \in ix.delta : x.doc # e.doc} \union {e}
                  IN  \/ after.sealed = ix.sealed /\ after.delta = kept
                      \/ after.sealed = ix.sealed \union kept /\ after.delta = {}
  <1> DEFINE delta == {x \in ix.delta : x.doc # e.doc} \union {e}
             stats == Counted(Counted(ix.stats, ix.latest[e.doc], -1), e, 1)
             latest == [ix.latest EXCEPT ![e.doc] = e]
             next == [ix EXCEPT !.latest[e.doc] = e, !.delta = delta,
                                !.clock = @ + 1, !.stats = stats]
  <1>0. e.doc \in Docs /\ delta \subseteq SegEntry
    BY DEF SegEntry, SegShape, SegIndex
  <1>1. stats \in Stats
    BY <1>0, CountedType DEF SegShape, SegIndex
  <1>2. latest \in [Docs -> SegEntry] /\ \A d \in Docs : latest[d].doc = d
    BY <1>0 DEF SegShape, SegIndex
  <1>3. SegInstall(ix, e) = next \/ SegInstall(ix, e) = Sealed(next)
    BY DEF SegInstall
  <1> HIDE DEF stats, delta
  <1> DEFINE n1 == [ix EXCEPT !.latest = latest]
             n2 == [n1 EXCEPT !.delta = delta]
             n3 == [n2 EXCEPT !.clock = ix.clock + 1]
             n4 == [n3 EXCEPT !.stats = stats]
  <1>4. next = n4
    BY <1>0 DEF SegShape, SegIndex
  <1> HIDE DEF next, latest
  <1>5. /\ n1 = [sealed |-> ix.sealed, segments |-> ix.segments, delta |-> ix.delta,
                 clock |-> ix.clock, latest |-> latest, stats |-> ix.stats]
        /\ n1 \in SegIndex
    BY <1>2, Fields DEF SegShape, SegIndex
  <1> HIDE DEF n1
  <1>6. /\ n2 = [sealed |-> ix.sealed, segments |-> ix.segments, delta |-> delta,
                 clock |-> ix.clock, latest |-> latest, stats |-> ix.stats]
        /\ n2 \in SegIndex
    BY <1>0, <1>5, Fields DEF SegIndex
  <1> HIDE DEF n2
  <1>7. /\ n3 = [sealed |-> ix.sealed, segments |-> ix.segments, delta |-> delta,
                 clock |-> ix.clock + 1, latest |-> latest, stats |-> ix.stats]
        /\ n3 \in SegIndex
    BY <1>6, Fields DEF SegIndex
  <1> HIDE DEF n3
  <1>8. next = [sealed |-> ix.sealed, segments |-> ix.segments, delta |-> delta,
                clock |-> ix.clock + 1, latest |-> latest, stats |-> stats]
    BY <1>1, <1>4, <1>7, Fields
  <1>9. next \in SegIndex
    BY <1>1, <1>8, <1>7 DEF SegIndex
  <1> DEFINE s1 == [next EXCEPT !.sealed = ix.sealed \union delta]
             s2 == [s1 EXCEPT !.segments = ix.segments + 1]
             s3 == [s2 EXCEPT !.delta = {}]
  <1>10. Sealed(next) = s3
    BY <1>8 DEF Sealed
  <1>11. /\ s1 = [sealed |-> ix.sealed \union delta, segments |-> ix.segments, delta |-> delta,
                 clock |-> ix.clock + 1, latest |-> latest, stats |-> stats]
        /\ s1 \in SegIndex
    BY <1>0, <1>8, <1>9, Fields DEF SegIndex
  <1> HIDE DEF s1
  <1>12. /\ s2 = [sealed |-> ix.sealed \union delta, segments |-> ix.segments + 1, delta |-> delta,
                 clock |-> ix.clock + 1, latest |-> latest, stats |-> stats]
        /\ s2 \in SegIndex
    <2>1. ix.segments + 1 \in Nat
      BY DEF SegShape, SegIndex
    <2>2. s2 = [sealed |-> ix.sealed \union delta, segments |-> ix.segments + 1, delta |-> delta,
                clock |-> ix.clock + 1, latest |-> latest, stats |-> stats]
      BY <1>11, <2>1, Fields
    <2> QED BY <1>11, <2>1, <2>2 DEF SegIndex
  <1> HIDE DEF s2
  <1>13. Sealed(next) = [sealed |-> ix.sealed \union delta, segments |-> ix.segments + 1, delta |-> {},
                        clock |-> ix.clock + 1, latest |-> latest, stats |-> stats]
    BY <1>10, <1>12, Fields
  <1>14. Sealed(next) \in SegIndex
    BY <1>13, <1>12 DEF SegIndex
  <1>15. CASE SegInstall(ix, e) = next
    BY <1>2, <1>8, <1>9, <1>15 DEF SegShape, SegPhysical, delta, latest, stats
  <1>16. CASE SegInstall(ix, e) = Sealed(next)
    BY <1>2, <1>16, <1>13, <1>14 DEF SegShape, SegPhysical, delta, latest, stats
  <1> QED BY <1>3, <1>15, <1>16

LEMMA UpsertTells ==
    ASSUME NEW ix, SegShape(ix), NEW want \in [Docs -> Bodies], Tells(ix, want),
           NEW d \in Docs, NEW c \in Contents
    PROVE  /\ SegShape(SegUpsert(ix, d, c)) /\ SegUpsert(ix, d, c).clock = ix.clock + 1
           /\ Tells(SegUpsert(ix, d, c), [want EXCEPT ![d] = c])
  <1> DEFINE e == Live(d, ix.clock + 1, c)
             after == SegInstall(ix, e)
  <1>1. e \in SegEntry /\ e.doc = d /\ e.terms = c /\ ~e.deleted
    BY DEF Live, SegEntry, SegShape, SegIndex
  <1> HIDE DEF e
  <1>2. /\ SegShape(after) /\ after.clock = ix.clock + 1
        /\ after.latest = [ix.latest EXCEPT ![e.doc] = e]
        /\ SegPhysical(after) = ix.sealed \union {x \in ix.delta : x.doc # e.doc} \union {e}
    BY <1>1, InstallLatest
  <1> HIDE DEF after
  <1>3. Tells(after, [want EXCEPT ![d] = c])
    BY <1>1, <1>2 DEF Tells, SegShape, SegIndex, SegPhysical
  <1> QED BY <1>2, <1>3 DEF SegUpsert, after, e

LEMMA DeleteTells ==
    ASSUME NEW ix, SegShape(ix), NEW want \in [Docs -> Bodies], Tells(ix, want),
           NEW d \in Docs, NEW b \in Bodies \ Contents
    PROVE  /\ SegShape(SegDelete(ix, d)) /\ SegDelete(ix, d).clock = ix.clock + 1
           /\ Tells(SegDelete(ix, d), [want EXCEPT ![d] = b])
  <1> DEFINE e == Tombstone(d, ix.clock + 1)
             after == SegInstall(ix, e)
  <1>1. e \in SegEntry /\ e.doc = d /\ e.deleted
    BY DEF Tombstone, SegEntry, SegShape, SegIndex
  <1> HIDE DEF e
  <1>2. /\ SegShape(after) /\ after.clock = ix.clock + 1
        /\ after.latest = [ix.latest EXCEPT ![e.doc] = e]
        /\ SegPhysical(after) = ix.sealed \union {x \in ix.delta : x.doc # e.doc} \union {e}
    BY <1>1, InstallLatest
  <1> HIDE DEF after
  <1>3. Tells(after, [want EXCEPT ![d] = b])
    <2> SUFFICES ASSUME NEW x \in Docs
                 PROVE  IF [want EXCEPT ![d] = b][x] \in Contents
                        THEN /\ ~after.latest[x].deleted
                             /\ after.latest[x].terms = [want EXCEPT ![d] = b][x]
                             /\ after.latest[x] \in SegPhysical(after)
                        ELSE after.latest[x].deleted
      BY DEF Tells
    <2>1. CASE x = d
      BY <1>1, <1>2, <2>1 DEF SegShape, SegIndex
    <2>2. CASE x # d
      <3>1. after.latest[x] = ix.latest[x] /\ [want EXCEPT ![d] = b][x] = want[x]
        BY <1>1, <1>2, <2>2 DEF SegShape, SegIndex
      <3>2. ix.latest[x].doc # d
        BY <2>2 DEF SegShape
      <3> QED BY <1>1, <1>2, <3>1, <3>2 DEF Tells, SegPhysical
    <2> QED BY <2>1, <2>2
  <1> QED BY <1>2, <1>3 DEF SegDelete, after, e

\* A new index was told nothing.
LEMMA NewTells ==
    ASSUME NEW want, \A d \in Docs : want[d] = Absent
    PROVE  SegShape(NewSegIndex) /\ NewSegIndex.clock = 0 /\ Tells(NewSegIndex, want)
  <1>1. \A d \in Docs : Unseen(d) \in SegEntry /\ Unseen(d).doc = d /\ Unseen(d).deleted
    BY DEF Unseen, SegEntry
  <1>2. NoStats \in Stats
    BY DEF NoStats, Stats
  <1>3. SegShape(NewSegIndex) /\ NewSegIndex.clock = 0
    BY <1>1, <1>2 DEF NewSegIndex, SegShape, SegIndex
  <1>4. Absent \notin Contents
    BY IndexAssumption
  <1> QED BY <1>1, <1>3, <1>4 DEF NewSegIndex, Tells

\* Compaction keeps the newest version of every live document, and stores it.
LEMMA CompactTells ==
    ASSUME NEW ix, SegShape(ix), NEW want, Tells(ix, want), NEW cap, cap.live = SegLive(ix)
    PROVE  /\ SegShape(SegCompacted(ix, cap)) /\ SegCompacted(ix, cap).clock = ix.clock
           /\ Tells(SegCompacted(ix, cap), want)
           /\ SegLive(SegCompacted(ix, cap)) = SegLive(ix)
           /\ SegPhysical(SegCompacted(ix, cap)) = SegLive(ix)
           /\ SegCompacted(ix, cap).delta = {}
           /\ SegCompacted(ix, cap).stats = ix.stats
           /\ \A d \in Docs : SegCompacted(ix, cap).latest[d]
                              = IF ix.latest[d].deleted THEN Unseen(d) ELSE ix.latest[d]
  <1> DEFINE latest == [d \in Docs |-> IF \E e \in cap.live : e.doc = d
                                       THEN CHOOSE e \in cap.live : e.doc = d
                                       ELSE Unseen(d)]
             after == SegCompacted(ix, cap)
  <1>1. \A d \in Docs : latest[d] = IF ix.latest[d].deleted THEN Unseen(d) ELSE ix.latest[d]
    <2> SUFFICES ASSUME NEW d \in Docs
                 PROVE  latest[d] = IF ix.latest[d].deleted THEN Unseen(d) ELSE ix.latest[d]
      OBVIOUS
    <2>1. \A e \in SegLive(ix) : e.doc = d => e = ix.latest[d] /\ ~ix.latest[d].deleted
      BY DEF SegLive, SegShape
    <2>2. ~ix.latest[d].deleted => ix.latest[d] \in SegLive(ix) /\ ix.latest[d].doc = d
      BY DEF SegLive, SegShape
    <2> QED BY <2>1, <2>2
  <1>2. \A d \in Docs : Unseen(d) \in SegEntry /\ Unseen(d).doc = d /\ Unseen(d).deleted
    BY DEF Unseen, SegEntry
  <1>3. latest \in [Docs -> SegEntry] /\ \A d \in Docs : latest[d].doc = d
    BY <1>1, <1>2 DEF SegShape, SegIndex
  <1>4. cap.live \in SUBSET SegEntry
    BY DEF SegLive, SegShape, SegIndex
  <1>5. after = [ix EXCEPT !.sealed = cap.live, !.segments = IF cap.live = {} THEN 0 ELSE 1,
                           !.delta = {}, !.latest = latest]
    BY DEF SegCompacted
  <1> HIDE DEF latest, after
  <1>6. /\ after \in SegIndex /\ after.sealed = cap.live /\ after.latest = latest
        /\ after.clock = ix.clock /\ after.delta = {} /\ after.stats = ix.stats
    BY <1>3, <1>4, <1>5 DEF SegShape, SegIndex
  <1>7. SegShape(after)
    BY <1>3, <1>6 DEF SegShape
  <1>8. \A d \in Docs : ~ix.latest[d].deleted => ix.latest[d] \in SegPhysical(after)
    BY <1>6 DEF SegLive, SegPhysical
  <1>9. Tells(after, want)
    BY <1>1, <1>2, <1>6, <1>8 DEF Tells
  <1>10. SegLive(after) = SegLive(ix)
    BY <1>1, <1>2, <1>6 DEF SegLive
  <1>11. SegPhysical(after) = SegLive(ix)
    BY <1>6 DEF SegPhysical
  <1> QED BY <1>1, <1>6, <1>7, <1>9, <1>10, <1>11 DEF after

\* A query therefore finds exactly what the index was told.
LEMMA ViewOfTold ==
    ASSUME NEW ix, SegShape(ix), NEW want, Tells(ix, want)
    PROVE  SegView(ix) = [d \in Docs |-> IF want[d] \in Contents THEN want[d] ELSE Absent]
  BY DEF Tells, SegShape, SegView

LEMMA LexInit == Init => LexInv
  <1> SUFFICES ASSUME Init PROVE LexInv
    OBVIOUS
  <1>1. /\ records \in [Docs -> Bodies] /\ \A d \in Docs : records[d] = Absent
        /\ durable \in [Docs -> Bodies] /\ todo \subseteq Docs
    BY DEF Init, Bodies
  <1>2. phase \in [Indexes -> {"wait", "check", "capture", "build"}] /\ phase["lexical"] = "wait"
    BY DEF Init, Indexes
  <1>3. SegShape(lex) /\ Tells(lex, records)
    BY <1>1, NewTells DEF Init
  <1>4. Captured
    BY <1>2 DEF Init, NoBuild, Captured
  <1>5. Emptied
    BY DEF Init, Emptied
  <1> QED BY <1>1, <1>2, <1>3, <1>4, <1>5 DEF LexInv, Bodied

\* What a writer's step asks of the lexical index: a content is told, anything
\* else is taken out, or is known not to be there.
Asked(d, body) ==
    \/ body \in Contents /\ lex' = SegUpsert(lex, d, body)
    \/ body \notin Contents /\ lex' = SegDelete(lex, d)
    \/ body \notin Contents /\ records[d] \notin Contents /\ lex' = lex

\* What a Write and a Redact have in common.
Changed(d, body) ==
    /\ pc = "open" /\ pc' = "dense"
    /\ records' = [records EXCEPT ![d] = body]
    /\ durable' = durable \/ durable' = [durable EXCEPT ![d] = Absent]
    /\ Asked(d, body)
    /\ job' = [doc |-> d, body |-> body]
    /\ writes < MaxWrites /\ writes' = writes + 1
    /\ UNCHANGED <<object, vec, kind, todo, worker, faults, torn, triggered>>

LEMMA WriteChanges ==
    ASSUME NEW d \in Docs
    PROVE  /\ \A body \in Bodies : Write(d, body) => Changed(d, body)
           /\ Redact(d) => Changed(d, Absent)
           /\ Absent \in Bodies
  <1>1. Absent \notin Contents /\ Absent \in Bodies
    BY IndexAssumption DEF Bodies
  <1> QED BY <1>1 DEF Write, Redact, Changed, Asked

\* What the index then tells.
LEMMA ToldStep ==
    ASSUME LexInv, NEW d \in Docs, NEW body \in Bodies,
           records' = [records EXCEPT ![d] = body], Asked(d, body)
    PROVE  /\ records' \in [Docs -> Bodies]
           /\ SegShape(lex') /\ Tells(lex', records')
           /\ lex' = lex \/ lex'.clock = lex.clock + 1
  <1>1. records \in [Docs -> Bodies] /\ SegShape(lex) /\ Tells(lex, records)
    BY DEF LexInv, Bodied
  <1>2. CASE body \in Contents /\ lex' = SegUpsert(lex, d, body)
    BY <1>1, <1>2, UpsertTells
  <1>3. CASE body \notin Contents /\ lex' = SegDelete(lex, d)
    BY <1>1, <1>3, DeleteTells
  <1>4. CASE body \notin Contents /\ records[d] \notin Contents /\ lex' = lex
    BY <1>1, <1>4 DEF Tells
  <1> QED BY <1>1, <1>2, <1>3, <1>4 DEF Asked

\* A capture stays behind an index whose clock runs on.
LEMMA CapturedStep ==
    ASSUME LexInv, UNCHANGED <<object, built>>, lex' = lex \/ lex'.clock = lex.clock + 1,
           phase'["lexical"] = "build" => phase["lexical"] = "build"
    PROVE  Captured'
  <1>1. lex.clock \in Nat
    BY DEF LexInv, SegShape, SegIndex
  <1>2. CASE lex' = lex
    BY <1>2 DEF LexInv, Captured
  <1>3. CASE lex'.clock = lex.clock + 1
    BY <1>1, <1>3 DEF LexInv, Captured
  <1> QED BY <1>2, <1>3

LEMMA LexStep == LexInv /\ [Next]_vars => LexInv'
  <1> SUFFICES ASSUME LexInv, [Next]_vars PROVE LexInv'
    OBVIOUS
  <1>1. ASSUME NEW d \in Docs, NEW body \in Bodies, Changed(d, body) PROVE LexInv'
    <2>1. /\ records' = [records EXCEPT ![d] = body] /\ Asked(d, body)
          /\ durable' = durable \/ durable' = [durable EXCEPT ![d] = Absent]
          /\ UNCHANGED <<object, todo, phase, built>>
      BY <1>1 DEF Changed, worker
    <2>5. durable' \in [Docs -> Bodies]
      BY <2>1, WriteChanges DEF LexInv, Bodied
    <2>2. /\ records' \in [Docs -> Bodies] /\ SegShape(lex') /\ Tells(lex', records')
          /\ lex' = lex \/ lex'.clock = lex.clock + 1
      BY <2>1, ToldStep
    <2>3. Captured'
      BY <2>1, <2>2, CapturedStep
    <2>4. Emptied'
      BY <1>1 DEF Changed, Emptied
    <2> QED BY <2>1, <2>2, <2>3, <2>4, <2>5 DEF LexInv, Bodied
  <1>2. ASSUME NEW d \in Docs, Add(d) PROVE LexInv'
    <2>1. /\ records' = [records EXCEPT ![d] = durable[d]]
          /\ lex' = IF durable[d] \in Contents THEN SegUpsert(lex, d, durable[d]) ELSE lex
          /\ todo' = todo \ {d}
          /\ UNCHANGED <<durable, object, phase, built>>
      BY <1>2 DEF Add, worker
    <2>2. durable[d] \in Bodies /\ records[d] \in Bodies
      BY DEF LexInv, Bodied
    <2>3. /\ records' \in [Docs -> Bodies] /\ SegShape(lex') /\ Tells(lex', records')
          /\ lex' = lex \/ lex'.clock = lex.clock + 1
      <3>1. records \in [Docs -> Bodies] /\ SegShape(lex) /\ Tells(lex, records)
        BY DEF LexInv, Bodied
      <3>2. records[d] \notin Contents
        BY <1>2, IndexAssumption DEF Add, LexInv, Emptied
      <3>3. Asked(d, durable[d])
        BY <2>1, <3>2 DEF Asked
      <3> QED BY <2>1, <2>2, <3>3, ToldStep
    <2>4. Captured'
      BY <2>1, <2>3, CapturedStep
    <2>5. Emptied'
      BY <1>2, <2>1 DEF Add, LexInv, Emptied, Bodied
    <2> QED BY <2>1, <2>3, <2>4, <2>5 DEF LexInv, Bodied
  <1>3. CASE Renew
    <2>1. /\ records' = [d \in Docs |-> Absent] /\ lex' = NewSegIndex /\ object' = object + 1
          /\ todo' = {d \in Docs : durable[d] # Absent} /\ UNCHANGED <<durable, phase, built>>
      BY <1>3 DEF Renew, worker
    <2>2. SegShape(lex') /\ Tells(lex', records')
      BY <2>1, NewTells
    <2>3. Captured'
      BY <2>1 DEF LexInv, Captured
    <2>4. Bodied' /\ Emptied'
      BY <2>1 DEF LexInv, Bodied, Bodies, Emptied
    <2> QED BY <2>2, <2>3, <2>4 DEF LexInv
  <1>4. CASE InstallLexical
    <2>1. /\ lex' = IF built.object = object /\ SegFresh(lex, built) THEN SegCompacted(lex, built) ELSE lex
          /\ phase["lexical"] = "build"
          /\ UNCHANGED <<records, durable, object, pc, todo>> /\ built' = NoBuild
          /\ phase' = [phase EXCEPT !["lexical"] = "wait"]
      BY <1>4 DEF InstallLexical, writer
    <2>2. SegShape(lex') /\ Tells(lex', records)
      BY <2>1, CompactTells DEF LexInv, Captured, SegFresh
    <2>3. Captured'
      BY <2>1 DEF LexInv, Captured, Bodied, NoBuild, Indexes
    <2>4. Bodied' /\ Emptied'
      BY <2>1 DEF LexInv, Bodied, Emptied
    <2> QED BY <2>1, <2>2, <2>3, <2>4 DEF LexInv
  <1>5. CASE CaptureLexical
    <2>1. /\ UNCHANGED <<records, durable, lex, object, pc, todo>>
          /\ \/ /\ built' = [clock |-> lex.clock, live |-> SegLive(lex), object |-> object]
                /\ phase' = [phase EXCEPT !["lexical"] = "build"]
             \/ built' = built /\ phase' = [phase EXCEPT !["lexical"] = "wait"]
      BY <1>5 DEF CaptureLexical, writer
    <2>2. Captured'
      BY <2>1 DEF LexInv, Captured, Bodied, SegShape, SegIndex, Indexes
    <2>3. Bodied' /\ Emptied'
      BY <2>1 DEF LexInv, Bodied, Emptied
    <2> QED BY <2>1, <2>2, <2>3 DEF LexInv
  <1>6. ASSUME UNCHANGED <<records, lex, object, built>>, durable' \in [Docs -> Bodies],
               todo' \subseteq Docs, Emptied',
               phase' \in [Indexes -> {"wait", "check", "capture", "build"}],
               phase'["lexical"] = "build" => phase["lexical"] = "build"
        PROVE  LexInv'
    <2>1. Captured'
      BY <1>6, CapturedStep
    <2> QED BY <1>6, <2>1 DEF LexInv, Bodied
  <1>7. CASE \/ \E k \in {"run", "other"} : Begin(k)
             \/ Commit \/ FlushFails \/ Rollback \/ Filled
             \/ Dense("dense", "open") \/ Dense("refill", "filling")
             \/ EmbedFails("dense") \/ EmbedFails("refill")
             \/ \E d \in Docs : Drop(d)
    <2>1. UNCHANGED <<records, durable, lex, object, built, phase>> \/ Commit
      BY <1>7 DEF Begin, FlushFails, Rollback, Filled, Dense, EmbedFails, Drop, worker
    <2>2. durable' \in [Docs -> Bodies] /\ UNCHANGED <<records, lex, object, built, phase>>
      BY <2>1 DEF Commit, LexInv, Bodied
    <2>3. todo' \subseteq Docs /\ Emptied'
      BY <1>7 DEF Begin, Commit, FlushFails, Rollback, Filled, Dense, EmbedFails, Drop, LexInv,
                  Bodied, Emptied
    <2> QED BY <1>6, <2>2, <2>3 DEF LexInv, Bodied
  <1>8. CASE CaptureDense \/ InstallDense \/ \E i \in Indexes : Maintain(i)
    <2>1. UNCHANGED <<records, durable, lex, object, built, pc, todo>>
      BY <1>8 DEF CaptureDense, InstallDense, Maintain, Wake, Check, writer
    <2>2. \E i \in Indexes, x \in {"wait", "check", "capture", "build"} :
             phase' = [phase EXCEPT ![i] = x] /\ (i = "lexical" => x # "build")
      BY <1>8 DEF CaptureDense, InstallDense, Maintain, Wake, Check, Indexes
    <2> QED BY <1>6, <2>1, <2>2 DEF LexInv, Bodied, Emptied
  <1>9. CASE UNCHANGED vars
    BY <1>6, <1>9 DEF vars, writer, worker, LexInv, Bodied, Emptied
  <1> QED BY <1>1, <1>2, <1>3, <1>4, <1>5, <1>7, <1>8, <1>9, WriteChanges DEF Next, Continue, Fail

\* A lexical query finds every document by what the working set holds of it, in
\* every state, as if each write took effect at once: sealing, tombstones, a compaction built while others
\* write, one that is dropped and one that outlives its index are all stutters.
THEOREM LexicalImplements == Spec => LexicalServes
  <1>1. LexInv => SegView(lex) = Wanted
    BY ViewOfTold DEF LexInv, Wanted
  <1>2. LexInv' => SegView(lex)' = Wanted'
    BY ViewOfTold DEF LexInv, Wanted
  <1>3. Init => Lexical!Init
    <2> SUFFICES ASSUME Init PROVE Lexical!Init
      OBVIOUS
    <2>1. SegView(lex) = Wanted
      BY <1>1, LexInit
    <2>2. Wanted = [d \in Docs |-> Absent]
      BY DEF Init, Wanted
    <2> QED BY <2>1, <2>2 DEF Lexical!Init, Lexical!Nothing
  <1>4. LexInv /\ LexInv' /\ [Next]_vars => [Lexical!NextAtOnce]_<<Wanted, SegView(lex)>>
    <2> SUFFICES ASSUME LexInv, LexInv', [Next]_vars
                 PROVE  [Lexical!NextAtOnce]_<<Wanted, SegView(lex)>>
      OBVIOUS
    <2>1. SegView(lex) = Wanted /\ SegView(lex)' = Wanted'
      BY <1>1, <1>2
    <2>2. CASE UNCHANGED records
      BY <2>1, <2>2 DEF Wanted
    <2>3. ASSUME NEW d \in Docs, NEW b \in Bodies, records' = [records EXCEPT ![d] = b]
          PROVE  Lexical!NextAtOnce
      <3> DEFINE c == IF b \in Contents THEN b ELSE Absent
      <3>1. Wanted' = [Wanted EXCEPT ![d] = c]
        BY <2>3 DEF LexInv, Bodied, Wanted
      <3>2. c \in Contents \cup {Absent}
        OBVIOUS
      <3> HIDE DEF c
      <3> QED BY <2>1, <3>1, <3>2 DEF Lexical!NextAtOnce, Lexical!TellAtOnce
    <2>4. CASE records' = [d \in Docs |-> Absent]
      <3>1. Wanted' = [d \in Docs |-> Absent]
        BY <2>4 DEF Wanted
      <3> QED BY <2>1, <3>1 DEF Lexical!NextAtOnce, Lexical!ClearAtOnce, Lexical!Nothing
    <2>5. ASSUME NEW d \in Docs, Add(d) PROVE Lexical!NextAtOnce
      <3>1. durable[d] \in Bodies
        BY DEF LexInv, Bodied
      <3> QED BY <2>3, <2>5, <3>1 DEF Add
    <2>6. \/ UNCHANGED records
          \/ \E d \in Docs, b \in Bodies : Changed(d, b)
          \/ \E d \in Docs : Add(d)
          \/ Renew
      BY WriteChanges DEF Next, Begin, Commit, Continue, Dense, Rollback, Filled, Drop, Fail, EmbedFails, FlushFails,
             Maintain, Wake, Check, CaptureLexical, CaptureDense, InstallLexical, InstallDense, vars, writer
    <2> QED BY <2>2, <2>3, <2>4, <2>5, <2>6 DEF Changed, Renew
  <1>5. LexInv /\ [Next]_vars => LexInv'
    BY LexStep
  <1> QED BY <1>3, <1>4, <1>5, LexInit, PTL DEF Spec, LexicalServes, Lexical!SpecAtOnce

-----------------------------------------------------------------------------
(* The dense index.                                                        *)

VersionRow == [version : Nat, deleted : BOOLEAN]
VecIndex == [versions : [Docs -> VersionRow], base : SUBSET VecEntry, delta : SUBSET VecEntry,
             serial : Nat, generation : Nat]

\* A document's vectors are told apart by their versions, and none is newer
\* than its row.
VecShape(vx) ==
    /\ vx \in VecIndex
    /\ \A e, x \in VecPhysical(vx) : e.doc = x.doc /\ e.version = x.version => e = x
    /\ \A e \in VecPhysical(vx) : e.version <= vx.versions[e.doc].version

CurrentRows(vx) == {e \in VecPhysical(vx) : Current(vx, e)}

\* What the maintenance thread captured is still current, unless the serial has
\* advanced.
Rebuilt ==
    /\ rebuilt.serial \in Nat
    /\ phase["dense"] = "build"
         => /\ rebuilt.serial <= vec.serial
            /\ VecFresh(vec, rebuilt) => rebuilt.rows = CurrentRows(vec)

\* The dense half of a write is what the lexical half has put down.
Jobbed == pc \in {"dense", "refill"} => job.doc \in Docs /\ job.body = records[job.doc]

DenseInv == VecShape(vec) /\ Rebuilt /\ Jobbed

\* Each field of an index value can be replaced by one of its type.
LEMMA VecFields ==
    ASSUME NEW vx \in VecIndex
    PROVE  /\ \A x \in [Docs -> VersionRow] :
                [vx EXCEPT !.versions = x] = [versions |-> x, base |-> vx.base, delta |-> vx.delta,
                    serial |-> vx.serial, generation |-> vx.generation]
           /\ \A x \in SUBSET VecEntry :
                [vx EXCEPT !.base = x] = [versions |-> vx.versions, base |-> x, delta |-> vx.delta,
                    serial |-> vx.serial, generation |-> vx.generation]
           /\ \A x \in SUBSET VecEntry :
                [vx EXCEPT !.delta = x] = [versions |-> vx.versions, base |-> vx.base, delta |-> x,
                    serial |-> vx.serial, generation |-> vx.generation]
           /\ \A x \in Nat :
                [vx EXCEPT !.serial = x] = [versions |-> vx.versions, base |-> vx.base,
                    delta |-> vx.delta, serial |-> x, generation |-> vx.generation]
           /\ \A x \in Nat :
                [vx EXCEPT !.generation = x] = [versions |-> vx.versions, base |-> vx.base,
                    delta |-> vx.delta, serial |-> vx.serial, generation |-> x]
  BY DEF VecIndex

\* A document with a current vector is found by it, and no other is found.
LEMMA VecFinds ==
    ASSUME NEW vx, VecShape(vx), NEW d \in Docs
    PROVE  /\ \A e \in VecPhysical(vx) : e.doc = d /\ Current(vx, e) => VecView(vx)[d] = e.vector
           /\ (\A e \in VecPhysical(vx) : ~(e.doc = d /\ Current(vx, e))) => VecView(vx)[d] = Absent
  <1>1. ASSUME NEW e \in VecPhysical(vx), NEW x \in VecPhysical(vx), e.doc = d, x.doc = d,
               Current(vx, e), Current(vx, x)
        PROVE  e = x
    BY <1>1 DEF VecShape, Current
  <1> QED BY <1>1 DEF VecView

\* Two indexes whose current vectors of a document are the same find it alike.
LEMMA SameFound ==
    ASSUME NEW vx, VecShape(vx), NEW wx, VecShape(wx), NEW d \in Docs,
           \A e \in VecEntry : e.doc = d
               => (e \in VecPhysical(vx) /\ Current(vx, e) <=> e \in VecPhysical(wx) /\ Current(wx, e))
    PROVE  VecView(wx)[d] = VecView(vx)[d]
  <1>1. VecPhysical(vx) \subseteq VecEntry /\ VecPhysical(wx) \subseteq VecEntry
    BY DEF VecShape, VecIndex, VecPhysical
  <1>2. CASE \E e \in VecPhysical(vx) : e.doc = d /\ Current(vx, e)
    <2>1. PICK e \in VecPhysical(vx) : e.doc = d /\ Current(vx, e)
      BY <1>2
    <2>2. e \in VecPhysical(wx) /\ Current(wx, e)
      BY <1>1, <2>1
    <2> QED BY <2>1, <2>2, VecFinds
  <1>3. CASE ~\E e \in VecPhysical(vx) : e.doc = d /\ Current(vx, e)
    <2>1. \A e \in VecPhysical(wx) : ~(e.doc = d /\ Current(wx, e))
      BY <1>1, <1>3
    <2> QED BY <1>3, <2>1, VecFinds
  <1> QED BY <1>2, <1>3

LEMMA VecViewDomain == ASSUME NEW vx PROVE VecView(vx) = [x \in Docs |-> VecView(vx)[x]]
  BY DEF VecView

LEMMA VecUpsertView ==
    ASSUME NEW vx, VecShape(vx), NEW d \in Docs, NEW c \in Contents
    PROVE  /\ VecShape(VecUpsert(vx, d, c)) /\ VecUpsert(vx, d, c).serial = vx.serial + 1
           /\ VecView(VecUpsert(vx, d, c)) = [VecView(vx) EXCEPT ![d] = c]
           /\ VecLoads(vx) => VecLoads(VecUpsert(vx, d, c))
  <1> DEFINE version == vx.versions[d].version + 1
             row == [version |-> version, deleted |-> FALSE]
             new == [doc |-> d, version |-> version, vector |-> c]
             delta == vx.delta \cup {new}
             versions == [vx.versions EXCEPT ![d] = row]
             n1 == [vx EXCEPT !.delta = delta]
             n2 == [n1 EXCEPT !.versions = versions]
             after == [n2 EXCEPT !.serial = vx.serial + 1]
  <1>1. version \in Nat /\ new \in VecEntry /\ row \in VersionRow
    BY DEF VecShape, VecIndex, VecEntry, VersionRow
  <1>2. versions \in [Docs -> VersionRow] /\ delta \in SUBSET VecEntry /\ vx.serial + 1 \in Nat
    BY <1>1 DEF VecShape, VecIndex
  <1>3. VecUpsert(vx, d, c) = after
    BY DEF VecUpsert, VecShape, VecIndex
  <1> HIDE DEF after
  <1>4. n1 = [versions |-> vx.versions, base |-> vx.base, delta |-> delta,
              serial |-> vx.serial, generation |-> vx.generation] /\ n1 \in VecIndex
    BY <1>2, VecFields DEF VecShape, VecIndex
  <1> HIDE DEF n1
  <1>5. n2 = [versions |-> versions, base |-> vx.base, delta |-> delta,
              serial |-> vx.serial, generation |-> vx.generation] /\ n2 \in VecIndex
    BY <1>2, <1>4, VecFields DEF VecIndex
  <1> HIDE DEF n2
  <1>6. after = [versions |-> versions, base |-> vx.base, delta |-> delta,
                 serial |-> vx.serial + 1, generation |-> vx.generation] /\ after \in VecIndex
    BY <1>2, <1>5, VecFields DEF after, VecIndex
  <1>7. VecPhysical(after) = VecPhysical(vx) \cup {new}
    BY <1>6 DEF VecPhysical
  <1>8. \A x \in Docs : after.versions[x] = IF x = d THEN row ELSE vx.versions[x]
    BY <1>6 DEF VecShape, VecIndex
  <1>9. \A e \in VecPhysical(vx) : e.doc \in Docs /\ e.version \in Nat
                                  /\ e.version <= vx.versions[e.doc].version
    BY DEF VecShape, VecIndex, VecPhysical, VecEntry
  <1>10. new.doc = d /\ new.version = vx.versions[d].version + 1 /\ new.vector = c
    OBVIOUS
  <1>11. row.version = vx.versions[d].version + 1 /\ ~row.deleted
    OBVIOUS
  <1>12. \A x \in Docs : vx.versions[x].version \in Nat
    BY DEF VecShape, VecIndex, VersionRow
  <1> HIDE DEF new, row, version, delta, versions
  <1>13. \A e \in VecPhysical(after) : e.version <= after.versions[e.doc].version
    BY <1>7, <1>8, <1>9, <1>10, <1>11, <1>12
  <1>14. \A e, x \in VecPhysical(after) : e.doc = x.doc /\ e.version = x.version => e = x
    BY <1>7, <1>9, <1>10, <1>12 DEF VecShape
  <1>15. VecShape(after)
    BY <1>6, <1>13, <1>14 DEF VecShape
  <1>16. ASSUME NEW x \in Docs, x # d PROVE VecView(after)[x] = VecView(vx)[x]
    <2>1. \A e \in VecEntry : e.doc = x
            => (e \in VecPhysical(vx) /\ Current(vx, e) <=> e \in VecPhysical(after) /\ Current(after, e))
      BY <1>7, <1>8, <1>10, <1>16 DEF Current
    <2> QED BY <1>15, <2>1, SameFound
  <1>17. VecView(after)[d] = c
    <2>1. new \in VecPhysical(after) /\ Current(after, new)
      BY <1>7, <1>8, <1>10, <1>11 DEF Current
    <2> QED BY <1>10, <1>15, <2>1, VecFinds
  <1>18. VecView(after) = [VecView(vx) EXCEPT ![d] = c]
    BY <1>16, <1>17, VecViewDomain
  \* The vector put in is newer than every stored one of its document.
  <1>19. ASSUME VecLoads(vx) PROVE VecLoads(after)
    <2>1. /\ after.base = vx.base /\ after.delta = vx.delta \cup {new}
          /\ vx.base \subseteq VecPhysical(vx)
      BY <1>6 DEF delta, VecPhysical
    <2>2. \A e \in VecPhysical(vx) : e # new
      BY <1>9, <1>10, <1>12
    <2>3. after.base \cap after.delta = {}
      BY <1>19, <2>1, <2>2 DEF VecLoads
    <2>4. \A e \in VecPhysical(after) : 0 < e.version
      BY <1>7, <1>10, <1>12, <1>19 DEF VecLoads
    <2>5. ASSUME NEW x \in VecLiveDocs(after)
          PROVE  \E e \in VecPhysical(after) : e.doc = x /\ Current(after, e)
      <3>1. CASE x = d
        BY <1>7, <1>8, <1>10, <1>11, <3>1 DEF Current
      <3>2. CASE x # d
        <4>1. x \in VecLiveDocs(vx) /\ x \in Docs
          BY <1>8, <2>5, <3>2 DEF VecLiveDocs
        <4>2. PICK e \in VecPhysical(vx) : e.doc = x /\ Current(vx, e)
          BY <1>19, <4>1 DEF VecLoads
        <4> QED BY <1>7, <1>8, <3>2, <4>1, <4>2 DEF Current
      <3> QED BY <3>1, <3>2
    <2> QED BY <1>13, <1>14, <2>3, <2>4, <2>5 DEF VecLoads
  <1> QED BY <1>3, <1>6, <1>15, <1>18, <1>19

LEMMA VecDeleteView ==
    ASSUME NEW vx, VecShape(vx), NEW d \in Docs
    PROVE  /\ VecShape(VecDelete(vx, d)) /\ VecDelete(vx, d).serial = vx.serial + 1
           /\ VecView(VecDelete(vx, d)) = [VecView(vx) EXCEPT ![d] = Absent]
           /\ VecLoads(vx) => VecLoads(VecDelete(vx, d))
  <1> DEFINE row == [version |-> vx.versions[d].version + 1, deleted |-> TRUE]
             versions == [vx.versions EXCEPT ![d] = row]
             n1 == [vx EXCEPT !.versions = versions]
             after == [n1 EXCEPT !.serial = vx.serial + 1]
  <1>1. row \in VersionRow /\ row.deleted /\ row.version = vx.versions[d].version + 1
    BY DEF VecShape, VecIndex, VersionRow
  <1>2. versions \in [Docs -> VersionRow] /\ vx.serial + 1 \in Nat
    BY <1>1 DEF VecShape, VecIndex
  <1>3. VecDelete(vx, d) = after
    BY DEF VecDelete, VecShape, VecIndex
  <1> HIDE DEF after
  <1>4. n1 = [versions |-> versions, base |-> vx.base, delta |-> vx.delta,
              serial |-> vx.serial, generation |-> vx.generation] /\ n1 \in VecIndex
    BY <1>2, VecFields DEF VecShape, VecIndex
  <1> HIDE DEF n1
  <1>5. after = [versions |-> versions, base |-> vx.base, delta |-> vx.delta,
                 serial |-> vx.serial + 1, generation |-> vx.generation] /\ after \in VecIndex
    BY <1>2, <1>4, VecFields DEF after, VecIndex
  <1>6. VecPhysical(after) = VecPhysical(vx)
    BY <1>5 DEF VecPhysical
  <1>7. \A x \in Docs : after.versions[x] = IF x = d THEN row ELSE vx.versions[x]
    BY <1>5 DEF VecShape, VecIndex
  <1>8. \A e \in VecPhysical(vx) : e.doc \in Docs /\ e.version \in Nat
                                  /\ e.version <= vx.versions[e.doc].version
    BY DEF VecShape, VecIndex, VecPhysical, VecEntry
  <1>9. \A x \in Docs : vx.versions[x].version \in Nat
    BY DEF VecShape, VecIndex, VersionRow
  <1> HIDE DEF row, versions
  <1>10. \A e \in VecPhysical(after) : e.version <= after.versions[e.doc].version
    BY <1>1, <1>6, <1>7, <1>8, <1>9
  <1>11. VecShape(after)
    BY <1>5, <1>6, <1>10 DEF VecShape
  <1>12. ASSUME NEW x \in Docs, x # d PROVE VecView(after)[x] = VecView(vx)[x]
    <2>1. \A e \in VecEntry : e.doc = x
            => (e \in VecPhysical(vx) /\ Current(vx, e) <=> e \in VecPhysical(after) /\ Current(after, e))
      BY <1>6, <1>7, <1>12 DEF Current
    <2> QED BY <1>11, <2>1, SameFound
  <1>13. VecView(after)[d] = Absent
    <2>1. \A e \in VecPhysical(after) : ~(e.doc = d /\ Current(after, e))
      BY <1>1, <1>7 DEF Current
    <2> QED BY <1>11, <2>1, VecFinds
  <1>14. VecView(after) = [VecView(vx) EXCEPT ![d] = Absent]
    BY <1>12, <1>13, VecViewDomain
  <1>15. ASSUME VecLoads(vx) PROVE VecLoads(after)
    <2>1. after.base = vx.base /\ after.delta = vx.delta
      BY <1>5
    <2>2. ASSUME NEW x \in VecLiveDocs(after)
          PROVE  \E e \in VecPhysical(after) : e.doc = x /\ Current(after, e)
      <3>1. x \in VecLiveDocs(vx) /\ x # d /\ x \in Docs
        BY <1>1, <1>7, <2>2 DEF VecLiveDocs
      <3>2. PICK e \in VecPhysical(vx) : e.doc = x /\ Current(vx, e)
        BY <1>15, <3>1 DEF VecLoads
      <3> QED BY <1>6, <1>7, <3>1, <3>2 DEF Current
    <2> QED BY <1>6, <1>10, <1>15, <2>1, <2>2 DEF VecLoads
  <1> QED BY <1>3, <1>5, <1>11, <1>14, <1>15

\* Compaction to the current rows changes no answer, although it forgets the
\* rows of deleted documents, whose versions start again.
LEMMA VecCompactView ==
    ASSUME NEW vx, VecShape(vx), NEW cap, cap.rows = CurrentRows(vx)
    PROVE  /\ VecShape(VecCompacted(vx, cap))
           /\ VecView(VecCompacted(vx, cap)) = VecView(vx)
           /\ VecLoads(vx) => VecLoads(VecCompacted(vx, cap))
  <1> DEFINE versions == [d \in Docs |-> IF vx.versions[d].deleted THEN NoRow ELSE vx.versions[d]]
             n1 == [vx EXCEPT !.base = cap.rows]
             n2 == [n1 EXCEPT !.delta = {}]
             n3 == [n2 EXCEPT !.versions = versions]
             after == [n3 EXCEPT !.generation = vx.generation + 1]
  <1>1. versions \in [Docs -> VersionRow]
    BY DEF VecShape, VecIndex, VersionRow, NoRow
  <1>2. cap.rows \in SUBSET VecEntry /\ {} \in SUBSET VecEntry /\ vx.generation + 1 \in Nat
    BY DEF VecShape, VecIndex, CurrentRows, VecPhysical
  <1>3. VecCompacted(vx, cap) = after
    BY DEF VecCompacted, VecShape, VecIndex
  <1> HIDE DEF after
  <1>4. n1 = [versions |-> vx.versions, base |-> cap.rows, delta |-> vx.delta,
              serial |-> vx.serial, generation |-> vx.generation] /\ n1 \in VecIndex
    BY <1>2, VecFields DEF VecShape, VecIndex
  <1> HIDE DEF n1
  <1>5. n2 = [versions |-> vx.versions, base |-> cap.rows, delta |-> {},
              serial |-> vx.serial, generation |-> vx.generation] /\ n2 \in VecIndex
    BY <1>2, <1>4, VecFields DEF VecIndex
  <1> HIDE DEF n2
  <1>6. n3 = [versions |-> versions, base |-> cap.rows, delta |-> {},
              serial |-> vx.serial, generation |-> vx.generation] /\ n3 \in VecIndex
    BY <1>1, <1>5, VecFields DEF VecIndex
  <1> HIDE DEF n3
  <1>7. after = [versions |-> versions, base |-> cap.rows, delta |-> {},
                 serial |-> vx.serial, generation |-> vx.generation + 1] /\ after \in VecIndex
    BY <1>2, <1>6, VecFields DEF after, VecIndex
  <1>8. VecPhysical(after) = CurrentRows(vx) /\ CurrentRows(vx) \subseteq VecPhysical(vx)
    BY <1>7 DEF VecPhysical, CurrentRows
  <1>9. \A e \in VecPhysical(vx) : e.doc \in Docs
    BY DEF VecShape, VecIndex, VecPhysical, VecEntry
  <1>10. \A e \in CurrentRows(vx) : after.versions[e.doc] = vx.versions[e.doc]
    BY <1>7, <1>8, <1>9 DEF CurrentRows, Current
  <1>11. VecShape(after)
    BY <1>7, <1>8, <1>10 DEF VecShape
  <1>12. ASSUME NEW x \in Docs PROVE VecView(after)[x] = VecView(vx)[x]
    <2>1. \A e \in VecEntry : e.doc = x
            => (e \in VecPhysical(vx) /\ Current(vx, e) <=> e \in VecPhysical(after) /\ Current(after, e))
      <3>1. \A e \in CurrentRows(vx) : Current(after, e)
        BY <1>10 DEF CurrentRows, Current
      <3> QED BY <1>8, <3>1 DEF CurrentRows
    <2> QED BY <1>11, <2>1, SameFound
  <1>13. VecView(after) = VecView(vx)
    BY <1>12, VecViewDomain
  <1>14. ASSUME VecLoads(vx) PROVE VecLoads(after)
    <2>1. after.base \cap after.delta = {}
      BY <1>7
    <2>2. \A e \in VecPhysical(after) : 0 < e.version
      BY <1>8, <1>14 DEF VecLoads
    <2>3. ASSUME NEW x \in VecLiveDocs(after)
          PROVE  \E e \in VecPhysical(after) : e.doc = x /\ Current(after, e)
      <3>1. x \in VecLiveDocs(vx)
        BY <1>7, <2>3 DEF VecLiveDocs, NoRow
      <3>2. PICK e \in VecPhysical(vx) : e.doc = x /\ Current(vx, e)
        BY <1>14, <3>1 DEF VecLoads
      <3>3. e \in VecPhysical(after)
        BY <1>8, <3>2 DEF CurrentRows
      <3> QED BY <1>8, <1>10, <3>2, <3>3 DEF Current
    <2> QED BY <1>11, <2>1, <2>2, <2>3 DEF VecLoads, VecShape
  <1> QED BY <1>3, <1>11, <1>13, <1>14

LEMMA DenseInit == Init => DenseInv /\ VecView(vec) = [d \in Docs |-> Absent]
  <1> SUFFICES ASSUME Init PROVE DenseInv /\ VecView(vec) = [d \in Docs |-> Absent]
    OBVIOUS
  <1>1. VecPhysical(vec) = {}
    BY DEF Init, NewVecIndex, VecPhysical
  <1>2. vec \in VecIndex
    BY DEF Init, NewVecIndex, VecIndex, VersionRow, NoRow
  <1>3. VecShape(vec)
    BY <1>1, <1>2 DEF VecShape
  <1>4. VecView(vec) = [d \in Docs |-> Absent]
    BY <1>1 DEF VecView
  <1>5. Rebuilt /\ Jobbed
    BY DEF Init, NoRebuild, Rebuilt, Jobbed, Indexes
  <1> QED BY <1>3, <1>4, <1>5 DEF DenseInv

\* A capture stays behind an index whose serial runs on.
LEMMA RebuiltStep ==
    ASSUME DenseInv, UNCHANGED rebuilt, vec' = vec \/ vec'.serial = vec.serial + 1,
           phase'["dense"] = "build" => phase["dense"] = "build"
    PROVE  Rebuilt'
  <1>1. vec.serial \in Nat
    BY DEF DenseInv, VecShape, VecIndex
  <1>2. CASE vec' = vec
    BY <1>2 DEF DenseInv, Rebuilt
  <1>3. CASE vec'.serial = vec.serial + 1
    BY <1>1, <1>3 DEF DenseInv, Rebuilt, VecFresh
  <1> QED BY <1>2, <1>3

LEMMA DenseStep ==
    LexInv /\ DenseInv /\ [Next]_vars
      => DenseInv' /\ [DenseIndex!Next]_<<Kept, VecView(vec)>>
  <1> SUFFICES ASSUME LexInv, DenseInv, [Next]_vars
               PROVE  DenseInv' /\ [DenseIndex!Next]_<<Kept, VecView(vec)>>
    OBVIOUS
  <1> USE DEF DenseInv
  <1>1. /\ records \in [Docs -> Bodies] /\ durable \in [Docs -> Bodies] /\ todo \subseteq Docs
        /\ phase \in [Indexes -> {"wait", "check", "capture", "build"}]
    BY DEF LexInv, Bodied
  <1>2. Absent \notin Contents
    BY IndexAssumption
  <1>3. ASSUME NEW d \in Docs, NEW body \in Bodies, NEW from \in {"open", "filling"},
               NEW next \in {"dense", "refill"}, pc = from, pc' = next,
               records' = [records EXCEPT ![d] = body], job' = [doc |-> d, body |-> body],
               UNCHANGED <<vec, worker>>
        PROVE  DenseInv' /\ [DenseIndex!Next]_<<Kept, VecView(vec)>>
    <2> DEFINE c == IF body \in Contents THEN body ELSE Absent
    <2>1. Jobbed'
      BY <1>1, <1>3 DEF Jobbed
    <2>2. Rebuilt'
      BY <1>3, RebuiltStep DEF worker
    <2>3. Kept = Wanted /\ Kept' = Wanted'
      BY <1>3 DEF Kept, Wanted
    <2>4. Wanted' = [Wanted EXCEPT ![d] = c]
      BY <1>1, <1>3 DEF Wanted
    <2>5. c \in Contents \cup {Absent} /\ VecView(vec)' = VecView(vec)
      BY <1>3
    <2> HIDE DEF c
    <2>6. DenseIndex!Next
      BY <2>3, <2>4, <2>5 DEF DenseIndex!Next, DenseIndex!Tell
    <2> QED BY <1>3, <2>1, <2>2, <2>6
  <1>4. ASSUME NEW from \in {"dense", "refill"}, NEW next \in {"open", "filling"}, Dense(from, next)
        PROVE  DenseInv' /\ [DenseIndex!Next]_<<Kept, VecView(vec)>>
    <2> DEFINE d == job.doc
               after == IF job.body \in Contents THEN VecUpsert(vec, d, job.body)
                        ELSE VecDelete(vec, d)
               c == IF job.body \in Contents THEN job.body ELSE Absent
    <2>1. d \in Docs /\ job.body = records[d]
      BY <1>4 DEF Dense, Jobbed
    <2>2. /\ vec' = after /\ pc = from /\ pc' = next
          /\ UNCHANGED <<records, rebuilt, phase>>
      BY <1>4 DEF Dense, worker
    <2>3. /\ VecShape(after) /\ after.serial = vec.serial + 1
          /\ VecView(after) = [VecView(vec) EXCEPT ![d] = c]
      <3>1. CASE job.body \in Contents
        BY <2>1, <3>1, VecUpsertView
      <3>2. CASE job.body \notin Contents
        BY <2>1, <3>2, VecDeleteView
      <3> QED BY <3>1, <3>2
    <2> HIDE DEF after
    <2>4. Rebuilt'
      BY <2>2, <2>3, RebuiltStep
    <2>5. Jobbed'
      BY <2>2 DEF Jobbed
    <2>6. Kept = Wanted /\ Kept' = Wanted /\ Wanted[d] = c
      BY <2>1, <2>2 DEF Kept, Wanted
    <2> HIDE DEF c, d
    <2>7. VecView(vec)' = [VecView(vec) EXCEPT ![d] = Kept[d]]
      BY <2>2, <2>3, <2>6
    <2>8. DenseIndex!TakeIn(d)
      BY <2>6, <2>7 DEF DenseIndex!TakeIn
    <2> QED BY <2>1, <2>2, <2>3, <2>4, <2>5, <2>8 DEF DenseIndex!Next
  <1>5. ASSUME NEW d \in Docs, Drop(d)
        PROVE  DenseInv' /\ [DenseIndex!Next]_<<Kept, VecView(vec)>>
    <2>1. /\ vec' = VecDelete(vec, d) /\ pc = "dropping" /\ pc' = "dropping"
          /\ todo' = todo \ {d} /\ UNCHANGED <<records, rebuilt, phase>>
      BY <1>5 DEF Drop, worker
    <2>2. /\ VecShape(vec') /\ vec'.serial = vec.serial + 1
          /\ VecView(vec') = [VecView(vec) EXCEPT ![d] = Absent]
      BY <2>1, VecDeleteView
    <2>3. Rebuilt' /\ Jobbed'
      BY <2>1, <2>2, RebuiltStep DEF Jobbed
    <2>4. Kept' = [Kept EXCEPT ![d] = Absent]
      BY <2>1 DEF Kept, Wanted
    <2>5. DenseIndex!Tell(d, Absent)
      BY <2>2, <2>4 DEF DenseIndex!Tell
    <2> QED BY <2>2, <2>3, <2>5 DEF DenseIndex!Next
  <1>6. CASE InstallDense
    <2>1. /\ vec' = IF VecFresh(vec, rebuilt) THEN VecCompacted(vec, rebuilt) ELSE vec
          /\ rebuilt' = NoRebuild /\ phase["dense"] = "build"
          /\ phase' = [phase EXCEPT !["dense"] = "wait"]
          /\ UNCHANGED <<records, pc, todo, job>>
      BY <1>6 DEF InstallDense, writer
    <2>2. VecShape(vec') /\ VecView(vec') = VecView(vec)
      BY <2>1, VecCompactView DEF Rebuilt
    <2>3. Rebuilt'
      BY <1>1, <2>1 DEF Rebuilt, NoRebuild, Indexes
    <2>4. Jobbed' /\ Kept' = Kept
      BY <2>1 DEF Jobbed, Kept, Wanted
    <2> QED BY <2>2, <2>3, <2>4
  <1>7. CASE CaptureDense
    <2>1. /\ rebuilt' = VecCapture(vec) /\ phase' = [phase EXCEPT !["dense"] = "build"]
          /\ UNCHANGED <<vec, records, pc, todo, job>>
      BY <1>7 DEF CaptureDense, writer
    <2>2. Rebuilt'
      BY <2>1 DEF Rebuilt, VecCapture, VecShape, VecIndex, CurrentRows
    <2>3. Jobbed' /\ Kept' = Kept
      BY <2>1 DEF Jobbed, Kept, Wanted
    <2> QED BY <2>1, <2>2, <2>3
  \* Every other step leaves the dense index and what it was told alone.
  <1>8. ASSUME UNCHANGED <<vec, rebuilt>>, Jobbed', Kept' = Kept,
               phase'["dense"] = "build" => phase["dense"] = "build"
        PROVE  DenseInv' /\ [DenseIndex!Next]_<<Kept, VecView(vec)>>
    BY <1>8, RebuiltStep
  <1>9. CASE Rollback
    BY <1>1, <1>2, <1>8, <1>9 DEF Rollback, worker, Jobbed, Kept, Wanted
  <1>10. CASE Renew
    BY <1>1, <1>2, <1>8, <1>10 DEF Renew, worker, Jobbed, Kept, Wanted
  <1>11. CASE \/ \E k \in {"run", "other"} : Begin(k)
              \/ Commit \/ FlushFails \/ Filled
              \/ EmbedFails("dense") \/ EmbedFails("refill")
    <2>1. /\ UNCHANGED <<vec, records, rebuilt>> /\ pc # "dropping"
          /\ pc' \in {"open", "idle", "failed"}
      BY <1>11 DEF Begin, Commit, FlushFails, Filled, EmbedFails, worker
    <2>2. phase' = phase
      BY <1>11 DEF Begin, Commit, FlushFails, Filled, EmbedFails, worker
    <2> QED BY <1>8, <2>1, <2>2 DEF Jobbed, Kept, Wanted
  <1>12. CASE CaptureLexical \/ InstallLexical \/ \E i \in Indexes : Maintain(i)
    <2>1. UNCHANGED <<vec, records, rebuilt, pc, todo, job>>
      BY <1>12 DEF CaptureLexical, InstallLexical, Maintain, Wake, Check, writer
    <2>2. \E i \in Indexes, x \in {"wait", "check", "capture", "build"} :
             phase' = [phase EXCEPT ![i] = x] /\ (i = "dense" => x # "build")
      BY <1>12 DEF CaptureLexical, InstallLexical, Maintain, Wake, Check, Indexes
    <2> QED BY <1>1, <1>8, <2>1, <2>2 DEF Jobbed, Kept, Wanted
  <1>13. CASE UNCHANGED vars
    BY <1>8, <1>13 DEF vars, writer, worker, Jobbed, Kept, Wanted
  <1>14. ASSUME NEW d \in Docs, NEW body \in Bodies, Changed(d, body)
         PROVE  DenseInv' /\ [DenseIndex!Next]_<<Kept, VecView(vec)>>
    BY <1>3, <1>14 DEF Changed
  <1>15. ASSUME NEW d \in Docs, Add(d)
         PROVE  DenseInv' /\ [DenseIndex!Next]_<<Kept, VecView(vec)>>
    BY <1>1, <1>3, <1>15 DEF Add
  <1> QED BY <1>4, <1>5, <1>6, <1>7, <1>9, <1>10, <1>11, <1>12, <1>13, <1>14, <1>15,
             WriteChanges
          DEF Next, Continue, Fail

\* A dense query finds a document by what it was last told of it or by what it
\* found it by before - never by a vector that it had left behind, however the
\* base, the delta, deletions and compactions follow each other; a rollback
\* tells it one document at a time.
THEOREM DenseImplements == Spec => DenseServes
  <1>1. Init => LexInv /\ DenseInv /\ DenseIndex!Init
    <2> SUFFICES ASSUME Init PROVE DenseIndex!Init
      BY LexInit, DenseInit
    <2>1. Kept = [d \in Docs |-> Absent]
      BY IndexAssumption DEF Init, Kept, Wanted
    <2> QED BY <2>1, DenseInit DEF DenseIndex!Init, DenseIndex!Nothing
  <1>2. LexInv /\ DenseInv /\ [Next]_vars
          => LexInv' /\ DenseInv' /\ [DenseIndex!Next]_<<Kept, VecView(vec)>>
    BY LexStep, DenseStep
  <1> QED BY <1>1, <1>2, PTL DEF Spec, DenseServes, DenseIndex!Spec

-----------------------------------------------------------------------------
(* Snapshots: the lexical index.                                           *)

\* The increments have kept the count of the newest versions.
Counts(ix) == IsFiniteSet(Occurrences(ix.latest)) /\ ix.stats = Recounted(ix.latest)

\* Among the stored versions of a document its newest is the one of the table,
\* and a document of which nothing is stored has an empty row.
Newest(ix) ==
    /\ \A e \in SegPhysical(ix) : /\ 0 < e.version /\ e.version <= ix.latest[e.doc].version
                                  /\ e.version = ix.latest[e.doc].version => e = ix.latest[e.doc]
    /\ \A d \in Docs : /\ ix.latest[d].version <= ix.clock
                       /\ ix.latest[d] \in SegPhysical(ix) \/ ix.latest[d] = Unseen(d)

SegSaved(ix) == Counts(ix) /\ Newest(ix) /\ SegLoads(ix)

\* A live version that takes the place of a deleted one adds itself to the count.
LEMMA Joins ==
    ASSUME NEW latest \in [Docs -> SegEntry], IsFiniteSet(Occurrences(latest)),
           NEW d \in Docs, latest[d].deleted, NEW e \in SegEntry, ~e.deleted
    PROVE  LET after == [latest EXCEPT ![d] = e]
           IN  /\ IsFiniteSet(Occurrences(after))
               /\ Recounted(after) = Counted(Recounted(latest), e, 1)
               /\ Recounted(latest) \in Stats
  <1> DEFINE after == [latest EXCEPT ![d] = e]
             own == {d} \X e.terms
  <1>1. IsFiniteSet(Docs) /\ IsFiniteSet(e.terms) /\ e.terms \subseteq Terms
    BY IndexAssumption, FS_EmptySet DEF SegEntry, Terms
  <1>2. \A x \in Docs : after[x] = IF x = d THEN e ELSE latest[x]
    OBVIOUS
  <1>3. ASSUME NEW P \in SUBSET Docs, d \notin P
        PROVE  IsFiniteSet(P) /\ Cardinality(P) \in Int /\ Cardinality(P \cup {d}) = Cardinality(P) + 1
    <2>1. IsFiniteSet(P)
      BY <1>1, FS_Subset
    <2> QED BY <1>3, <2>1, FS_AddElement, FS_CardinalityType
  <1>4. /\ Cardinality({x \in Docs : ~after[x].deleted}) = Cardinality({x \in Docs : ~latest[x].deleted}) + 1
        /\ Cardinality({x \in Docs : ~latest[x].deleted}) \in Int
    <2> DEFINE P == {x \in Docs : ~latest[x].deleted}
    <2>1. {x \in Docs : ~after[x].deleted} = P \cup {d} /\ d \notin P /\ P \in SUBSET Docs
      BY <1>2
    <2> HIDE DEF P
    <2>2. Cardinality(P) \in Int /\ Cardinality(P \cup {d}) = Cardinality(P) + 1
      BY <1>3, <2>1
    <2> QED BY <2>1, <2>2 DEF P
  <1>5. ASSUME NEW t \in Terms
        PROVE  /\ Cardinality({x \in Docs : ~after[x].deleted /\ t \in after[x].terms})
                    = Cardinality({x \in Docs : ~latest[x].deleted /\ t \in latest[x].terms})
                      + IF t \in e.terms THEN 1 ELSE 0
               /\ Cardinality({x \in Docs : ~latest[x].deleted /\ t \in latest[x].terms}) \in Int
    <2> DEFINE P == {x \in Docs : ~latest[x].deleted /\ t \in latest[x].terms}
               Q == {x \in Docs : ~after[x].deleted /\ t \in after[x].terms}
    <2>1. d \notin P /\ P \in SUBSET Docs
      OBVIOUS
    <2>2. Q = IF t \in e.terms THEN P \cup {d} ELSE P
      BY <1>2
    <2> HIDE DEF P, Q
    <2>3. Cardinality(P) \in Int /\ Cardinality(P \cup {d}) = Cardinality(P) + 1
      BY <1>3, <2>1
    <2>4. Cardinality(Q) = Cardinality(P) + IF t \in e.terms THEN 1 ELSE 0
      BY <2>2, <2>3
    <2> QED BY <2>3, <2>4 DEF P, Q
  <1>6. IsFiniteSet(own) /\ Cardinality(own) = Cardinality(e.terms)
    <2>1. IsFiniteSet({d}) /\ Cardinality({d}) = 1
      BY FS_Singleton
    <2>2. IsFiniteSet(own) /\ Cardinality(own) = Cardinality({d}) * Cardinality(e.terms)
      BY <1>1, <2>1, FS_Product
    <2>3. Cardinality(e.terms) \in Nat
      BY <1>1, FS_CardinalityType
    <2>4. Cardinality({d}) * Cardinality(e.terms) = Cardinality(e.terms)
      BY <2>1, <2>3
    <2> QED BY <2>2, <2>4
  <1>7. Occurrences(after) = Occurrences(latest) \cup own /\ Occurrences(latest) \cap own = {}
    BY <1>1, <1>2 DEF Occurrences
  <1> HIDE DEF own
  <1>8. /\ IsFiniteSet(Occurrences(after))
        /\ Cardinality(Occurrences(after)) = Cardinality(Occurrences(latest)) + Cardinality(e.terms)
        /\ Cardinality(Occurrences(latest)) \in Int /\ Cardinality(e.terms) \in Int
    <2>1. Cardinality(Occurrences(latest)) \in Int /\ Cardinality(e.terms) \in Int
      BY <1>1, FS_CardinalityType
    <2>2. /\ IsFiniteSet(Occurrences(latest) \cup own)
          /\ Cardinality(Occurrences(latest) \cup own)
               = Cardinality(Occurrences(latest)) + Cardinality(own) - Cardinality(Occurrences(latest) \cap own)
      BY <1>6, FS_Union
    <2>3. Cardinality(Occurrences(latest) \cap own) = 0
      BY <1>7, FS_EmptySet
    <2>4. Cardinality(Occurrences(latest) \cup own)
            = Cardinality(Occurrences(latest)) + Cardinality(e.terms) - 0
      BY <1>6, <2>2, <2>3
    <2>5. Cardinality(Occurrences(latest)) + Cardinality(e.terms) - 0
            = Cardinality(Occurrences(latest)) + Cardinality(e.terms)
      BY <2>1
    <2> HIDE DEF after
    <2> QED BY <1>7, <2>1, <2>2, <2>4, <2>5
  <1>9. Recounted(latest) \in Stats
    BY <1>4, <1>5, <1>8 DEF Recounted, Stats
  <1>10. Recounted(after) = Counted(Recounted(latest), e, 1)
    <2> DEFINE old == Recounted(latest)
               new == Recounted(after)
    <2>1. new.count = old.count + 1
      BY <1>4 DEF Recounted
    <2>2. new.length = old.length + 1 * Cardinality(e.terms)
      BY <1>8 DEF Recounted
    <2>3. new.df = [t \in Terms |-> old.df[t] + IF t \in e.terms THEN 1 ELSE 0]
      BY <1>5 DEF Recounted
    <2>4. new = [count |-> new.count, length |-> new.length, df |-> new.df]
      BY DEF Recounted
    <2> HIDE DEF old, new
    <2>5. Counted(old, e, 1) = [count |-> old.count + 1, length |-> old.length + 1 * Cardinality(e.terms),
                                df |-> [t \in Terms |-> old.df[t] + IF t \in e.terms THEN 1 ELSE 0]]
      BY DEF Counted
    <2>6. new = Counted(old, e, 1)
      BY <2>1, <2>2, <2>3, <2>4, <2>5
    <2> QED BY <2>6 DEF old, new
  <1> QED BY <1>8, <1>9, <1>10

\* What was counted in can be counted out.
LEMMA CountedOut ==
    ASSUME NEW stats \in Stats, NEW e \in SegEntry
    PROVE  Counted(Counted(stats, e, 1), e, -1) = stats
  <1>1. CASE e.deleted
    BY <1>1 DEF Counted
  <1>2. CASE ~e.deleted
    <2>1. IsFiniteSet(e.terms)
      BY IndexAssumption, FS_EmptySet DEF SegEntry
    <2>2. Cardinality(e.terms) \in Int
      BY <2>1, FS_CardinalityType
    <2> DEFINE n == Cardinality(e.terms)
               df == [t \in Terms |-> stats.df[t] + IF t \in e.terms THEN 1 ELSE 0]
               with == Counted(stats, e, 1)
    <2>3. /\ with = [count |-> stats.count + 1, length |-> stats.length + 1 * n, df |-> df]
          /\ \A t \in Terms : df[t] = stats.df[t] + IF t \in e.terms THEN 1 ELSE 0
      BY <1>2 DEF Counted
    <2> HIDE DEF with, df
    <2>4. with.count = stats.count + 1 /\ with.length = stats.length + 1 * n /\ with.df = df
      BY <2>3
    <2>5. Counted(with, e, -1)
            = [count |-> with.count + (-1), length |-> with.length + (-1) * n,
               df |-> [t \in Terms |-> with.df[t] + IF t \in e.terms THEN -1 ELSE 0]]
      BY <1>2 DEF Counted
    <2>6. \A t \in Terms : with.df[t] + (IF t \in e.terms THEN -1 ELSE 0) = stats.df[t]
      BY <2>3, <2>4 DEF Stats
    <2>7. [t \in Terms |-> with.df[t] + IF t \in e.terms THEN -1 ELSE 0] = stats.df
      BY <2>6 DEF Stats
    <2>8. with.count + (-1) = stats.count /\ with.length + (-1) * n = stats.length
      <3> HIDE DEF n
      <3> QED BY <2>2, <2>4 DEF Stats, n
    <2>9. stats = [count |-> stats.count, length |-> stats.length, df |-> stats.df]
      BY DEF Stats
    <2> QED BY <2>5, <2>7, <2>8, <2>9 DEF with
  <1> QED BY <1>1, <1>2

\* Rows of deleted documents count nothing, whichever they are.
LEMMA SameCount ==
    ASSUME NEW latest \in [Docs -> SegEntry], NEW other \in [Docs -> SegEntry],
           \A d \in Docs : latest[d] = other[d] \/ (latest[d].deleted /\ other[d].deleted)
    PROVE  Recounted(other) = Recounted(latest) /\ Occurrences(other) = Occurrences(latest)
  <1>1. Occurrences(other) = Occurrences(latest)
    BY DEF Occurrences
  <1>2. {d \in Docs : ~other[d].deleted} = {d \in Docs : ~latest[d].deleted}
    OBVIOUS
  <1>3. \A t \in Terms : {d \in Docs : ~other[d].deleted /\ t \in other[d].terms}
                         = {d \in Docs : ~latest[d].deleted /\ t \in latest[d].terms}
    OBVIOUS
  <1> QED BY <1>1, <1>2, <1>3 DEF Recounted

\* The increments of one change of a document, one out and one in, give the
\* count of the new table.
LEMMA InstallCounts ==
    ASSUME NEW latest \in [Docs -> SegEntry], IsFiniteSet(Occurrences(latest)),
           NEW e \in SegEntry
    PROVE  LET after == [latest EXCEPT ![e.doc] = e]
           IN  /\ IsFiniteSet(Occurrences(after))
               /\ Recounted(after) = Counted(Counted(Recounted(latest), latest[e.doc], -1), e, 1)
  <1> DEFINE d == e.doc
             mid == [latest EXCEPT ![d] = Unseen(d)]
             after == [latest EXCEPT ![d] = e]
  <1>1. d \in Docs /\ Unseen(d) \in SegEntry /\ Unseen(d).deleted
    BY DEF SegEntry, Unseen
  <1>2. /\ mid \in [Docs -> SegEntry] /\ after \in [Docs -> SegEntry] /\ mid[d].deleted
        /\ [mid EXCEPT ![d] = latest[d]] = latest /\ [mid EXCEPT ![d] = e] = after
        /\ \A x \in Docs : x # d => mid[x] = latest[x] /\ after[x] = latest[x]
        /\ after[d] = e /\ latest[d] \in SegEntry
    BY <1>1
  <1> HIDE DEF mid, after
  <1>3. Occurrences(mid) \subseteq Occurrences(latest)
    BY <1>1, <1>2 DEF Occurrences
  <1>4. IsFiniteSet(Occurrences(mid))
    BY <1>3, FS_Subset
  <1>5. Counted(Recounted(latest), latest[d], -1) = Recounted(mid)
    <2>1. CASE latest[d].deleted
      BY <1>1, <1>2, <2>1, SameCount DEF Counted
    <2>2. CASE ~latest[d].deleted
      <3>1. /\ Recounted(latest) = Counted(Recounted(mid), latest[d], 1)
            /\ Recounted(mid) \in Stats
        BY <1>1, <1>2, <1>4, <2>2, Joins
      <3> QED BY <1>2, <3>1, CountedOut
    <2> QED BY <2>1, <2>2
  <1>6. IsFiniteSet(Occurrences(after)) /\ Recounted(after) = Counted(Recounted(mid), e, 1)
    <2>1. CASE e.deleted
      <3>1. Recounted(after) = Recounted(mid) /\ Occurrences(after) = Occurrences(mid)
        BY <1>1, <1>2, <2>1, SameCount
      <3> QED BY <1>4, <2>1, <3>1 DEF Counted
    <2>2. CASE ~e.deleted
      BY <1>1, <1>2, <1>4, <2>2, Joins
    <2> QED BY <2>1, <2>2
  <1> QED BY <1>5, <1>6 DEF after

\* One change keeps a snapshot sound: its version is new.
LEMMA InstallSaved ==
    ASSUME NEW ix, SegShape(ix), SegSaved(ix), NEW e \in SegEntry, e.version = ix.clock + 1
    PROVE  SegSaved(SegInstall(ix, e))
  <1> DEFINE after == SegInstall(ix, e)
             kept == {x \in ix.delta : x.doc # e.doc}
  <1>1. /\ SegShape(after) /\ after.clock = ix.clock + 1
        /\ after.latest = [ix.latest EXCEPT ![e.doc] = e]
        /\ SegPhysical(after) = ix.sealed \union kept \union {e}
        /\ after.stats = Counted(Counted(ix.stats, ix.latest[e.doc], -1), e, 1)
        /\ \/ after.sealed = ix.sealed /\ after.delta = kept \union {e}
           \/ after.sealed = ix.sealed \union (kept \union {e}) /\ after.delta = {}
    BY InstallLatest
  <1> HIDE DEF after
  <1>2. /\ ix.latest \in [Docs -> SegEntry] /\ \A d \in Docs : ix.latest[d].doc = d
        /\ ix.clock \in Nat /\ e.doc \in Docs
        /\ SegPhysical(ix) \subseteq SegEntry
        /\ \A x \in SegEntry : x.doc \in Docs /\ x.version \in Nat
    BY DEF SegShape, SegIndex, SegEntry, SegPhysical
  <1>3. Counts(after)
    BY <1>1, <1>2, InstallCounts DEF SegSaved, Counts
  <1>4. \A x \in Docs : after.latest[x] = IF x = e.doc THEN e ELSE ix.latest[x]
    BY <1>1, <1>2
  <1>5. \A x \in SegPhysical(ix) : x.version <= ix.clock
    BY DEF SegSaved, SegLoads
  <1>6. \A x \in SegPhysical(after) : x = e \/ (x \in SegPhysical(ix))
    BY <1>1 DEF SegPhysical
  <1>7. Newest(after)
    <2>1. ASSUME NEW x \in SegPhysical(after)
          PROVE  /\ 0 < x.version /\ x.version <= after.latest[x.doc].version
                 /\ x.version = after.latest[x.doc].version => x = after.latest[x.doc]
      <3>1. CASE x = e
        BY <1>2, <1>4, <3>1
      <3>2. CASE x \in SegPhysical(ix) /\ x.doc = e.doc /\ x # e
        <4>1. x.version \in Nat /\ x.version <= ix.clock /\ 0 < x.version
          BY <1>2, <1>5, <3>2 DEF SegSaved, Newest
        <4> QED BY <1>2, <1>4, <3>2, <4>1
      <3>3. CASE x \in SegPhysical(ix) /\ x.doc # e.doc
        BY <1>2, <1>4, <3>3 DEF SegSaved, Newest
      <3> QED BY <1>6, <3>1, <3>2, <3>3
    <2>2. ASSUME NEW d \in Docs
          PROVE  /\ after.latest[d].version <= after.clock
                 /\ after.latest[d] \in SegPhysical(after) \/ after.latest[d] = Unseen(d)
      <3>1. CASE d = e.doc
        BY <1>1, <1>2, <1>4, <3>1
      <3>2. CASE d # e.doc
        <4>1. /\ after.latest[d] = ix.latest[d] /\ ix.latest[d].version \in Nat
              /\ ix.latest[d].version <= ix.clock /\ ix.latest[d].doc = d
              /\ ix.latest[d] \in SegPhysical(ix) \/ ix.latest[d] = Unseen(d)
          BY <1>2, <1>4, <3>2 DEF SegSaved, Newest
        <4>2. after.latest[d].version <= after.clock
          BY <1>1, <1>2, <4>1
        <4>3. ix.latest[d] \in SegPhysical(ix) => ix.latest[d] \in SegPhysical(after)
          BY <1>1, <3>2, <4>1 DEF SegPhysical
        <4> QED BY <4>1, <4>2, <4>3
      <3> QED BY <3>1, <3>2
    <2> QED BY <2>1, <2>2 DEF Newest
  <1>8. SegLoads(after)
    <2>1. /\ ix.sealed \cap ix.delta = {}
          /\ \A x, y \in SegPhysical(ix) : x.version = y.version => x = y
          /\ \A x, y \in ix.delta : x.doc = y.doc => x = y
      BY DEF SegSaved, SegLoads
    <2>2. \A x \in SegPhysical(ix) : x.version \in Nat /\ x.version < e.version /\ x # e
      BY <1>2, <1>5
    <2>3. after.sealed \cap after.delta = {}
      BY <1>1, <2>1, <2>2 DEF SegPhysical
    <2>4. \A x, y \in SegPhysical(after) : x.version = y.version => x = y
      BY <1>2, <1>6, <2>1, <2>2
    <2>5. \A x \in SegPhysical(after) : x.version <= after.clock
      BY <1>1, <1>2, <1>6, <2>2
    <2>6. \A x, y \in after.delta : x.doc = y.doc => x = y
      BY <1>1, <2>1
    <2> QED BY <2>3, <2>4, <2>5, <2>6 DEF SegLoads
  <1> QED BY <1>3, <1>7, <1>8 DEF SegSaved, after

LEMMA NewSaved == SegSaved(NewSegIndex)
  <1>1. SegPhysical(NewSegIndex) = {} /\ NewSegIndex.sealed = {} /\ NewSegIndex.delta = {}
    BY DEF NewSegIndex, SegPhysical
  <1>2. \A d \in Docs : /\ NewSegIndex.latest[d] = Unseen(d) /\ NewSegIndex.latest[d].version = 0
                        /\ NewSegIndex.latest[d].deleted
    BY DEF NewSegIndex, Unseen
  <1>3. NewSegIndex.clock = 0 /\ NewSegIndex.stats = NoStats
    BY DEF NewSegIndex
  <1>4. Occurrences(NewSegIndex.latest) = {}
    BY <1>2 DEF Occurrences
  <1>5. {d \in Docs : ~NewSegIndex.latest[d].deleted} = {}
    BY <1>2
  <1>6. \A t \in Terms : {d \in Docs : ~NewSegIndex.latest[d].deleted /\ t \in NewSegIndex.latest[d].terms} = {}
    BY <1>2
  <1>7. IsFiniteSet({}) /\ Cardinality({}) = 0
    BY FS_EmptySet
  <1>8. Recounted(NewSegIndex.latest) = NoStats
    BY <1>4, <1>5, <1>6, <1>7 DEF Recounted, NoStats
  <1>9. Counts(NewSegIndex)
    BY <1>3, <1>4, <1>7, <1>8 DEF Counts
  <1>10. Newest(NewSegIndex) /\ SegLoads(NewSegIndex)
    BY <1>1, <1>2, <1>3 DEF Newest, SegLoads
  <1> QED BY <1>9, <1>10 DEF SegSaved

\* Compaction forgets superseded versions and tombstones and leaves the counts.
LEMMA CompactSaved ==
    ASSUME NEW ix, SegShape(ix), NEW want, Tells(ix, want), SegSaved(ix),
           NEW cap, cap.live = SegLive(ix)
    PROVE  SegSaved(SegCompacted(ix, cap))
  <1> DEFINE after == SegCompacted(ix, cap)
  <1>1. /\ SegShape(after) /\ after.clock = ix.clock
        /\ SegPhysical(after) = SegLive(ix) /\ after.delta = {} /\ after.stats = ix.stats
        /\ \A d \in Docs : after.latest[d] = IF ix.latest[d].deleted THEN Unseen(d) ELSE ix.latest[d]
    BY CompactTells
  <1> HIDE DEF after
  <1>2. /\ ix.latest \in [Docs -> SegEntry] /\ \A d \in Docs : ix.latest[d].doc = d
        /\ after.latest \in [Docs -> SegEntry] /\ ix.clock \in Nat
        /\ \A x \in SegEntry : x.doc \in Docs /\ x.version \in Nat
    BY <1>1 DEF SegShape, SegIndex, SegEntry
  <1>3. \A d \in Docs : Unseen(d).deleted /\ Unseen(d).version = 0
    BY DEF Unseen
  <1>4. Recounted(after.latest) = Recounted(ix.latest) /\ Occurrences(after.latest) = Occurrences(ix.latest)
    BY <1>1, <1>2, <1>3, SameCount
  <1>5. Counts(after)
    BY <1>1, <1>4 DEF SegSaved, Counts
  \* What is stored afterwards is the live rows of the table.
  <1>6. ASSUME NEW e \in SegPhysical(after)
        PROVE  /\ e.doc \in Docs /\ e = ix.latest[e.doc] /\ e = after.latest[e.doc] /\ ~e.deleted
               /\ e \in SegPhysical(ix)
    <2>1. PICK d \in Docs : ~ix.latest[d].deleted /\ e = ix.latest[d]
      BY <1>1 DEF SegLive
    <2>2. e.doc = d /\ e = after.latest[d]
      BY <1>1, <1>2, <2>1
    <2>3. e \in SegPhysical(ix)
      BY <1>3, <2>1 DEF SegSaved, Newest
    <2> QED BY <2>1, <2>2, <2>3
  <1>7. \A d \in Docs : ~ix.latest[d].deleted => ix.latest[d] \in SegPhysical(after)
    BY <1>1 DEF SegLive
  <1>8. Newest(after)
    <2>1. \A e \in SegPhysical(after) : /\ 0 < e.version /\ e.version <= after.latest[e.doc].version
                                        /\ e.version = after.latest[e.doc].version => e = after.latest[e.doc]
      BY <1>2, <1>6 DEF SegSaved, Newest
    <2>2. \A d \in Docs : /\ after.latest[d].version <= after.clock
                          /\ after.latest[d] \in SegPhysical(after) \/ after.latest[d] = Unseen(d)
      <3> SUFFICES ASSUME NEW d \in Docs
                   PROVE  /\ after.latest[d].version <= after.clock
                          /\ after.latest[d] \in SegPhysical(after) \/ after.latest[d] = Unseen(d)
        OBVIOUS
      <3>1. CASE ix.latest[d].deleted
        BY <1>1, <1>2, <1>3, <3>1
      <3>2. CASE ~ix.latest[d].deleted
        BY <1>1, <1>7, <3>2 DEF SegSaved, Newest
      <3> QED BY <3>1, <3>2
    <2> QED BY <2>1, <2>2 DEF Newest
  <1>9. SegLoads(after)
    BY <1>1, <1>6 DEF SegSaved, SegLoads
  <1> QED BY <1>5, <1>8, <1>9 DEF SegSaved, after

\* load gives back the index whose snapshot it read.
LEMMA SavedLoads ==
    ASSUME NEW ix, SegShape(ix), SegSaved(ix)
    PROVE  SegLoads(ix) /\ SegLoaded(ix) = ix
  <1> DEFINE newest(d) == {e \in SegPhysical(ix) : /\ e.doc = d
                                                   /\ \A x \in SegPhysical(ix) : x.doc = d => x.version <= e.version}
             latest == [d \in Docs |-> IF newest(d) = {} THEN Unseen(d) ELSE CHOOSE e \in newest(d) : TRUE]
  <1>1. /\ ix.latest \in [Docs -> SegEntry] /\ \A d \in Docs : ix.latest[d].doc = d
        /\ SegPhysical(ix) \subseteq SegEntry
        /\ \A x \in SegEntry : x.doc \in Docs /\ x.version \in Nat
    BY DEF SegShape, SegIndex, SegEntry, SegPhysical
  <1>2. ASSUME NEW d \in Docs PROVE latest[d] = ix.latest[d]
    <2>1. CASE ix.latest[d] \in SegPhysical(ix)
      <3>1. ix.latest[d] \in newest(d)
        BY <1>1, <2>1 DEF SegSaved, Newest
      <3>2. ASSUME NEW e \in newest(d) PROVE e = ix.latest[d]
        <4>1. e \in SegPhysical(ix) /\ e.doc = d /\ ix.latest[d].version <= e.version
          BY <3>1
        <4>2. e.version <= ix.latest[d].version
          BY <4>1 DEF SegSaved, Newest
        <4>3. e.version \in Nat /\ ix.latest[d].version \in Nat
          BY <1>1, <4>1
        <4>4. e.version = ix.latest[d].version
          BY <4>1, <4>2, <4>3
        <4> QED BY <4>1, <4>4 DEF SegSaved, Newest
      <3>3. newest(d) = {ix.latest[d]}
        BY <3>1, <3>2
      <3> HIDE DEF newest
      <3> QED BY <3>3
    <2>2. CASE ix.latest[d] \notin SegPhysical(ix)
      <3>1. ix.latest[d] = Unseen(d) /\ ix.latest[d].version = 0
        BY <2>2 DEF SegSaved, Newest, Unseen
      <3>2. ASSUME NEW e \in SegPhysical(ix), e.doc = d PROVE FALSE
        <4>1. 0 < e.version /\ e.version <= 0 /\ e.version \in Nat
          BY <1>1, <3>1, <3>2 DEF SegSaved, Newest
        <4> QED BY <4>1
      <3>3. newest(d) = {}
        BY <3>2
      <3> HIDE DEF newest
      <3> QED BY <3>1, <3>3
    <2> QED BY <2>1, <2>2
  <1> HIDE DEF newest
  <1>3. latest = ix.latest
    BY <1>1, <1>2
  <1>4. SegLoaded(ix) = [ix EXCEPT !.latest = latest, !.stats = Recounted(latest)]
    BY DEF SegLoaded, newest
  <1> HIDE DEF latest
  <1>5. SegLoaded(ix) = [ix EXCEPT !.latest = ix.latest, !.stats = ix.stats]
    BY <1>3, <1>4 DEF SegSaved, Counts
  <1>6. [ix EXCEPT !.latest = ix.latest, !.stats = ix.stats] = ix
    BY DEF SegShape, SegIndex
  <1> QED BY <1>5, <1>6 DEF SegSaved

-----------------------------------------------------------------------------
(* Snapshots: both indexes.                                                *)

Saved == SegSaved(lex) /\ VecLoads(vec)

LEMMA SavedInit == Init => Saved
  <1> SUFFICES ASSUME Init PROVE Saved
    OBVIOUS
  <1>1. SegSaved(lex)
    BY NewSaved DEF Init
  <1>2. VecPhysical(vec) = {} /\ vec.base = {} /\ VecLiveDocs(vec) = {}
    BY DEF Init, NewVecIndex, VecPhysical, VecLiveDocs, NoRow
  <1> QED BY <1>1, <1>2 DEF Saved, VecLoads

LEMMA UpsertSaved ==
    ASSUME NEW ix, SegShape(ix), SegSaved(ix), NEW d \in Docs, NEW c \in Contents
    PROVE  SegSaved(SegUpsert(ix, d, c))
  <1> DEFINE e == Live(d, ix.clock + 1, c)
  <1>1. e \in SegEntry /\ e.version = ix.clock + 1
    BY DEF Live, SegEntry, SegShape, SegIndex
  <1> HIDE DEF e
  <1>2. SegSaved(SegInstall(ix, e))
    BY <1>1, InstallSaved
  <1> QED BY <1>2 DEF SegUpsert, e

LEMMA DeleteSaved ==
    ASSUME NEW ix, SegShape(ix), SegSaved(ix), NEW d \in Docs
    PROVE  SegSaved(SegDelete(ix, d))
  <1> DEFINE e == Tombstone(d, ix.clock + 1)
  <1>1. e \in SegEntry /\ e.version = ix.clock + 1
    BY DEF Tombstone, SegEntry, SegShape, SegIndex
  <1> HIDE DEF e
  <1>2. SegSaved(SegInstall(ix, e))
    BY <1>1, InstallSaved
  <1> QED BY <1>2 DEF SegDelete, e

LEMMA SavedStep == Saved /\ LexInv /\ DenseInv /\ [Next]_vars => Saved'
  <1> SUFFICES ASSUME Saved, LexInv, DenseInv, [Next]_vars PROVE Saved'
    OBVIOUS
  <1> USE DEF Saved
  <1>1. /\ SegShape(lex) /\ Tells(lex, records) /\ VecShape(vec)
        /\ durable \in [Docs -> Bodies]
    BY DEF LexInv, DenseInv, Bodied
  <1>2. ASSUME NEW d \in Docs, NEW body \in Bodies, Changed(d, body) PROVE Saved'
    <2>1. vec' = vec /\ (lex' = lex \/ lex' = SegDelete(lex, d)
                          \/ (body \in Contents /\ lex' = SegUpsert(lex, d, body)))
      BY <1>2 DEF Changed, Asked
    <2>2. SegSaved(lex')
      BY <1>1, <2>1, UpsertSaved, DeleteSaved
    <2> QED BY <2>1, <2>2
  <1>3. ASSUME NEW d \in Docs, Add(d) PROVE Saved'
    <2>1. vec' = vec /\ (lex' = lex \/ (durable[d] \in Contents /\ lex' = SegUpsert(lex, d, durable[d])))
      BY <1>3 DEF Add
    <2>2. SegSaved(lex')
      BY <1>1, <2>1, UpsertSaved
    <2> QED BY <2>1, <2>2
  <1>4. CASE Renew
    BY <1>4, NewSaved DEF Renew
  <1>5. CASE InstallLexical
    <2>1. /\ lex' = IF built.object = object /\ SegFresh(lex, built) THEN SegCompacted(lex, built) ELSE lex
          /\ phase["lexical"] = "build" /\ vec' = vec
      BY <1>5 DEF InstallLexical
    <2>2. SegSaved(lex')
      BY <1>1, <2>1, CompactSaved DEF LexInv, Captured, SegFresh
    <2> QED BY <2>1, <2>2
  <1>6. ASSUME NEW d \in Docs, NEW c \in Bodies, lex' = lex,
               vec' = IF c \in Contents THEN VecUpsert(vec, d, c) ELSE VecDelete(vec, d)
        PROVE  Saved'
    <2>1. CASE c \in Contents
      BY <1>1, <1>6, <2>1, VecUpsertView
    <2>2. CASE c \notin Contents
      BY <1>1, <1>6, <2>2, VecDeleteView
    <2> QED BY <2>1, <2>2
  <1>7. ASSUME NEW from \in {"dense", "refill"}, NEW next \in {"open", "filling"}, Dense(from, next)
        PROVE  Saved'
    <2>1. job.doc \in Docs /\ job.body \in Bodies
      BY <1>7 DEF Dense, DenseInv, Jobbed, LexInv, Bodied
    <2> QED BY <1>6, <1>7, <2>1 DEF Dense
  <1>8. ASSUME NEW d \in Docs, Drop(d) PROVE Saved'
    BY <1>1, <1>8, VecDeleteView DEF Drop
  <1>9. CASE InstallDense
    <2>1. /\ vec' = IF VecFresh(vec, rebuilt) THEN VecCompacted(vec, rebuilt) ELSE vec
          /\ phase["dense"] = "build" /\ lex' = lex
      BY <1>9 DEF InstallDense
    <2>2. VecLoads(vec')
      BY <1>1, <2>1, VecCompactView DEF DenseInv, Rebuilt
    <2> QED BY <2>1, <2>2
  <1>10. CASE UNCHANGED <<lex, vec>>
    BY <1>10
  <1>11. \/ UNCHANGED <<lex, vec>>
         \/ \E d \in Docs, body \in Bodies : Changed(d, body)
         \/ \E d \in Docs : Drop(d) \/ Add(d)
         \/ Dense("dense", "open") \/ Dense("refill", "filling")
         \/ Renew \/ InstallLexical \/ InstallDense
    BY WriteChanges
    DEF Next, Begin, Commit, Continue, Rollback, Filled, Fail, EmbedFails, FlushFails,
        Maintain, Wake, Check, CaptureLexical, CaptureDense, vars
  <1> QED BY <1>2, <1>3, <1>4, <1>5, <1>7, <1>8, <1>9, <1>10, <1>11

\* Whenever a snapshot is taken, what save writes passes every check of load,
\* and load rebuilds the index that wrote it - the table of newest versions and
\* the statistics that the writer has only ever changed by increments - after
\* writes, deletions, seals, compactions and rollbacks in any number and order.
THEOREM Restores == Spec => []SnapshotsRestore
  <1> DEFINE Inv == LexInv /\ DenseInv /\ Saved
  <1>1. Init => Inv
    BY LexInit, DenseInit, SavedInit
  <1>2. Inv /\ [Next]_vars => Inv'
    BY LexStep, DenseStep, SavedStep
  <1>3. Inv => SnapshotsRestore
    BY SavedLoads DEF LexInv, Saved, SnapshotsRestore
  <1> HIDE DEF Inv
  <1> QED BY <1>1, <1>2, <1>3, PTL DEF Spec

-----------------------------------------------------------------------------
(* Agreement between writes.                                               *)

Working ==
    /\ pc \in {"idle", "open", "dense", "failed", "dropping", "filling", "refill"}
    /\ kind \in {"run", "other"}
    /\ job \in [doc : Docs, body : Bodies]
    /\ torn \subseteq Docs
    /\ wake \in [Indexes -> BOOLEAN]
    /\ writes \in 0..MaxWrites /\ faults \in 0..MaxFaults
    /\ triggered \in BOOLEAN

\* The dense index differs from what it was told in the document whose write
\* is under way, and in documents whose embedding failed - which a rollback
\* reaches, because they are still there.
Lagging == \A d \in Docs : VecView(vec)[d] # Kept[d]
    => \/ pc \in {"dense", "refill"} /\ d = job.doc
       \/ d \in torn /\ (pc = "dropping" => d \in todo)
TornStay ==
    \A d \in torn : \/ records[d] # Absent
                    \/ pc = "dense" /\ d = job.doc
Dropped == pc = "dropping" => \A d \in Docs \ todo : VecView(vec)[d] = Absent
Whole == pc \in {"filling", "refill"} => torn = {}

Differing == Lagging /\ TornStay /\ Dropped /\ Whole

LEMMA WorkingInit == ASSUME Docs # {} PROVE Init => Working /\ Differing
  <1> SUFFICES ASSUME Init PROVE Working /\ Differing
    OBVIOUS
  <1>1. NoJob \in [doc : Docs, body : Bodies]
    BY DEF NoJob, Bodies
  <1>2. Working
    BY <1>1, IndexAssumption DEF Init, Working
  <1>3. VecView(vec) = Kept
    BY DenseInit DEF Init, Kept, Wanted
  <1>4. Differing
    BY <1>3 DEF Init, Differing, Lagging, TornStay, Dropped, Whole
  <1> QED BY <1>2, <1>4

LEMMA WorkingStep ==
    ASSUME Docs # {}
    PROVE  Working /\ LexInv /\ [Next]_vars => Working'
  <1> SUFFICES ASSUME Working, LexInv, [Next]_vars PROVE Working'
    OBVIOUS
  <1> USE DEF Working
  <1>1. MaxWrites \in Nat /\ MaxFaults \in Nat
    BY IndexAssumption
  <1>2. durable \in [Docs -> Bodies]
    BY DEF LexInv, Bodied
  <1>3. NoJob \in [doc : Docs, body : Bodies]
    BY DEF NoJob, Bodies
  <1>4. ASSUME NEW k \in {"run", "other"}, Begin(k) PROVE Working'
    BY <1>4 DEF Begin, worker
  <1>5. ASSUME NEW d \in Docs, NEW body \in Bodies, Changed(d, body) PROVE Working'
    BY <1>1, <1>5 DEF Changed, worker
  <1>6. CASE Commit
    <2>1. wake' \in [Indexes -> BOOLEAN]
      BY <1>6 DEF Commit
    <2> QED BY <1>6, <2>1 DEF Commit
  <1>7. ASSUME NEW from \in {"dense", "refill"}, NEW next \in {"open", "filling"}, Dense(from, next)
        PROVE  Working'
    BY <1>3, <1>7 DEF Dense, worker
  <1>8. ASSUME NEW from \in {"dense", "refill"}, EmbedFails(from) PROVE Working'
    BY <1>1, <1>3, <1>8 DEF EmbedFails, worker
  <1>9. CASE FlushFails
    BY <1>1, <1>9 DEF FlushFails, worker
  <1>10. CASE Rollback \/ Renew \/ Filled
    BY <1>10 DEF Rollback, Renew, Filled, worker
  <1>11. ASSUME NEW d \in Docs, Drop(d) \/ Add(d) PROVE Working'
    BY <1>2, <1>11 DEF Drop, Add, worker
  <1>12. ASSUME NEW i \in Indexes, Maintain(i) PROVE Working'
    BY <1>12 DEF Maintain, Wake, Check, writer
  <1>13. CASE CaptureLexical \/ CaptureDense \/ InstallLexical \/ InstallDense \/ UNCHANGED vars
    BY <1>13 DEF CaptureLexical, CaptureDense, InstallLexical, InstallDense, vars, writer, worker
  <1> QED BY <1>4, <1>5, <1>6, <1>7, <1>8, <1>9, <1>10, <1>11, <1>12, <1>13,
             WriteChanges
          DEF Next, Continue, Fail

LEMMA DifferingStep ==
    ASSUME Docs # {}
    PROVE  Differing /\ Working /\ LexInv /\ DenseInv /\ [Next]_vars => Differing'
  <1> SUFFICES ASSUME Differing, Working, LexInv, DenseInv, [Next]_vars PROVE Differing'
    OBVIOUS
  <1>0. Lagging /\ TornStay /\ Dropped /\ Whole
    BY DEF Differing
  <1>1. /\ records \in [Docs -> Bodies] /\ durable \in [Docs -> Bodies] /\ todo \subseteq Docs
        /\ torn \subseteq Docs /\ job \in [doc : Docs, body : Bodies]
    BY DEF LexInv, Bodied, Working
  <1>2. Absent \notin Contents
    BY IndexAssumption
  <1>3. ASSUME NEW d \in Docs, NEW body \in Bodies, Changed(d, body) PROVE Differing'
    <2>1. /\ pc = "open" /\ pc' = "dense" /\ job'.doc = d /\ UNCHANGED <<vec, torn, todo>>
          /\ records' = [records EXCEPT ![d] = body]
      BY <1>3 DEF Changed
    <2>2. \A x \in Docs : x # d => Kept'[x] = Kept[x] /\ records'[x] = records[x]
      BY <1>1, <2>1 DEF Kept, Wanted
    <2>3. VecView(vec)' = VecView(vec)
      BY <2>1
    <2>4. Lagging'
      BY <1>0, <1>1, <2>1, <2>3, <2>2 DEF Lagging, TornStay, Whole
    <2>5. TornStay'
      BY <1>0, <1>1, <2>1, <2>3, <2>2 DEF TornStay
    <2>6. Dropped'
      BY <1>0, <1>1, <2>1, <2>3, <2>2 DEF Dropped, Lagging, TornStay
    <2>7. Whole'
      BY <1>0, <1>1, <2>1, <2>3, <2>2 DEF Whole
    <2> QED BY <2>4, <2>5, <2>6, <2>7 DEF Differing
  <1>4. ASSUME NEW from \in {"dense", "refill"}, NEW next \in {"open", "filling"}, Dense(from, next),
               from = "refill" <=> next = "filling"
        PROVE  Differing'
    <2> DEFINE d == job.doc
    <2>1. d \in Docs /\ job.body = records[d]
      BY <1>4 DEF Dense, DenseInv, Jobbed
    <2>2. /\ pc = from /\ pc' = next /\ torn' = torn \ {d} /\ UNCHANGED <<records, todo>>
          /\ vec' = IF job.body \in Contents THEN VecUpsert(vec, d, job.body) ELSE VecDelete(vec, d)
      BY <1>4 DEF Dense
    <2>3. VecView(vec') = [VecView(vec) EXCEPT ![d] = IF job.body \in Contents THEN job.body ELSE Absent]
      <3>1. CASE job.body \in Contents
        BY <2>1, <2>2, <3>1, VecUpsertView DEF DenseInv
      <3>2. CASE job.body \notin Contents
        BY <2>1, <2>2, <3>2, VecDeleteView DEF DenseInv
      <3> QED BY <3>1, <3>2
    <2>4. Kept' = Kept /\ Kept[d] = IF job.body \in Contents THEN job.body ELSE Absent
      BY <2>1, <2>2 DEF Kept, Wanted
    <2>5. \A x \in Docs : VecView(vec')[x] = IF x = d THEN Kept[d] ELSE VecView(vec)[x]
      BY <2>1, <2>3, <2>4, VecViewDomain
    <2>6. Lagging'
      BY <1>0, <1>4, <2>2, <2>4, <2>5 DEF Lagging, TornStay, Whole
    <2>7. TornStay'
      BY <1>0, <1>4, <2>2, <2>4, <2>5 DEF TornStay
    <2>8. Dropped'
      BY <1>0, <1>4, <2>2, <2>4, <2>5 DEF Dropped, Lagging, TornStay
    <2>9. Whole'
      BY <1>0, <1>4, <2>2, <2>4, <2>5 DEF Whole
    <2> QED BY <2>6, <2>7, <2>8, <2>9 DEF Differing
  <1>5. ASSUME NEW from \in {"dense", "refill"}, EmbedFails(from) PROVE Differing'
    <2>1. /\ pc = from /\ pc' \in {"failed", "idle"} /\ torn' = torn \cup {job.doc}
          /\ job.body \in Contents /\ UNCHANGED <<records, vec>>
      BY <1>5 DEF EmbedFails
    <2>2. records[job.doc] # Absent /\ job.doc \in Docs
      BY <1>2, <2>1 DEF DenseInv, Jobbed
    <2>3. Kept' = Kept
      BY <2>1 DEF Kept, Wanted
    <2>4. VecView(vec)' = VecView(vec)
      BY <2>1
    <2>5. Lagging'
      BY <1>0, <2>1, <2>4, <2>2, <2>3 DEF Lagging, TornStay, Whole
    <2>6. TornStay'
      BY <1>0, <2>1, <2>4, <2>2, <2>3 DEF TornStay
    <2>7. Dropped'
      BY <1>0, <2>1, <2>4, <2>2, <2>3 DEF Dropped, Lagging, TornStay
    <2>8. Whole'
      BY <1>0, <2>1, <2>4, <2>2, <2>3 DEF Whole
    <2> QED BY <2>5, <2>6, <2>7, <2>8 DEF Differing
  <1>6. CASE Rollback
    <2>1. /\ pc = "failed" /\ pc' = "dropping" /\ todo' = {d \in Docs : records[d] # Absent}
          /\ UNCHANGED <<records, vec, torn>>
      BY <1>6 DEF Rollback
    <2>2. Kept' = Kept /\ \A d \in Docs \ todo' : Kept[d] = Absent
      BY <1>1, <1>2, <2>1 DEF Kept, Wanted
    <2>3. VecView(vec)' = VecView(vec)
      BY <2>1
    <2>4. Lagging'
      BY <1>0, <1>1, <2>1, <2>3, <2>2 DEF Lagging, TornStay, Whole
    <2>5. TornStay'
      BY <1>0, <1>1, <2>1, <2>3, <2>2 DEF TornStay
    <2>6. Dropped'
      BY <1>0, <1>1, <2>1, <2>3, <2>2 DEF Dropped, Lagging, TornStay
    <2>7. Whole'
      BY <1>0, <1>1, <2>1, <2>3, <2>2 DEF Whole
    <2> QED BY <2>4, <2>5, <2>6, <2>7 DEF Differing
  <1>7. ASSUME NEW d \in Docs, Drop(d) PROVE Differing'
    <2>1. /\ pc = "dropping" /\ pc' = "dropping" /\ d \in todo /\ todo' = todo \ {d}
          /\ vec' = VecDelete(vec, d) /\ UNCHANGED <<records, torn>>
      BY <1>7 DEF Drop
    <2>2. VecView(vec') = [VecView(vec) EXCEPT ![d] = Absent]
      BY <2>1, VecDeleteView DEF DenseInv
    <2>3. \A x \in Docs : VecView(vec')[x] = IF x = d THEN Absent ELSE VecView(vec)[x]
      BY <2>2, VecViewDomain
    <2>4. \A x \in Docs : Kept'[x] = IF x = d THEN Absent ELSE Kept[x]
      BY <2>1 DEF Kept, Wanted
    <2>5. Lagging'
      BY <1>0, <2>1, <2>3, <2>4 DEF Lagging, TornStay, Whole
    <2>6. TornStay'
      BY <1>0, <2>1, <2>3, <2>4 DEF TornStay
    <2>7. Dropped'
      BY <1>0, <2>1, <2>3, <2>4 DEF Dropped, Lagging, TornStay
    <2>8. Whole'
      BY <1>0, <2>1, <2>3, <2>4 DEF Whole
    <2> QED BY <2>5, <2>6, <2>7, <2>8 DEF Differing
  <1>8. CASE Renew
    <2>1. /\ pc = "dropping" /\ todo = {} /\ pc' = "filling" /\ torn' = {} /\ vec' = vec
          /\ records' = [d \in Docs |-> Absent]
      BY <1>8 DEF Renew
    <2>2. Kept' = [d \in Docs |-> Absent]
      BY <2>1 DEF Kept, Wanted
    <2>3. VecView(vec)' = VecView(vec)
      BY <2>1
    <2>4. Lagging'
      BY <1>0, <2>1, <2>3, <2>2 DEF Lagging, Dropped
    <2>5. TornStay'
      BY <1>0, <2>1, <2>2 DEF TornStay
    <2>6. Dropped'
      BY <1>0, <2>1, <2>2 DEF Dropped, Lagging, TornStay
    <2>7. Whole'
      BY <1>0, <2>1, <2>2 DEF Whole
    <2> QED BY <2>4, <2>5, <2>6, <2>7 DEF Differing
  <1>9. ASSUME NEW d \in Docs, Add(d) PROVE Differing'
    <2>1. /\ pc = "filling" /\ pc' = "refill" /\ job'.doc = d /\ UNCHANGED <<vec, torn>>
          /\ records' = [records EXCEPT ![d] = durable[d]]
      BY <1>9 DEF Add
    <2>2. \A x \in Docs : x # d => Kept'[x] = Kept[x]
      BY <1>1, <2>1 DEF Kept, Wanted
    <2>3. VecView(vec)' = VecView(vec)
      BY <2>1
    <2>4. Lagging'
      BY <1>0, <2>1, <2>3, <2>2 DEF Lagging, TornStay, Whole
    <2>5. TornStay'
      BY <1>0, <2>1 DEF TornStay, Whole
    <2>6. Dropped'
      BY <1>0, <2>1, <2>2 DEF Dropped, Lagging, TornStay
    <2>7. Whole'
      BY <1>0, <2>1, <2>2 DEF Whole
    <2> QED BY <2>4, <2>5, <2>6, <2>7 DEF Differing
  <1>10. CASE InstallDense
    <2>1. /\ vec' = IF VecFresh(vec, rebuilt) THEN VecCompacted(vec, rebuilt) ELSE vec
          /\ phase["dense"] = "build" /\ UNCHANGED <<records, pc, todo, job, torn>>
      BY <1>10 DEF InstallDense, writer
    <2>2. VecView(vec') = VecView(vec)
      BY <2>1, VecCompactView DEF DenseInv, Rebuilt
    <2>3. Kept' = Kept
      BY <2>1 DEF Kept, Wanted
    <2>4. Lagging'
      BY <1>0, <2>1, <2>2, <2>3 DEF Lagging, TornStay, Whole
    <2>5. TornStay'
      BY <1>0, <2>1, <2>2, <2>3 DEF TornStay
    <2>6. Dropped'
      BY <1>0, <2>1, <2>2, <2>3 DEF Dropped, Lagging, TornStay
    <2>7. Whole'
      BY <1>0, <2>1, <2>2, <2>3 DEF Whole
    <2> QED BY <2>4, <2>5, <2>6, <2>7 DEF Differing
  <1>11. CASE (\E k \in {"run", "other"} : Begin(k)) \/ Commit \/ FlushFails \/ Filled
    <2>1. /\ vec' = vec /\ records' = records /\ torn' = torn
          /\ pc \in {"idle", "open", "filling"} /\ pc' \in {"open", "idle", "failed"}
      BY <1>11 DEF Begin, Commit, FlushFails, Filled
    <2>2. Kept' = Kept /\ VecView(vec)' = VecView(vec)
      BY <2>1 DEF Kept, Wanted
    <2> QED BY <1>0, <2>1, <2>2 DEF Differing, Lagging, TornStay, Dropped, Whole
  <1>12. CASE \/ CaptureLexical \/ CaptureDense \/ InstallLexical \/ (\E i \in Indexes : Maintain(i))
              \/ UNCHANGED vars
    <2>1. /\ vec' = vec /\ records' = records /\ torn' = torn
          /\ pc' = pc /\ todo' = todo /\ job' = job
      BY <1>12 DEF CaptureLexical, CaptureDense, InstallLexical, Maintain, Wake, Check, vars, writer
    <2>2. Kept' = Kept /\ VecView(vec)' = VecView(vec)
      BY <2>1 DEF Kept, Wanted
    <2> QED BY <1>0, <2>1, <2>2 DEF Differing, Lagging, TornStay, Dropped, Whole
  <1> QED BY <1>3, <1>4, <1>5, <1>6, <1>7, <1>8, <1>9, <1>10, <1>11, <1>12,
             WriteChanges
          DEF Next, Continue, Fail

\* Between two writes both indexes serve exactly what the working set holds,
\* after batches, failed embeddings, rollbacks and compactions of any number and
\* order - but for the records whose embedding failed, whose lexical half stays.
THEOREM Agreement == ASSUME Docs # {} PROVE Spec => []IndexesAgree
  <1> DEFINE Inv == LexInv /\ DenseInv /\ Working /\ Differing
  <1>1. Init => Inv
    BY LexInit, DenseInit, WorkingInit
  <1>2. Inv /\ [Next]_vars => Inv'
    BY LexStep, DenseStep, WorkingStep, DifferingStep
  <1>3. Inv => IndexesAgree
    <2> SUFFICES ASSUME Inv PROVE IndexesAgree
      OBVIOUS
    <2>1. TypeOK
      BY DEF TypeOK, LexInv, Bodied, SegShape, SegIndex, SegPhysical, Stats, DenseInv, VecShape,
             VecIndex, VecPhysical, VersionRow, Working
    <2>2. SegView(lex) = Wanted
      BY ViewOfTold DEF LexInv, Wanted
    <2>3. pc \in {"idle", "open"} => Kept = Wanted
      BY DEF Kept, Wanted
    <2> QED BY <2>1, <2>2, <2>3 DEF IndexesAgree, Differing, Lagging
  <1> HIDE DEF Inv
  <1> QED BY <1>1, <1>2, <1>3, PTL DEF Spec

=============================================================================
