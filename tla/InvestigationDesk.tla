-------------------------- MODULE InvestigationDesk --------------------------
(***************************************************************************)
(* Unattended investigations.  The poll thread turns landed alerts and      *)
(* suggestions into durable cases and merges the cases a suggestion shows   *)
(* to be one (src/domains/network_rca/investigation_case.py); a dispatcher  *)
(* claims the cases that are owed work and worker threads take each through *)
(* a session: open, observe, decide, analyse, act, read back                *)
(* (src/frontend/gateway/app/investigation_cases.py and investigate.py).    *)
(*                                                                         *)
(* Three stores tell one story: the case rows, in SQLite, one transaction   *)
(* per event; the session snapshots, one file each; and the sessions,       *)
(* claims and queue of the process, which a crash loses.  A case is named   *)
(* after the source that opened it.  Of its events the model keeps the      *)
(* sessions started and the decisions; the others change its status only.   *)
(* What a session concludes from its probes is a choice.                    *)
(***************************************************************************)
EXTENDS Integers, FiniteSets, Sequences, SequencesExt

CONSTANTS
    Alerts, Suggestions, \* the sources that may land
    Workers,             \* worker threads of the dispatcher
    MaxSessions,         \* bound: sessions ever opened
    Scopes,              \* what the facts of a case may bound it to
    Grades,              \* what the latest event may make of a case's weight
    None,
    MaxReports,          \* bound: suggestions delivered
    MaxFaults            \* bound: failed writes, exceptions and crashes together

Sessions == 1..MaxSessions
Sources  == Alerts \cup Suggestions
Statuses == {"open", "investigating", "waiting", "resolved", "escalated"}
Capacity == 2 * Cardinality(Workers)

\* The case status that goes with each decision.
StatusOf ==
    [scope_unresolved |-> "investigating", scope_gap |-> "escalated",
     policy_pending   |-> "investigating", blocked   |-> "resolved",
     open_root        |-> "investigating", exhausted |-> "escalated",
     action_ready     |-> "waiting",       settled   |-> "escalated",
     repaired         |-> "resolved",      repair_failed |-> "escalated"]
Classes == DOMAIN StatusOf

\* What an event says of its case: the scope its facts allow, and whether it is
\* severe or minor, or barred from unattended work (a controlled or acceptance
\* record, or a time that cannot be read).
Facts == [scope : Scopes, grade : Grades]

ASSUME DeskAssumption ==
    /\ Scopes \subseteq {"unresolved", "exact", "policy", "deny"}
    /\ Grades \subseteq {"severe", "minor", "barred"}
    /\ IsFiniteSet(Workers) /\ IsFiniteSet(Alerts) /\ IsFiniteSet(Suggestions)
    /\ None \notin Sources /\ None \notin Sessions /\ None \notin Classes
    /\ {MaxSessions, MaxReports, MaxFaults} \subseteq Nat

VARIABLES
    \* the case database
    row,      \* the case of that name: status, trail, scope, grade; None: no row
    lead,     \* the source index: the case each source belongs to
    \* the snapshot directory
    snap,     \* snap[s]: session s as last written
    \* the process
    sess,     \* sess[s]: session s in memory
    claimed,  \* cases claimed by the dispatcher
    queue,    \* claimed cases no worker has taken yet
    work,     \* work[w]: what worker w is at
    reports, faults, \* counted against the bounds
    \* history, read by no action
    severed   \* two cases have been merged, or the write of a decision was swallowed

disk    == <<row, lead, snap>>
process == <<sess, claimed, queue, work>>
vars    == <<disk, process, reports, faults, severed>>

Idle == [pc |-> "idle", case |-> None, session |-> None, stage |-> 0, class |-> None]

MayReport == reports < MaxReports
MayFail   == faults < MaxFaults

Init ==
    /\ row = [c \in Sources |-> None]
    /\ lead = [x \in Sources |-> None]
    /\ snap = [s \in Sessions |-> None]
    /\ sess = [s \in Sessions |-> None]
    /\ claimed = {}
    /\ queue = <<>>
    /\ work = [w \in Workers |-> Idle]
    /\ reports = 0 /\ faults = 0
    /\ severed = FALSE

Live      == {c \in Sources : row[c] # None}
Events(c) == Range(row[c].trail)

Started(s)    == [kind |-> "started", session |-> s, class |-> None]
Decided(s, k) == [kind |-> "decided", session |-> s, class |-> k]

\* latest_event(kind) of a trail, or None.
Latest(trail, kind) ==
    LET at == {i \in DOMAIN trail : trail[i].kind = kind}
    IN  IF at = {} THEN None ELSE trail[CHOOSE i \in at : \A j \in at : j <= i]
LatestSession(c) ==
    LET e == Latest(row[c].trail, "started") IN IF e = None THEN None ELSE e.session
LatestClass(c) ==
    LET e == Latest(row[c].trail, "decided") IN IF e = None THEN None ELSE e.class

-----------------------------------------------------------------------------
(* The case repository.                                                    *)

\* An event is not added twice, nor a decision that says what the latest says.
Repeated(r, e) ==
    \/ e \in Range(r.trail)
    \/ /\ e.kind = "decided"
       /\ LET last == Latest(r.trail, "decided") IN last # None /\ last.class = e.class

Noted(r, e, st) ==
    [r EXCEPT !.status = st, !.trail = IF Repeated(r, e) THEN @ ELSE Append(@, e)]

\* append_event: without a row it writes nothing and returns None.
Appended(c, e, st) == IF row[c] = None THEN row ELSE [row EXCEPT ![c] = Noted(@, e, st)]
Touched(c, st)     == IF row[c] = None THEN row ELSE [row EXCEPT ![c].status = st]

\* Mutant: the canonical case keeps its own trail.
MergedTrailOwn(c, order) == row[c].trail

\* The canonical case and the duplicates after it.  A spot is a place in their
\* trails, and a spot comes first if none before it has its event.
Chain(c, order)    == [k \in 0..Len(order) |-> IF k = 0 THEN c ELSE order[k]]
Spots(chain)       == UNION {{<<k, i>> : i \in DOMAIN row[chain[k]].trail} : k \in DOMAIN chain}
EventAt(chain, p)  == row[chain[p[1]]].trail[p[2]]
Precedes(p, q)     == p[1] < q[1] \/ (p[1] = q[1] /\ p[2] < q[2])
FirstSpots(chain)  ==
    {p \in Spots(chain) : p[1] = 0 \/ \A q \in Spots(chain) :
                              Precedes(q, p) => EventAt(chain, q) # EventAt(chain, p)}
Place(spots, p)    == Cardinality({q \in spots : Precedes(q, p)}) + 1
Laid(spots, chain) == [n \in 1..Cardinality(spots) |->
                          EventAt(chain, CHOOSE p \in spots : Place(spots, p) = n)]

\* _merge_cases: the canonical case takes over the trails of the duplicates,
\* one after the other, each event once, and the status of the first that is not
\* open if it was still open.
MergedTrail(c, order) ==
    LET chain == Chain(c, order) IN Laid(FirstSpots(chain), chain)
MergedStatus(c, order) ==
    LET chain == Chain(c, order)
        begun == {k \in DOMAIN chain : row[chain[k]].status # "open"}
    IN  IF begun = {} THEN "open"
        ELSE row[chain[CHOOSE k \in begun : \A j \in begun : k <= j]].status
MergedRow(c, order, f) ==
    [status |-> MergedStatus(c, order), trail |-> MergedTrail(c, order),
     scope |-> f.scope, grade |-> f.grade]

NewRow(f) == [status |-> "open", trail |-> <<>>, scope |-> f.scope, grade |-> f.grade]

\* Mutant: the duplicates are not deleted.
IngestedBeside(x, c, f, refs) ==
    LET known == {lead[y] : y \in refs} \ {None}
    IN  /\ IF known = {}
           THEN /\ c = x
                /\ row' = [row EXCEPT ![c] = NewRow(f)]
           ELSE \E order \in SetToSeqs(known \ {c}) :
                    /\ c \in known
                    /\ row' = [row EXCEPT ![c] = MergedRow(c, order, f)]
        /\ lead' = [y \in Sources |->
                      IF y \in refs \/ lead[y] \in known THEN c ELSE lead[y]]
        /\ severed' = (severed \/ known \ {c} # {})

\* ingest: the sources a report names, and those of the cases they lead to, lead to
\* the case c, which is new or one of them.
Ingested(x, c, f, refs) ==
    LET known == {lead[y] : y \in refs} \ {None}
    IN  /\ IF known = {}
           THEN /\ c = x
                /\ row' = [row EXCEPT ![c] = NewRow(f)]
           ELSE \E order \in SetToSeqs(known \ {c}) :
                    /\ c \in known
                    /\ row' = [d \in Sources |->
                                 IF d = c THEN MergedRow(c, order, f)
                                 ELSE IF d \in known THEN None ELSE row[d]]
        /\ lead' = [y \in Sources |->
                      IF y \in refs \/ lead[y] \in known THEN c ELSE lead[y]]
        /\ severed' = (severed \/ known \ {c} # {})

\* An alert lands: it opens a case, or joins an active one about its subject, whose
\* severity it replaces, and whose facts as long as no suggestion has given them.
ActiveStatuses == {"open", "investigating", "waiting", "escalated"}

Suggested(c) == \E y \in Suggestions : lead[y] = c

AlertLands(x) ==
    /\ lead[x] = None
    /\ \/ \E f \in Facts : Ingested(x, x, f, {x})
       \/ \E c \in Live, f \in Facts :
            /\ row[c].status \in ActiveStatuses
            /\ Suggested(c) => f.scope = row[c].scope
            /\ row' = [row EXCEPT ![c].scope = f.scope, ![c].grade = f.grade]
            /\ lead' = [lead EXCEPT ![x] = c]
            /\ UNCHANGED severed
    /\ UNCHANGED <<snap, process, reports, faults>>

\* A suggestion lands, naming sources: their cases become one, the oldest of
\* them, and the suggestion's facts replace the scope.  Which case is the oldest
\* is left open.
SuggestionLands(x, related) ==
    /\ MayReport
    /\ reports' = reports + 1
    /\ \E c \in Sources, f \in Facts : Ingested(x, c, f, related \cup {x})
    /\ UNCHANGED <<snap, process, faults>>

-----------------------------------------------------------------------------
(* The dispatcher.                                                         *)

Resumable == {"open_root", "scope_unresolved"}

\* A session was started unattended and no decision followed.
OwedDecision(c) == LatestSession(c) # None /\ LatestClass(c) = None

\* The gate both look at, also for work already begun.
Actionable(c) == row[c].scope = "deny" \/ Suggested(c) \/ row[c].grade # "minor"

\* Mutant: only a goal with a decision is taken up again.
DueDecided(c) ==
    /\ row[c] # None
    /\ row[c].status \in {"open", "investigating"}
    /\ row[c].status = "investigating" => LatestClass(c) \in Resumable \/ row[c].scope = "deny"
    /\ Actionable(c)

\* auto_start_pending_cases: new cases, and those under investigation that are due.
\* Of a case it is given by name it reads neither the acceptance mark nor the
\* identities, and the severity of a barred case is left open: either may happen.
Due(c) ==
    /\ row[c] # None
    /\ row[c].status \in {"open", "investigating"}
    /\ row[c].status = "investigating" =>
          OwedDecision(c) \/ LatestClass(c) \in Resumable \/ row[c].scope = "deny"
    /\ Actionable(c)

\* dispatch looks for the same, and for no case that is barred.
Eligible(c) == Due(c) /\ row[c].grade # "barred"

\* No age limit holds for work already begun; any other case may turn too old
\* between any two looks at it.
AgeExempt(c) == OwedDecision(c) \/ LatestClass(c) \in Resumable

Dispatchable(c) == Eligible(c) /\ c \notin claimed
Rank(c) == IF row[c].status = "investigating" THEN 0 ELSE 1

\* dispatch: cases under investigation go before new ones.  The retry interval
\* only delays a case and is not modelled.
Dispatch(c) ==
    /\ Cardinality(claimed) < Capacity
    /\ Dispatchable(c)
    /\ \A d \in Sources : Dispatchable(d) => Rank(c) <= Rank(d)
    /\ claimed' = claimed \cup {c}
    /\ queue' = Append(queue, c)
    /\ UNCHANGED <<disk, sess, work, reports, faults, severed>>

-----------------------------------------------------------------------------
(* A worker.                                                               *)

Goes(w, pc) == work' = [work EXCEPT ![w].pc = pc]

\* Mutant: the claim is not released.
FinishesClaiming(w) ==
    /\ work' = [work EXCEPT ![w] = Idle]
    /\ UNCHANGED claimed

\* The finally clause of _worker.
Finishes(w) ==
    /\ work' = [work EXCEPT ![w] = Idle]
    /\ claimed' = claimed \ {work[w].case}

Begun(c) == [pc |-> "start", case |-> c, session |-> None, stage |-> 1, class |-> None]

Take(w) ==
    /\ work[w].pc = "idle" /\ queue # <<>>
    /\ queue' = Tail(queue)
    /\ LET c == Head(queue)
       IN  \/ /\ Due(c)
              /\ work' = [work EXCEPT ![w] = Begun(c)]
              /\ UNCHANGED claimed
           \/ /\ Eligible(c) => ~AgeExempt(c)
              /\ claimed' = claimed \ {c}
              /\ UNCHANGED work
    /\ UNCHANGED <<disk, sess, reports, faults, severed>>

\* start(): the latest session of the case goes on if it can be loaded, from
\* memory or from its snapshot, with the scope and, if it has none, the decision
\* of the case; it is followed by a new one when its scope was unresolved and no
\* longer is.
Loadable(s) == s # None /\ (sess[s] # None \/ snap[s] # None)
Held(s)     == IF sess[s] # None THEN sess[s] ELSE snap[s]
Resumed(s, c) ==
    [Held(s) EXCEPT !.scope = row[c].scope,
                    !.class = IF @ = None THEN LatestClass(c) ELSE @]
Outgrown(s, c) == Held(s).scope = "unresolved" /\ row[c].scope # "unresolved"

Unused == {s \in Sessions : /\ sess[s] = None /\ snap[s] = None
                            /\ \A c \in Live : Started(s) \notin Events(c)}
NewSession == CHOOSE s \in Unused : \A t \in Unused : s <= t

Fresh(c) == [case |-> c, scope |-> row[c].scope, class |-> None]
Opens(w, s) ==
    work' = [work EXCEPT ![w].pc = "announce", ![w].session = s]

Start(w) ==
    /\ work[w].pc = "start"
    /\ LET c == work[w].case
           s == IF row[c] = None THEN None ELSE LatestSession(c)
       IN  \/ \* "unknown investigation case"
              /\ row[c] = None
              /\ Finishes(w)
              /\ UNCHANGED <<sess, snap>>
           \/ \* the session of the case
              /\ Loadable(s) /\ ~Outgrown(s, c)
              /\ sess' = [sess EXCEPT ![s] = Resumed(s, c)]
              /\ snap' = IF Resumed(s, c) = Held(s) THEN snap
                         ELSE [snap EXCEPT ![s] = Resumed(s, c)]
              /\ work' = [work EXCEPT ![w].pc = "decide", ![w].session = s]
              /\ UNCHANGED claimed
           \/ \* a new session after it
              /\ Loadable(s) /\ Outgrown(s, c)
              /\ Unused # {}
              /\ sess' = [sess EXCEPT ![s] = Resumed(s, c), ![NewSession] = Fresh(c)]
              /\ Opens(w, NewSession)
              /\ snap' = [snap EXCEPT ![s] = Resumed(s, c)]
              /\ UNCHANGED claimed
           \/ \* the first session, or one for a session that was lost
              /\ row[c] # None /\ ~Loadable(s)
              /\ Unused # {}
              /\ sess' = [sess EXCEPT ![NewSession] = Fresh(c)]
              /\ Opens(w, NewSession)
              /\ UNCHANGED <<snap, claimed>>
    /\ UNCHANGED <<row, lead, queue, reports, faults, severed>>

\* _append_case_event: a write that fails is swallowed, and leaves what the
\* events before it made of the rows.
Writes(rows, before) ==
    \/ row' = rows /\ UNCHANGED faults
    \/ /\ MayFail
       /\ faults' = faults + 1
       /\ row' = before

\* The case an event of the worker's session is written to.
Home(w) == sess[work[w].session].case

Announce(w) ==
    /\ work[w].pc = "announce"
    /\ Writes(Appended(Home(w), Started(work[w].session), "investigating"), row)
    /\ Goes(w, "save")
    /\ UNCHANGED <<lead, snap, sess, claimed, queue, reports, severed>>

Saved(w) == [snap EXCEPT ![work[w].session] = sess[work[w].session]]

Save(w) ==
    /\ work[w].pc = "save"
    /\ snap' = Saved(w)
    /\ Goes(w, "decide")
    /\ UNCHANGED <<row, lead, sess, claimed, queue, reports, faults, severed>>

\* What complete() may decide.  Stage 1 is its call by the dispatcher's worker, 2
\* and 3 the first and last of analyze(), 4 the end of remediate().
Outcomes(held, stage, class) ==
    IF stage = 4 THEN {class}
    ELSE CASE held.scope = "unresolved" ->
                {IF held.class = "scope_unresolved" THEN "scope_gap" ELSE "scope_unresolved"}
           [] held.scope = "policy" -> {"policy_pending"}
           [] held.scope = "deny"   -> {"blocked"}
           [] held.scope = "exact"  ->
                IF stage = 3 THEN {"action_ready", "settled"}
                ELSE {"open_root", "action_ready", "settled"}

\* _record_business_decision, up to the snapshot.
Records(w, k, stage, before) ==
    LET s    == work[w].session
        rows == Appended(Home(w), Decided(s, k), StatusOf[k])
    IN  /\ sess' = [sess EXCEPT ![s].class = k]
        /\ Writes(rows, before)
        /\ severed' = (severed \/ row' # rows)
        /\ work' = [work EXCEPT ![w].pc = "persist", ![w].class = k, ![w].stage = stage]

\* The probes are run, each of which puts its case under investigation, or none is
\* left to run; then the decision is recorded.
Decide(w) ==
    /\ work[w].pc = "decide"
    /\ \E k \in Outcomes(sess[work[w].session], work[w].stage, work[w].class),
          before \in {row} \cup IF work[w].stage = 4 THEN {}
                              ELSE {Touched(Home(w), "investigating")} :
          Records(w, k, work[w].stage, before)
    /\ UNCHANGED <<lead, snap, claimed, queue, reports>>

\* An unresolved root is analysed: complete() is called again, then the model.
Persist(w) ==
    /\ work[w].pc = "persist"
    /\ snap' = Saved(w)
    /\ LET open == work[w].class = "open_root"
       IN  \/ work[w].stage = 1 /\ open
              /\ work' = [work EXCEPT ![w].pc = "decide", ![w].stage = 2]
              /\ UNCHANGED claimed
           \/ work[w].stage = 2 /\ open /\ Goes(w, "reason") /\ UNCHANGED claimed
           \/ work[w].stage # 4 /\ ~open /\ Goes(w, "act") /\ UNCHANGED claimed
           \/ work[w].stage = 4 /\ Finishes(w)
    /\ UNCHANGED <<row, lead, sess, queue, reports, faults, severed>>

\* Without a model, or with no root to publish, the goal ends as exhausted; a root
\* it publishes puts the case to waiting before complete() decides.
Reason(w) ==
    /\ work[w].pc = "reason"
    /\ \/ Records(w, "exhausted", 3, row)
       \/ \E k \in Outcomes(sess[work[w].session], 3, None) :
             Records(w, k, 3, Touched(Home(w), "waiting"))
    /\ UNCHANGED <<lead, snap, claimed, queue, reports>>

\* After the decision: an automatic repair, whose start is recorded, unless it is
\* refused, or else a change may be proposed, which is recorded in the claimed case.
Act(w) ==
    /\ work[w].pc = "act"
    /\ \/ /\ work[w].class = "action_ready"
          /\ Writes(Touched(Home(w), "waiting"), row)
          /\ Goes(w, "readback")
          /\ UNCHANGED claimed
       \/ /\ work[w].class \in {"action_ready", "settled"}
          /\ row' = Touched(work[w].case, "waiting")
          /\ Finishes(w)
          /\ UNCHANGED faults
       \/ Finishes(w) /\ UNCHANGED <<row, faults>>
    /\ UNCHANGED <<lead, snap, sess, queue, reports, severed>>

\* remediate(): the executor has run; its receipt is collected as evidence, its
\* outcome sets the status, and a last decision is recorded.
Readback(w) ==
    /\ work[w].pc = "readback"
    /\ Writes(Touched(Home(w), "investigating"), row)
    /\ Goes(w, "report")
    /\ UNCHANGED <<lead, snap, sess, claimed, queue, reports, severed>>

Report(w) ==
    /\ work[w].pc = "report"
    /\ \E result \in {"resolved", "escalated", "investigating"} :
         /\ Writes(Touched(Home(w), result), row)
         /\ work' = [work EXCEPT ![w].pc = "decide", ![w].stage = 4,
                       ![w].class = IF result = "resolved" THEN "repaired" ELSE "repair_failed"]
    /\ UNCHANGED <<lead, snap, sess, claimed, queue, reports, severed>>

\* An exception ends the worker's turn; the claim is released.
Raise(w) ==
    /\ work[w].pc # "idle"
    /\ MayFail
    /\ faults' = faults + 1
    /\ Finishes(w)
    /\ UNCHANGED <<disk, sess, queue, reports, severed>>

Step(w) ==
    \/ Take(w) \/ Start(w) \/ Announce(w) \/ Save(w) \/ Decide(w)
    \/ Persist(w) \/ Reason(w) \/ Act(w) \/ Readback(w) \/ Report(w)

\* Mutant: the oldest stays.
SpotsFirst(chain) ==
    {p \in Spots(chain) : EventAt(chain, p).kind = "decided" =>
        \A q \in Spots(chain) : Precedes(q, p) => EventAt(chain, q).class # EventAt(chain, p).class}

\* remove_legacy_reasoning_projection: of the decisions of a case that say the same
\* the newest stays.  A case without facts gets those of one of its sources.
LastSpots(chain) ==
    {p \in Spots(chain) : EventAt(chain, p).kind = "decided" =>
        \A q \in Spots(chain) : Precedes(p, q) => EventAt(chain, q).class # EventAt(chain, p).class}
Compacted(c) == LET chain == Chain(c, <<>>) IN Laid(LastSpots(chain), chain)
Cleaned(scopes) ==
    [c \in Sources |->
        IF row[c] = None THEN None ELSE [row[c] EXCEPT !.trail = Compacted(c), !.scope = scopes[c]]]

\* The process dies and is started again: the snapshots remain, and the case rows
\* are cleaned, unless that fails.  A case bounded to "deny" has its facts.
Crash ==
    /\ MayFail
    /\ faults' = faults + 1
    /\ \/ UNCHANGED row
       \/ \E scopes \in [Live -> Scopes] :
            /\ \A c \in Live : row[c].scope = "deny" => scopes[c] = "deny"
            /\ row' = Cleaned(scopes)
    /\ sess' = [s \in Sessions |-> None]
    /\ claimed' = {}
    /\ queue' = <<>>
    /\ work' = [w \in Workers |-> Idle]
    /\ UNCHANGED <<lead, snap, reports, severed>>

Next ==
    \/ \E x \in Alerts : AlertLands(x)
    \/ \E x \in Suggestions, related \in SUBSET Sources : SuggestionLands(x, related)
    \/ \E c \in Sources : Dispatch(c)
    \/ \E w \in Workers : Step(w) \/ Raise(w)
    \/ Crash

Spec == Init /\ [][Next]_vars

\* The poll loop catches its exceptions and comes round for ever, and a case just
\* tried stays out of its way for the retry interval, so that every case that
\* keeps being due gets a place; a worker that has begun goes on.
FairSpec ==
    /\ Spec
    /\ \A c \in Sources : SF_vars(Dispatch(c) /\ AgeExempt(c))
    /\ \A w \in Workers : WF_vars(Step(w))

-----------------------------------------------------------------------------
Entries == {Started(s) : s \in Sessions} \cup {Decided(s, k) : s \in Sessions, k \in Classes}
Rows    == [status : Statuses, scope : Scopes, grade : Grades, trail : Seq(Entries)]
Helds   == [case : Sources, scope : Scopes, class : Classes \cup {None}]
Pcs == {"idle", "start", "announce", "save", "decide", "persist", "reason", "act",
        "readback", "report"}

\* None is no event, no row and no session.
ASSUME NoneAssumption == None \notin Entries \cup Rows \cup Helds

TypeOK ==
    /\ row \in [Sources -> Rows \cup {None}]
    /\ lead \in [Sources -> Sources \cup {None}]
    /\ snap \in [Sessions -> Helds \cup {None}]
    /\ sess \in [Sessions -> Helds \cup {None}]
    /\ claimed \subseteq Sources
    /\ queue \in Seq(Sources)
    /\ work \in [Workers -> [pc : Pcs, case : Sources \cup {None}, session : Sessions \cup {None},
                             stage : 0..4, class : Classes \cup {None}]]

\* The stores agree: every source leads to a case there is and every case is led
\* to, and no one failure leaves a decision of a session that cannot be loaded.
Indexed ==
    /\ \A x \in Sources : lead[x] # None => row[lead[x]] # None
    /\ \A c \in Live : \E x \in Sources : lead[x] = c

RecordsAgree ==
    /\ TypeOK
    /\ Indexed
    /\ faults <= 1 =>
         \A c \in Live : \A e \in Events(c) : e.kind = "decided" => Loadable(e.session)

\* The later events of a trail that say what its i-th, a decision, says.
SaidAgain(c, i) ==
    LET t == row[c].trail
    IN  {t[j] : j \in {k \in DOMAIN t : k > i /\ t[i].kind = "decided" /\ t[k].class = t[i].class}}

\* No merge, crash or late write loses a source or an event the database has
\* taken: the case a source leads to keeps all that its case ever recorded.  Only a
\* start may take out a decision, and only one that a later one, which it keeps,
\* says again.
TrailKept ==
    [][\A x \in Sources : lead[x] # None =>
          /\ lead'[x] # None
          /\ \A i \in DOMAIN row[lead[x]].trail :
                \/ row[lead[x]].trail[i] \in Events(lead[x])'
                \/ Crash /\ SaidAgain(lead[x], i) \cap Events(lead[x])' # {}]_vars

\* The claims are exactly the cases queued or in the hands of a worker, each once:
\* no two workers take one case and no case stays claimed by nobody.
Busy == {w \in Workers : work[w].pc # "idle"}
ClaimsTell ==
    /\ claimed = Range(queue) \cup {work[w].case : w \in Busy}
    /\ \A i, j \in DOMAIN queue : queue[i] = queue[j] => i = j
    /\ \A w \in Busy : work[w].case \notin Range(queue)
    /\ \A w, v \in Busy : work[w].case = work[v].case => w = v
    /\ Cardinality(claimed) <= Capacity

\* The case passes the gate of the dispatcher.
Wanted(c) == row[c] # None /\ row[c].grade # "barred" /\ Actionable(c)

\* An unattended goal that was begun gets its decision whatever the age of its case,
\* through exceptions, lost events and crashes.  Where the code falls short of
\* "an already-started unattended goal remains owed a terminal result"
\* (investigation_cases.py:418-420) the formula says so: two cases were merged, the
\* write of a decision was swallowed, or later events keep the case below the gate.
EveryGoalDecided ==
    \A c \in Sources : (row[c] # None /\ OwedDecision(c))
                          ~> \/ severed
                             \/ row[c] # None /\ LatestClass(c) # None
                             \/ []~Wanted(c)
=============================================================================
