---------------------------- MODULE Sentinel_proof ----------------------------
(***************************************************************************)
(* The safety of the sentinel, for every set of keys, every limit and      *)
(* timelines of any length: its types, the cooldown between two actions,   *)
(* the budget of repairs that do not hold, and the account of every watch. *)
(*                                                                         *)
(* Folded(rows) goes through the rows once.  What is needed of it is only  *)
(* what one more row does to it (FoldedNext): every invariant below says   *)
(* of the fold of the rows so far what the rows themselves say, and each   *)
(* kind of row is a step of that argument.                                 *)
(***************************************************************************)
EXTENDS Sentinel, FiniteSetTheorems, WellFoundedInduction, TLAPS

-----------------------------------------------------------------------------
(* The fold of _unfinished_watches(), one row at a time.                   *)

LEMMA Least ==
    ASSUME NEW T \in SUBSET Nat, T # {}
    PROVE  \E x \in T : \A y \in T : x <= y
  <1> DEFINE R == {ss \in Nat \X Nat : ss[1] < ss[2]}
  <1>1. IsWellFoundedOn(R, Nat)
    BY NatLessThanWellFounded DEF OpToRel
  <1>2. PICK x \in T : \A y \in T : ~ (<<y, x>> \in R)
    <2> HIDE DEF R
    <2> QED BY <1>1, WFMin
  <1>3. ASSUME NEW y \in T PROVE x <= y
    <2>1. x \in Nat /\ y \in Nat
      OBVIOUS
    <2>2. ~(y < x)
      BY <1>2, <2>1
    <2> QED BY <2>1, <2>2
  <1> QED BY <1>3

\* f is what the fold has seen after each of the first n rows.
Tracks(f, rows, n) ==
    f = [m \in 0..n |-> IF m = 0 THEN NoWatches ELSE Advance(f[m - 1], rows[m])]

\* s begins with the first n rows of r.
Agree(r, s, n) == \A m \in 1..n : r[m] = s[m]

LEMMA TracksSame ==
    ASSUME NEW r, NEW s, NEW n \in Nat, NEW p \in Nat, n <= p, Agree(r, s, n),
           NEW f, Tracks(f, r, n), NEW g, Tracks(g, s, p)
    PROVE  \A m \in 0..n : f[m] = g[m]
  <1> SUFFICES ASSUME \E m \in 0..n : f[m] # g[m] PROVE FALSE
    OBVIOUS
  <1> DEFINE T == {m \in 0..n : f[m] # g[m]}
  <1>1. PICK m \in T : \A y \in T : m <= y
    <2>1. T \in SUBSET Nat /\ T # {}
      OBVIOUS
    <2> QED BY <2>1, Least
  <1>2. /\ \A k \in 0..n : f[k] = IF k = 0 THEN NoWatches ELSE Advance(f[k - 1], r[k])
        /\ \A k \in 0..p : g[k] = IF k = 0 THEN NoWatches ELSE Advance(g[k - 1], s[k])
    BY DEF Tracks
  <1>3. m \in 0..n /\ m \in 0..p /\ f[m] # g[m]
    OBVIOUS
  <1>4. m # 0
    BY <1>2, <1>3
  <1>5. m - 1 \in 0..n /\ m - 1 \notin T /\ m \in 1..n
    BY <1>1, <1>3, <1>4
  <1>6. f[m - 1] = g[m - 1] /\ r[m] = s[m]
    BY <1>5 DEF Agree
  <1> QED BY <1>2, <1>3, <1>4, <1>6

LEMMA TracksExist ==
    ASSUME NEW rows, NEW n \in Nat
    PROVE  \E f : Tracks(f, rows, n)
  <1> SUFFICES ASSUME ~ \E f : Tracks(f, rows, n) PROVE FALSE
    OBVIOUS
  <1> DEFINE T == {m \in Nat : ~ \E f : Tracks(f, rows, m)}
  <1>1. PICK m \in T : \A y \in T : m <= y
    <2>1. T \in SUBSET Nat /\ T # {}
      OBVIOUS
    <2> QED BY <2>1, Least
  <1>2. m \in Nat /\ ~ \E f : Tracks(f, rows, m)
    OBVIOUS
  <1>3. m # 0
    <2> SUFFICES ASSUME m = 0 PROVE FALSE
      OBVIOUS
    <2> DEFINE g == [k \in 0..0 |-> NoWatches]
    <2>1. g = [k \in 0..0 |-> IF k = 0 THEN NoWatches ELSE Advance(g[k - 1], rows[k])]
      OBVIOUS
    <2> HIDE DEF g
    <2> QED BY <1>2, <2>1 DEF Tracks
  <1>4. m - 1 \in Nat /\ m - 1 \notin T
    BY <1>1, <1>2, <1>3
  <1>5. PICK f : Tracks(f, rows, m - 1)
    BY <1>4
  <1> DEFINE g == [k \in 0..m |-> IF k = m THEN Advance(f[m - 1], rows[m]) ELSE f[k]]
  <1>6. \A k \in 0..m - 1 : f[k] = IF k = 0 THEN NoWatches ELSE Advance(f[k - 1], rows[k])
    BY <1>5 DEF Tracks
  <1>7. \A k \in 0..m : g[k] = IF k = 0 THEN NoWatches ELSE Advance(g[k - 1], rows[k])
    <2> TAKE k \in 0..m
    <2>1. CASE k = m
      <3>1. g[k] = Advance(f[m - 1], rows[m]) /\ g[m - 1] = f[m - 1]
        BY <1>2, <1>4, <2>1
      <3> HIDE DEF g
      <3> QED BY <1>3, <2>1, <3>1
    <2>2. CASE k = 0
      <3>1. g[k] = f[0] /\ f[0] = NoWatches
        BY <1>3, <1>4, <1>6, <2>2
      <3> HIDE DEF g
      <3> QED BY <2>2, <3>1
    <2>3. CASE k # m /\ k # 0
      <3>1. k \in 0..m - 1 /\ k - 1 \in 0..m /\ k - 1 # m
        BY <1>2, <2>3
      <3>2. g[k] = f[k] /\ g[k - 1] = f[k - 1]
        BY <2>3, <3>1
      <3> HIDE DEF g
      <3> QED BY <1>6, <2>3, <3>1, <3>2
    <2> QED BY <2>1, <2>2, <2>3
  <1>8. g = [k \in 0..m |-> g[k]]
    OBVIOUS
  <1> HIDE DEF g
  <1>9. g = [k \in 0..m |-> IF k = 0 THEN NoWatches ELSE Advance(g[k - 1], rows[k])]
    BY <1>7, <1>8
  <1> QED BY <1>2, <1>9 DEF Tracks

LEMMA FoldedIs ==
    ASSUME NEW rows
    PROVE  Folded(rows) = (CHOOSE f : Tracks(f, rows, Len(rows)))[Len(rows)]
  BY DEF Folded, Tracks

LEMMA FoldedNone == Folded(<<>>) = NoWatches
  <1>1. Len(<<>>) = 0
    OBVIOUS
  <1>2. PICK f : Tracks(f, <<>>, 0)
    BY TracksExist
  <1> DEFINE g == CHOOSE h : Tracks(h, <<>>, 0)
  <1>3. Tracks(g, <<>>, 0)
    BY <1>2
  <1>4. Folded(<<>>) = g[0]
    BY <1>1, FoldedIs
  <1> HIDE DEF g
  <1>5. g[0] = NoWatches
    BY <1>3 DEF Tracks
  <1> QED BY <1>4, <1>5

\* The next row advances what has been seen of those before it.
LEMMA FoldedNext ==
    ASSUME NEW rows \in Seq(Row), NEW r \in Row
    PROVE  Folded(Append(rows, r)) = Advance(Folded(rows), r)
  <1> DEFINE n == Len(rows)
             more == Append(rows, r)
             f == CHOOSE h : Tracks(h, rows, n)
             g == CHOOSE h : Tracks(h, more, n + 1)
  <1>1. n \in Nat /\ Len(more) = n + 1 /\ more[n + 1] = r /\ \A m \in 1..n : rows[m] = more[m]
    OBVIOUS
  <1>0. Agree(rows, more, n)
    BY <1>1 DEF Agree
  <1>2. Tracks(f, rows, n)
    BY <1>1, TracksExist
  <1>3. Tracks(g, more, n + 1)
    BY <1>1, TracksExist
  <1>4. Folded(rows) = f[n] /\ Folded(more) = g[n + 1]
    BY <1>1, FoldedIs
  <1> HIDE DEF f, g, more
  <1>5. f[n] = g[n]
    <2>1. n + 1 \in Nat /\ n <= n + 1
      BY <1>1
    <2> HIDE DEF n
    <2>2. \A m \in 0..n : f[m] = g[m]
      BY <1>0, <1>1, <1>2, <1>3, <2>1, TracksSame
    <2> QED BY <1>1, <2>2
  <1>6. g[n + 1] = Advance(g[n], r)
    <2>1. \A k \in 0..n + 1 : g[k] = IF k = 0 THEN NoWatches ELSE Advance(g[k - 1], more[k])
      BY <1>3 DEF Tracks
    <2> QED BY <1>1, <2>1
  <1> QED BY <1>4, <1>5, <1>6 DEF more

-----------------------------------------------------------------------------
(* Numbers.                                                                *)

LEMMA Greatest ==
    ASSUME NEW n \in Nat, NEW T \in SUBSET (0..n), T # {}
    PROVE  /\ Max(T) \in T
           /\ \A y \in T : y <= Max(T)
  <1> DEFINE U == {n - x : x \in T}
  <1>1. U \in SUBSET Nat /\ U # {}
    <2>1. \A x \in T : n - x \in Nat /\ n - x \in U
      OBVIOUS
    <2> QED BY <2>1
  <1>2. PICK u \in U : \A v \in U : u <= v
    <2> HIDE DEF U
    <2> QED BY <1>1, Least
  <1>3. PICK x \in T : u = n - x
    OBVIOUS
  <1>4. \A y \in T : n - x <= n - y
    BY <1>2, <1>3
  <1>5. \A y \in T : x >= y
    <2>1. \A y \in T : y \in Nat /\ x \in Nat
      OBVIOUS
    <2> QED BY <1>4, <2>1
  <1>6. \A y \in T : Max(T) >= y /\ Max(T) \in T
    BY <1>5 DEF Max
  <1> QED BY <1>6

\* A quiet period is a number of seconds, however often the fix did not hold.
LEMMA CooldownNumber ==
    ASSUME NEW n \in Nat
    PROVE  CooldownFor(n) \in Nat
  <1>1. IsFiniteSet(1..n) /\ Cardinality(1..n) = n
    BY FS_Interval
  <1>2. 2^n = Cardinality(SUBSET (1..n)) /\ IsFiniteSet(SUBSET (1..n))
    BY <1>1, FS_SUBSET
  <1>3. 2^n \in Nat
    BY <1>2, FS_CardinalityType
  <1>4. Cooldown \in Nat /\ CooldownMax \in Nat
    BY ConstantsAssumption
  <1> DEFINE x == Cooldown * 2^n
  <1>5. x \in Nat
    BY <1>3, <1>4
  <1> HIDE DEF x
  <1>6. Smaller(x, CooldownMax) \in Nat
    BY <1>4, <1>5 DEF Smaller
  <1> QED BY <1>4, <1>6 DEF CooldownFor, x

LEMMA RowsFinite ==
    ASSUME NEW rows \in Seq(Row), NEW T \in SUBSET (DOMAIN rows)
    PROVE  IsFiniteSet(T) /\ Cardinality(T) \in Nat
  <1>1. DOMAIN rows = 1..Len(rows) /\ Len(rows) \in Nat
    OBVIOUS
  <1>2. IsFiniteSet(1..Len(rows))
    BY <1>1, FS_Interval
  <1>3. IsFiniteSet(T)
    BY <1>1, <1>2, FS_Subset
  <1> QED BY <1>3, FS_CardinalityType

LEMMA RecurrencesNumber ==
    ASSUME NEW rows \in Seq(Row), NEW k, NEW now
    PROVE  Recurrences(rows, k, now) \in Nat
  <1>1. {i \in FailedToHold(rows, k) : rows[i].at + Window >= now} \in SUBSET (DOMAIN rows)
    BY DEF FailedToHold
  <1> QED BY <1>1, RowsFinite DEF Recurrences

-----------------------------------------------------------------------------
(* Typing.                                                                 *)

Watch      == [key : Keys, commit : Nat, opened : BOOLEAN]
Identified == [key : Keys \cup {None}, watch : Nat]
Seen       == [active : SUBSET Watch, unfinished : SUBSET Watch, announced : SUBSET Identified]

\* What rows are at time now: none carries a time to come, those of a process
\* start alone belong to no subject, and the fold of them is typed.
Rows(rows, now) ==
    /\ rows \in Seq(Row)
    /\ \A i \in DOMAIN rows : rows[i].at <= now
    /\ \A i \in DOMAIN rows : (rows[i].kind = "started") = (rows[i].key = None)
    /\ Folded(rows) \in Seen

\* A streak grows at most once in a poll.
Counted == \A k \in Keys : streak[k] + (IF k \in todo THEN 1 ELSE 0) <= polls

Sound == TypeOK /\ Counted /\ Rows(log, clock)

LEMMA AdvanceType ==
    ASSUME NEW seen \in Seen, NEW row \in Row,
           row.kind \in {"committed", "opened"} => row.key \in Keys
    PROVE  Advance(seen, row) \in Seen
  <1> DEFINE mine   == {w \in seen.active : w.key = row.key}
             commit == CommitOf(mine)
             opened == OpenedIn(mine)
  <1>1. mine \subseteq Watch /\ seen.active \subseteq Watch /\ seen.unfinished \subseteq Watch
        /\ seen.announced \subseteq Identified
        /\ seen = [active |-> seen.active, unfinished |-> seen.unfinished, announced |-> seen.announced]
    BY DEF Seen
  <1>2. commit \in Nat
    <2>1. CASE \E w \in mine : w.commit # 0
      <3>1. (CHOOSE w \in mine : TRUE) \in mine
        BY <2>1
      <3> QED BY <1>1, <2>1, <3>1 DEF Watch, CommitOf
    <2>2. CASE ~ \E w \in mine : w.commit # 0
      BY <2>2 DEF CommitOf
    <2> QED BY <2>1, <2>2
  <1>3. opened \in BOOLEAN /\ row.watch \in Nat /\ row.key \in Keys \cup {None} /\ row.kind \in Kinds
    BY DEF Row, OpenedIn
  <1> HIDE DEF mine, commit, opened
  <1>4. CASE row.kind = "started"
    BY <1>1, <1>4 DEF Advance, Seen
  <1>5. CASE row.kind = "interrupted"
    <2>1. [key |-> row.key, watch |-> row.watch] \in Identified
      BY <1>3 DEF Identified
    <2> QED BY <1>1, <1>5, <2>1 DEF Advance, Seen
  <1>6. CASE row.kind = "committed"
    <2> DEFINE w == [key |-> row.key, commit |-> row.watch, opened |-> opened /\ ~(commit # 0)]
               un == seen.unfinished \cup (IF commit # 0 THEN mine ELSE {})
               ac == (seen.active \ mine) \cup {w}
    <2>1. w \in Watch
      BY <1>3, <1>6 DEF Watch
    <2>2. un \subseteq Watch /\ ac \subseteq Watch
      BY <1>1, <2>1
    <2>3. Advance(seen, row) = [seen EXCEPT !.unfinished = un, !.active = ac]
      BY <1>6 DEF Advance, TerminalKinds, mine, commit, opened
    <2> HIDE DEF un, ac
    <2> QED BY <1>1, <2>2, <2>3 DEF Seen
  <1>7. CASE row.kind = "opened"
    <2> DEFINE w == [key |-> row.key, opened |-> TRUE, commit |-> IF opened THEN 0 ELSE commit]
               un == seen.unfinished \cup (IF opened THEN mine ELSE {})
               ac == (seen.active \ mine) \cup {w}
    <2>1. w \in Watch
      BY <1>2, <1>3, <1>7 DEF Watch
    <2>2. un \subseteq Watch /\ ac \subseteq Watch
      BY <1>1, <2>1
    <2>3. Advance(seen, row) = [seen EXCEPT !.unfinished = un, !.active = ac]
      BY <1>7 DEF Advance, TerminalKinds, mine, commit, opened
    <2> HIDE DEF un, ac
    <2> QED BY <1>1, <2>2, <2>3 DEF Seen
  <1>8. CASE row.kind \in TerminalKinds
    <2>1. Advance(seen, row) = [seen EXCEPT !.active = seen.active \ mine]
      BY <1>8 DEF Advance, mine, TerminalKinds
    <2> QED BY <1>1, <2>1 DEF Seen
  <1>9. CASE row.kind \notin {"started", "interrupted", "committed", "opened"} \cup TerminalKinds
    <2>1. Advance(seen, row) = seen
      BY <1>9 DEF Advance
    <2> QED BY <2>1
  <1> QED BY <1>4, <1>5, <1>6, <1>7, <1>8, <1>9

\* more is rows with r after it.
Grown(rows, more, r) ==
    /\ rows \in Seq(Row) /\ more \in Seq(Row)
    /\ Len(rows) \in Nat /\ Len(more) = Len(rows) + 1
    /\ DOMAIN rows = 1..Len(rows) /\ DOMAIN more = 1..Len(rows) + 1
    /\ \A i \in 1..Len(rows) : more[i] = rows[i]
    /\ more[Len(rows) + 1] = r
    /\ Folded(more) = Advance(Folded(rows), r)

LEMMA GrowRow ==
    ASSUME NEW rows \in Seq(Row), NEW r \in Row
    PROVE  Grown(rows, Append(rows, r), r)
  <1>1. Folded(Append(rows, r)) = Advance(Folded(rows), r)
    BY FoldedNext
  <1> DEFINE more == Append(rows, r)
  <1>2. /\ more \in Seq(Row)
        /\ Len(rows) \in Nat /\ Len(more) = Len(rows) + 1
        /\ DOMAIN rows = 1..Len(rows) /\ DOMAIN more = 1..Len(rows) + 1
        /\ \A i \in 1..Len(rows) : more[i] = rows[i]
        /\ more[Len(rows) + 1] = r
    OBVIOUS
  <1> QED BY <1>1, <1>2 DEF Grown

LEMMA GrowRows ==
    ASSUME NEW now \in Nat, NEW rows, Rows(rows, now), NEW r \in Row, r.at <= now,
           (r.kind = "started") = (r.key = None)
    PROVE  Rows(Append(rows, r), now) /\ Grown(rows, Append(rows, r), r)
  <1> DEFINE more == Append(rows, r)
  <1>1. rows \in Seq(Row) /\ Folded(rows) \in Seen
    BY DEF Rows
  <1>2. Grown(rows, more, r)
    BY <1>1, GrowRow
  <1> HIDE DEF more
  <1>3. Folded(more) \in Seen
    <2>1. r.kind \in {"committed", "opened"} => r.key \in Keys
      BY DEF Row
    <2>2. Advance(Folded(rows), r) \in Seen
      BY <1>1, <2>1, AdvanceType
    <2> QED BY <1>2, <2>2 DEF Grown
  <1>4. \A i \in DOMAIN more : (i \in DOMAIN rows /\ more[i] = rows[i]) \/ more[i] = r
    BY <1>2 DEF Grown
  <1>5. more \in Seq(Row)
    BY <1>2 DEF Grown
  <1>6. Rows(more, now)
    BY <1>3, <1>4, <1>5 DEF Rows
  <1> QED BY <1>2, <1>6 DEF more

\* What a row written now says.
LEMMA EntryIs ==
    ASSUME clock \in Nat, NEW kind \in Kinds, NEW k \in Keys \cup {None}, NEW w \in Nat
    PROVE  /\ Entry(kind, k, w) \in Row
           /\ Entry(kind, k, w).kind = kind /\ Entry(kind, k, w).key = k
           /\ Entry(kind, k, w).watch = w /\ Entry(kind, k, w).at <= clock
           /\ kind \in TimedKinds => Entry(kind, k, w).at = clock
  BY DEF Entry, Row

\* The row written now grows the timeline.
LEMMA WriteGrows ==
    ASSUME Sound, NEW kind \in Kinds, NEW k \in Keys \cup {None}, NEW w \in Nat,
           (kind = "started") = (k = None), log' = Append(log, Entry(kind, k, w))
    PROVE  Rows(log', clock) /\ Grown(log, log', Entry(kind, k, w))
  <1>1. clock \in Nat /\ Rows(log, clock)
    BY DEF Sound, TypeOK
  <1> DEFINE r == Entry(kind, k, w)
  <1>2. r \in Row /\ r.kind = kind /\ r.key = k /\ r.at <= clock
    BY <1>1, EntryIs
  <1> HIDE DEF r
  <1>3. Rows(Append(log, r), clock) /\ Grown(log, Append(log, r), r)
    BY <1>1, <1>2, GrowRows
  <1> QED BY <1>3 DEF r

\* The two rows of a resolved repair, one after the other.
Midway == Append(log, Entry("remediated", target, 0))

LEMMA ResolveGrows ==
    ASSUME Sound, up, step = "closed", target \in Keys,
           log' = log \o <<Entry("remediated", target, 0), Entry("resolved", target, 0)>>
    PROVE  /\ Rows(log', clock) /\ Rows(Midway, clock)
           /\ Grown(log, Midway, Entry("remediated", target, 0))
           /\ Grown(Midway, log', Entry("resolved", target, 0))
  <1>1. clock \in Nat /\ Rows(log, clock) /\ target # None /\ log \in Seq(Row)
    BY ConstantsAssumption DEF Sound, TypeOK
  <1> DEFINE r == Entry("remediated", target, 0)
             s == Entry("resolved", target, 0)
  <1>2. r \in Row /\ r.kind = "remediated" /\ r.key = target /\ r.at <= clock
    BY <1>1, EntryIs DEF Kinds
  <1>3. s \in Row /\ s.kind = "resolved" /\ s.key = target /\ s.at <= clock
    BY <1>1, EntryIs DEF Kinds
  <1>4. log' = Append(Append(log, r), s)
    <2> HIDE DEF r, s
    <2>1. log \o <<r, s>> = Append(Append(log, r), s)
      BY <1>1, <1>2, <1>3
    <2> QED BY <2>1 DEF r, s
  <1> HIDE DEF r, s
  <1>5. Rows(Append(log, r), clock) /\ Grown(log, Append(log, r), r)
    <2>1. (r.kind = "started") = (r.key = None)
      BY <1>1, <1>2
    <2> QED BY <1>1, <1>2, <2>1, GrowRows
  <1>6. Rows(Append(Append(log, r), s), clock) /\ Grown(Append(log, r), Append(Append(log, r), s), s)
    <2>1. (s.kind = "started") = (s.key = None)
      BY <1>1, <1>3
    <2> DEFINE mid == Append(log, r)
    <2>2. Rows(mid, clock)
      BY <1>5
    <2> HIDE DEF mid
    <2>3. Rows(Append(mid, s), clock) /\ Grown(mid, Append(mid, s), s)
      BY <1>1, <1>3, <2>1, <2>2, GrowRows
    <2> QED BY <2>3 DEF mid
  <1> QED BY <1>4, <1>5, <1>6 DEF Midway, r, s

\* The cooldown a start restores is the latest of those still open.
LEMMA RestoredIs ==
    ASSUME NEW now \in Nat, now = clock, Rows(log, now), NEW k \in Keys
    PROVE  /\ Restored(log, k) \in Nat
           /\ \A i \in Positions("interrupted", k) :
                 log[i].at + Cooldown <= now \/ log[i].at + Cooldown <= Restored(log, k)
  <1> DEFINE ends == {log[i].at + Cooldown : i \in {j \in DOMAIN log :
                         log[j].kind = "interrupted" /\ log[j].key = k}}
             open == {e \in ends : e > clock}
  <1>1. Cooldown \in Nat /\ log \in Seq(Row) /\ \A i \in DOMAIN log : log[i].at \in 0..now
    <2>1. Cooldown \in Nat /\ log \in Seq(Row)
      BY ConstantsAssumption DEF Rows
    <2>2. \A i \in DOMAIN log : log[i] \in Row
      BY <2>1
    <2>3. \A i \in DOMAIN log : log[i].at \in Nat /\ log[i].at <= now
      BY <2>2 DEF Row, Rows
    <2> QED BY <2>1, <2>3
  <1>2. open \in SUBSET (0..now + Cooldown) /\ now + Cooldown \in Nat
    BY <1>1
  <1>3. Restored(log, k) = IF open = {} THEN 0 ELSE Max(open)
    BY DEF Restored
  <1>4. \A i \in Positions("interrupted", k) : log[i].at + Cooldown \in ends
    BY DEF Positions
  <1>5. \A i \in Positions("interrupted", k) :
            log[i].at + Cooldown <= now \/ log[i].at + Cooldown \in open
    <2> TAKE i \in Positions("interrupted", k)
    <2>1. log[i].at + Cooldown \in Nat
      BY <1>1 DEF Positions
    <2> QED BY <1>4, <2>1
  <1> HIDE DEF open, ends
  <1>6. CASE open = {}
    BY <1>3, <1>5, <1>6
  <1>7. CASE open # {}
    <2>1. Max(open) \in open /\ \A y \in open : y <= Max(open)
      BY <1>2, <1>7, Greatest
    <2>2. Max(open) \in Nat
      <3> DEFINE top == now + Cooldown
      <3>1. open \subseteq 0..top /\ top \in Nat
        BY <1>2
      <3> HIDE DEF top
      <3>2. \A y \in open : y \in Nat
        BY <3>1
      <3>3. Max(open) \in open
        BY <2>1
      <3> QED BY <3>2, <3>3
    <2>3. Restored(log, k) = Max(open)
      BY <1>3, <1>7
    <2>4. ASSUME NEW i \in Positions("interrupted", k)
          PROVE  log[i].at + Cooldown <= now \/ log[i].at + Cooldown <= Restored(log, k)
      <3>1. log[i].at + Cooldown <= now \/ log[i].at + Cooldown <= Max(open)
        BY <1>5, <2>1
      <3> QED BY <2>3, <3>1
    <2> QED BY <2>2, <2>3, <2>4
  <1> QED BY <1>6, <1>7

-----------------------------------------------------------------------------
(* Every step keeps the typing.                                            *)

LEMMA InitSound == Init => Sound
  <1> SUFFICES ASSUME Init PROVE Sound
    OBVIOUS
  <1>1. /\ MaxTime \in Nat /\ MaxPolls \in Nat /\ MaxCrashes \in Nat
    BY ConstantsAssumption
  <1>2. TypeOK
    <2>1. log \in Seq(Row) /\ streak \in [Keys -> 0..MaxPolls] /\ cooling \in [Keys -> Nat]
      BY <1>1 DEF Init
    <2>2. clock \in 0..MaxTime /\ polls \in 0..MaxPolls /\ crashes \in 0..MaxCrashes
      BY <1>1 DEF Init
    <2>3. up \in BOOLEAN /\ escalated \subseteq Keys /\ todo \subseteq Keys
      BY DEF Init
    <2>4. /\ step \in Steps /\ target \in Keys \cup {None}
          /\ (step = "looking") = (target = None)
          /\ ~up => escalated = {} /\ todo = {} /\ step = "looking"
      BY DEF Init, Steps
    <2> QED BY <2>1, <2>2, <2>3, <2>4 DEF TypeOK
  <1>3. Counted
    BY <1>1 DEF Init, Counted
  <1>4. NoWatches \in Seen
    BY DEF NoWatches, Seen
  <1>5. Rows(log, clock)
    <2>1. log = <<>> /\ Folded(log) \in Seen
      BY <1>4, FoldedNone DEF Init
    <2>2. log \in Seq(Row) /\ DOMAIN log = {}
      BY <2>1
    <2> QED BY <2>1, <2>2 DEF Rows
  <1> QED BY <1>2, <1>3, <1>5 DEF Sound

\* What typing says of the variables other than the timeline.
Others ==
    /\ clock \in 0..MaxTime /\ polls \in 0..MaxPolls /\ crashes \in 0..MaxCrashes
    /\ up \in BOOLEAN
    /\ streak \in [Keys -> 0..MaxPolls]
    /\ cooling \in [Keys -> Nat]
    /\ escalated \subseteq Keys /\ todo \subseteq Keys
    /\ step \in Steps /\ target \in Keys \cup {None}
    /\ (step = "looking") = (target = None)
    /\ ~up => escalated = {} /\ todo = {} /\ step = "looking"

Bounds ==
    /\ {ConfirmPolls, Limit} \subseteq Nat \ {0} /\ None \notin Keys
    /\ Cooldown \in Nat /\ CooldownMax \in Nat /\ Window \in Nat
    /\ MaxTime \in Nat /\ MaxPolls \in Nat /\ MaxCrashes \in Nat

LEMMA BoundsHold == Bounds
  BY ConstantsAssumption DEF Bounds

LEMMA SoundIs == Sound <=> Others /\ Counted /\ Rows(log, clock)
  BY DEF Sound, TypeOK, Others, Rows

\* A row written while an action is under way is about its target.
LEMMA Acting ==
    ASSUME Others, Rows(log, clock), up, step # "looking",
           NEW kind \in Kinds \ {"started"}, NEW w \in Nat,
           log' = Append(log, Entry(kind, target, w))
    PROVE  Rows(log', clock) /\ Grown(log, log', Entry(kind, target, w)) /\ target \in Keys
  <1>1. target \in Keys /\ target # None
    BY DEF Others
  <1>2. clock \in Nat
    BY BoundsHold DEF Others, Bounds
  <1> DEFINE r == Entry(kind, target, w)
  <1>3. r \in Row /\ r.kind = kind /\ r.key = target /\ r.at <= clock
    BY <1>1, <1>2, EntryIs
  <1> HIDE DEF r
  <1>4. Rows(Append(log, r), clock) /\ Grown(log, Append(log, r), r)
    BY <1>1, <1>2, <1>3, GrowRows
  <1> QED BY <1>1, <1>4 DEF r

LEMMA SoundStep == Sound /\ [Next]_vars => Sound'
  <1> SUFFICES ASSUME Sound, [Next]_vars PROVE Sound'
    OBVIOUS
  <1> SUFFICES Others' /\ Counted' /\ Rows(log, clock)'
    BY DEF Sound, TypeOK, Others, Rows
  <1>1. Others /\ Counted /\ Rows(log, clock)
    BY SoundIs
  <1>2. Bounds
    BY BoundsHold
  <1>3. clock \in Nat
    BY <1>1, <1>2 DEF Others, Bounds
  <1>4. ASSUME Announce PROVE Others' /\ Counted' /\ Rows(log', clock')
    <2>1. PICK i \in Pending : log' = Append(log, Entry("interrupted", i.key, i.watch))
      BY <1>4 DEF Announce
    <2>2. i.key \in Keys /\ i.watch \in Nat
      <3>1. Watches \in Seen
        BY <1>1 DEF Rows, Watches
      <3>2. PICK w \in Watches.unfinished \cup Watches.active : i = Identity(w)
        BY <2>1 DEF Pending
      <3>3. w \in Watch
        BY <3>1, <3>2 DEF Seen
      <3> QED BY <3>2, <3>3 DEF Identity, Watch
    <2>3. i.key # None
      BY <1>2, <2>2 DEF Bounds
    <2>4. Rows(log', clock)
      BY <2>1, <2>2, <2>3, WriteGrows DEF Kinds
    <2>5. UNCHANGED <<clock, up, memory, polls, crashes>>
      BY <1>4 DEF Announce
    <2> QED BY <1>1, <2>4, <2>5 DEF Others, Counted, memory
  <1>5. ASSUME Ready PROVE Others' /\ Counted' /\ Rows(log', clock')
    <2>1. Rows(log', clock)
      <3>1. log' = Append(log, Entry("started", None, 0))
        BY <1>5 DEF Ready, Write
      <3> QED BY <3>1, WriteGrows DEF Kinds
    <2>2. cooling' \in [Keys -> Nat]
      <3>1. \A k \in Keys : Restored(log, k) \in Nat
        BY <1>1, <1>3, RestoredIs
      <3> QED BY <1>5, <3>1 DEF Ready
    <2>3. /\ up' = TRUE /\ ~up
          /\ UNCHANGED <<clock, streak, escalated, todo, step, target, polls, crashes>>
      BY <1>5 DEF Ready
    <2> QED BY <1>1, <2>1, <2>2, <2>3 DEF Others, Counted
  <1>6. ASSUME NEW found \in SUBSET Keys, Poll(found) PROVE Others' /\ Counted' /\ Rows(log', clock')
    <2>1. /\ up /\ step = "looking" /\ todo = {} /\ polls < MaxPolls
          /\ polls' = polls + 1
          /\ streak' = [k \in Keys |-> IF k \in found THEN streak[k] ELSE 0]
          /\ escalated' = escalated \cap found /\ todo' = found
          /\ UNCHANGED <<clock, log, up, cooling, step, target, crashes>>
      BY <1>6 DEF Poll
    <2>2. \A k \in Keys : streak[k] \in 0..MaxPolls /\ streak[k] + 0 <= polls /\ polls \in Nat
      BY <1>1, <1>2, <2>1 DEF Others, Counted, Bounds
    <2>3. Counted'
      <3>1. ASSUME NEW k \in Keys PROVE streak'[k] + (IF k \in todo' THEN 1 ELSE 0) <= polls'
        BY <2>1, <2>2
      <3> QED BY <3>1 DEF Counted
    <2>4. streak' \in [Keys -> 0..MaxPolls] /\ polls' \in 0..MaxPolls
      BY <1>1, <1>2, <2>1, <2>2 DEF Others, Bounds
    <2> QED BY <1>1, <2>1, <2>3, <2>4 DEF Others
  <1>7. ASSUME NEW k \in Keys, Consider(k) PROVE Others' /\ Counted' /\ Rows(log', clock')
    <2>1. /\ up /\ step = "looking" /\ k \in todo /\ todo' = todo \ {k}
          /\ streak' = [streak EXCEPT ![k] = @ + 1]
          /\ log' = Append(log, Entry("detected", k, 0))
          /\ UNCHANGED <<clock, up, cooling, polls, crashes>>
      BY <1>7 DEF Consider, Detect, Write
    <2>2. /\ escalated' = escalated \/ escalated' = escalated \cup {k}
          /\ UNCHANGED <<step, target>> \/ (step' = "preflight" /\ target' = k)
      BY <1>7 DEF Consider
    <2>3. k # None
      BY <1>2 DEF Bounds
    <2>4. Rows(log', clock)
      BY <2>1, <2>3, WriteGrows DEF Kinds
    <2>5. \A x \in Keys : streak[x] \in 0..MaxPolls /\ polls \in 0..MaxPolls
      BY <1>1 DEF Others
    <2>6. Counted'
      <3>1. ASSUME NEW x \in Keys PROVE streak'[x] + (IF x \in todo' THEN 1 ELSE 0) <= polls'
        <4>1. streak[x] + (IF x \in todo THEN 1 ELSE 0) <= polls
          BY <1>1 DEF Counted
        <4>2. streak'[x] = IF x = k THEN streak[x] + 1 ELSE streak[x]
          BY <1>1, <2>1 DEF Others
        <4> QED BY <1>2, <2>1, <2>5, <4>1, <4>2 DEF Bounds
      <3> QED BY <3>1 DEF Counted
    <2>7. streak' \in [Keys -> 0..MaxPolls]
      <3>1. streak[k] + 1 <= polls
        BY <1>1, <2>1 DEF Counted
      <3>2. streak[k] + 1 \in 0..MaxPolls
        BY <1>2, <2>5, <3>1 DEF Bounds
      <3> QED BY <1>1, <2>1, <3>2 DEF Others
    <2> QED BY <1>1, <2>1, <2>2, <2>3, <2>4, <2>6, <2>7 DEF Others, Steps
  <1>8. ASSUME Decline \/ ExecutionError PROVE Others' /\ Counted' /\ Rows(log', clock')
    BY <1>1, <1>8 DEF Decline, ExecutionError, Return, Others, Counted, Steps
  <1>9. ASSUME Admit PROVE Others' /\ Counted' /\ Rows(log', clock')
    <2>1. /\ up /\ step = "preflight" /\ step' = "execute"
          /\ log' = Append(log, Entry("preflight", target, 0))
          /\ cooling' = [cooling EXCEPT ![target] =
                            clock + CooldownFor(Recurrences(log, target, clock))]
          /\ UNCHANGED <<clock, up, streak, escalated, todo, target, polls, crashes>>
      BY <1>9 DEF Admit, Write
    <2>2. Rows(log', clock) /\ target \in Keys
      BY <1>1, <2>1, Acting DEF Kinds
    <2>3. CooldownFor(Recurrences(log, target, clock)) \in Nat
      BY <1>1, RecurrencesNumber, CooldownNumber DEF Rows
    <2>4. cooling' \in [Keys -> Nat]
      BY <1>1, <1>3, <2>1, <2>3 DEF Others
    <2> QED BY <1>1, <2>1, <2>2, <2>4 DEF Others, Counted, Steps
  <1>10. ASSUME Report PROVE Others' /\ Counted' /\ Rows(log', clock')
    <2>1. /\ up /\ step \in {"execute", "unlanded", "closed"} /\ Return
          /\ log' = Append(log, Entry("remediated", target, 0))
          /\ UNCHANGED <<clock, up, streak, cooling, escalated, todo, polls, crashes>>
      BY <1>10 DEF Report, Write
    <2>2. Rows(log', clock)
      BY <1>1, <2>1, Acting DEF Kinds
    <2> QED BY <1>1, <2>1, <2>2 DEF Others, Counted, Steps, Return
  <1>11. ASSUME NotLanded \/ OpenWatch PROVE Others' /\ Counted' /\ Rows(log', clock')
    <2>1. /\ up /\ step # "looking" /\ step' \in Steps \ {"looking"}
          /\ log' = Append(log, Entry("opened", target, 0))
          /\ UNCHANGED <<clock, up, streak, cooling, escalated, todo, target, polls, crashes>>
      BY <1>11 DEF NotLanded, OpenWatch, Write, Steps
    <2>2. Rows(log', clock)
      BY <1>1, <2>1, Acting DEF Kinds
    <2> QED BY <1>1, <2>1, <2>2 DEF Others, Counted
  <1>12. ASSUME Commit PROVE Others' /\ Counted' /\ Rows(log', clock')
    <2>1. /\ up /\ step # "looking" /\ step' = "committed"
          /\ log' = Append(log, Entry("committed", target, Len(log) + 1))
          /\ UNCHANGED <<clock, up, streak, cooling, escalated, todo, target, polls, crashes>>
      BY <1>12 DEF Commit
    <2>2. Len(log) + 1 \in Nat
      BY <1>1 DEF Rows
    <2>3. Rows(log', clock)
      BY <1>1, <2>1, <2>2, Acting DEF Kinds
    <2> QED BY <1>1, <2>1, <2>3 DEF Others, Counted, Steps
  <1>13. ASSUME CloseWatch PROVE Others' /\ Counted' /\ Rows(log', clock')
    <2>1. /\ up /\ step # "looking" /\ step' = "closed"
          /\ log' = Append(log, Entry("closed", target, 0))
          /\ UNCHANGED <<clock, up, streak, cooling, escalated, todo, target, polls, crashes>>
      BY <1>13 DEF CloseWatch, Write
    <2>2. Rows(log', clock)
      BY <1>1, <2>1, Acting DEF Kinds
    <2> QED BY <1>1, <2>1, <2>2 DEF Others, Counted, Steps
  <1>14. ASSUME Resolve PROVE Others' /\ Counted' /\ Rows(log', clock')
    <2>1. /\ up /\ step = "closed" /\ Return
          /\ streak' = [streak EXCEPT ![target] = 0]
          /\ log' = log \o <<Entry("remediated", target, 0), Entry("resolved", target, 0)>>
          /\ UNCHANGED <<clock, up, cooling, escalated, todo, polls, crashes>>
      BY <1>14 DEF Resolve
    <2>2. target \in Keys
      BY <1>1, <2>1 DEF Others
    <2>3. Rows(log', clock)
      BY <2>1, <2>2, ResolveGrows
    <2>4. \A x \in Keys : streak[x] \in 0..MaxPolls /\ polls \in 0..MaxPolls /\ streak'[x] \in {streak[x], 0}
      BY <1>1, <2>1 DEF Others
    <2>5. Counted'
      <3>1. ASSUME NEW x \in Keys PROVE streak'[x] + (IF x \in todo' THEN 1 ELSE 0) <= polls'
        <4>1. streak[x] + (IF x \in todo THEN 1 ELSE 0) <= polls
          BY <1>1 DEF Counted
        <4> QED BY <1>2, <2>1, <2>4, <4>1 DEF Bounds
      <3> QED BY <3>1 DEF Counted
    <2>6. streak' \in [Keys -> 0..MaxPolls]
      BY <1>1, <1>2, <2>1 DEF Others, Bounds
    <2> QED BY <1>1, <2>1, <2>3, <2>5, <2>6 DEF Others, Steps, Return
  <1>15. ASSUME Tick PROVE Others' /\ Counted' /\ Rows(log', clock')
    <2>1. clock < MaxTime /\ clock' = clock + 1 /\ UNCHANGED <<log, up, memory, polls, crashes>>
      BY <1>15 DEF Tick
    <2>2. \A i \in DOMAIN log : log[i].at \in Nat
      <3>1. \A i \in DOMAIN log : log[i] \in Row
        BY <1>1 DEF Rows
      <3> QED BY <3>1 DEF Row
    <2>3. \A i \in DOMAIN log : log[i].at <= clock'
      BY <1>1, <1>3, <2>1, <2>2 DEF Rows
    <2>4. Rows(log', clock')
      BY <1>1, <2>1, <2>3 DEF Rows
    <2>5. clock' \in 0..MaxTime
      BY <1>2, <1>3, <2>1 DEF Bounds
    <2> QED BY <1>1, <2>1, <2>4, <2>5 DEF Others, Counted, memory
  <1>16. ASSUME Crash PROVE Others' /\ Counted' /\ Rows(log', clock')
    <2>1. /\ crashes < MaxCrashes /\ crashes' = crashes + 1 /\ up' = FALSE
          /\ streak' = [k \in Keys |-> 0] /\ cooling' = [k \in Keys |-> 0]
          /\ escalated' = {} /\ todo' = {} /\ Return /\ UNCHANGED <<clock, log, polls>>
      BY <1>16 DEF Crash
    <2>2. crashes' \in 0..MaxCrashes /\ polls \in Nat
      BY <1>1, <1>2, <2>1 DEF Others, Bounds
    <2>3. streak' \in [Keys -> 0..MaxPolls] /\ cooling' \in [Keys -> Nat]
      BY <1>2, <2>1 DEF Bounds
    <2>4. Counted'
      BY <2>1, <2>2 DEF Counted
    <2> QED BY <1>1, <2>1, <2>2, <2>3, <2>4 DEF Others, Steps, Return
  <1>17. ASSUME UNCHANGED vars PROVE Others' /\ Counted' /\ Rows(log', clock')
    BY <1>1, <1>17 DEF Others, Counted, vars, memory
  <1>18. CASE \E found \in SUBSET Keys : Poll(found)
    BY <1>6, <1>18 DEF Rows
  <1>19. CASE \E k \in Keys : Consider(k)
    BY <1>7, <1>19 DEF Rows
  <1> QED BY <1>4, <1>5, <1>8, <1>9, <1>10, <1>11, <1>12, <1>13, <1>14, <1>15, <1>16, <1>17,
             <1>18, <1>19 DEF Next, Rows

-----------------------------------------------------------------------------
(* What each step writes.                                                  *)

Writes(kind, k, w) == Rows(log', clock) /\ Grown(log, log', Entry(kind, k, w))

\* The timeline goes on from what it was, with rows of these kinds.
Adds(kinds) ==
    /\ log \in Seq(Row) /\ log' \in Seq(Row)
    /\ Len(log) \in Nat /\ Len(log') \in Nat /\ Len(log) <= Len(log')
    /\ DOMAIN log = 1..Len(log) /\ DOMAIN log' = 1..Len(log')
    /\ \A i \in 1..Len(log) : log'[i] = log[i]
    /\ \A i \in DOMAIN log' : i > Len(log) => log'[i].kind \in kinds

LEMMA WritesAdds ==
    ASSUME NEW kind \in Kinds, NEW k, NEW w, Writes(kind, k, w)
    PROVE  Adds({kind})
  <1>1. Entry(kind, k, w).kind = kind
    BY DEF Entry
  <1> QED BY <1>1 DEF Writes, Grown, Adds

LEMMA AnnounceWrites ==
    ASSUME Sound, Announce
    PROVE  /\ \E i \in Pending : i.key \in Keys /\ i.watch \in Nat
                                 /\ Writes("interrupted", i.key, i.watch)
           /\ ~up /\ ~up' /\ UNCHANGED <<clock, up, memory, polls, crashes>>
  <1>1. PICK i \in Pending : log' = Append(log, Entry("interrupted", i.key, i.watch))
    BY DEF Announce
  <1>2. i.key \in Keys /\ i.watch \in Nat
    <2>1. Watches \in Seen
      BY DEF Sound, Rows, Watches
    <2>2. PICK w \in Watches.unfinished \cup Watches.active : i = Identity(w)
      BY <1>1 DEF Pending
    <2>3. w \in Watch
      BY <2>1, <2>2 DEF Seen
    <2> QED BY <2>2, <2>3 DEF Identity, Watch
  <1>3. i.key # None
    BY <1>2, ConstantsAssumption
  <1>4. Writes("interrupted", i.key, i.watch)
    BY <1>1, <1>2, <1>3, WriteGrows DEF Kinds, Writes
  <1> QED BY <1>1, <1>2, <1>4 DEF Announce

LEMMA ReadyWrites ==
    ASSUME Sound, Ready
    PROVE  Writes("started", None, 0)
  <1>1. log' = Append(log, Entry("started", None, 0))
    BY DEF Ready, Write
  <1> QED BY <1>1, WriteGrows DEF Kinds, Writes

LEMMA ConsiderWrites ==
    ASSUME Sound, NEW k \in Keys, Consider(k)
    PROVE  Writes("detected", k, 0)
  <1>1. log' = Append(log, Entry("detected", k, 0)) /\ k # None
    BY ConstantsAssumption DEF Consider, Detect, Write
  <1> QED BY <1>1, WriteGrows DEF Kinds, Writes

\* The row an action under way writes.
ActionRow(kind, w) ==
    /\ up /\ step # "looking" /\ kind \in Kinds \ {"started"} /\ w \in Nat
    /\ log' = Append(log, Entry(kind, target, w))

LEMMA ActionWrites ==
    ASSUME Sound, NEW kind, NEW w, ActionRow(kind, w)
    PROVE  Writes(kind, target, w) /\ target \in Keys
  BY SoundIs, Acting DEF ActionRow, Writes

LEMMA ActionRows ==
    ASSUME Sound
    PROVE  /\ Admit => ActionRow("preflight", 0)
           /\ Report => ActionRow("remediated", 0)
           /\ NotLanded => ActionRow("opened", 0)
           /\ OpenWatch => ActionRow("opened", 0)
           /\ CloseWatch => ActionRow("closed", 0)
           /\ Commit => ActionRow("committed", Len(log) + 1)
  <1>1. Len(log) + 1 \in Nat
    BY DEF Sound, Rows
  <1> QED BY <1>1 DEF Admit, Report, NotLanded, OpenWatch, CloseWatch, Commit, Write, ActionRow, Kinds

LEMMA ResolveWrites ==
    ASSUME Sound, Resolve
    PROVE  /\ Rows(log', clock) /\ Rows(Midway, clock) /\ target \in Keys
           /\ Grown(log, Midway, Entry("remediated", target, 0))
           /\ Grown(Midway, log', Entry("resolved", target, 0))
           /\ Adds({"remediated", "resolved"})
  <1>1. /\ up /\ step = "closed" /\ target \in Keys
        /\ log' = log \o <<Entry("remediated", target, 0), Entry("resolved", target, 0)>>
    BY SoundIs DEF Resolve, Others
  <1>2. /\ Rows(log', clock) /\ Rows(Midway, clock)
        /\ Grown(log, Midway, Entry("remediated", target, 0))
        /\ Grown(Midway, log', Entry("resolved", target, 0))
    BY <1>1, ResolveGrows
  <1>3. Entry("remediated", target, 0).kind = "remediated" /\ Entry("resolved", target, 0).kind = "resolved"
    BY DEF Entry
  <1>4. Adds({"remediated", "resolved"})
    BY <1>2, <1>3 DEF Grown, Adds
  <1> QED BY <1>1, <1>2, <1>4

LEMMA SameAdds ==
    ASSUME Sound, log' = log
    PROVE  Adds({})
  <1>1. log \in Seq(Row)
    BY DEF Sound, Rows
  <1>2. Len(log) \in Nat /\ DOMAIN log = 1..Len(log)
    BY <1>1
  <1> QED BY <1>1, <1>2 DEF Adds

\* The kinds of rows each step adds.
LEMMA StepAdds ==
    ASSUME Sound
    PROVE  /\ Announce => Adds({"interrupted"})
           /\ Ready => Adds({"started"})
           /\ \A k \in Keys : Consider(k) => Adds({"detected"})
           /\ Admit => Adds({"preflight"})
           /\ Report => Adds({"remediated"})
           /\ NotLanded \/ OpenWatch => Adds({"opened"})
           /\ Commit => Adds({"committed"})
           /\ CloseWatch => Adds({"closed"})
           /\ Resolve => Adds({"remediated", "resolved"})
           /\ Decline \/ ExecutionError \/ Tick \/ Crash \/ UNCHANGED vars => Adds({})
           /\ \A found \in SUBSET Keys : Poll(found) => Adds({})
  <1>1. Announce => Adds({"interrupted"})
    BY AnnounceWrites, WritesAdds DEF Kinds
  <1>2. Ready => Adds({"started"})
    BY ReadyWrites, WritesAdds DEF Kinds
  <1>3. \A k \in Keys : Consider(k) => Adds({"detected"})
    BY ConsiderWrites, WritesAdds DEF Kinds
  <1>4. ASSUME NEW kind, NEW w, ActionRow(kind, w) PROVE Adds({kind})
    <2>1. kind \in Kinds /\ Writes(kind, target, w)
      BY <1>4, ActionWrites DEF ActionRow
    <2> QED BY <2>1, WritesAdds
  <1>5. Decline \/ ExecutionError \/ Tick \/ Crash \/ UNCHANGED vars => log' = log
    BY DEF Decline, ExecutionError, Tick, Crash, vars
  <1>6. \A found \in SUBSET Keys : Poll(found) => log' = log
    BY DEF Poll
  <1>7. /\ Admit => Adds({"preflight"})
        /\ Report => Adds({"remediated"})
        /\ NotLanded \/ OpenWatch => Adds({"opened"})
        /\ CloseWatch => Adds({"closed"})
        /\ Commit => Adds({"committed"})
    BY <1>4, ActionRows
  <1>8. Resolve => Adds({"remediated", "resolved"})
    BY ResolveWrites
  <1>9. log' = log => Adds({})
    BY SameAdds
  <1> QED BY <1>1, <1>2, <1>3, <1>5, <1>6, <1>7, <1>8, <1>9

-----------------------------------------------------------------------------
(* Cooldowns.                                                              *)

Due(k, i) == log[i].at + CooldownFor(Recurrences(SubSeq(log, 1, i - 1), k, log[i].at))

\* No process started after row i.
Lately(i) == \A m \in i+1..Len(log) : log[m].kind # "started"

\* A key is being looked at only after its cooldown; a process that acts knows
\* the cooldown of every interruption ever reported, and of every action it
\* admitted itself.
Cool ==
    /\ step = "preflight" => cooling[target] <= clock
    /\ up => \A k \in Keys :
          /\ \A i \in Positions("interrupted", k) :
                log[i].at + Cooldown <= clock \/ log[i].at + Cooldown <= cooling[k]
          /\ \A i \in Admissions(k) : Lately(i) => Due(k, i) <= cooling[k]

LEMMA PrefixKept ==
    ASSUME NEW kinds, Adds(kinds), NEW i \in 1..Len(log)
    PROVE  SubSeq(log', 1, i - 1) = SubSeq(log, 1, i - 1)
  <1>1. i - 1 <= Len(log) /\ i - 1 <= Len(log') /\ i - 1 \in Nat
    BY DEF Adds
  <1>2. \A m \in 1..i - 1 : log'[m] = log[m]
    BY <1>1 DEF Adds
  <1>3. SubSeq(log', 1, i - 1) = [m \in 1..i - 1 |-> log'[m]]
    BY <1>1 DEF Adds
  <1>4. SubSeq(log, 1, i - 1) = [m \in 1..i - 1 |-> log[m]]
    BY <1>1 DEF Adds
  <1> QED BY <1>2, <1>3, <1>4

\* The rows of a kind that is not added are the rows there were.
LEMMA KindKept ==
    ASSUME NEW kinds, Adds(kinds), NEW kind, kind \notin kinds, NEW k, NEW i \in Positions(kind, k)'
    PROVE  i \in Positions(kind, k) /\ i \in 1..Len(log) /\ log'[i] = log[i]
  BY DEF Adds, Positions

LEMMA DueKept ==
    ASSUME NEW kinds, Adds(kinds), NEW k, NEW i \in 1..Len(log)
    PROVE  Due(k, i)' = Due(k, i)
  <1>1. log'[i] = log[i] /\ SubSeq(log', 1, i - 1) = SubSeq(log, 1, i - 1)
    BY PrefixKept DEF Adds
  <1> QED BY <1>1 DEF Due

\* Times, as numbers.
LEMMA TimesAre ==
    ASSUME NEW rows, NEW now, Rows(rows, now), NEW i \in DOMAIN rows
    PROVE  rows[i] \in Row /\ rows[i].at \in Nat /\ rows[i].kind \in Kinds
           /\ rows[i].key \in Keys \cup {None} /\ rows[i].watch \in Nat
  <1>1. rows[i] \in Row
    BY DEF Rows
  <1> QED BY <1>1 DEF Row

LEMMA DueNumber ==
    ASSUME NEW now, Rows(log, now), NEW k, NEW i \in DOMAIN log
    PROVE  Due(k, i) \in Nat
  <1>0. log \in Seq(Row) /\ log[i].at \in Nat
    BY TimesAre DEF Rows
  <1>1. log[i].at \in Nat /\ i \in 1..Len(log) /\ Len(log) \in Nat
    BY <1>0
  <1>2. SubSeq(log, 1, i - 1) \in Seq(Row)
    BY <1>0, <1>1
  <1>3. Recurrences(SubSeq(log, 1, i - 1), k, log[i].at) \in Nat
    BY <1>2, RecurrencesNumber
  <1>4. CooldownFor(Recurrences(SubSeq(log, 1, i - 1), k, log[i].at)) \in Nat
    BY <1>3, CooldownNumber
  <1> QED BY <1>1, <1>4 DEF Due

LEMMA SpacedKept ==
    ASSUME NEW kinds, Adds(kinds), "preflight" \notin kinds, Spaced
    PROVE  Spaced'
  <1> SUFFICES ASSUME NEW k \in Keys, NEW j \in Admissions(k)'
               PROVE  /\ \A i \in Admissions(k)' :
                            i < j /\ ~Between(i, j, None, {"started"})' =>
                                log'[j].at >= Due(k, i)'
                      /\ \A i \in Positions("interrupted", k)' :
                            i < j => log'[j].at >= log'[i].at + Cooldown
    BY DEF Spaced, Due
  <1>1. j \in Admissions(k) /\ j \in 1..Len(log) /\ log'[j] = log[j]
    BY KindKept DEF Admissions
  <1>2. ASSUME NEW i \in Admissions(k)', i < j, ~Between(i, j, None, {"started"})'
        PROVE  log'[j].at >= Due(k, i)'
    <2>1. i \in Admissions(k) /\ i \in 1..Len(log)
      BY KindKept DEF Admissions
    <2>2. ~Between(i, j, None, {"started"})
      <3>1. \A m \in i + 1..j - 1 : log'[m] = log[m]
        BY <1>1, <2>1 DEF Adds
      <3> QED BY <1>2, <3>1 DEF Between
    <2>3. log[j].at >= Due(k, i)
      BY <1>1, <1>2, <2>1, <2>2 DEF Spaced, Due
    <2> QED BY <1>1, <2>1, <2>3, DueKept
  <1>3. ASSUME NEW i \in Positions("interrupted", k)', i < j
        PROVE  log'[j].at >= log'[i].at + Cooldown
    <2>1. i \in 1..Len(log) /\ log'[i] = log[i] /\ i \in Positions("interrupted", k)
      BY <1>1, <1>3 DEF Adds, Positions
    <2> QED BY <1>1, <1>3, <2>1 DEF Spaced
  <1> QED BY <1>2, <1>3

LEMMA CoolKept ==
    ASSUME Sound, Cool, NEW kinds, Adds(kinds), "preflight" \notin kinds, "interrupted" \notin kinds,
           up' = up, cooling' = cooling, clock' \in Nat, clock <= clock',
           step' = "preflight" => cooling'[target'] <= clock'
    PROVE  Cool'
  <1>1. Rows(log, clock) /\ clock \in Nat /\ cooling \in [Keys -> Nat]
    BY BoundsHold, SoundIs DEF Others, Bounds
  <1>2. ASSUME up, NEW k \in Keys, NEW i \in Positions("interrupted", k)'
        PROVE  log'[i].at + Cooldown <= clock' \/ log'[i].at + Cooldown <= cooling'[k]
    <2>1. i \in Positions("interrupted", k) /\ i \in 1..Len(log) /\ log'[i] = log[i]
      BY KindKept
    <2>2. log[i].at \in Nat /\ Cooldown \in Nat
      BY <1>1, <2>1, TimesAre, BoundsHold DEF Bounds, Positions
    <2>3. log[i].at + Cooldown <= clock \/ log[i].at + Cooldown <= cooling[k]
      BY <1>2, <2>1 DEF Cool
    <2> QED BY <1>1, <2>1, <2>2, <2>3
  <1>3. ASSUME up, NEW k \in Keys, NEW i \in Admissions(k)', Lately(i)'
        PROVE  Due(k, i)' <= cooling'[k]
    <2>1. i \in Admissions(k) /\ i \in 1..Len(log)
      BY KindKept DEF Admissions
    <2>2. Lately(i)
      <3>1. \A m \in i + 1..Len(log) : log'[m] = log[m] /\ m \in i + 1..Len(log')
        BY <2>1 DEF Adds
      <3> QED BY <1>3, <3>1 DEF Lately
    <2>3. Due(k, i) <= cooling[k]
      BY <1>3, <2>1, <2>2 DEF Cool
    <2> QED BY <2>1, <2>3, DueKept
  <1> QED BY <1>2, <1>3 DEF Cool

LEMMA AdmitCools ==
    ASSUME Sound, Cool, Spaced, Admit
    PROVE  Cool' /\ Spaced'
  <1>1. /\ up /\ step = "preflight" /\ step' = "execute" /\ up' = up /\ clock' = clock
        /\ cooling' = [cooling EXCEPT ![target] =
                          clock + CooldownFor(Recurrences(log, target, clock))]
    BY DEF Admit
  <1>2. Writes("preflight", target, 0) /\ target \in Keys /\ Adds({"preflight"})
    BY ActionRows, ActionWrites, StepAdds
  <1>3. Rows(log, clock) /\ clock \in Nat /\ cooling \in [Keys -> Nat] /\ cooling[target] <= clock
    BY <1>1, BoundsHold, SoundIs DEF Others, Bounds, Cool
  <1>n. PICK n : n = Len(log) + 1
    OBVIOUS
  <1>4. /\ Len(log) \in Nat /\ DOMAIN log' = 1..n /\ DOMAIN log = 1..Len(log) /\ log'[n].at = clock
        /\ log'[n].kind = "preflight" /\ log'[n].key = target /\ Len(log') = n
        /\ \A i \in 1..Len(log) : log'[i] = log[i]
    <2>1. /\ Entry("preflight", target, 0).at = clock
          /\ Entry("preflight", target, 0).kind = "preflight"
          /\ Entry("preflight", target, 0).key = target
      BY DEF Entry, TimedKinds
    <2>2. Grown(log, log', Entry("preflight", target, 0))
      BY <1>2 DEF Writes
    <2> QED BY <1>n, <2>1, <2>2 DEF Grown
  <1>p. target' = target
    BY DEF Admit
  <1>5. Due(target, n)' = clock + CooldownFor(Recurrences(log, target, clock))
    <2>1. SubSeq(log', 1, n - 1) = log
      <3>1. log \in Seq(Row) /\ log' \in Seq(Row)
        BY <1>2 DEF Adds
      <3>2. SubSeq(log', 1, n - 1) = [m \in 1..Len(log) |-> log'[m]]
        BY <1>n, <1>4, <3>1
      <3>3. log = [m \in 1..Len(log) |-> log[m]]
        BY <3>1
      <3> QED BY <1>4, <3>2, <3>3
    <2> QED BY <1>4, <1>p, <2>1 DEF Due
  <1>6. cooling'[target] = Due(target, n)' /\ \A k \in Keys : k # target => cooling'[k] = cooling[k]
    BY <1>1, <1>2, <1>3, <1>5
  <1>7. Due(target, n)' \in Nat /\ clock <= Due(target, n)'
    <2>1. log \in Seq(Row)
      BY <1>2 DEF Adds
    <2>2. CooldownFor(Recurrences(log, target, clock)) \in Nat
      BY <2>1, RecurrencesNumber, CooldownNumber
    <2> QED BY <1>3, <1>5, <2>2
  \* What the process already knew is past, when it admits.
  <1>8. \A k \in Keys : cooling[k] <= cooling'[k] /\ cooling[k] \in Nat /\ cooling'[k] \in Nat
    BY <1>2, <1>3, <1>6, <1>7
  <1>9. \A k \in Keys : \A i \in Admissions(k)' :
            \/ i = n /\ k = target
            \/ i \in Admissions(k) /\ i \in 1..Len(log) /\ log'[i] = log[i]
    BY <1>n, <1>4 DEF Admissions, Positions
  <1>10. \A k \in Keys : \A i \in Positions("interrupted", k)' :
            i \in Positions("interrupted", k) /\ i \in 1..Len(log) /\ log'[i] = log[i]
    <2> "interrupted" \notin {"preflight"}
      OBVIOUS
    <2> QED BY <1>2, KindKept
  <1>11. Cool'
    <2>1. ASSUME NEW k \in Keys, NEW i \in Positions("interrupted", k)'
          PROVE  log'[i].at + Cooldown <= clock \/ log'[i].at + Cooldown <= cooling'[k]
      <3>1. i \in Positions("interrupted", k) /\ log'[i] = log[i]
        BY <1>10, <2>1
      <3>2. log[i].at \in Nat /\ Cooldown \in Nat
        BY <1>3, <3>1, TimesAre, BoundsHold DEF Bounds, Positions
      <3>3. log[i].at + Cooldown <= clock \/ log[i].at + Cooldown <= cooling[k]
        BY <1>1, <3>1 DEF Cool
      <3> QED BY <1>3, <1>8, <3>1, <3>2, <3>3
    <2>2. ASSUME NEW k \in Keys, NEW i \in Admissions(k)', Lately(i)'
          PROVE  Due(k, i)' <= cooling'[k]
      <3>1. CASE i = n /\ k = target
        BY <1>p, <1>6, <1>7, <3>1
      <3>2. CASE i \in Admissions(k) /\ i \in 1..Len(log)
        <4>1. Lately(i)
          <5>1. \A m \in i + 1..Len(log) : log'[m] = log[m] /\ m \in i + 1..Len(log')
            BY <1>n, <1>4, <3>2
          <5> QED BY <2>2, <5>1 DEF Lately
        <4>2. Due(k, i) <= cooling[k]
          BY <1>1, <3>2, <4>1 DEF Cool
        <4>3. Due(k, i)' = Due(k, i) /\ Due(k, i) \in Nat
          BY <1>2, <1>3, <1>4, <3>2, DueKept, DueNumber
        <4> QED BY <1>8, <4>2, <4>3
      <3> QED BY <1>9, <2>2, <3>1, <3>2
    <2> QED BY <1>1, <2>1, <2>2 DEF Cool
  <1>12. Spaced'
    <2> SUFFICES ASSUME NEW k \in Keys, NEW j \in Admissions(k)'
                 PROVE  /\ \A i \in Admissions(k)' :
                              i < j /\ ~Between(i, j, None, {"started"})' =>
                                  log'[j].at >= Due(k, i)'
                        /\ \A i \in Positions("interrupted", k)' :
                              i < j => log'[j].at >= log'[i].at + Cooldown
      BY DEF Spaced, Due
    <2>1. CASE j = n /\ k = target
      <3>1. ASSUME NEW i \in Admissions(k)', i < j, ~Between(i, j, None, {"started"})'
            PROVE  log'[j].at >= Due(k, i)'
        <4>1. i \in Admissions(k) /\ i \in 1..Len(log)
          BY <1>n, <1>4, <1>9, <2>1, <3>1
        <4>2. Lately(i)
          <5> SUFFICES ASSUME NEW m \in i + 1..Len(log), log[m].kind = "started" PROVE FALSE
            BY DEF Lately
          <5>1. log[m].key = None /\ m \in 1..Len(log)
            BY <1>3, <1>4, <4>1 DEF Rows
          <5>2. m \in i + 1..j - 1 /\ log'[m] = log[m]
            BY <1>n, <1>4, <2>1, <5>1
          <5> QED BY <3>1, <5>1, <5>2 DEF Between
        <4>3. Due(k, i) <= cooling[k]
          BY <1>1, <4>1, <4>2 DEF Cool
        <4>4. Due(k, i)' = Due(k, i) /\ Due(k, i) \in Nat
          BY <1>2, <1>3, <1>4, <4>1, DueKept, DueNumber
        <4>5. log'[j].at = clock
          BY <1>4, <2>1
        <4> QED BY <1>3, <1>8, <2>1, <4>3, <4>4, <4>5
      <3>2. ASSUME NEW i \in Positions("interrupted", k)', i < j
            PROVE  log'[j].at >= log'[i].at + Cooldown
        <4>1. i \in Positions("interrupted", k) /\ log'[i] = log[i]
          BY <1>10, <3>2
        <4>2. log[i].at \in Nat /\ Cooldown \in Nat
          BY <1>3, <4>1, TimesAre, BoundsHold DEF Bounds, Positions
        <4>3. log[i].at + Cooldown <= clock \/ log[i].at + Cooldown <= cooling[k]
          BY <1>1, <4>1 DEF Cool
        <4>4. log'[j].at = clock
          BY <1>4, <2>1
        <4> QED BY <1>3, <1>8, <2>1, <4>1, <4>2, <4>3, <4>4
      <3> QED BY <3>1, <3>2
    <2>2. CASE j \in Admissions(k) /\ j \in 1..Len(log) /\ log'[j] = log[j]
      <3>1. ASSUME NEW i \in Admissions(k)', i < j, ~Between(i, j, None, {"started"})'
            PROVE  log'[j].at >= Due(k, i)'
        <4>1. i \in Admissions(k) /\ i \in 1..Len(log)
          BY <1>n, <1>4, <1>9, <2>2, <3>1
        <4>2. ~Between(i, j, None, {"started"})
          <5>1. \A m \in i + 1..j - 1 : log'[m] = log[m]
            BY <1>4, <2>2, <4>1
          <5> QED BY <3>1, <5>1 DEF Between
        <4>3. log[j].at >= Due(k, i)
          BY <2>2, <3>1, <4>1, <4>2 DEF Spaced, Due
        <4> QED BY <1>2, <2>2, <4>1, <4>3, DueKept
      <3>2. ASSUME NEW i \in Positions("interrupted", k)', i < j
            PROVE  log'[j].at >= log'[i].at + Cooldown
        <4>1. i \in Positions("interrupted", k) /\ log'[i] = log[i]
          BY <1>10, <3>2
        <4> QED BY <2>2, <3>2, <4>1 DEF Spaced
      <3> QED BY <3>1, <3>2
    <2> QED BY <1>9, <2>1, <2>2
  <1> QED BY <1>11, <1>12

LEMMA ReadyCools ==
    ASSUME Sound, Cool, Ready
    PROVE  Cool'
  <1>1. /\ ~up /\ cooling' = [k \in Keys |-> Restored(log, k)]
        /\ UNCHANGED <<clock, step, target>>
    BY DEF Ready
  <1>2. Writes("started", None, 0) /\ Adds({"started"})
    BY ReadyWrites, StepAdds
  <1>3. Rows(log, clock) /\ clock \in Nat /\ step = "looking"
    BY <1>1, BoundsHold, SoundIs DEF Others, Bounds
  <1>4. ASSUME NEW k \in Keys, NEW i \in Positions("interrupted", k)'
        PROVE  log'[i].at + Cooldown <= clock \/ log'[i].at + Cooldown <= cooling'[k]
    <2>1. i \in Positions("interrupted", k) /\ log'[i] = log[i]
      <3> "interrupted" \notin {"started"}
        OBVIOUS
      <3> QED BY <1>2, KindKept
    <2>2. log[i].at + Cooldown <= clock \/ log[i].at + Cooldown <= Restored(log, k)
      BY <1>3, <2>1, RestoredIs
    <2> QED BY <1>1, <2>1, <2>2
  <1>5. ASSUME NEW k \in Keys, NEW i \in Admissions(k)' PROVE ~Lately(i)'
    <2>1. i \in 1..Len(log)
      <3> "preflight" \notin {"started"}
        OBVIOUS
      <3> QED BY <1>2, KindKept DEF Admissions
    <2>2. Len(log) + 1 = Len(log') /\ log'[Len(log) + 1].kind = "started" /\ Len(log) \in Nat
      <3>1. Entry("started", None, 0).kind = "started"
        BY DEF Entry
      <3>2. Grown(log, log', Entry("started", None, 0))
        BY <1>2 DEF Writes
      <3> QED BY <3>1, <3>2 DEF Grown
    <2>3. Len(log) + 1 \in i + 1..Len(log')
      BY <2>1, <2>2
    <2> QED BY <2>2, <2>3 DEF Lately
  <1> QED BY <1>1, <1>3, <1>4, <1>5 DEF Cool

LEMMA CoolStep == Sound /\ Sound' /\ Cool /\ Spaced /\ [Next]_vars => Cool' /\ Spaced'
  <1> SUFFICES ASSUME Sound, Sound', Cool, Spaced, [Next]_vars PROVE Cool' /\ Spaced'
    OBVIOUS
  <1>1. clock \in Nat /\ clock' \in Nat /\ Others /\ Others'
    <2>1. Others
      BY SoundIs
    <2>2. Others'
      BY DEF Sound, TypeOK, Others
    <2> QED BY <2>1, <2>2, BoundsHold DEF Others, Bounds
  <1>2. CASE Announce
    <2>1. Adds({"interrupted"}) /\ ~up' /\ step' = step /\ ~up
      BY <1>2, StepAdds, AnnounceWrites DEF memory
    <2>2. step' = "looking"
      BY <1>1, <2>1 DEF Others
    <2>3. Cool'
      BY <2>1, <2>2 DEF Cool
    <2>4. Spaced'
      BY <2>1, SpacedKept
    <2> QED BY <2>3, <2>4
  <1>3. CASE Ready
    <2>1. Adds({"started"})
      BY <1>3, StepAdds
    <2>2. Spaced'
      BY <2>1, SpacedKept
    <2> QED BY <1>3, <2>2, ReadyCools
  <1>4. CASE Admit
    BY <1>4, AdmitCools
  <1>5. CASE Crash
    <2>1. ~up' /\ step' = "looking" /\ Adds({})
      BY <1>5, StepAdds DEF Crash, Return
    <2>2. Cool'
      BY <2>1 DEF Cool
    <2> QED BY <2>1, <2>2, SpacedKept
  <1> DEFINE Mild(kinds) ==
        /\ Adds(kinds) /\ up' = up /\ cooling' = cooling /\ clock <= clock'
        /\ step' = "preflight" => cooling'[target'] <= clock'
  <1>6. ASSUME NEW kinds, Mild(kinds), "preflight" \notin kinds, "interrupted" \notin kinds
        PROVE  Cool' /\ Spaced'
    BY <1>1, <1>6, CoolKept, SpacedKept
  <1>7. CASE \E k \in Keys : Consider(k)
    <2>1. PICK k \in Keys : Consider(k)
      BY <1>7
    <2>2. Adds({"detected"}) /\ up' = up /\ cooling' = cooling /\ clock' = clock
      BY <2>1, StepAdds DEF Consider, Detect
    <2>3. step' = "preflight" => cooling[target'] <= clock
      <3>1. step = "looking"
        BY <2>1 DEF Consider, Detect
      <3>2. cooling[k] \in Nat
        BY <1>1 DEF Others
      <3> QED BY <1>1, <2>1, <3>1, <3>2 DEF Consider, Cooled
    <2>4. Mild({"detected"})
      BY <1>1, <2>2, <2>3
    <2> HIDE DEF Mild
    <2> QED BY <1>6, <2>4
  <1>8. CASE \E found \in SUBSET Keys : Poll(found)
    <2>1. Adds({}) /\ up' = up /\ cooling' = cooling /\ clock' = clock /\ step' = "looking"
      BY <1>8, StepAdds DEF Poll
    <2>2. Mild({})
      BY <1>1, <2>1
    <2> HIDE DEF Mild
    <2> QED BY <1>6, <2>2
  <1>9. CASE Decline \/ ExecutionError
    <2>1. Adds({}) /\ up' = up /\ cooling' = cooling /\ clock' = clock /\ step' = "looking"
      BY <1>9, StepAdds DEF Decline, ExecutionError, Return
    <2>2. Mild({})
      BY <1>1, <2>1
    <2> HIDE DEF Mild
    <2> QED BY <1>6, <2>2
  <1>10. CASE Report \/ NotLanded \/ Commit \/ OpenWatch \/ CloseWatch \/ Resolve
    <2>1. PICK kinds \in {{"remediated"}, {"opened"}, {"committed"}, {"closed"},
                          {"remediated", "resolved"}} : Adds(kinds)
      BY <1>10, StepAdds
    <2>2. up' = up /\ cooling' = cooling /\ clock' = clock /\ step' # "preflight"
      BY <1>10 DEF Report, NotLanded, Commit, OpenWatch, CloseWatch, Resolve, Return
    <2>3. Mild(kinds)
      BY <1>1, <2>1, <2>2
    <2> HIDE DEF Mild
    <2> QED BY <1>6, <2>1, <2>3
  <1>11. CASE Tick
    <2>1. Adds({}) /\ up' = up /\ cooling' = cooling /\ clock' = clock + 1
          /\ step' = step /\ target' = target
      BY <1>11, StepAdds DEF Tick, memory
    <2>2. step = "preflight" => cooling[target] \in Nat /\ cooling[target] <= clock
      <3>1. step = "preflight" => target \in Keys
        BY <1>1 DEF Others
      <3> QED BY <1>1, <3>1 DEF Others, Cool
    <2>3. Mild({})
      BY <1>1, <2>1, <2>2
    <2> HIDE DEF Mild
    <2> QED BY <1>6, <2>3
  <1>12. CASE UNCHANGED vars
    <2>1. Adds({}) /\ up' = up /\ cooling' = cooling /\ clock' = clock
          /\ step' = step /\ target' = target
      BY <1>12, StepAdds DEF vars, memory
    <2>2. Mild({})
      BY <1>1, <2>1 DEF Cool
    <2> HIDE DEF Mild
    <2> QED BY <1>6, <2>2
  <1> QED BY <1>2, <1>3, <1>4, <1>5, <1>7, <1>8, <1>9, <1>10, <1>11, <1>12 DEF Next

\* Every reachable state is typed, and a process that has not reconciled
\* remembers nothing (_load, start_background).
THEOREM TypeCorrect == Spec => []TypeOK
  <1>1. Sound => TypeOK
    BY DEF Sound
  <1> QED BY <1>1, InitSound, SoundStep, PTL DEF Spec

\* The sentinel never acts on a key before its cooldown: the one the recurrences
\* at its last action ask for within a process, the base cooldown from a report
\* of an interruption on, across any number of restarts (_cooldown_until,
\* recurrence.cooldown_for, the restoring loop of
\* reconcile_interrupted_watches).
THEOREM Spacing == Spec => []Spaced
  <1> DEFINE IInv == Sound /\ Cool /\ Spaced
  <1>1. Init => IInv
    <2> SUFFICES ASSUME Init PROVE Cool /\ Spaced
      BY InitSound
    <2>1. DOMAIN log = {} /\ ~up /\ step = "looking"
      BY DEF Init
    <2>2. \A kind, k : Positions(kind, k) = {}
      BY <2>1 DEF Positions
    <2> QED BY <2>1, <2>2 DEF Cool, Spaced, Admissions
  <1>2. IInv /\ [Next]_vars => IInv'
    BY SoundStep, CoolStep
  <1>3. IInv => Spaced
    OBVIOUS
  <1> HIDE DEF IInv
  <1> QED BY <1>1, <1>2, <1>3, PTL DEF Spec

-----------------------------------------------------------------------------
(* Repairs that keep not holding.                                          *)

\* Repairs of k that passed, recent enough at now to count.
Recent(k, now) == {i \in Positions("resolved", k) : log[i].at + Window >= now}

\* Repairs of k that passed and whose fault has not come back.
Holding(k) == Positions("resolved", k) \ FailedToHold(log, k)

\* Only the last repair of a key can be holding, and none is while the key is
\* acted on: an action follows a detection, and a detection undoes the hold.  So
\* what the limit was compared with counts every recent repair of the target.
Budgeted ==
    /\ \A k \in Keys : \A i \in Holding(k) :
          k # target /\ \A j \in Positions("resolved", k) : j <= i
    /\ target # None => Cardinality(Recent(target, clock)) < Limit

Within(k, j) == {i \in Positions("resolved", k) : i <= j /\ log[i].at + Window >= log[j].at}

LEMMA FailedKept ==
    ASSUME NEW kinds, Adds(kinds), NEW k, NEW i \in FailedToHold(log, k)
    PROVE  i \in FailedToHold(log', k)
  <1>1. i \in 1..Len(log) /\ log[i].kind = "resolved" /\ log[i].key = k
    BY DEF Adds, FailedToHold
  <1>2. PICK j \in i + 1..Len(log) :
            /\ log[j].kind = "detected" /\ log[j].key = k
            /\ \A m \in i + 1..j : ~(log[m].kind = "resolved" /\ log[m].key = k)
    BY DEF FailedToHold
  <1>3. j \in i + 1..Len(log') /\ log'[j] = log[j] /\ log'[i] = log[i] /\ i \in DOMAIN log'
    BY <1>1 DEF Adds
  <1>4. \A m \in i + 1..j : log'[m] = log[m]
    BY <1>1 DEF Adds
  <1>5. \A m \in i + 1..j : ~(log'[m].kind = "resolved" /\ log'[m].key = k)
    BY <1>2, <1>4
  <1> QED BY <1>1, <1>2, <1>3, <1>5 DEF FailedToHold

LEMMA ResolvedKept ==
    ASSUME NEW kinds, Adds(kinds), "resolved" \notin kinds, NEW k
    PROVE  /\ Positions("resolved", k)' = Positions("resolved", k)
           /\ \A i \in Positions("resolved", k) : log'[i] = log[i]
           /\ \A j \in Positions("resolved", k) : Within(k, j)' = Within(k, j)
  <1>1. Positions("resolved", k)' = Positions("resolved", k)
    BY DEF Adds, Positions
  <1>2. \A i \in Positions("resolved", k) : log'[i] = log[i]
    BY DEF Adds, Positions
  <1>4. \A j \in Positions("resolved", k) : Within(k, j)' = Within(k, j)
    BY <1>1, <1>2 DEF Within
  <1> QED BY <1>1, <1>2, <1>4

LEMMA RecentFinite ==
    ASSUME NEW rows, NEW now, Rows(log, now), NEW k, NEW t
    PROVE  /\ IsFiniteSet(Recent(k, t)) /\ Cardinality(Recent(k, t)) \in Nat
           /\ Recent(k, t) \subseteq DOMAIN log
  <1>1. Recent(k, t) \in SUBSET (DOMAIN log) /\ log \in Seq(Row)
    BY DEF Recent, Positions, Rows
  <1> QED BY <1>1, RowsFinite

LEMMA BudgetKept ==
    ASSUME Sound, Budgeted, RepairBudget, NEW kinds, Adds(kinds), "resolved" \notin kinds,
           clock' \in Nat, clock <= clock', target' = target \/ target' = None
    PROVE  Budgeted' /\ RepairBudget'
  <1>1. clock \in Nat /\ Window \in Nat /\ Rows(log, clock) /\ None \notin Keys /\ Limit \in Nat
        /\ target \in Keys \cup {None}
    BY BoundsHold, SoundIs DEF Others, Bounds
  <1>2. ASSUME NEW k \in Keys, NEW i \in Holding(k)'
        PROVE  k # target' /\ \A j \in Positions("resolved", k)' : j <= i
    <2>1. i \in Holding(k)
      BY <1>2, ResolvedKept, FailedKept DEF Holding
    <2>2. k # target /\ \A j \in Positions("resolved", k) : j <= i
      BY <2>1 DEF Budgeted
    <2> QED BY <1>1, <2>2, ResolvedKept
  <1>3. ASSUME target' # None PROVE Cardinality(Recent(target, clock)') < Limit
    <2>1. PICK t \in Keys : t = target /\ t = target'
      BY <1>1, <1>3
    <2>2. Recent(t, clock) \subseteq DOMAIN log /\ IsFiniteSet(Recent(t, clock))
          /\ Cardinality(Recent(t, clock)) \in Nat
      BY <1>1, RecentFinite
    <2>3. Recent(t, clock') \subseteq Recent(t, clock)
      <3> SUFFICES ASSUME NEW i \in Positions("resolved", t), log[i].at + Window >= clock'
                   PROVE  log[i].at + Window >= clock
        BY DEF Recent
      <3>1. log[i].at \in Nat
        BY <1>1, TimesAre DEF Positions
      <3> QED BY <1>1, <3>1
    <2>4. Cardinality(Recent(t, clock')) <= Cardinality(Recent(t, clock))
          /\ Cardinality(Recent(t, clock')) \in Nat
      BY <1>1, <2>2, <2>3, FS_Subset, RecentFinite
    <2>5. Cardinality(Recent(t, clock)) < Limit
      BY <1>1, <2>1 DEF Budgeted
    <2>6. Cardinality(Recent(t, clock')) < Limit
      BY <1>1, <2>2, <2>4, <2>5
    <2>7. Recent(target, clock)' = Recent(t, clock')
      <3>1. Positions("resolved", t)' = Positions("resolved", t)
            /\ \A i \in Positions("resolved", t) : log'[i] = log[i]
        BY ResolvedKept
      <3>2. Recent(target, clock)' = {i \in Positions("resolved", t)' : log'[i].at + Window >= clock'}
        BY <2>1 DEF Recent, Positions
      <3> QED BY <3>1, <3>2 DEF Recent
    <2> QED BY <2>6, <2>7
  <1>4. Budgeted'
    BY <1>2, <1>3 DEF Budgeted
  <1>5. RepairBudget'
    <2> SUFFICES ASSUME NEW k \in Keys, NEW j \in Positions("resolved", k)'
                 PROVE  Cardinality(Within(k, j)') <= Limit
      BY DEF RepairBudget, Within
    <2>1. j \in Positions("resolved", k) /\ Within(k, j)' = Within(k, j)
      BY ResolvedKept
    <2> QED BY <2>1 DEF RepairBudget, Within
  <1> QED BY <1>4, <1>5

\* A detection undoes every hold of its key, and the recurrences compared with
\* the limit are then all the recent repairs of it.
LEMMA ConsiderBudget ==
    ASSUME Sound, Budgeted, RepairBudget, NEW k \in Keys, Consider(k)
    PROVE  Budgeted' /\ RepairBudget'
  <1>1. /\ clock \in Nat /\ Window \in Nat /\ Rows(log, clock) /\ None \notin Keys
        /\ Limit \in Nat /\ clock' = clock
    BY BoundsHold, SoundIs DEF Others, Bounds, Consider, Detect
  <1>2. Writes("detected", k, 0) /\ Adds({"detected"})
    BY ConsiderWrites, StepAdds
  <1>n. PICK n : n = Len(log) + 1
    OBVIOUS
  <1>3. /\ Len(log) \in Nat /\ Len(log') = n /\ DOMAIN log = 1..Len(log)
        /\ \A i \in 1..Len(log) : log'[i] = log[i]
        /\ log'[n].kind = "detected" /\ log'[n].key = k
    <2>1. Entry("detected", k, 0).kind = "detected" /\ Entry("detected", k, 0).key = k
      BY DEF Entry
    <2>2. Grown(log, log', Entry("detected", k, 0))
      BY <1>2 DEF Writes
    <2> QED BY <1>n, <2>1, <2>2 DEF Grown
  <1>0. "resolved" \notin {"detected"}
    OBVIOUS
  <1>4. CASE UNCHANGED target
    BY <1>0, <1>1, <1>2, <1>4, BudgetKept
  <1>5. CASE target' = k /\ ~Exhausted(k)
    <2>1. \A i \in Positions("resolved", k) : i \in FailedToHold(log', k)
      <3> SUFFICES ASSUME NEW i \in Positions("resolved", k), i \notin FailedToHold(log', k)
                   PROVE  FALSE
        OBVIOUS
      <3>1. i \notin FailedToHold(log, k)
        BY <1>2, FailedKept
      <3>2. \A j \in Positions("resolved", k) : j <= i
        BY <3>1 DEF Budgeted, Holding
      <3>3. /\ i \in 1..Len(log) /\ i \in DOMAIN log' /\ log'[i].kind = "resolved" /\ log'[i].key = k
            /\ n \in i + 1..Len(log')
        BY <1>n, <1>2, <1>3 DEF Positions, Adds
      <3>4. ASSUME NEW m \in i + 1..n, log'[m].kind = "resolved", log'[m].key = k PROVE FALSE
        <4>1. m # n
          BY <1>3, <3>4
        <4>2. m \in 1..Len(log) /\ i < m
          BY <1>n, <1>3, <3>3, <4>1
        <4>3. m \in Positions("resolved", k)
          BY <1>3, <3>4, <4>2 DEF Positions
        <4> QED BY <3>2, <3>3, <4>2, <4>3
      <3> QED BY <1>3, <3>3, <3>4 DEF FailedToHold
    <2>2. Positions("resolved", k)' = Positions("resolved", k)
      BY <1>0, <1>2, ResolvedKept
    <2>3. ASSUME NEW x \in Keys, NEW i \in Holding(x)'
          PROVE  x # target' /\ \A j \in Positions("resolved", x)' : j <= i
      <3>1. x # k
        BY <2>1, <2>2, <2>3 DEF Holding
      <3>2. i \in Holding(x) /\ Positions("resolved", x)' = Positions("resolved", x)
        <4>1. Positions("resolved", x)' = Positions("resolved", x)
          BY <1>0, <1>2, ResolvedKept
        <4> QED BY <1>2, <2>3, <4>1, FailedKept DEF Holding
      <3> QED BY <1>5, <3>1, <3>2 DEF Budgeted
    <2>4. Cardinality(Recent(target, clock)') < Limit
      <3>1. Recent(target, clock)' = {i \in Positions("resolved", k)' : log'[i].at + Window >= clock}
        BY <1>1, <1>5 DEF Recent, Positions
      <3>2. Positions("resolved", k)' = FailedToHold(log', k)
        BY <2>1, <2>2 DEF FailedToHold, Positions
      <3>3. Cardinality(Recent(target, clock)') = Recurrences(log', k, clock)
        BY <3>1, <3>2 DEF Recurrences
      <3>4. Recurrences(log', k, clock) \in Nat
        BY <1>2, RecurrencesNumber DEF Adds
      <3> QED BY <1>1, <1>5, <3>3, <3>4 DEF Exhausted
    <2>5. Budgeted'
      BY <2>3, <2>4 DEF Budgeted
    <2>6. RepairBudget'
      <3> SUFFICES ASSUME NEW x \in Keys, NEW j \in Positions("resolved", x)'
                   PROVE  Cardinality(Within(x, j)') <= Limit
        BY DEF RepairBudget, Within
      <3>1. j \in Positions("resolved", x) /\ Within(x, j)' = Within(x, j)
        BY <1>0, <1>2, ResolvedKept
      <3> QED BY <3>1 DEF RepairBudget, Within
    <2> QED BY <2>5, <2>6
  <1>6. UNCHANGED target \/ (target' = k /\ ~Exhausted(k))
    BY DEF Consider
  <1> QED BY <1>4, <1>5, <1>6

\* A repair that passes is one more than the recent ones, which were fewer than
\* the limit.
LEMMA ResolveBudget ==
    ASSUME Sound, Budgeted, RepairBudget, Resolve
    PROVE  Budgeted' /\ RepairBudget'
  <1>t. PICK t : t = target
    OBVIOUS
  <1>1. /\ clock \in Nat /\ Window \in Nat /\ Rows(log, clock) /\ None \notin Keys
        /\ Limit \in Nat /\ clock' = clock /\ target' = None
    BY BoundsHold, SoundIs DEF Others, Bounds, Resolve, Return
  <1>2. /\ t \in Keys /\ Adds({"remediated", "resolved"})
        /\ Grown(log, Midway, Entry("remediated", t, 0)) /\ Grown(Midway, log', Entry("resolved", t, 0))
    BY <1>t, ResolveWrites
  <1>n. PICK n : n = Len(log) + 2
    OBVIOUS
  <1>3. /\ Len(log) \in Nat /\ DOMAIN log = 1..Len(log) /\ DOMAIN log' = 1..n
        /\ \A i \in 1..Len(log) : log'[i] = log[i]
        /\ log'[n - 1].kind = "remediated"
        /\ log'[n].kind = "resolved" /\ log'[n].key = t /\ log'[n].at = clock
    <2>1. /\ Entry("remediated", t, 0).kind = "remediated"
          /\ Entry("resolved", t, 0).kind = "resolved" /\ Entry("resolved", t, 0).key = t
          /\ Entry("resolved", t, 0).at = clock
      BY DEF Entry, TimedKinds
    <2>2. n - 1 = Len(log) + 1 /\ n - 1 = Len(Midway) /\ n = Len(Midway) + 1 /\ Len(log) \in Nat
      BY <1>n, <1>2 DEF Grown
    <2>3. Midway[n - 1] = Entry("remediated", t, 0) /\ log'[n] = Entry("resolved", t, 0)
      BY <1>2, <2>2 DEF Grown
    <2>4. log'[n - 1] = Midway[n - 1] /\ \A i \in 1..Len(log) : log'[i] = log[i]
      <3>1. n - 1 \in 1..Len(Midway) /\ \A i \in 1..Len(log) : i \in 1..Len(Midway)
        BY <2>2
      <3> QED BY <1>2, <3>1 DEF Grown
    <2>5. DOMAIN log = 1..Len(log) /\ DOMAIN log' = 1..n
      BY <1>2, <2>2 DEF Grown
    <2> QED BY <2>1, <2>2, <2>3, <2>4, <2>5
  <1>4. \A x : \A i \in Positions("resolved", x)' :
            \/ i = n /\ x = t
            \/ i \in Positions("resolved", x) /\ i \in 1..Len(log) /\ log'[i] = log[i]
    <2> TAKE x
    <2> TAKE i \in Positions("resolved", x)'
    <2>1. i \in 1..n /\ log'[i].kind = "resolved" /\ log'[i].key = x
      BY <1>3 DEF Positions
    <2>2. i # n - 1
      BY <1>3, <2>1
    <2>3. CASE i = n
      BY <1>3, <2>1, <2>3
    <2>4. CASE i # n
      <3>1. i \in 1..Len(log)
        BY <1>n, <1>3, <2>1, <2>2, <2>4
      <3> QED BY <1>3, <2>1, <3>1 DEF Positions
    <2> QED BY <2>3, <2>4
  <1>5. ASSUME NEW x \in Keys, NEW i \in Holding(x)'
        PROVE  x # target' /\ \A j \in Positions("resolved", x)' : j <= i
    <2>1. x # target'
      BY <1>1
    <2>2. i \in Positions("resolved", x)' /\ i \notin FailedToHold(log', x)
      BY <1>5 DEF Holding
    <2>3. CASE i = n
      <3>1. \A j \in Positions("resolved", x)' : j \in 1..n
        BY <1>3 DEF Positions
      <3>2. \A j \in Positions("resolved", x)' : j <= n
        BY <1>n, <1>3, <3>1
      <3> QED BY <2>1, <2>3, <3>2
    <2>4. CASE i \in Positions("resolved", x)
      <3>1. i \in Holding(x)
        BY <1>2, <2>2, <2>4, FailedKept DEF Holding
      <3>2. x # t /\ \A j \in Positions("resolved", x) : j <= i
        BY <1>t, <3>1 DEF Budgeted
      <3> QED BY <1>4, <2>1, <3>2
    <2> QED BY <1>4, <2>2, <2>3, <2>4
  <1>6. Budgeted'
    BY <1>1, <1>5 DEF Budgeted
  <1>7. RepairBudget'
    <2> SUFFICES ASSUME NEW x \in Keys, NEW j \in Positions("resolved", x)'
                 PROVE  Cardinality(Within(x, j)') <= Limit
      BY DEF RepairBudget, Within
    <2>1. CASE j = n /\ x = t
      <3>1. Recent(t, clock) \subseteq DOMAIN log /\ IsFiniteSet(Recent(t, clock))
            /\ Cardinality(Recent(t, clock)) \in Nat
        BY <1>1, RecentFinite
      <3>2. Cardinality(Recent(t, clock)) < Limit
        BY <1>1, <1>2, <1>t DEF Budgeted
      <3>3. Within(t, j)' \subseteq Recent(t, clock) \cup {n}
        <4> SUFFICES ASSUME NEW i \in Within(t, j)', i # n PROVE i \in Recent(t, clock)
          OBVIOUS
        <4>1. i \in Positions("resolved", t)' /\ log'[i].at + Window >= log'[j].at
          BY DEF Within
        <4>2. i \in Positions("resolved", t) /\ log'[i] = log[i]
          BY <1>4, <4>1
        <4> QED BY <1>3, <2>1, <4>1, <4>2 DEF Recent
      <3>4. n \notin Recent(t, clock)
        BY <1>n, <1>3, <3>1
      <3>5. /\ IsFiniteSet(Recent(t, clock) \cup {n})
            /\ Cardinality(Recent(t, clock) \cup {n}) = Cardinality(Recent(t, clock)) + 1
        BY <3>1, <3>4, FS_AddElement
      <3>6. Cardinality(Within(t, j)') <= Cardinality(Recent(t, clock) \cup {n})
            /\ IsFiniteSet(Within(t, j)')
        BY <3>3, <3>5, FS_Subset
      <3>7. Cardinality(Within(t, j)') \in Nat
        BY <3>6, FS_CardinalityType
      <3> QED BY <1>1, <2>1, <3>1, <3>2, <3>5, <3>6, <3>7
    <2>2. CASE j \in Positions("resolved", x) /\ j \in 1..Len(log)
      <3>1. log'[j] = log[j]
        BY <1>3, <2>2
      <3>2. Within(x, j)' = Within(x, j)
        <4>1. ASSUME NEW i \in Within(x, j)' PROVE i \in Within(x, j)
          <5>1. i \in Positions("resolved", x)' /\ i <= j /\ log'[i].at + Window >= log'[j].at
            BY <4>1 DEF Within
          <5>2. i # n
            BY <1>n, <1>3, <2>2, <5>1
          <5>3. i \in Positions("resolved", x) /\ log'[i] = log[i]
            BY <1>4, <5>1, <5>2
          <5> QED BY <3>1, <5>1, <5>3 DEF Within
        <4>2. ASSUME NEW i \in Within(x, j) PROVE i \in Within(x, j)'
          <5>1. i \in Positions("resolved", x) /\ i <= j /\ log[i].at + Window >= log[j].at
            BY <4>2 DEF Within
          <5>2. i \in 1..Len(log) /\ i \in 1..n /\ log'[i] = log[i]
            BY <1>n, <1>3, <5>1 DEF Positions
          <5>3. i \in Positions("resolved", x)'
            BY <1>3, <5>1, <5>2 DEF Positions
          <5> QED BY <3>1, <5>1, <5>2, <5>3 DEF Within
        <4> QED BY <4>1, <4>2
      <3>3. Cardinality(Within(x, j)) <= Limit
        BY <2>2 DEF RepairBudget, Within
      <3> QED BY <3>2, <3>3
    <2> QED BY <1>4, <2>1, <2>2
  <1> QED BY <1>6, <1>7

LEMMA BudgetStep ==
    Sound /\ Budgeted /\ RepairBudget /\ [Next]_vars => Budgeted' /\ RepairBudget'
  <1> SUFFICES ASSUME Sound, Budgeted, RepairBudget, [Next]_vars PROVE Budgeted' /\ RepairBudget'
    OBVIOUS
  <1>1. clock \in Nat
    BY BoundsHold, SoundIs DEF Others, Bounds
  <1> DEFINE Calm(kinds) == Adds(kinds) /\ clock <= clock' /\ clock' \in Nat
                            /\ (target' = target \/ target' = None)
  <1>2. ASSUME NEW kinds, Calm(kinds), "resolved" \notin kinds PROVE Budgeted' /\ RepairBudget'
    BY <1>2, BudgetKept
  <1>3. CASE Resolve
    BY <1>3, ResolveBudget
  <1>4. CASE \E k \in Keys : Consider(k)
    BY <1>4, ConsiderBudget
  <1>5. CASE Announce \/ Ready \/ Admit \/ Report \/ NotLanded \/ OpenWatch \/ Commit \/ CloseWatch
    <2>1. PICK kinds \in {{"interrupted"}, {"started"}, {"preflight"}, {"remediated"},
                          {"opened"}, {"committed"}, {"closed"}} : Adds(kinds)
      BY <1>5, StepAdds
    <2>2. clock' = clock /\ (target' = target \/ target' = None)
      BY <1>5 DEF Announce, Ready, Admit, Report, NotLanded, OpenWatch, Commit, CloseWatch, Return, memory
    <2>3. Calm(kinds)
      BY <1>1, <2>1, <2>2
    <2> HIDE DEF Calm
    <2> QED BY <1>2, <2>1, <2>3
  <1>6. CASE Decline \/ ExecutionError \/ Tick \/ Crash \/ UNCHANGED vars
             \/ \E found \in SUBSET Keys : Poll(found)
    <2>1. Adds({})
      BY <1>6, StepAdds
    <2>2. (clock' = clock \/ clock' = clock + 1) /\ (target' = target \/ target' = None)
      BY <1>6 DEF Decline, ExecutionError, Tick, Crash, Poll, Return, vars, memory
    <2>3. Calm({})
      BY <1>1, <2>1, <2>2
    <2> HIDE DEF Calm
    <2> QED BY <1>2, <2>3
  <1> QED BY <1>3, <1>4, <1>5, <1>6 DEF Next

\* A repair that keeps not holding is given up: no Window contains more than
\* Limit repairs of a key that passed, over any number of restarts (LIMIT,
\* WINDOW_SEC, the escalation in poll_once).
THEOREM Budget == Spec => []RepairBudget
  <1> DEFINE IInv == Sound /\ Budgeted /\ RepairBudget
  <1>1. Init => IInv
    <2> SUFFICES ASSUME Init PROVE Budgeted /\ RepairBudget
      BY InitSound
    <2>1. DOMAIN log = {} /\ target = None
      BY DEF Init
    <2>2. \A kind, k : Positions(kind, k) = {}
      BY <2>1 DEF Positions
    <2> QED BY <2>1, <2>2 DEF Budgeted, RepairBudget, Holding
  <1>2. IInv /\ [Next]_vars => IInv'
    BY SoundStep, BudgetStep
  <1>3. IInv => RepairBudget
    OBVIOUS
  <1> HIDE DEF IInv
  <1> QED BY <1>1, <1>2, <1>3, PTL DEF Spec

-----------------------------------------------------------------------------
(* Watches, one kind of row at a time.                                     *)

Mine(seen, row) == {w \in seen.active : w.key = row.key}

LEMMA AdvanceQuiet ==
    ASSUME NEW seen \in Seen, NEW row, row.kind \in {"detected", "preflight"}
    PROVE  Advance(seen, row) = seen
  BY DEF Advance, TerminalKinds

LEMMA AdvanceTerminal ==
    ASSUME NEW seen \in Seen, NEW row, row.kind \in TerminalKinds
    PROVE  /\ Advance(seen, row).active = seen.active \ Mine(seen, row)
           /\ Advance(seen, row).unfinished = seen.unfinished
           /\ Advance(seen, row).announced = seen.announced
  <1>1. Advance(seen, row) = [seen EXCEPT !.active = seen.active \ Mine(seen, row)]
    BY DEF Advance, TerminalKinds, Mine
  <1> QED BY <1>1 DEF Seen

LEMMA AdvanceStarted ==
    ASSUME NEW seen \in Seen, NEW row, row.kind = "started"
    PROVE  /\ Advance(seen, row).active = {}
           /\ Advance(seen, row).unfinished = seen.unfinished \cup seen.active
           /\ Advance(seen, row).announced = seen.announced
  <1>1. Advance(seen, row) =
            [seen EXCEPT !.active = {}, !.unfinished = seen.unfinished \cup seen.active]
    BY DEF Advance, TerminalKinds
  <1> QED BY <1>1 DEF Seen

LEMMA AdvanceInterrupted ==
    ASSUME NEW seen \in Seen, NEW row, row.kind = "interrupted"
    PROVE  LET i == [key |-> row.key, watch |-> row.watch] IN
           /\ Advance(seen, row).active = {w \in seen.active : Identity(w) # i}
           /\ Advance(seen, row).unfinished = seen.unfinished
           /\ Advance(seen, row).announced = seen.announced \cup {i}
  <1> DEFINE i == [key |-> row.key, watch |-> row.watch]
             ac == {w \in seen.active : Identity(w) # i}
             an == seen.announced \cup {i}
  <1>1. Advance(seen, row) = [seen EXCEPT !.announced = an, !.active = ac]
    BY DEF Advance, TerminalKinds
  <1> HIDE DEF ac, an
  <1>2. /\ Advance(seen, row).active = ac
        /\ Advance(seen, row).unfinished = seen.unfinished
        /\ Advance(seen, row).announced = an
    BY <1>1 DEF Seen
  <1> QED BY <1>2 DEF ac, an

\* No watch of the key is under way: the row's is the only one.
LEMMA AdvanceCommitted ==
    ASSUME NEW seen \in Seen, seen.active = {}, NEW row, row.kind = "committed"
    PROVE  /\ Advance(seen, row).active = {[key |-> row.key, commit |-> row.watch, opened |-> FALSE]}
           /\ Advance(seen, row).unfinished = seen.unfinished
           /\ Advance(seen, row).announced = seen.announced
  <1> DEFINE mine == Mine(seen, row)
             another == CommitOf(mine) # 0
             op == OpenedIn(mine) /\ ~another
             un == seen.unfinished \cup (IF another THEN mine ELSE {})
             ac == (seen.active \ mine) \cup {[key |-> row.key, commit |-> row.watch, opened |-> op]}
  <1>1. Advance(seen, row) = [seen EXCEPT !.unfinished = un, !.active = ac]
    BY DEF Advance, TerminalKinds, Mine
  <1>2. mine = {} /\ CommitOf(mine) = 0 /\ ~OpenedIn(mine)
    BY DEF Mine, CommitOf, OpenedIn
  <1>3. un = seen.unfinished
    BY <1>2
  <1>4. op = FALSE
    BY <1>2
  <1>5. ac = {[key |-> row.key, commit |-> row.watch, opened |-> FALSE]}
    BY <1>2, <1>4
  <1> HIDE DEF un, ac
  <1>6. /\ Advance(seen, row).active = ac
        /\ Advance(seen, row).unfinished = un
        /\ Advance(seen, row).announced = seen.announced
    BY <1>1 DEF Seen
  <1> QED BY <1>3, <1>5, <1>6

LEMMA AdvanceOpened ==
    ASSUME NEW seen \in Seen, NEW row, row.kind = "opened", NEW c,
           \/ seen.active = {} /\ c = 0
           \/ seen.active = {[key |-> row.key, commit |-> c, opened |-> FALSE]}
    PROVE  /\ Advance(seen, row).active = {[key |-> row.key, commit |-> c, opened |-> TRUE]}
           /\ Advance(seen, row).unfinished = seen.unfinished
           /\ Advance(seen, row).announced = seen.announced
  <1> DEFINE mine == Mine(seen, row)
             op == OpenedIn(mine)
             cm == IF op THEN 0 ELSE CommitOf(mine)
             un == seen.unfinished \cup (IF op THEN mine ELSE {})
             ac == (seen.active \ mine) \cup {[key |-> row.key, opened |-> TRUE, commit |-> cm]}
  <1>1. Advance(seen, row) = [seen EXCEPT !.unfinished = un, !.active = ac]
    BY DEF Advance, TerminalKinds, Mine
  <1>2. mine = seen.active /\ op = FALSE
    BY DEF Mine, OpenedIn
  <1>3. CommitOf(mine) = c
    <2>1. CASE seen.active = {} /\ c = 0
      BY <1>2, <2>1 DEF CommitOf
    <2>2. CASE seen.active = {[key |-> row.key, commit |-> c, opened |-> FALSE]}
      <3> DEFINE w == [key |-> row.key, commit |-> c, opened |-> FALSE]
      <3>1. mine = {w} /\ w.commit = c /\ (CHOOSE x \in mine : TRUE) = w
        BY <1>2, <2>2
      <3> HIDE DEF w, mine
      <3> QED BY <3>1 DEF CommitOf
    <2> QED BY <2>1, <2>2
  <1>4. un = seen.unfinished /\ cm = c /\ seen.active \ mine = {}
    BY <1>2, <1>3
  <1>5. ac = {[key |-> row.key, commit |-> c, opened |-> TRUE]}
    BY <1>4
  <1> HIDE DEF un, ac
  <1>6. /\ Advance(seen, row).active = ac
        /\ Advance(seen, row).unfinished = un
        /\ Advance(seen, row).announced = seen.announced
    BY <1>1 DEF Seen
  <1> QED BY <1>4, <1>5, <1>6

-----------------------------------------------------------------------------
(* What a watch's rows come to.                                            *)

\* The watch the action under way is in, as the rows tell it.
Current ==
    CASE step = "committed" -> {[key |-> target, commit |-> Len(log), opened |-> FALSE]}
      [] step = "watching" -> {[key |-> target, commit |-> Len(log) - 1, opened |-> TRUE]}
      [] step = "unlanded" -> {[key |-> target, commit |-> 0, opened |-> TRUE]}
      [] OTHER -> {}

\* Nothing has happened to the watch of the commit at c since.
Open(c) ==
    /\ \A m \in c+1..Len(log) :
          /\ log[m].kind # "started"
          /\ log[m].key = log[c].key => log[m].kind \notin TerminalKinds \cup {"committed"}
    /\ Announcements(c) = {}

Landed    == \A w \in Watches.unfinished : w.commit = 0
Reported  == Watches.announced =
                 {[key |-> log[j].key, watch |-> log[j].watch] :
                     j \in {i \in DOMAIN log : log[i].kind = "interrupted"}}
Earlier   == \A i \in DOMAIN log : log[i].kind = "interrupted" => log[i].watch < i
Tracked   == \A w \in Watches.active :
                 w.commit # 0 => w.commit \in Commits /\ log[w.commit].key = w.key /\ Open(w.commit)
Pursued(c) == \E w \in Watches.active : w.commit = c
Answered  == \A c \in Commits : Pursued(c) \/ Closed(c) \/ Announcements(c) # {}
Following == up => Watches.active = Current
Restarted == up => \A c \in Commits : Announcements(c) # {} =>
                 \E m \in c+1..Len(log) : log[m].kind = "started"
Once      == \A c \in Commits : Cardinality(Announcements(c)) <= 1

\* Every commit's watch is in the hands of the process, closed or reported; the
\* process holds one exactly in the steps that belong to it; and a report comes
\* before the start of the process that runs.
Books ==
    /\ Landed /\ Reported /\ Earlier /\ Tracked /\ Answered /\ Following /\ Restarted
    /\ ClosedNeverReported /\ Once

LEMMA BooksAccount ==
    ASSUME TypeOK, Books
    PROVE  WatchAccounted
  <1>1. ASSUME NEW i \in Commits, up, \E m \in i+1..Len(log) : log[m].kind = "started"
        PROVE  Closed(i) \/ Announcements(i) # {}
    <2> SUFFICES ASSUME Pursued(i) PROVE FALSE
      BY DEF Books, Answered
    <2>1. i \in DOMAIN log /\ DOMAIN log = 1..Len(log)
      BY DEF Commits, TypeOK
    <2>2. i # 0
      BY <2>1
    <2>3. Open(i)
      BY <2>2 DEF Books, Tracked, Pursued
    <2> QED BY <1>1, <2>3 DEF Open
  <1> QED BY <1>1 DEF WatchAccounted, Books, Once

LEMMA ClosedKept ==
    ASSUME NEW kinds, Adds(kinds), NEW i \in DOMAIN log, Closed(i)
    PROVE  Closed(i)'
  <1>1. PICK j \in i+1..Len(log) :
            /\ log[j].key = log[i].key /\ log[j].kind \in TerminalKinds
            /\ ~Between(i, j, log[i].key, {"started", "committed"})
    BY DEF Closed
  <1>2. i \in 1..Len(log) /\ j \in i+1..Len(log') /\ log'[j] = log[j] /\ log'[i] = log[i]
    BY DEF Adds
  <1>3. \A m \in i+1..j-1 : log'[m] = log[m]
    BY <1>2 DEF Adds
  <1>4. ~Between(i, j, log[i].key, {"started", "committed"})'
    <2>1. ASSUME NEW m \in i+1..j-1, log'[m].kind \in {"started", "committed"},
                 log'[m].key \in {log'[i].key, None}
          PROVE  FALSE
      BY <1>1, <1>2, <1>3, <2>1 DEF Between
    <2> QED BY <1>2, <2>1 DEF Between
  <1> QED BY <1>1, <1>2, <1>4 DEF Closed

LEMMA AnnouncementsKept ==
    ASSUME NEW kinds, Adds(kinds), "interrupted" \notin kinds, NEW i \in DOMAIN log
    PROVE  Announcements(i)' = Announcements(i)
  <1>1. log'[i] = log[i]
    BY DEF Adds
  <1> QED BY <1>1 DEF Adds, Announcements, Positions

LEMMA CommitsAre ==
    ASSUME NEW kinds, Adds(kinds)
    PROVE  \A c \in Commits' :
              \/ c \in Commits /\ c \in DOMAIN log /\ c \in 1..Len(log) /\ log'[c] = log[c]
              \/ "committed" \in kinds /\ c > Len(log) /\ c \in 1..Len(log')
  BY DEF Adds, Commits

LEMMA NoCommits ==
    ASSUME NEW kinds, Adds(kinds), "committed" \notin kinds
    PROVE  \A c \in Commits' : ~(c > Len(log))
  BY DEF Adds, Commits

LEMMA OpenKept ==
    ASSUME NEW kinds, Adds(kinds), NEW c \in DOMAIN log, Open(c),
           \A kind \in kinds : kind \notin TerminalKinds \cup {"started", "committed", "interrupted"}
    PROVE  Open(c)'
  <1>1. /\ c \in 1..Len(log) /\ log'[c] = log[c]
        /\ \A m \in c+1..Len(log') : (m \in c+1..Len(log) /\ log'[m] = log[m]) \/ log'[m].kind \in kinds
    BY DEF Adds
  <1>2. Announcements(c)' = Announcements(c)
    BY AnnouncementsKept
  <1>3. \A m \in c+1..Len(log') :
            /\ log'[m].kind # "started"
            /\ log'[m].key = log'[c].key => log'[m].kind \notin TerminalKinds \cup {"committed"}
    BY <1>1 DEF Open
  <1> QED BY <1>2, <1>3 DEF Open

LEMMA ReportedKept ==
    ASSUME NEW kinds, Adds(kinds), "interrupted" \notin kinds, Reported, Earlier,
           Watches'.announced = Watches.announced
    PROVE  Reported' /\ Earlier'
  <1>1. \A i \in DOMAIN log' : log'[i].kind = "interrupted" => i \in DOMAIN log /\ log'[i] = log[i]
    BY DEF Adds
  <1>2. \A i \in DOMAIN log : i \in DOMAIN log' /\ log'[i] = log[i]
    BY DEF Adds
  <1>3. {[key |-> log'[j].key, watch |-> log'[j].watch] :
            j \in {i \in DOMAIN log' : log'[i].kind = "interrupted"}}
        = {[key |-> log[j].key, watch |-> log[j].watch] :
            j \in {i \in DOMAIN log : log[i].kind = "interrupted"}}
    BY <1>1, <1>2
  <1>4. Reported'
    BY <1>3 DEF Reported
  <1>5. Earlier'
    BY <1>1 DEF Earlier
  <1> QED BY <1>4, <1>5

\* A closing row can only close a watch of the process that writes it: a watch
\* reported before has a process start after it.
LEMMA ClosedHere ==
    ASSUME NEW kinds, Adds(kinds), Rows(log, clock), "interrupted" \notin kinds, up,
           Restarted, ClosedNeverReported, NEW c \in Commits, Closed(c)'
    PROVE  Announcements(c) = {}
  <1> SUFFICES ASSUME Announcements(c) # {} PROVE FALSE
    OBVIOUS
  <1>1. ~Closed(c) /\ c \in DOMAIN log /\ c \in 1..Len(log) /\ log'[c] = log[c]
    BY DEF ClosedNeverReported, Commits, Adds
  <1>2. PICK j \in c+1..Len(log') :
            /\ log'[j].key = log'[c].key /\ log'[j].kind \in TerminalKinds
            /\ ~Between(c, j, log[c].key, {"started", "committed"})'
    BY DEF Closed
  <1>3. CASE j \in DOMAIN log
    <2>1. j \in c+1..Len(log) /\ log'[j] = log[j] /\ \A m \in c+1..j-1 : log'[m] = log[m]
      BY <1>1, <1>3 DEF Adds
    <2>2. ~Between(c, j, log[c].key, {"started", "committed"})
      BY <1>1, <1>2, <2>1 DEF Between
    <2> QED BY <1>1, <1>2, <2>1, <2>2 DEF Closed
  <1>4. CASE j \notin DOMAIN log
    <2>1. PICK m \in c+1..Len(log) : log[m].kind = "started"
      BY DEF Restarted
    <2>2. m \in DOMAIN log /\ log'[m] = log[m] /\ m \in c+1..j-1
      BY <1>1, <1>4 DEF Adds
    <2>3. log[m].key = None
      BY <2>1, <2>2 DEF Rows
    <2> QED BY <1>2, <2>1, <2>2, <2>3 DEF Between
  <1> QED BY <1>3, <1>4

\* A row of the process at work keeps the books, when what it does to the watch
\* in hand is what the step says.
LEMMA WorkKept ==
    ASSUME Sound, Books, up, NEW kinds, Adds(kinds), "interrupted" \notin kinds,
           Watches'.unfinished = Watches.unfinished, Watches'.announced = Watches.announced,
           Watches'.active = Current',
           Tracked',
           \A c \in Commits' : c > Len(log) => Pursued(c)',
           \A c \in Commits : Pursued(c) => Pursued(c)' \/ Closed(c)'
    PROVE  Books'
  <1>1. Rows(log, clock)
    BY DEF Sound
  <1>2. Landed' /\ Reported' /\ Earlier' /\ Following'
    BY ReportedKept DEF Books, Landed, Following
  <1>3. \A c \in Commits' :
            \/ c \in Commits /\ c \in DOMAIN log /\ c \in 1..Len(log) /\ log'[c] = log[c]
               /\ Announcements(c)' = Announcements(c)
            \/ c > Len(log) /\ Announcements(c)' = {}
    <2> TAKE c \in Commits'
    <2>1. CASE c \in Commits /\ c \in DOMAIN log /\ c \in 1..Len(log) /\ log'[c] = log[c]
      BY <2>1, AnnouncementsKept
    <2>2. CASE c > Len(log) /\ c \in 1..Len(log')
      <3> SUFFICES ASSUME NEW j \in Announcements(c)' PROVE FALSE
        BY <2>2
      <3>1. j \in DOMAIN log' /\ log'[j].kind = "interrupted" /\ log'[j].watch = c
        BY DEF Announcements, Positions
      <3>2. j \in 1..Len(log) /\ log'[j] = log[j]
        BY <3>1 DEF Adds
      <3>3. log[j].watch < j /\ j \in DOMAIN log /\ Len(log) \in Nat
        BY <3>1, <3>2 DEF Adds, Books, Earlier
      <3> QED BY <2>2, <3>1, <3>2, <3>3
    <2> QED BY <2>1, <2>2, CommitsAre
  <1>4. Answered'
    <2> SUFFICES ASSUME NEW c \in Commits' PROVE Pursued(c)' \/ Closed(c)' \/ Announcements(c)' # {}
      BY DEF Answered
    <2>1. CASE c \in Commits /\ c \in DOMAIN log /\ Announcements(c)' = Announcements(c)
      BY <2>1, ClosedKept DEF Books, Answered
    <2> QED BY <1>3, <2>1
  <1>5. Restarted'
    <2> SUFFICES ASSUME NEW c \in Commits', Announcements(c)' # {}
                 PROVE  \E m \in c+1..Len(log') : log'[m].kind = "started"
      BY DEF Restarted
    <2>1. c \in Commits /\ c \in 1..Len(log) /\ Announcements(c) # {}
      BY <1>3
    <2>2. PICK m \in c+1..Len(log) : log[m].kind = "started"
      BY <2>1 DEF Books, Restarted
    <2>3. m \in c+1..Len(log') /\ log'[m] = log[m]
      BY <2>1 DEF Adds
    <2> QED BY <2>2, <2>3
  <1>6. ClosedNeverReported'
    <2> SUFFICES ASSUME NEW c \in Commits', Closed(c)' PROVE Announcements(c)' = {}
      BY DEF ClosedNeverReported
    <2>1. CASE c \in Commits /\ Announcements(c)' = Announcements(c)
      BY <1>1, <2>1, ClosedHere DEF Books
    <2> QED BY <1>3, <2>1
  <1>7. Once'
    <2>1. Cardinality({}) = 0
      BY FS_EmptySet
    <2>2. ASSUME NEW c \in Commits' PROVE Cardinality(Announcements(c)') <= 1
      <3>1. CASE c \in Commits /\ Announcements(c)' = Announcements(c)
        <4>1. Cardinality(Announcements(c)) <= 1
          BY <3>1 DEF Books, Once
        <4> QED BY <3>1, <4>1
      <3>2. CASE Announcements(c)' = {}
        <4>1. Cardinality(Announcements(c)') = 0
          BY <2>1, <3>2
        <4> QED BY <4>1
      <3> QED BY <1>3, <3>1, <3>2
    <2> QED BY <2>2 DEF Once
  <1> QED BY <1>2, <1>4, <1>5, <1>6, <1>7 DEF Books

\* What the row of a step makes of the watches.
LEMMA WatchesAdvance ==
    ASSUME Sound, NEW r, Grown(log, log', r)
    PROVE  Watches' = Advance(Watches, r) /\ Watches \in Seen
  BY DEF Sound, Rows, Grown, Watches

LEMMA IdleSteps ==
    ASSUME step \notin {"committed", "watching", "unlanded"}
    PROVE  Current = {}
  BY DEF Current

LEMMA NothingTracked ==
    ASSUME Watches.active = {}
    PROVE  Tracked /\ \A c : ~Pursued(c)
  BY DEF Tracked, Pursued

\* A row that changes no watch, in a step that has none in hand.
LEMMA QuietRow ==
    ASSUME Sound, Books, up, NEW kind \in {"detected", "preflight"}, NEW k,
           Writes(kind, k, 0), Current = {}, Current' = {}
    PROVE  Books'
  <1>1. Watches' = Watches /\ Watches.active = {}
    <2>1. Grown(log, log', Entry(kind, k, 0)) /\ Entry(kind, k, 0).kind = kind
      BY DEF Writes, Entry
    <2>2. Watches' = Advance(Watches, Entry(kind, k, 0)) /\ Watches \in Seen
      BY <2>1, WatchesAdvance
    <2>3. Watches.active = {}
      BY DEF Books, Following
    <2> QED BY <2>1, <2>2, <2>3, AdvanceQuiet
  <1>2. Adds({kind})
    BY WritesAdds DEF Kinds
  <1>3. "interrupted" \notin {kind} /\ "committed" \notin {kind}
    OBVIOUS
  <1>4. Tracked' /\ \A c : ~Pursued(c)'
    BY <1>1 DEF Tracked, Pursued
  <1>5. \A c \in Commits' : ~(c > Len(log))
    BY <1>2, <1>3, NoCommits
  <1>6. \A c \in Commits : ~Pursued(c)
    BY <1>1, NothingTracked
  <1> QED BY <1>1, <1>2, <1>3, <1>4, <1>5, <1>6, WorkKept

\* A closing row, when the watch in hand, if any, is the target's: its commit is
\* closed by it.
LEMMA ClosingRow ==
    ASSUME Sound, Books, up, NEW kind \in TerminalKinds, Writes(kind, target, 0),
           \A w \in Watches.active : w.key = target, Current' = {}
    PROVE  Books'
  <1> DEFINE r == Entry(kind, target, 0)
  <1>1. Grown(log, log', r) /\ r.kind = kind /\ r.key = target
    BY DEF Writes, Entry
  <1>2. /\ Watches'.active = {} /\ Watches'.unfinished = Watches.unfinished
        /\ Watches'.announced = Watches.announced
    <2>1. Watches' = Advance(Watches, r) /\ Watches \in Seen
      BY <1>1, WatchesAdvance
    <2>2. Mine(Watches, r) = Watches.active
      BY <1>1 DEF Mine
    <2> HIDE DEF r
    <2>3. /\ Watches'.active = Watches.active \ Mine(Watches, r)
          /\ Watches'.unfinished = Watches.unfinished
          /\ Watches'.announced = Watches.announced
      BY <1>1, <2>1, AdvanceTerminal
    <2> QED BY <2>2, <2>3
  <1>3. Adds({kind}) /\ "interrupted" \notin {kind} /\ "committed" \notin {kind}
    BY WritesAdds DEF Kinds, TerminalKinds
  <1>4. Tracked' /\ \A c : ~Pursued(c)'
    BY <1>2 DEF Tracked, Pursued
  <1>5. \A c \in Commits' : ~(c > Len(log))
    BY <1>3, NoCommits
  <1>6. ASSUME NEW c \in Commits, Pursued(c) PROVE Closed(c)'
    <2>1. c \in 1..Len(log) /\ c # 0 /\ log'[c] = log[c] /\ Len(log) \in Nat
      BY <1>3 DEF Commits, Adds
    <2>2. log[c].key = target /\ Open(c)
      BY <1>6, <2>1 DEF Pursued, Books, Tracked
    <2>n. PICK n : n = Len(log) + 1
      OBVIOUS
    <2>3. n \in c+1..Len(log') /\ log'[n] = r
      BY <1>1, <2>1, <2>n DEF Grown
    <2>4. ASSUME NEW m \in c+1..n-1, log'[m].kind \in {"started", "committed"},
                 log'[m].key \in {log'[c].key, None}
          PROVE  FALSE
      <3>1. m \in c+1..Len(log) /\ m \in DOMAIN log /\ log'[m] = log[m]
        BY <1>3, <2>1, <2>n DEF Adds
      <3>2. log[m].kind = "committed" /\ log[m].key # None
        BY <2>2, <2>4, <3>1 DEF Open, Sound, Rows
      <3> QED BY <2>1, <2>2, <2>4, <3>1, <3>2 DEF Open
    <2>5. ~Between(c, n, log[c].key, {"started", "committed"})'
      BY <2>1, <2>4 DEF Between
    <2>6. log'[n].key = log'[c].key /\ log'[n].kind \in TerminalKinds
      BY <1>1, <2>1, <2>2, <2>3
    <2> QED BY <2>1, <2>3, <2>5, <2>6 DEF Closed
  <1> HIDE DEF r
  <1> QED BY <1>2, <1>3, <1>4, <1>5, <1>6, WorkKept

\* Two closing rows, when no watch is in hand.
LEMMA ResolveBooks ==
    ASSUME Sound, Books, Resolve
    PROVE  Books'
  <1> DEFINE r == Entry("remediated", target, 0)
             s == Entry("resolved", target, 0)
  <1>1. /\ Grown(log, Midway, r) /\ Grown(Midway, log', s)
        /\ Adds({"remediated", "resolved"})
        /\ r.kind = "remediated" /\ s.kind = "resolved"
    <2>1. r.kind = "remediated" /\ s.kind = "resolved"
      BY DEF Entry
    <2> QED BY <2>1, ResolveWrites
  <1>2. up /\ step = "closed" /\ step' = "looking"
    BY DEF Resolve, Return
  <1> HIDE DEF r, s
  <1>3. Watches.active = {} /\ Watches \in Seen
    BY <1>2, IdleSteps DEF Books, Following, Sound, Rows, Watches
  <1> DEFINE mid == Advance(Watches, r)
  <1>4. Watches' = Advance(mid, s)
    BY <1>1 DEF Grown, Watches
  <1>5. mid.active = {} /\ mid.unfinished = Watches.unfinished /\ mid.announced = Watches.announced
    BY <1>1, <1>3, AdvanceTerminal DEF TerminalKinds
  <1>6. mid \in Seen
    <2>1. /\ mid = Folded(Midway) /\ Midway \in Seq(Row)
      BY <1>1 DEF Grown, Watches
    <2>2. Rows(Midway, clock)
      BY ResolveWrites
    <2> QED BY <2>1, <2>2 DEF Rows
  <1> HIDE DEF mid
  <1>7. /\ Watches'.active = {} /\ Watches'.unfinished = Watches.unfinished
        /\ Watches'.announced = Watches.announced
    BY <1>1, <1>4, <1>5, <1>6, AdvanceTerminal DEF TerminalKinds
  <1>8. Current' = {}
    BY <1>2 DEF Current
  <1>9. Tracked' /\ \A c : ~Pursued(c)'
    BY <1>7 DEF Tracked, Pursued
  <1>10. "interrupted" \notin {"remediated", "resolved"} /\ "committed" \notin {"remediated", "resolved"}
    OBVIOUS
  <1>11. \A c \in Commits' : ~(c > Len(log))
    BY <1>1, <1>10, NoCommits
  <1>12. \A c \in Commits : ~Pursued(c)
    BY <1>3, NothingTracked
  <1> QED BY <1>1, <1>2, <1>7, <1>8, <1>9, <1>10, <1>11, <1>12, WorkKept

\* A change that lands opens the books on its watch.
LEMMA CommitBooks ==
    ASSUME Sound, Books, Commit
    PROVE  Books'
  <1>n. PICK n : n = Len(log) + 1
    OBVIOUS
  <1> DEFINE r == Entry("committed", target, n)
  <1>1. up /\ step = "execute" /\ step' = "committed" /\ target' = target
    BY DEF Commit
  <1>2. Grown(log, log', r) /\ Adds({"committed"})
    <2>1. Grown(log, log', r)
      BY <1>n, ActionRows, ActionWrites DEF Writes
    <2> QED BY <2>1, StepAdds
  <1>3. r.kind = "committed" /\ r.key = target /\ r.watch = n
    BY DEF Entry
  <1> HIDE DEF r
  <1>4. Watches.active = {} /\ Watches \in Seen /\ Watches' = Advance(Watches, r)
    BY <1>1, <1>2, IdleSteps, WatchesAdvance DEF Books, Following
  <1>5. /\ Watches'.active = {[key |-> target, commit |-> n, opened |-> FALSE]}
        /\ Watches'.unfinished = Watches.unfinished
        /\ Watches'.announced = Watches.announced
    BY <1>3, <1>4, AdvanceCommitted
  <1>6. /\ Len(log) \in Nat /\ Len(log') = n /\ log'[n] = r /\ DOMAIN log = 1..Len(log)
        /\ DOMAIN log' = 1..n
        /\ \A i \in 1..Len(log) : log'[i] = log[i]
    BY <1>n, <1>2 DEF Grown
  <1>7. Current' = {[key |-> target, commit |-> n, opened |-> FALSE]}
    BY <1>1, <1>6 DEF Current
  <1>8. Announcements(n)' = {}
    <2> SUFFICES ASSUME NEW j \in Announcements(n)' PROVE FALSE
      OBVIOUS
    <2>1. j \in DOMAIN log' /\ log'[j].kind = "interrupted" /\ log'[j].watch = n
      BY DEF Announcements, Positions
    <2>2. j \in 1..Len(log) /\ log'[j] = log[j]
      BY <1>n, <1>3, <1>6, <2>1
    <2>3. log[j].watch < j
      BY <1>6, <2>1, <2>2 DEF Books, Earlier
    <2> QED BY <1>n, <1>6, <2>1, <2>2, <2>3
  <1>9. n \in Commits' /\ log'[n].key = target /\ Open(n)'
    <2>1. n \in 1..n
      BY <1>n, <1>6
    <2>2. \A m \in n+1..Len(log') : FALSE
      BY <1>n, <1>6
    <2> QED BY <1>3, <1>6, <1>8, <2>1, <2>2 DEF Commits, Open
  <1>10. Tracked'
    BY <1>5, <1>9 DEF Tracked
  <1>11. ASSUME NEW c \in Commits', c > Len(log) PROVE Pursued(c)'
    <2>1. c = n
      BY <1>n, <1>6, <1>11 DEF Commits
    <2> QED BY <1>5, <2>1 DEF Pursued
  <1>12. \A c \in Commits : ~Pursued(c)
    BY <1>4, NothingTracked
  <1>13. "interrupted" \notin {"committed"}
    OBVIOUS
  <1> QED BY <1>1, <1>2, <1>5, <1>7, <1>10, <1>11, <1>12, <1>13, WorkKept

\* A follow-up that opens belongs to the commit just written, or to none.
LEMMA OpenBooks ==
    ASSUME Sound, Books, OpenWatch \/ NotLanded
    PROVE  Books'
  <1>c. PICK c : c = IF step = "committed" THEN Len(log) ELSE 0
    OBVIOUS
  <1> DEFINE r == Entry("opened", target, 0)
  <1>1. /\ up /\ target' = target
        /\ \/ step = "committed" /\ step' = "watching"
           \/ step = "execute" /\ step' = "unlanded"
    BY DEF OpenWatch, NotLanded
  <1>2. Grown(log, log', r) /\ Adds({"opened"})
    <2>1. Grown(log, log', r)
      BY ActionRows, ActionWrites DEF Writes
    <2> QED BY <2>1, StepAdds
  <1>3. r.kind = "opened" /\ r.key = target
    BY DEF Entry
  <1> HIDE DEF r
  <1>4. Watches \in Seen /\ Watches' = Advance(Watches, r) /\ Watches.active = Current
    BY <1>1, <1>2, WatchesAdvance DEF Books, Following
  <1>5. \/ Watches.active = {} /\ c = 0
        \/ Watches.active = {[key |-> target, commit |-> c, opened |-> FALSE]}
    BY <1>c, <1>1, <1>4 DEF Current
  <1>6. /\ Watches'.active = {[key |-> target, commit |-> c, opened |-> TRUE]}
        /\ Watches'.unfinished = Watches.unfinished
        /\ Watches'.announced = Watches.announced
    BY <1>3, <1>4, <1>5, AdvanceOpened
  <1>7. Len(log) \in Nat /\ Len(log') = Len(log) + 1
    BY <1>2 DEF Grown
  <1>8. Current' = {[key |-> target, commit |-> c, opened |-> TRUE]}
    BY <1>c, <1>1, <1>7 DEF Current
  <1>9. Tracked'
    <2>1. ASSUME c # 0 PROVE c \in Commits' /\ log'[c].key = target /\ Open(c)'
      <3>1. Watches.active = {[key |-> target, commit |-> c, opened |-> FALSE]}
        BY <1>5, <2>1
      <3>2. c \in Commits /\ log[c].key = target /\ Open(c)
        BY <2>1, <3>1 DEF Books, Tracked
      <3>3. c \in DOMAIN log /\ c \in DOMAIN log' /\ log'[c] = log[c]
        BY <1>2, <3>2 DEF Commits, Adds
      <3>4. \A kind \in {"opened"} : kind \notin TerminalKinds \cup {"started", "committed", "interrupted"}
        BY DEF TerminalKinds
      <3>5. Open(c)'
        BY <1>2, <3>2, <3>3, <3>4, OpenKept
      <3> QED BY <3>2, <3>3, <3>5 DEF Commits
    <2> QED BY <1>6, <2>1 DEF Tracked
  <1>10. "interrupted" \notin {"opened"} /\ "committed" \notin {"opened"}
    OBVIOUS
  <1>11. \A x \in Commits' : ~(x > Len(log))
    BY <1>2, <1>10, NoCommits
  <1>12. \A x \in Commits : Pursued(x) => Pursued(x)'
    BY <1>5, <1>6 DEF Pursued
  <1> QED BY <1>1, <1>2, <1>6, <1>8, <1>9, <1>10, <1>11, <1>12, WorkKept

\* The row that reports a watch takes it off the watches in hand, and is the
\* first to name its commit.
LEMMA AnnounceBooks ==
    ASSUME Sound, Books, Announce
    PROVE  Books'
  <1>1. PICK i \in Pending : i.key \in Keys /\ i.watch \in Nat /\ Writes("interrupted", i.key, i.watch)
    BY AnnounceWrites
  <1>2. ~up' /\ Adds({"interrupted"})
    BY StepAdds, AnnounceWrites
  <1>n. PICK n : n = Len(log) + 1
    OBVIOUS
  <1> DEFINE r == Entry("interrupted", i.key, i.watch)
             id == [key |-> i.key, watch |-> i.watch]
  <1>3. r.kind = "interrupted" /\ r.key = i.key /\ r.watch = i.watch
    BY DEF Entry
  <1>4. Grown(log, log', r)
    BY <1>1 DEF Writes
  <1> HIDE DEF r
  <1>5. /\ Len(log) \in Nat /\ Len(log') = n /\ log'[n] = r /\ DOMAIN log = 1..Len(log)
        /\ DOMAIN log' = 1..n /\ n \notin DOMAIN log /\ n \in DOMAIN log'
        /\ \A x \in 1..Len(log) : log'[x] = log[x] /\ x \in DOMAIN log'
        /\ \A x \in DOMAIN log' : x = n \/ x \in DOMAIN log
    BY <1>n, <1>4 DEF Grown
  <1>6. /\ Watches'.active = {w \in Watches.active : Identity(w) # id}
        /\ Watches'.unfinished = Watches.unfinished
        /\ Watches'.announced = Watches.announced \cup {id}
    <2>1. Watches \in Seen /\ Watches' = Advance(Watches, r)
      BY <1>4, WatchesAdvance
    <2> QED BY <1>3, <2>1, AdvanceInterrupted
  \* The watch reported is under way or landed nothing.
  <1>7. PICK w \in Watches.unfinished \cup Watches.active : i = Identity(w)
    BY DEF Pending
  <1>8. i.key = w.key /\ i.watch = w.commit /\ id = Identity(w)
    BY <1>7 DEF Identity
  <1>9. i.watch # 0 => i.watch \in Commits /\ log[i.watch].key = i.key /\ Open(i.watch)
    <2>1. i.watch # 0 => w \in Watches.active
      BY <1>7, <1>8 DEF Books, Landed
    <2> QED BY <1>8, <2>1 DEF Books, Tracked
  <1>10. Commits' = Commits
    <2>1. \A c : c \in Commits' => c \in Commits
      BY <1>3, <1>5 DEF Commits
    <2>2. \A c : c \in Commits => c \in Commits'
      BY <1>5 DEF Commits
    <2> QED BY <2>1, <2>2
  <1>11. \A c \in Commits : c \in DOMAIN log /\ c \in 1..Len(log) /\ log'[c] = log[c] /\ c # 0
    BY <1>5 DEF Commits
  <1>12. ASSUME NEW c \in Commits
         PROVE  Announcements(c)' = IF c = i.watch THEN {n} ELSE Announcements(c)
    <2>1. \A j : j \in Announcements(c)' <=>
              j \in DOMAIN log' /\ log'[j].kind = "interrupted" /\ log'[j].key = log[c].key
              /\ log'[j].watch = c
      BY <1>11 DEF Announcements, Positions
    <2>2. \A j : j \in Announcements(c) <=>
              j \in DOMAIN log /\ log[j].kind = "interrupted" /\ log[j].key = log[c].key
              /\ log[j].watch = c
      BY DEF Announcements, Positions
    <2>3. \A j \in DOMAIN log : j \in Announcements(c)' <=> j \in Announcements(c)
      BY <1>5, <2>1, <2>2
    <2>4. CASE c = i.watch
      <3>1. Announcements(c) = {} /\ log[c].key = i.key
        BY <1>9, <1>11, <2>4 DEF Open
      <3>2. n \in Announcements(c)'
        BY <1>3, <1>5, <2>1, <2>4, <3>1
      <3>3. \A j : j \in Announcements(c)' => j = n
        BY <1>5, <2>1, <2>3, <3>1
      <3> QED BY <2>4, <3>2, <3>3
    <2>5. CASE c # i.watch
      <3>1. n \notin Announcements(c)'
        BY <1>3, <1>5, <2>1, <2>5
      <3>2. \A j : j \in Announcements(c)' <=> j \in Announcements(c)
        BY <1>5, <2>1, <2>2, <2>3, <3>1
      <3>3. Announcements(c)' = Announcements(c)
        BY <3>2
      <3> QED BY <2>5, <3>3
    <2> QED BY <2>4, <2>5
  <1>13. ASSUME NEW c \in Commits PROVE Closed(c)' <=> Closed(c)
    <2>1. Closed(c) => Closed(c)'
      BY <1>2, <1>11, ClosedKept
    <2>2. ASSUME Closed(c)' PROVE Closed(c)
      <3>1. PICK j \in c+1..Len(log') :
                /\ log'[j].key = log'[c].key /\ log'[j].kind \in TerminalKinds
                /\ ~Between(c, j, log[c].key, {"started", "committed"})'
        BY <1>11, <2>2 DEF Closed
      <3>2. j # n
        BY <1>3, <1>5, <3>1 DEF TerminalKinds
      <3>3. j \in c+1..Len(log) /\ log'[j] = log[j] /\ \A m \in c+1..j-1 : log'[m] = log[m]
        BY <1>n, <1>5, <1>11, <3>1, <3>2
      <3>4. ~Between(c, j, log[c].key, {"started", "committed"})
        BY <1>11, <3>1, <3>3 DEF Between
      <3> QED BY <1>11, <3>1, <3>3, <3>4 DEF Closed
    <2> QED BY <2>1, <2>2
  <1>14. Landed'
    BY <1>6 DEF Books, Landed
  <1>15. Reported'
    <2> DEFINE Told == {[key |-> log[j].key, watch |-> log[j].watch] :
                           j \in {x \in DOMAIN log : log[x].kind = "interrupted"}}
               Tells == {[key |-> log'[j].key, watch |-> log'[j].watch] :
                           j \in {x \in DOMAIN log' : log'[x].kind = "interrupted"}}
    <2>1. ASSUME NEW a \in Told PROVE a \in Tells
      <3>1. PICK j \in DOMAIN log : log[j].kind = "interrupted"
                                    /\ a = [key |-> log[j].key, watch |-> log[j].watch]
        OBVIOUS
      <3>2. j \in DOMAIN log' /\ log'[j] = log[j]
        BY <1>5, <3>1
      <3> QED BY <3>1, <3>2
    <2>2. id \in Tells
      <3>1. n \in DOMAIN log' /\ log'[n].kind = "interrupted" /\ log'[n].key = i.key
            /\ log'[n].watch = i.watch
        BY <1>3, <1>5
      <3> QED BY <3>1
    <2>3. ASSUME NEW a \in Tells PROVE a \in Told \cup {id}
      <3>1. PICK j \in DOMAIN log' : log'[j].kind = "interrupted"
                                     /\ a = [key |-> log'[j].key, watch |-> log'[j].watch]
        OBVIOUS
      <3>2. CASE j = n
        BY <1>3, <1>5, <3>1, <3>2
      <3>3. CASE j \in DOMAIN log
        <4>1. log'[j] = log[j]
          BY <1>5, <3>3
        <4> QED BY <3>1, <3>3, <4>1
      <3> QED BY <1>5, <3>2, <3>3
    <2>4. Tells = Told \cup {id}
      BY <2>1, <2>2, <2>3
    <2>5. Watches.announced = Told
      BY DEF Books, Reported
    <2> HIDE DEF Told
    <2> QED BY <1>6, <2>4, <2>5 DEF Reported
  <1>16. Earlier'
    <2>1. i.watch < n
      <3>1. i.watch = 0 \/ i.watch \in 1..Len(log)
        BY <1>9, <1>11
      <3> QED BY <1>n, <1>5, <3>1
    <2> QED BY <1>3, <1>5, <2>1 DEF Books, Earlier
  <1>17. Tracked'
    <2> SUFFICES ASSUME NEW v \in Watches'.active, v.commit # 0
                 PROVE  v.commit \in Commits' /\ log'[v.commit].key = v.key /\ Open(v.commit)'
      BY DEF Tracked
    <2>1. v \in Watches.active /\ Identity(v) # id
      BY <1>6
    <2>c. PICK c : c = v.commit
      OBVIOUS
    <2>2. c \in Commits /\ log[c].key = v.key /\ Open(c)
      BY <2>1, <2>c DEF Books, Tracked
    <2>3. c # i.watch
      <3> SUFFICES ASSUME c = i.watch PROVE FALSE
        OBVIOUS
      <3>1. v.key = i.key
        BY <1>9, <1>11, <2>2
      <3> QED BY <2>1, <2>c, <3>1 DEF Identity
    <2>4. Announcements(c)' = {}
      BY <1>12, <2>2, <2>3 DEF Open
    <2>5. Open(c)'
      <3>1. ASSUME NEW m \in c+1..Len(log')
            PROVE  /\ log'[m].kind # "started"
                   /\ log'[m].key = log'[c].key => log'[m].kind \notin TerminalKinds \cup {"committed"}
        <4>1. CASE m = n
          BY <1>3, <1>5, <4>1 DEF TerminalKinds
        <4>2. CASE m # n
          <5>1. m \in c+1..Len(log) /\ log'[m] = log[m]
            BY <1>n, <1>5, <1>11, <2>2, <4>2
          <5> QED BY <1>11, <2>2, <5>1 DEF Open
        <4> QED BY <4>1, <4>2
      <3> QED BY <2>4, <3>1 DEF Open
    <2> QED BY <1>10, <1>11, <2>2, <2>5, <2>c
  <1>18. Answered'
    <2> SUFFICES ASSUME NEW c \in Commits PROVE Pursued(c)' \/ Closed(c)' \/ Announcements(c)' # {}
      BY <1>10 DEF Answered
    <2>1. CASE c = i.watch
      BY <1>12, <2>1
    <2>2. CASE c # i.watch
      <3>1. Pursued(c) => Pursued(c)'
        BY <1>6, <1>8, <2>2 DEF Pursued, Identity
      <3> QED BY <1>12, <1>13, <2>2, <3>1 DEF Books, Answered
    <2> QED BY <2>1, <2>2
  <1>19. ClosedNeverReported'
    <2> SUFFICES ASSUME NEW c \in Commits, Closed(c) PROVE Announcements(c)' = {}
      BY <1>10, <1>13 DEF ClosedNeverReported
    <2>1. c # i.watch
      <3> SUFFICES ASSUME c = i.watch PROVE FALSE
        OBVIOUS
      <3>1. Open(c)
        BY <1>9, <1>11
      <3>2. PICK j \in c+1..Len(log) : log[j].key = log[c].key /\ log[j].kind \in TerminalKinds
        BY DEF Closed
      <3> QED BY <3>1, <3>2 DEF Open
    <2> QED BY <1>12, <2>1 DEF Books, ClosedNeverReported
  <1>20. Once'
    <2> SUFFICES ASSUME NEW c \in Commits PROVE Cardinality(Announcements(c)') <= 1
      BY <1>10 DEF Once
    <2>1. CASE c = i.watch
      <3>1. Announcements(c)' = {n}
        BY <1>12, <2>1
      <3>2. Cardinality({n}) = 1
        BY FS_Singleton
      <3> QED BY <3>1, <3>2
    <2>2. CASE c # i.watch
      <3>1. Announcements(c)' = Announcements(c) /\ Cardinality(Announcements(c)) <= 1
        BY <1>12, <2>2 DEF Books, Once
      <3> QED BY <3>1
    <2> QED BY <2>1, <2>2
  <1> QED BY <1>2, <1>14, <1>15, <1>16, <1>17, <1>18, <1>19, <1>20 DEF Books, Following, Restarted

\* The loop starts when every watch has been reported: none of those in hand
\* can be of a commit, since reporting takes it off.
LEMMA ReadyBooks ==
    ASSUME Sound, Books, Ready
    PROVE  Books'
  <1>1. ~up /\ Pending = {} /\ step' = step
    BY DEF Ready
  <1> DEFINE r == Entry("started", None, 0)
  <1>2. Grown(log, log', r) /\ Adds({"started"})
    BY ReadyWrites, StepAdds DEF Writes
  <1>3. r.kind = "started" /\ r.key = None
    BY DEF Entry
  <1> HIDE DEF r
  <1>n. PICK n : n = Len(log) + 1
    OBVIOUS
  <1>4. /\ Len(log) \in Nat /\ Len(log') = n /\ log'[n] = r /\ DOMAIN log = 1..Len(log)
        /\ \A x \in 1..Len(log) : log'[x] = log[x]
    BY <1>n, <1>2 DEF Grown
  <1>5. /\ Watches'.active = {} /\ Watches'.unfinished = Watches.unfinished \cup Watches.active
        /\ Watches'.announced = Watches.announced
    <2>1. Watches \in Seen /\ Watches' = Advance(Watches, r)
      BY <1>2, WatchesAdvance
    <2> QED BY <1>3, <2>1, AdvanceStarted
  <1>6. \A w \in Watches.active : w.commit = 0
    <2> SUFFICES ASSUME NEW w \in Watches.active, w.commit # 0 PROVE FALSE
      OBVIOUS
    <2>1. Identity(w) \in Watches.announced
      BY <1>1 DEF Pending
    <2>2. PICK j \in DOMAIN log : log[j].kind = "interrupted"
                                  /\ Identity(w) = [key |-> log[j].key, watch |-> log[j].watch]
      BY <2>1 DEF Books, Reported
    <2>3. log[j].key = w.key /\ log[j].watch = w.commit
      BY <2>2 DEF Identity
    <2>4. log[w.commit].key = w.key /\ Announcements(w.commit) = {}
      BY DEF Books, Tracked, Open
    <2> QED BY <2>2, <2>3, <2>4 DEF Announcements, Positions
  <1>7. Landed' /\ Tracked' /\ Following'
    <2>1. step' = "looking"
      BY <1>1, SoundIs DEF Others
    <2>2. Current' = {}
      BY <2>1 DEF Current
    <2> QED BY <1>5, <1>6, <2>2 DEF Books, Landed, Tracked, Following
  <1>0. "interrupted" \notin {"started"} /\ "committed" \notin {"started"}
    OBVIOUS
  <1>8. Reported' /\ Earlier'
    BY <1>0, <1>2, <1>5, ReportedKept DEF Books
  <1>9. \A c \in Commits' : c \in Commits /\ c \in DOMAIN log /\ c \in 1..Len(log) /\ log'[c] = log[c]
    BY <1>0, <1>2, CommitsAre
  <1>10. \A c \in Commits' : Announcements(c)' = Announcements(c)
    BY <1>0, <1>2, <1>9, AnnouncementsKept
  <1>11. \A c \in Commits : ~Pursued(c)
    <2>1. \A c \in Commits : c # 0
      BY <1>4 DEF Commits
    <2> QED BY <1>6, <2>1 DEF Pursued
  <1>12. Answered'
    <2> SUFFICES ASSUME NEW c \in Commits' PROVE Closed(c)' \/ Announcements(c)' # {}
      BY DEF Answered
    <2>1. Closed(c) \/ Announcements(c) # {}
      BY <1>9, <1>11 DEF Books, Answered
    <2> QED BY <1>2, <1>9, <1>10, <2>1, ClosedKept
  <1>13. Restarted'
    <2>1. \A c \in Commits' : n \in c+1..Len(log') /\ log'[n].kind = "started"
      BY <1>n, <1>3, <1>4, <1>9
    <2> QED BY <2>1 DEF Restarted
  <1>14. ClosedNeverReported'
    <2> SUFFICES ASSUME NEW c \in Commits', Closed(c)' PROVE Closed(c)
      BY <1>9, <1>10 DEF Books, ClosedNeverReported
    <2>1. PICK j \in c+1..Len(log') :
              /\ log'[j].key = log'[c].key /\ log'[j].kind \in TerminalKinds
              /\ ~Between(c, j, log[c].key, {"started", "committed"})'
      BY <1>9 DEF Closed
    <2>2. j # n
      BY <1>3, <1>4, <2>1 DEF TerminalKinds
    <2>3. j \in c+1..Len(log) /\ log'[j] = log[j] /\ \A m \in c+1..j-1 : log'[m] = log[m]
      BY <1>n, <1>4, <1>9, <2>1, <2>2
    <2>4. ~Between(c, j, log[c].key, {"started", "committed"})
      BY <1>9, <2>1, <2>3 DEF Between
    <2> QED BY <1>9, <2>1, <2>3, <2>4 DEF Closed
  <1>15. Once'
    <2>1. \A c \in Commits' : Cardinality(Announcements(c)) <= 1
      BY <1>9 DEF Books, Once
    <2> QED BY <1>10, <2>1 DEF Once
  <1> QED BY <1>7, <1>8, <1>12, <1>13, <1>14, <1>15 DEF Books

\* A step that writes no row and leaves the watch in hand.
LEMMA BooksSame ==
    ASSUME Books, log' = log, up' = FALSE \/ (up' = up /\ Current' = Current)
    PROVE  Books'
  <1>1. Watches' = Watches
    BY DEF Watches
  <1>2. \A c : Announcements(c)' = Announcements(c)
    BY DEF Announcements, Positions
  <1>3. \A c : (Open(c)' <=> Open(c)) /\ (Closed(c)' <=> Closed(c)) /\ (Pursued(c)' <=> Pursued(c))
    BY <1>1, <1>2 DEF Open, Closed, Between, Pursued
  <1>4. Commits' = Commits
    BY DEF Commits
  <1>5. Landed' /\ Reported' /\ Earlier' /\ Tracked' /\ Answered'
    BY <1>1, <1>2, <1>3, <1>4 DEF Books, Landed, Reported, Earlier, Tracked, Answered
  <1>6. Following' /\ Restarted'
    BY <1>1, <1>2, <1>4 DEF Books, Following, Restarted
  <1>7. ClosedNeverReported' /\ Once'
    BY <1>2, <1>3, <1>4 DEF Books, ClosedNeverReported, Once
  <1> QED BY <1>5, <1>6, <1>7 DEF Books

LEMMA BooksStep ==
    ASSUME "report" \notin Faults
    PROVE  Sound /\ Books /\ [Next]_vars => Books'
  <1> SUFFICES ASSUME Sound, Books, [Next]_vars PROVE Books'
    OBVIOUS
  <1>1. CASE Announce
    BY <1>1, AnnounceBooks
  <1>2. CASE Ready
    BY <1>2, ReadyBooks
  <1>3. CASE Resolve
    BY <1>3, ResolveBooks
  <1>4. CASE Commit
    BY <1>4, CommitBooks
  <1>5. CASE OpenWatch \/ NotLanded
    BY <1>5, OpenBooks
  <1>6. CASE \E k \in Keys : Consider(k)
    <2>1. PICK k \in Keys : Consider(k)
      BY <1>6
    <2>2. up /\ step = "looking" /\ (step' = step \/ step' = "preflight")
      BY <2>1 DEF Consider, Detect
    <2>3. Current = {} /\ Current' = {}
      BY <2>2 DEF Current
    <2> QED BY <2>1, <2>2, <2>3, ConsiderWrites, QuietRow
  <1>7. CASE Admit
    <2>1. up /\ step = "preflight" /\ step' = "execute"
      BY <1>7 DEF Admit
    <2>2. Current = {} /\ Current' = {}
      BY <2>1 DEF Current
    <2>3. Writes("preflight", target, 0)
      BY <1>7, ActionRows, ActionWrites
    <2> QED BY <2>1, <2>2, <2>3, QuietRow
  <1>8. CASE Report \/ CloseWatch
    <2>1. up /\ step \in {"execute", "unlanded", "closed", "watching"} /\ step' \in {"looking", "closed"}
      BY <1>8 DEF Report, CloseWatch, Return
    <2>2. PICK kind \in TerminalKinds : Writes(kind, target, 0)
      <3>1. Report => Writes("remediated", target, 0)
        BY ActionRows, ActionWrites
      <3>2. CloseWatch => Writes("closed", target, 0)
        BY ActionRows, ActionWrites
      <3> QED BY <1>8, <3>1, <3>2 DEF TerminalKinds
    <2>3. \A w \in Watches.active : w.key = target
      <3>1. Watches.active = Current
        BY <2>1 DEF Books, Following
      <3>2. \A w \in Current : w.key = target
        BY DEF Current
      <3> QED BY <3>1, <3>2
    <2>4. Current' = {}
      BY <2>1 DEF Current
    <2> QED BY <2>1, <2>2, <2>3, <2>4, ClosingRow
  <1>9. CASE Decline \/ ExecutionError \/ \E found \in SUBSET Keys : Poll(found)
    <2>1. up' = up /\ log' = log /\ step' = "looking" /\ step \notin {"committed", "watching", "unlanded"}
      BY <1>9 DEF Decline, ExecutionError, Poll, Return
    <2>2. Current = {} /\ Current' = {}
      BY <2>1 DEF Current
    <2> QED BY <2>1, <2>2, BooksSame
  <1>10. CASE Tick \/ UNCHANGED vars
    <2>1. up' = up /\ log' = log /\ step' = step /\ target' = target
      BY <1>10 DEF Tick, vars, memory
    <2>2. Current' = Current
      BY <2>1 DEF Current
    <2> QED BY <2>1, <2>2, BooksSame
  <1>11. CASE Crash
    BY <1>11, BooksSame DEF Crash
  <1> QED BY <1>1, <1>2, <1>3, <1>4, <1>5, <1>6, <1>7, <1>8, <1>9, <1>10, <1>11 DEF Next

\* When storing an outcome cannot fail, every change a dead process made is
\* accounted for before a new loop acts: closed by the process that made it and
\* never reported, or reported as interrupted exactly once, over any number of
\* restarts (_unfinished_watches, reconcile_interrupted_watches).
THEOREM Accounted ==
    ASSUME "report" \notin Faults
    PROVE  Spec => []WatchAccounted
  <1> DEFINE IInv == Sound /\ Books
  <1>1. Init => IInv
    <2> SUFFICES ASSUME Init PROVE Books
      BY InitSound
    <2>1. log = <<>> /\ ~up
      BY DEF Init
    <2>2. DOMAIN log = {} /\ Commits = {}
      BY <2>1 DEF Commits
    <2>3. Watches = NoWatches
      BY <2>1, FoldedNone DEF Watches
    <2>4. Reported
      BY <2>2, <2>3 DEF Reported, NoWatches
    <2> QED BY <2>1, <2>2, <2>3, <2>4
            DEF Books, Landed, Earlier, Tracked, Answered, Following, Restarted,
                ClosedNeverReported, Once, NoWatches
  <1>2. IInv /\ [Next]_vars => IInv'
    BY SoundStep, BooksStep
  <1>3. IInv => WatchAccounted
    BY BooksAccount DEF Sound
  <1> HIDE DEF IInv
  <1> QED BY <1>1, <1>2, <1>3, PTL DEF Spec
=============================================================================
