------------------------ MODULE InvestigationDesk_proof ------------------------
(***************************************************************************)
(* For every set of sources and workers.  First the dispatcher's claims:   *)
(* they are the cases queued or in work, each once; whatever a worker does *)
(* to a case, it goes on with it, takes one from the queue, or gives its   *)
(* claim back, and the proof needs no more of the worker than that.  Then  *)
(* the three stores: the case rows, the source index and the snapshots     *)
(* agree, and no step loses a source or an event, but for the repeated     *)
(* decisions that a start takes out of a trail.                            *)
(***************************************************************************)
EXTENDS InvestigationDesk, FiniteSetTheorems, WellFoundedInduction, TLAPS

\* The records of work keep their fields, whatever these hold.
Whole(r) == r = [pc |-> r.pc, case |-> r.case, session |-> r.session,
                 stage |-> r.stage, class |-> r.class]
Shape ==
    /\ work = [w \in Workers |-> work[w]]
    /\ \A w \in Workers : Whole(work[w])
    /\ queue \in Seq(Sources)
    /\ IsFiniteSet(claimed)

Inv == Shape /\ ClaimsTell

-----------------------------------------------------------------------------
(* What a step does to the claims.                                         *)

Puts(w, r) == /\ work' = [v \in Workers |-> IF v = w THEN r ELSE work[v]]
              /\ Whole(r)

Continues(w) ==
    /\ w \in Busy
    /\ \E r : Puts(w, r) /\ r.pc # "idle" /\ r.case = work[w].case
    /\ UNCHANGED <<claimed, queue>>
Ends(w) ==
    /\ w \in Busy
    /\ Puts(w, Idle)
    /\ claimed' = claimed \ {work[w].case}
    /\ UNCHANGED queue
Takes(w) ==
    /\ w \notin Busy /\ queue # <<>>
    /\ queue' = Tail(queue)
    /\ \/ /\ \E r : Puts(w, r) /\ r.pc # "idle" /\ r.case = Head(queue)
          /\ UNCHANGED claimed
       \/ /\ claimed' = claimed \ {Head(queue)}
          /\ UNCHANGED work

\* A field of an entry can be replaced.
LEMMA Fields ==
    ASSUME NEW r, Whole(r), NEW x
    PROVE  /\ [r EXCEPT !.pc = x] = [pc |-> x, case |-> r.case, session |-> r.session,
                                     stage |-> r.stage, class |-> r.class]
           /\ [r EXCEPT !.session = x] = [pc |-> r.pc, case |-> r.case, session |-> x,
                                          stage |-> r.stage, class |-> r.class]
           /\ [r EXCEPT !.stage = x] = [pc |-> r.pc, case |-> r.case, session |-> r.session,
                                        stage |-> x, class |-> r.class]
           /\ [r EXCEPT !.class = x] = [pc |-> r.pc, case |-> r.case, session |-> r.session,
                                        stage |-> r.stage, class |-> x]
           /\ [r EXCEPT !.case = x] = [pc |-> r.pc, case |-> x, session |-> r.session,
                                       stage |-> r.stage, class |-> r.class]
  BY DEF Whole

\* An entry is replaced at one worker.
LEMMA Replaced ==
    ASSUME Shape, NEW w \in Workers, NEW r, Whole(r), work' = [work EXCEPT ![w] = r]
    PROVE  Puts(w, r)
  BY DEF Shape, Puts

\* A worker that moves on keeps its case.
LEMMA MovesOn ==
    ASSUME Shape, NEW w \in Busy, NEW pc, pc # "idle", Goes(w, pc), UNCHANGED <<claimed, queue>>
    PROVE  Continues(w)
  <1> DEFINE r == [work[w] EXCEPT !.pc = pc]
  <1>1. w \in Workers /\ Whole(work[w])
    BY DEF Busy, Shape
  <1>2. work' = [work EXCEPT ![w] = r]
    BY DEF Goes
  <1>3. Whole(r) /\ r.pc = pc /\ r.case = work[w].case
    BY <1>1, Fields DEF Whole
  <1>4. Puts(w, r)
    BY <1>1, <1>2, <1>3, Replaced
  <1> QED
    BY <1>3, <1>4 DEF Continues

\* So does one that records a decision.
LEMMA RecordsOn ==
    ASSUME Shape, NEW w \in Busy, NEW k, NEW stage, NEW before, Records(w, k, stage, before),
           UNCHANGED <<claimed, queue>>
    PROVE  Continues(w)
  <1> DEFINE r1 == [work[w] EXCEPT !.pc = "persist"]
             r2 == [r1 EXCEPT !.class = k]
             r3 == [r2 EXCEPT !.stage = stage]
  <1>1. w \in Workers /\ Whole(work[w])
    BY DEF Busy, Shape
  <1>2. work' = [work EXCEPT ![w] = r3]
    BY <1>1 DEF Records, Shape
  <1>3. Whole(r1) /\ r1.pc = "persist" /\ r1.case = work[w].case
    BY <1>1, Fields DEF Whole
  <1> HIDE DEF r1
  <1>4. Whole(r2) /\ r2.pc = "persist" /\ r2.case = work[w].case
    BY <1>3, Fields DEF Whole
  <1> HIDE DEF r2
  <1>5. Whole(r3) /\ r3.pc = "persist" /\ r3.case = work[w].case
    BY <1>4, Fields DEF Whole
  <1>6. Puts(w, r3)
    BY <1>1, <1>2, <1>5, Replaced
  <1> QED
    BY <1>5, <1>6 DEF Continues

\* The finally clause.
LEMMA Ending ==
    ASSUME Shape, NEW w \in Busy, Finishes(w), UNCHANGED queue
    PROVE  Ends(w)
  <1>1. w \in Workers /\ Whole(Idle)
    BY DEF Busy, Whole, Idle
  <1> QED
    BY <1>1, Replaced DEF Finishes, Ends

-----------------------------------------------------------------------------
(* Every action of a worker is one of the three.                           *)
LEMMA TakeTakes ==
    ASSUME Shape, NEW w \in Workers, Take(w)
    PROVE  Takes(w)
  <1>1. w \notin Busy /\ queue # <<>> /\ queue' = Tail(queue)
    BY DEF Take, Busy
  <1>2. CASE claimed' = claimed \ {Head(queue)} /\ UNCHANGED work
    BY <1>1, <1>2 DEF Takes
  <1>3. CASE work' = [work EXCEPT ![w] = Begun(Head(queue))] /\ UNCHANGED claimed
    <2> DEFINE r == Begun(Head(queue))
    <2>1. Whole(r) /\ r.pc = "start" /\ r.case = Head(queue)
      BY DEF Whole, Begun
    <2>2. Puts(w, r)
      BY <1>3, <2>1, Replaced
    <2> QED
      BY <1>1, <1>3, <2>1, <2>2 DEF Takes
  <1> QED
    BY <1>2, <1>3 DEF Take

LEMMA StartMoves ==
    ASSUME Shape, NEW w \in Workers, Start(w)
    PROVE  Continues(w) \/ Ends(w)
  <1>1. w \in Busy /\ UNCHANGED queue
    BY DEF Start, Busy
  <1>2. CASE Finishes(w)
    BY <1>1, <1>2, Ending
  <1>3. ASSUME NEW pc, pc # "idle", NEW s, UNCHANGED claimed,
               work' = [work EXCEPT ![w].pc = pc, ![w].session = s]
        PROVE  Continues(w)
    <2> DEFINE r1 == [work[w] EXCEPT !.pc = pc]
               r2 == [r1 EXCEPT !.session = s]
    <2>1. Whole(work[w])
      BY DEF Shape
    <2>2. work' = [work EXCEPT ![w] = r2]
      BY <1>3 DEF Shape
    <2>3. Whole(r1) /\ r1.pc = pc /\ r1.case = work[w].case
      BY <2>1, Fields DEF Whole
    <2> HIDE DEF r1
    <2>4. Whole(r2) /\ r2.pc = pc /\ r2.case = work[w].case
      BY <2>3, Fields DEF Whole
    <2>5. Puts(w, r2)
      BY <2>2, <2>4, Replaced
    <2> QED
      BY <1>1, <1>3, <2>4, <2>5 DEF Continues
  <1>4. \/ Finishes(w)
        \/ /\ UNCHANGED claimed
           /\ \E pc \in {"decide", "announce"} : \E s :
                 work' = [work EXCEPT ![w].pc = pc, ![w].session = s]
    BY DEF Start, Opens
  <1> QED
    BY <1>2, <1>3, <1>4

LEMMA PersistMoves ==
    ASSUME Shape, NEW w \in Workers, Persist(w)
    PROVE  Continues(w) \/ Ends(w)
  <1>1. w \in Busy /\ UNCHANGED queue
    BY DEF Persist, Busy
  <1>2. CASE Finishes(w)
    BY <1>1, <1>2, Ending
  <1>3. CASE UNCHANGED claimed /\ \E pc \in {"reason", "act"} : Goes(w, pc)
    BY <1>1, <1>3, MovesOn
  <1>4. CASE /\ UNCHANGED claimed
             /\ work' = [work EXCEPT ![w].pc = "decide", ![w].stage = 2]
    <2> DEFINE r1 == [work[w] EXCEPT !.pc = "decide"]
               r2 == [r1 EXCEPT !.stage = 2]
    <2>1. Whole(work[w])
      BY DEF Shape
    <2>2. work' = [work EXCEPT ![w] = r2]
      BY <1>4 DEF Shape
    <2>3. Whole(r1) /\ r1.pc = "decide" /\ r1.case = work[w].case
      BY <2>1, Fields DEF Whole
    <2> HIDE DEF r1
    <2>4. Whole(r2) /\ r2.pc = "decide" /\ r2.case = work[w].case
      BY <2>3, Fields DEF Whole
    <2>5. Puts(w, r2)
      BY <2>2, <2>4, Replaced
    <2> QED
      BY <1>1, <1>4, <2>4, <2>5 DEF Continues
  <1> QED
    BY <1>2, <1>3, <1>4 DEF Persist

LEMMA ReportMoves ==
    ASSUME Shape, NEW w \in Workers, Report(w)
    PROVE  Continues(w)
  <1>1. w \in Busy /\ UNCHANGED <<claimed, queue>>
    BY DEF Report, Busy
  <1>2. PICK k : work' = [work EXCEPT ![w].pc = "decide", ![w].stage = 4, ![w].class = k]
    BY DEF Report
  <1> DEFINE r1 == [work[w] EXCEPT !.pc = "decide"]
             r2 == [r1 EXCEPT !.stage = 4]
             r3 == [r2 EXCEPT !.class = k]
  <1>3. work' = [work EXCEPT ![w] = r3]
    BY <1>2 DEF Shape
  <1>4. Whole(r1) /\ r1.pc = "decide" /\ r1.case = work[w].case
    <2>1. Whole(work[w])
      BY DEF Shape
    <2> QED
      BY <2>1, Fields DEF Whole
  <1> HIDE DEF r1
  <1>5. Whole(r2) /\ r2.pc = "decide" /\ r2.case = work[w].case
    BY <1>4, Fields DEF Whole
  <1> HIDE DEF r2
  <1>6. Whole(r3) /\ r3.pc = "decide" /\ r3.case = work[w].case
    BY <1>5, Fields DEF Whole
  <1>7. Puts(w, r3)
    BY <1>3, <1>6, Replaced
  <1> QED
    BY <1>1, <1>6, <1>7 DEF Continues

LEMMA StepMoves ==
    ASSUME Shape, NEW w \in Workers, Step(w) \/ Raise(w)
    PROVE  Takes(w) \/ Continues(w) \/ Ends(w)
  <1>1. CASE Take(w)      BY <1>1, TakeTakes
  <1>2. CASE Start(w)     BY <1>2, StartMoves
  <1>3. CASE Announce(w)  BY <1>3, MovesOn DEF Announce, Busy
  <1>4. CASE Save(w)      BY <1>4, MovesOn DEF Save, Busy
  <1>5. CASE Decide(w)
    BY <1>5, RecordsOn DEF Decide, Busy
  <1>6. CASE Persist(w)   BY <1>6, PersistMoves
  <1>7. CASE Reason(w)
    BY <1>7, RecordsOn DEF Reason, Busy
  <1>8. CASE Act(w)
    <2>1. w \in Busy /\ UNCHANGED queue
      BY <1>8 DEF Act, Busy
    <2>2. Finishes(w) \/ (Goes(w, "readback") /\ UNCHANGED claimed)
      BY <1>8 DEF Act
    <2> QED
      BY <2>1, <2>2, MovesOn, Ending
  <1>9. CASE Readback(w)  BY <1>9, MovesOn DEF Readback, Busy
  <1>10. CASE Report(w)   BY <1>10, ReportMoves
  <1>11. CASE Raise(w)    BY <1>11, Ending DEF Raise, Busy
  <1> QED
    BY <1>1, <1>2, <1>3, <1>4, <1>5, <1>6, <1>7, <1>8, <1>9, <1>10, <1>11 DEF Step

-----------------------------------------------------------------------------
(* The invariant.                                                          *)

\* A queue and its head and tail.
LEMMA Queues ==
    ASSUME NEW q \in Seq(Sources)
    PROVE  /\ \A c \in Sources : Append(q, c) \in Seq(Sources) /\ Range(Append(q, c)) = Range(q) \cup {c}
           /\ q # <<>> => /\ Tail(q) \in Seq(Sources)
                          /\ Head(q) \in Range(q)
                          /\ Range(q) = {Head(q)} \cup Range(Tail(q))
  <1>1. ASSUME NEW c \in Sources
        PROVE  Append(q, c) \in Seq(Sources) /\ Range(Append(q, c)) = Range(q) \cup {c}
    <2>1. /\ Append(q, c) \in Seq(Sources) /\ Len(Append(q, c)) = Len(q) + 1
          /\ \A i \in 1..Len(q) : Append(q, c)[i] = q[i]
          /\ Append(q, c)[Len(q) + 1] = c
      OBVIOUS
    <2>2. DOMAIN Append(q, c) = 1..(Len(q) + 1) /\ DOMAIN q = 1..Len(q) /\ Len(q) \in Nat
      BY <2>1
    <2> QED
      BY <2>1, <2>2 DEF Range
  <1>2. ASSUME q # <<>>
        PROVE  /\ Tail(q) \in Seq(Sources)
               /\ Head(q) \in Range(q)
               /\ Range(q) = {Head(q)} \cup Range(Tail(q))
    <2>1. /\ Tail(q) \in Seq(Sources) /\ Len(Tail(q)) = Len(q) - 1
          /\ \A i \in 1..(Len(q) - 1) : Tail(q)[i] = q[i + 1]
          /\ Head(q) = q[1] /\ Len(q) \in Nat \ {0}
      BY <1>2
    <2>2. DOMAIN Tail(q) = 1..(Len(q) - 1) /\ DOMAIN q = 1..Len(q)
      BY <2>1
    <2>3. \A i \in 1..Len(q) : i = 1 \/ (i - 1 \in 1..(Len(q) - 1) /\ Tail(q)[i - 1] = q[i])
      BY <2>1
    <2>4. \A i \in 1..(Len(q) - 1) : i + 1 \in 1..Len(q)
      BY <2>1
    <2>5. ASSUME NEW x \in Range(q), x # Head(q)
          PROVE  x \in Range(Tail(q))
      <3>1. PICK i \in 1..Len(q) : q[i] = x
        BY <2>2 DEF Range
      <3>2. i - 1 \in DOMAIN Tail(q) /\ Tail(q)[i - 1] = x
        BY <2>1, <2>2, <2>3, <2>5, <3>1
      <3> QED
        BY <3>2 DEF Range
    <2>6. {Head(q)} \cup Range(Tail(q)) \subseteq Range(q)
      BY <2>1, <2>2, <2>4 DEF Range
    <2> QED
      BY <2>1, <2>5, <2>6
  <1> QED
    BY <1>1, <1>2

\* No case is in the queue twice.
Once(q) == \A i, j \in DOMAIN q : q[i] = q[j] => i = j

LEMMA QueuesOnce ==
    ASSUME NEW q \in Seq(Sources), Once(q)
    PROVE  /\ \A c \in Sources \ Range(q) : Once(Append(q, c))
           /\ q # <<>> => Once(Tail(q)) /\ Head(q) \notin Range(Tail(q))
  <1>1. ASSUME NEW c \in Sources \ Range(q)
        PROVE  Once(Append(q, c))
    <2>1. /\ DOMAIN Append(q, c) = 1..(Len(q) + 1) /\ DOMAIN q = 1..Len(q) /\ Len(q) \in Nat
          /\ \A i \in 1..Len(q) : Append(q, c)[i] = q[i]
          /\ Append(q, c)[Len(q) + 1] = c
      OBVIOUS
    <2> QED
      BY <2>1 DEF Once, Range
  <1>2. ASSUME q # <<>>
        PROVE  Once(Tail(q)) /\ Head(q) \notin Range(Tail(q))
    <2>1. /\ DOMAIN Tail(q) = 1..(Len(q) - 1) /\ DOMAIN q = 1..Len(q) /\ Len(q) \in Nat \ {0}
          /\ \A i \in 1..(Len(q) - 1) : Tail(q)[i] = q[i + 1]
          /\ Head(q) = q[1]
      BY <1>2
    <2>2. \A i \in 1..(Len(q) - 1) : i + 1 \in 1..Len(q) /\ i + 1 # 1
      BY <2>1
    <2>3. Once(Tail(q))
      BY <2>1, <2>2 DEF Once
    <2>4. Head(q) \notin Range(Tail(q))
      BY <2>1, <2>2 DEF Once, Range
    <2> QED
      BY <2>3, <2>4
  <1> QED
    BY <1>1, <1>2

LEMMA InitInv == Init => Inv
  <1> SUFFICES ASSUME Init PROVE Inv
    OBVIOUS
  <1>1. Shape
    BY FS_EmptySet DEF Init, Shape, Whole, Idle
  <1>2. Busy = {}
    BY DEF Busy, Init, Idle
  <1>3. Capacity \in Nat /\ Cardinality(claimed) = 0
    BY DeskAssumption, FS_CardinalityType, FS_EmptySet DEF Capacity, Init
  <1>4. DOMAIN queue = {} /\ Range(queue) = {}
    BY DEF Init, Range
  <1> QED
    BY <1>1, <1>2, <1>3, <1>4 DEF Inv, ClaimsTell, Init

\* A case is added to the queue and the claims.
LEMMA DispatchInv ==
    ASSUME Inv, NEW c \in Sources, Dispatch(c)
    PROVE  Inv'
  <1>1. /\ c \notin claimed /\ Cardinality(claimed) < Capacity
        /\ claimed' = claimed \cup {c} /\ queue' = Append(queue, c) /\ UNCHANGED work
    BY DEF Dispatch, Dispatchable
  <1>2. Busy' = Busy
    BY <1>1 DEF Busy
  <1>3. c \notin Range(queue)
    BY <1>1 DEF Inv, ClaimsTell
  <1>4. /\ queue' \in Seq(Sources) /\ Range(queue') = Range(queue) \cup {c} /\ Once(queue')
    BY <1>1, <1>3, Queues, QueuesOnce DEF Inv, Shape, ClaimsTell, Once
  <1>5. IsFiniteSet(claimed') /\ Cardinality(claimed') <= Capacity
    <2>1. Cardinality(claimed) \in Nat /\ Cardinality(Workers) \in Nat
      BY DeskAssumption, FS_CardinalityType DEF Inv, Shape
    <2>2. IsFiniteSet(claimed') /\ Cardinality(claimed') = Cardinality(claimed) + 1
      BY <1>1, FS_AddElement DEF Inv, Shape
    <2>3. Capacity \in Nat
      BY <2>1 DEF Capacity
    <2> HIDE DEF Capacity
    <2>4. Cardinality(claimed') <= Capacity
      BY <1>1, <2>1, <2>2, <2>3
    <2> QED
      BY <2>2, <2>4
  <1>6. Shape'
    BY <1>1, <1>4, <1>5 DEF Inv, Shape
  <1>7. \A w \in Busy : work[w].case # c
    BY <1>1 DEF Inv, ClaimsTell
  <1> QED
    BY <1>1, <1>2, <1>4, <1>5, <1>6, <1>7 DEF Inv, ClaimsTell, Once, Capacity

\* A case leaves the queue for a worker, or the queue and the claims.
LEMMA TakesInv ==
    ASSUME Inv, NEW w \in Workers, Takes(w)
    PROVE  Inv'
  <1> DEFINE c == Head(queue)
  <1>1. /\ queue' \in Seq(Sources) /\ Range(queue) = {c} \cup Range(queue')
        /\ Once(queue') /\ c \notin Range(queue')
    BY Queues, QueuesOnce DEF Takes, Inv, Shape, ClaimsTell, Once
  <1>2. \A v \in Busy : work[v].case # c
    BY <1>1 DEF Inv, ClaimsTell
  <1>3. CASE /\ \E r : Puts(w, r) /\ r.pc # "idle" /\ r.case = c
             /\ UNCHANGED claimed
    <2>1. PICK r : Puts(w, r) /\ r.pc # "idle" /\ r.case = c
      BY <1>3
    <2>2. Shape'
      BY <1>1, <1>3, <2>1 DEF Inv, Shape, Puts
    <2>3. /\ Busy' = Busy \cup {w} /\ work'[w].case = c
          /\ \A v \in Busy : work'[v].case = work[v].case
      BY <2>1 DEF Takes, Busy, Puts
    <2> HIDE DEF c
    <2>4. claimed' = Range(queue') \cup {work'[v].case : v \in Busy'}
      <3>1. {work'[v].case : v \in Busy'} = {work[v].case : v \in Busy} \cup {c}
        BY <2>3
      <3>2. claimed = Range(queue) \cup {work[v].case : v \in Busy}
        BY DEF Inv, ClaimsTell
      <3> QED
        BY <1>1, <1>3, <3>1, <3>2
    <2>5. \A v \in Busy' : work'[v].case \notin Range(queue')
      BY <1>1, <2>3 DEF Inv, ClaimsTell
    <2>6. \A u, v \in Busy' : work'[u].case = work'[v].case => u = v
      BY <1>2, <2>3 DEF Inv, ClaimsTell
    <2>7. Cardinality(claimed') <= Capacity
      BY <1>3 DEF Inv, ClaimsTell
    <2> QED
      BY <1>1, <2>2, <2>4, <2>5, <2>6, <2>7 DEF Inv, ClaimsTell, Once, Capacity
  <1>4. CASE claimed' = claimed \ {c} /\ UNCHANGED work
    <2>1. IsFiniteSet(claimed') /\ Cardinality(claimed') <= Cardinality(claimed)
      BY <1>4, FS_Subset DEF Inv, Shape
    <2>2. Shape' /\ Busy' = Busy
      BY <1>1, <1>4, <2>1 DEF Inv, Shape, Busy
    <2>3. Cardinality(claimed') <= Capacity
      BY <1>4, <2>1, FS_CardinalityType, DeskAssumption DEF Inv, Shape, ClaimsTell, Capacity
    <2> HIDE DEF c
    <2> QED
      BY <1>1, <1>2, <1>4, <2>2, <2>3 DEF Inv, ClaimsTell, Once, Capacity
  <1> QED
    BY <1>3, <1>4 DEF Takes

\* A worker goes on with its case.
LEMMA ContinuesInv ==
    ASSUME Inv, NEW w \in Workers, Continues(w)
    PROVE  Inv'
  <1>1. PICK r : Puts(w, r) /\ r.pc # "idle" /\ r.case = work[w].case
    BY DEF Continues
  <1>2. Shape'
    BY <1>1 DEF Inv, Shape, Puts, Continues
  <1>3. Busy' = Busy /\ \A v \in Busy : work'[v].case = work[v].case
    BY <1>1 DEF Continues, Busy, Puts
  <1> QED
    BY <1>2, <1>3 DEF Inv, ClaimsTell, Continues, Capacity

\* A worker gives its claim back.
LEMMA EndsInv ==
    ASSUME Inv, NEW w \in Workers, Ends(w)
    PROVE  Inv'
  <1>1. Puts(w, Idle) /\ claimed' = claimed \ {work[w].case} /\ queue' = queue /\ w \in Busy
    BY DEF Ends
  <1>2. IsFiniteSet(claimed') /\ Cardinality(claimed') <= Cardinality(claimed)
    BY <1>1, FS_Subset DEF Inv, Shape
  <1>3. Cardinality(claimed') <= Capacity
    BY <1>2, FS_CardinalityType, DeskAssumption DEF Inv, Shape, ClaimsTell, Capacity
  <1>4. Shape'
    BY <1>1, <1>2 DEF Inv, Shape, Puts
  <1>5. Busy' = Busy \ {w} /\ \A v \in Busy \ {w} : work'[v].case = work[v].case
    BY <1>1 DEF Busy, Puts, Idle
  <1>6. \A v \in Busy \ {w} : work[v].case # work[w].case
    BY <1>1 DEF Inv, ClaimsTell
  <1> QED
    BY <1>1, <1>3, <1>4, <1>5, <1>6 DEF Inv, ClaimsTell, Capacity

\* The process starts again.
LEMMA CrashInv ==
    ASSUME Inv, Crash
    PROVE  Inv'
  <1>1. /\ claimed' = {} /\ queue' = <<>> /\ work' = [w \in Workers |-> Idle]
    BY DEF Crash
  <1>2. Shape'
    BY <1>1, FS_EmptySet DEF Shape, Whole, Idle
  <1>3. Busy' = {}
    BY <1>1 DEF Busy, Idle
  <1>4. Capacity \in Nat /\ Cardinality(claimed') = 0
    BY <1>1, DeskAssumption, FS_CardinalityType, FS_EmptySet DEF Capacity
  <1>5. DOMAIN queue' = {} /\ Range(queue') = {}
    BY <1>1 DEF Range
  <1> QED
    BY <1>1, <1>2, <1>3, <1>4, <1>5 DEF Inv, ClaimsTell, Capacity

LEMMA NextInv == Inv /\ [Next]_vars => Inv'
  <1> SUFFICES ASSUME Inv, [Next]_vars PROVE Inv'
    OBVIOUS
  <1>1. CASE UNCHANGED process
    BY <1>1 DEF process, Inv, Shape, ClaimsTell, Busy, Capacity
  <1>2. CASE \E c \in Sources : Dispatch(c)
    BY <1>2, DispatchInv
  <1>3. CASE \E w \in Workers : Step(w) \/ Raise(w)
    BY <1>3, StepMoves, TakesInv, ContinuesInv, EndsInv DEF Inv
  <1>4. CASE Crash
    BY <1>4, CrashInv
  <1> QED
    BY <1>1, <1>2, <1>3, <1>4 DEF Next, vars, AlertLands, SuggestionLands

\* The dispatcher's claims are the cases queued or in work, each once, and never
\* more than its capacity: the claim set of AutoInvestigationDispatcher neither
\* leaks nor lets two workers take one case, whatever the workers do, for every
\* set of sources and workers, through exceptions and deaths of the process.
THEOREM Claims == Spec => []ClaimsTell
  <1>1. Inv => ClaimsTell
    BY DEF Inv
  <1> QED
    BY <1>1, InitInv, NextInv, PTL DEF Spec

-----------------------------------------------------------------------------
(* The first and the last of some numbers, and sets of one size.           *)

LEMMA Least ==
    ASSUME NEW T \in SUBSET Nat, T # {}
    PROVE  \E x \in T : \A y \in T : x <= y
  <1> DEFINE R == {ss \in Nat \X Nat : ss[1] < ss[2]}
  <1>1. IsWellFoundedOn(R, Nat)
    BY NatLessThanWellFounded DEF OpToRel
  <1>2. PICK x \in T : \A y \in T : ~ (<<y, x>> \in R)
    <2> HIDE DEF R
    <2> QED BY <1>1, WFMin
  <1>3. ASSUME NEW y \in T PROVE x <= y
    <2>1. x \in Nat /\ y \in Nat
      OBVIOUS
    <2>2. ~(y < x)
      BY <1>2, <2>1
    <2> QED BY <2>1, <2>2
  <1> QED BY <1>3

LEMMA Greatest ==
    ASSUME NEW n \in Nat, NEW T \in SUBSET (1 .. n), T # {}
    PROVE  \E x \in T : \A y \in T : y <= x
  <1> DEFINE U == {n - x : x \in T}
  <1>1. U \in SUBSET Nat /\ U # {}
    <2>1. \A x \in T : n - x \in Nat /\ n - x \in U
      OBVIOUS
    <2> QED BY <2>1
  <1>2. PICK u \in U : \A v \in U : u <= v
    <2> HIDE DEF U
    <2> QED BY <1>1, Least
  <1>3. PICK x \in T : u = n - x
    OBVIOUS
  <1>4. \A y \in T : n - x <= n - y
    BY <1>2, <1>3
  <1>5. \A y \in T : y <= x
    BY <1>4
  <1> QED BY <1>5

\* Between sets of one size, what sends no two to one reaches all.
LEMMA Onto ==
    ASSUME NEW S, NEW T, IsFiniteSet(S), IsFiniteSet(T), Cardinality(S) = Cardinality(T),
           NEW f \in [S -> T], \A x, y \in S : f[x] = f[y] => x = y
    PROVE  \A t \in T : \E x \in S : f[x] = t
  <1> SUFFICES ASSUME NEW t \in T, \A x \in S : f[x] # t
               PROVE  FALSE
    OBVIOUS
  <1>1. IsFiniteSet(T \ {t}) /\ Cardinality(T \ {t}) = Cardinality(T) - 1
    BY FS_RemoveElement
  <1>2. Cardinality(T) \in Nat
    BY FS_CardinalityType
  <1>3. Cardinality(T \ {t}) < Cardinality(S)
    BY <1>1, <1>2
  <1>4. f \in [S -> T \ {t}]
    OBVIOUS
  <1> QED
    BY <1>1, <1>3, <1>4, FS_PigeonHole

\* A set has finitely many places in a sequence, and an order of it is all of it.
LEMMA OrderOfAll ==
    ASSUME NEW S, IsFiniteSet(S), NEW order \in SetToSeqs(S)
    PROVE  /\ order \in Seq(S) /\ Len(order) \in Nat /\ DOMAIN order = 1..Len(order)
           /\ Range(order) = S
  <1> DEFINE n == Cardinality(S)
             D == 1..n
  <1>1. n \in Nat
    BY FS_CardinalityType
  <1>2. order \in [D -> S] /\ \A i, j \in D : order[i] = order[j] => i = j
    BY DEF SetToSeqs
  <1>3. IsFiniteSet(D) /\ Cardinality(D) = n
    <2> HIDE DEF n
    <2> QED
      BY <1>1, FS_Interval
  <1> HIDE DEF D
  <1>4. \A s \in S : \E i \in D : order[i] = s
    BY <1>2, <1>3, Onto
  <1>5. Range(order) = S
    BY <1>2, <1>4 DEF Range
  <1> USE DEF D
  <1> HIDE DEF n
  <1>6. order \in Seq(S) /\ Len(order) = n
    BY <1>1, <1>2
  <1> QED
    BY <1>1, <1>2, <1>5, <1>6

-----------------------------------------------------------------------------
(* The trail of a case.                                                    *)

\* The latest event of a kind is one of the trail's.
LEMMA LatestOf ==
    ASSUME NEW trail \in Seq(Entries), NEW kind
    PROVE  \/ Latest(trail, kind) = None
           \/ Latest(trail, kind) \in Range(trail) /\ Latest(trail, kind).kind = kind
  <1> DEFINE at == {i \in DOMAIN trail : trail[i].kind = kind}
  <1>1. CASE at = {}
    BY <1>1 DEF Latest
  <1>2. CASE at # {}
    <2>1. DOMAIN trail = 1..Len(trail) /\ Len(trail) \in Nat
      OBVIOUS
    <2>2. \E i \in at : \A j \in at : j <= i
      <3>1. at \in SUBSET (1..Len(trail))
        BY <2>1
      <3> HIDE DEF at
      <3> QED
        BY <1>2, <2>1, <3>1, Greatest
    <2> DEFINE m == CHOOSE i \in at : \A j \in at : j <= i
    <2>3. m \in at
      <3> HIDE DEF at
      <3> QED
        BY <2>2
    <2>4. Latest(trail, kind) = trail[m]
      BY <1>2 DEF Latest
    <2> HIDE DEF m
    <2> QED
      BY <2>3, <2>4 DEF Range
  <1> QED
    BY <1>1, <1>2

\* An event says a session was started or what it decided.
LEMMA EntryKinds ==
    ASSUME NEW e \in Entries
    PROVE  /\ e.session \in Sessions /\ e # None
           /\ e.kind = "started" => e = Started(e.session)
           /\ e.kind = "decided" => e.class \in Classes /\ e = Decided(e.session, e.class)
           /\ e.kind \in {"started", "decided"}
  BY NoneAssumption DEF Entries, Started, Decided

LEMMA MadeEntries ==
    ASSUME NEW s \in Sessions
    PROVE  /\ Started(s) \in Entries
           /\ \A k \in Classes : Decided(s, k) \in Entries
  BY DEF Entries

\* What the latest events of a case there is say.
LEMMA LatestTold ==
    ASSUME NEW c \in Sources, row[c] \in Rows
    PROVE  /\ LatestSession(c) \in Sessions \cup {None}
           /\ LatestSession(c) # None => Started(LatestSession(c)) \in Events(c)
           /\ LatestClass(c) \in Classes \cup {None}
  <1>1. row[c].trail \in Seq(Entries)
    BY DEF Rows
  <1>2. \A e \in Range(row[c].trail) : e \in Entries
    BY <1>1 DEF Range
  <1> DEFINE e == Latest(row[c].trail, "started")
             d == Latest(row[c].trail, "decided")
  <1>3. e = None \/ (e \in Entries /\ e \in Events(c) /\ e.kind = "started")
    BY <1>1, <1>2, LatestOf DEF Events
  <1>4. d = None \/ (d \in Entries /\ d.kind = "decided")
    BY <1>1, <1>2, LatestOf
  <1> HIDE DEF e, d
  <1>5. e # None => e.session \in Sessions /\ e = Started(e.session)
    BY <1>3, EntryKinds
  <1>6. d # None => d.class \in Classes
    BY <1>4, EntryKinds
  <1>7. LatestSession(c) = IF e = None THEN None ELSE e.session
    BY DEF LatestSession, e
  <1>8. LatestClass(c) = IF d = None THEN None ELSE d.class
    BY DEF LatestClass, d
  <1> QED
    BY <1>3, <1>5, <1>6, <1>7, <1>8

\* One more event.
LEMMA OneMore ==
    ASSUME NEW t \in Seq(Entries), NEW e \in Entries
    PROVE  Append(t, e) \in Seq(Entries) /\ Range(Append(t, e)) = Range(t) \cup {e}
  <1>1. /\ Append(t, e) \in Seq(Entries) /\ Len(Append(t, e)) = Len(t) + 1
        /\ \A i \in 1..Len(t) : Append(t, e)[i] = t[i]
        /\ Append(t, e)[Len(t) + 1] = e
    OBVIOUS
  <1>2. DOMAIN Append(t, e) = 1..(Len(t) + 1) /\ DOMAIN t = 1..Len(t) /\ Len(t) \in Nat
    BY <1>1
  <1> QED
    BY <1>1, <1>2 DEF Range

-----------------------------------------------------------------------------
(* Merging the trails of a chain of cases.                                 *)

\* A chain of trails: finitely many of them, each a sequence of events.
Trails(chain, n) ==
    /\ n \in Nat /\ DOMAIN chain = 0..n
    /\ \A k \in 0..n : row[chain[k]] \in Rows

LEMMA SpotsFinite ==
    ASSUME NEW chain, NEW n, Trails(chain, n)
    PROVE  /\ IsFiniteSet(Spots(chain))
           /\ \A p \in Spots(chain) :
                 /\ p = <<p[1], p[2]>> /\ p[1] \in 0..n /\ p[2] \in Nat
                 /\ p[2] \in DOMAIN row[chain[p[1]]].trail
                 /\ EventAt(chain, p) \in Entries
  <1> DEFINE T(k) == row[chain[k]].trail
             P(k) == {<<k, i>> : i \in DOMAIN T(k)}
             PP   == {P(k) : k \in DOMAIN chain}
  <1>1. \A k \in 0..n : T(k) \in Seq(Entries) /\ DOMAIN T(k) = 1..Len(T(k)) /\ Len(T(k)) \in Nat
    BY DEF Trails, Rows
  <1>2. Spots(chain) = UNION PP
    BY DEF Spots
  <1>3. ASSUME NEW k \in 0..n
        PROVE  IsFiniteSet(P(k))
    <2> DEFINE D == DOMAIN T(k)
               f == [i \in D |-> <<k, i>>]
    <2>1. IsFiniteSet(D)
      BY <1>1, FS_Interval
    <2>2. f \in Surjection(D, P(k))
      BY DEF Surjection
    <2> HIDE DEF P, f, D
    <2> QED
      BY <2>1, <2>2, FS_Surjection
  <1>4. IsFiniteSet(PP)
    <2> DEFINE D == DOMAIN chain
               f == [k \in D |-> P(k)]
    <2>1. IsFiniteSet(D)
      <3>1. D = 0..n /\ n \in Int /\ 0 \in Int
        BY DEF Trails
      <3> QED
        BY <3>1, FS_Interval
    <2>2. f \in Surjection(D, PP)
      <3> HIDE DEF P
      <3> QED
        BY DEF Surjection
    <2> HIDE DEF PP, f, D
    <2> QED
      BY <2>1, <2>2, FS_Surjection
  <1>5. \A Q \in PP : IsFiniteSet(Q)
    <2> HIDE DEF P
    <2> QED
      BY <1>3 DEF Trails
  <1>6. IsFiniteSet(UNION PP)
    <2> HIDE DEF PP
    <2> QED
      BY <1>4, <1>5, FS_UNION
  <1>7. ASSUME NEW p \in Spots(chain)
        PROVE  /\ p = <<p[1], p[2]>> /\ p[1] \in 0..n /\ p[2] \in Nat
               /\ p[2] \in DOMAIN row[chain[p[1]]].trail
               /\ EventAt(chain, p) \in Entries
    <2>1. PICK k \in 0..n : \E i \in DOMAIN T(k) : p = <<k, i>>
      BY <1>2 DEF Trails
    <2>2. PICK i \in DOMAIN T(k) : p = <<k, i>>
      BY <2>1
    <2>3. p[1] = k /\ p[2] = i
      BY <2>2
    <2>4. i \in Nat /\ T(k)[i] \in Entries
      BY <1>1, <2>2
    <2> QED
      BY <2>2, <2>3, <2>4 DEF EventAt
  <1> QED
    BY <1>2, <1>6, <1>7

\* Spots are in a row: the places of a finite set of them are the numbers from
\* one on, each the place of one.
Pairs(K) == \A p \in K : p = <<p[1], p[2]>> /\ p[1] \in Nat /\ p[2] \in Nat

LEMMA PlacesRise ==
    ASSUME NEW K, IsFiniteSet(K), Pairs(K), NEW p \in K, NEW q \in K, Precedes(p, q)
    PROVE  Place(K, p) < Place(K, q)
  <1> DEFINE B(r) == {x \in K : Precedes(x, r)}
  <1>1. B(p) \subseteq B(q)
    BY DEF Precedes, Pairs
  <1>2. p \in B(q) /\ p \notin B(p)
    BY DEF Precedes, Pairs
  <1>3. IsFiniteSet(B(q))
    BY FS_Subset
  <1>4. /\ IsFiniteSet(B(p)) /\ Cardinality(B(p)) <= Cardinality(B(q))
        /\ Cardinality(B(p)) # Cardinality(B(q))
    <2> HIDE DEF B
    <2> QED
      BY <1>1, <1>2, <1>3, FS_Subset
  <1>5. Cardinality(B(p)) \in Nat /\ Cardinality(B(q)) \in Nat
    <2> HIDE DEF B
    <2> QED
      BY <1>3, <1>4, FS_CardinalityType
  <1>6. Place(K, p) = Cardinality(B(p)) + 1 /\ Place(K, q) = Cardinality(B(q)) + 1
    BY DEF Place
  <1> HIDE DEF B
  <1> QED
    BY <1>4, <1>5, <1>6

LEMMA PlaceType ==
    ASSUME NEW K, IsFiniteSet(K), Pairs(K), NEW p \in K
    PROVE  Place(K, p) \in 1..Cardinality(K)
  <1> DEFINE B == {x \in K : Precedes(x, p)}
  <1>1. B \subseteq K \ {p}
    BY DEF Precedes, Pairs
  <1>2. IsFiniteSet(K \ {p}) /\ Cardinality(K \ {p}) = Cardinality(K) - 1
    BY FS_RemoveElement
  <1>3. IsFiniteSet(B) /\ Cardinality(B) <= Cardinality(K) - 1
    <2> HIDE DEF B
    <2> QED
      BY <1>1, <1>2, FS_Subset
  <1>4. Cardinality(B) \in Nat /\ Cardinality(K) \in Nat
    <2> HIDE DEF B
    <2> QED
      BY <1>3, FS_CardinalityType
  <1>5. Place(K, p) = Cardinality(B) + 1
    BY DEF Place
  <1> HIDE DEF B
  <1> QED
    BY <1>3, <1>4, <1>5

LEMMA PlacesAll ==
    ASSUME NEW K, IsFiniteSet(K), Pairs(K)
    PROVE  \A m \in 1..Cardinality(K) : \E p \in K : Place(K, p) = m
  <1> DEFINE N == Cardinality(K)
             f == [p \in K |-> Place(K, p)]
  <1>1. N \in Nat
    BY FS_CardinalityType
  <1>2. f \in [K -> 1..N]
    <2>1. \A p \in K : Place(K, p) \in 1..N
      BY PlaceType
    <2> HIDE DEF N
    <2> QED
      BY <2>1
  <1>3. \A p, q \in K : f[p] = f[q] => p = q
    <2> SUFFICES ASSUME NEW p \in K, NEW q \in K, p # q
                 PROVE  Place(K, p) # Place(K, q)
      OBVIOUS
    <2>1. Precedes(p, q) \/ Precedes(q, p)
      BY DEF Precedes, Pairs
    <2>2. Place(K, p) \in 1..N /\ Place(K, q) \in 1..N
      BY PlaceType
    <2>3. Place(K, p) < Place(K, q) \/ Place(K, q) < Place(K, p)
      BY <2>1, PlacesRise
    <2> HIDE DEF N
    <2> QED
      BY <1>1, <2>2, <2>3
  <1>4. IsFiniteSet(1..N) /\ Cardinality(1..N) = N
    <2> HIDE DEF N
    <2> QED
      BY <1>1, FS_Interval
  <1> DEFINE T == 1..N
  <1>5. \A m \in T : \E p \in K : f[p] = m
    <2>1. IsFiniteSet(T) /\ Cardinality(K) = Cardinality(T) /\ f \in [K -> T]
      BY <1>2, <1>4
    <2> HIDE DEF f, T
    <2> QED
      BY <1>3, <2>1, Onto
  <1> QED
    BY <1>5

\* Every event of the chain has a first spot.
LEMMA FirstSpotOf ==
    ASSUME NEW chain, NEW n, Trails(chain, n), NEW p \in Spots(chain)
    PROVE  \E q \in FirstSpots(chain) : EventAt(chain, q) = EventAt(chain, p)
  <1> DEFINE K == Spots(chain)
             Q == {q \in K : EventAt(chain, q) = EventAt(chain, p)}
             P == {Place(K, q) : q \in Q}
  <1>1. IsFiniteSet(K) /\ Pairs(K)
    BY SpotsFinite DEF Pairs
  <1>2. \A q \in K : Place(K, q) \in Nat
    <2> HIDE DEF K
    <2>1. Cardinality(K) \in Nat
      BY <1>1, FS_CardinalityType
    <2> QED
      BY <1>1, <2>1, PlaceType
  <1>3. PICK m \in P : \A l \in P : m <= l
    <2>1. P \in SUBSET Nat /\ P # {}
      <3>1. p \in Q
        OBVIOUS
      <3>2. \A q \in Q : Place(K, q) \in Nat
        BY <1>2
      <3> HIDE DEF K, Q
      <3> QED
        BY <3>1, <3>2
    <2> HIDE DEF P
    <2> QED
      BY <2>1, Least
  <1>4. PICK q \in Q : m = Place(K, q)
    OBVIOUS
  <1>5. \A r \in K : Precedes(r, q) => EventAt(chain, r) # EventAt(chain, q)
    <2> SUFFICES ASSUME NEW r \in K, Precedes(r, q), EventAt(chain, r) = EventAt(chain, q)
                 PROVE  FALSE
      OBVIOUS
    <2>1. r \in Q
      OBVIOUS
    <2>2. m <= Place(K, r)
      BY <1>3, <2>1
    <2>3. q \in K
      OBVIOUS
    <2> HIDE DEF K, Q
    <2>4. Place(K, r) < Place(K, q)
      BY <1>1, <2>3, PlacesRise
    <2> QED
      BY <1>2, <1>4, <2>2, <2>3, <2>4
  <1>6. q \in FirstSpots(chain)
    BY <1>5 DEF FirstSpots
  <1> QED
    BY <1>6

\* The cases that are merged, in an order of the duplicates.
LEMMA ChainOf ==
    ASSUME TypeOK, NEW c \in Live, NEW S \in SUBSET Live, IsFiniteSet(S), NEW order \in SetToSeqs(S)
    PROVE  \E n \in Nat : /\ Trails(Chain(c, order), n)
                          /\ \A k \in 0..n : Chain(c, order)[k] \in S \cup {c}
                          /\ \A d \in S \cup {c} : \E k \in 0..n : Chain(c, order)[k] = d
  <1> DEFINE n == Len(order)
             h == Chain(c, order)
  <1>1. /\ order \in Seq(S) /\ n \in Nat /\ DOMAIN order = 1..n /\ Range(order) = S
    BY OrderOfAll
  <1>2. DOMAIN h = 0..n /\ h[0] = c /\ \A k \in 1..n : h[k] = order[k] /\ order[k] \in S
    BY <1>1 DEF Chain
  <1>3. \A d \in Live : row[d] \in Rows
    BY DEF Live, TypeOK
  <1>4. \A k \in 0..n : k = 0 \/ k \in 1..n
    BY <1>1
  <1>5. \A k \in 0..n : h[k] \in S \cup {c}
    BY <1>2, <1>4
  <1>6. \A d \in S : \E k \in 1..n : order[k] = d
    BY <1>1 DEF Range
  <1>7. 0 \in 0..n /\ \A k \in 1..n : k \in 0..n
    BY <1>1
  <1>8. \A d \in S \cup {c} : \E k \in 0..n : h[k] = d
    BY <1>2, <1>6, <1>7
  <1> HIDE DEF n, h
  <1>9. Trails(h, n)
    BY <1>1, <1>2, <1>3, <1>5 DEF Trails
  <1> QED
    BY <1>1, <1>5, <1>8, <1>9 DEF h

\* Spots laid out in their order: a trail of their events and no others.
LEMMA LaidOut ==
    ASSUME NEW h, NEW n, Trails(h, n), NEW K \in SUBSET Spots(h)
    PROVE  /\ Laid(K, h) \in Seq(Entries)
           /\ Range(Laid(K, h)) = {EventAt(h, p) : p \in K}
  <1> DEFINE N == Cardinality(K)
             pick(m) == CHOOSE p \in K : Place(K, p) = m
             trail == Laid(K, h)
  <1>1. /\ IsFiniteSet(Spots(h))
        /\ \A p \in Spots(h) : /\ p = <<p[1], p[2]>> /\ p[1] \in 0..n /\ p[2] \in Nat
                               /\ EventAt(h, p) \in Entries
    BY SpotsFinite
  <1>2. n \in Nat
    BY DEF Trails
  <1>3. IsFiniteSet(K) /\ Pairs(K)
    BY <1>1, <1>2, FS_Subset DEF Pairs
  <1>4. N \in Nat
    BY <1>3, FS_CardinalityType
  <1>5. trail = [m \in 1..N |-> EventAt(h, pick(m))]
    BY DEF Laid
  <1>6. \A m \in 1..N : pick(m) \in K /\ Place(K, pick(m)) = m
    BY <1>3, PlacesAll
  <1>7. \A p \in K : \E m \in 1..N : pick(m) = p
    <2> SUFFICES ASSUME NEW p \in K
                 PROVE  \E m \in 1..N : pick(m) = p
      OBVIOUS
    <2>1. Place(K, p) \in 1..N
      BY <1>3, PlaceType
    <2> DEFINE q == pick(Place(K, p))
    <2>2. q \in K /\ Place(K, q) = Place(K, p)
      BY <1>6, <2>1
    <2> HIDE DEF q
    <2>3. q = p
      <3> SUFFICES ASSUME q # p PROVE FALSE
        OBVIOUS
      <3>1. Precedes(p, q) \/ Precedes(q, p)
        BY <1>3, <2>2 DEF Precedes, Pairs
      <3> HIDE DEF N
      <3>2. Place(K, p) < Place(K, q) \/ Place(K, q) < Place(K, p)
        BY <1>3, <2>2, <3>1, PlacesRise
      <3> QED
        BY <1>4, <2>1, <2>2, <3>2
    <2> QED
      BY <2>1, <2>3 DEF q
  <1> HIDE DEF pick, trail, N
  <1>8. trail \in Seq(Entries) /\ DOMAIN trail = 1..N
    BY <1>1, <1>4, <1>5, <1>6
  <1>9. Range(trail) = {EventAt(h, p) : p \in K}
    <2>1. \A m \in 1..N : trail[m] = EventAt(h, pick(m))
      BY <1>5
    <2> QED
      BY <1>6, <1>7, <1>8, <2>1 DEF Range
  <1> QED
    BY <1>8, <1>9 DEF trail

\* What _merge_cases makes of them: a case whose trail has every event of theirs
\* and no other.
LEMMA Merging ==
    ASSUME TypeOK, NEW c \in Live, NEW S \in SUBSET Live, IsFiniteSet(S), NEW order \in SetToSeqs(S),
           NEW f \in Facts
    PROVE  /\ MergedRow(c, order, f) \in Rows
           /\ Range(MergedRow(c, order, f).trail) = UNION {Events(d) : d \in S \cup {c}}
  <1> DEFINE h == Chain(c, order)
             K == FirstSpots(h)
             trail == MergedTrail(c, order)
  <1>1. PICK n \in Nat : /\ Trails(h, n)
                         /\ \A k \in 0..n : h[k] \in S \cup {c}
                         /\ \A d \in S \cup {c} : \E k \in 0..n : h[k] = d
    BY ChainOf
  <1>2. K \in SUBSET Spots(h)
    BY DEF FirstSpots
  <1>3. \A p \in Spots(h) : p[1] \in 0..n /\ p[2] \in DOMAIN row[h[p[1]]].trail
    <2> HIDE DEF h
    <2> QED
      BY <1>1, SpotsFinite
  <1>4. trail \in Seq(Entries) /\ Range(trail) = {EventAt(h, p) : p \in K}
    <2>1. trail = Laid(K, h)
      BY DEF MergedTrail
    <2> HIDE DEF h, K, trail
    <2> QED
      BY <1>1, <1>2, <2>1, LaidOut
  <1> HIDE DEF trail
  <1>5. ASSUME NEW e \in Range(trail)
        PROVE  e \in UNION {Events(d) : d \in S \cup {c}}
    <2>1. PICK p \in K : e = EventAt(h, p)
      BY <1>4
    <2>2. /\ h[p[1]] \in S \cup {c} /\ p[2] \in DOMAIN row[h[p[1]]].trail
      BY <1>1, <1>2, <1>3
    <2>3. e \in Events(h[p[1]])
      BY <2>1, <2>2 DEF EventAt, Events, Range
    <2> QED
      BY <2>2, <2>3
  <1>6. ASSUME NEW d \in S \cup {c}, NEW e \in Events(d)
        PROVE  e \in Range(trail)
    <2>1. PICK k \in 0..n : h[k] = d
      BY <1>1
    <2>2. PICK i \in DOMAIN row[d].trail : e = row[d].trail[i]
      BY DEF Events, Range
    <2>3. <<k, i>> \in Spots(h) /\ EventAt(h, <<k, i>>) = e
      BY <1>1, <2>1, <2>2 DEF Spots, EventAt, Trails
    <2>4. PICK q \in K : EventAt(h, q) = e
      <3> HIDE DEF h
      <3> QED
        BY <1>1, <2>3, FirstSpotOf DEF K
    <2> QED
      BY <1>4, <2>4
  <1>7. MergedStatus(c, order) \in Statuses
    <2> DEFINE begun == {k \in DOMAIN h : row[h[k]].status # "open"}
               b == CHOOSE k \in begun : \A j \in begun : k <= j
    <2>1. CASE begun = {}
      BY <2>1 DEF MergedStatus, Statuses
    <2>2. CASE begun # {}
      <3>1. begun \in SUBSET Nat
        BY <1>1 DEF Trails
      <3>2. b \in begun
        <4> HIDE DEF begun
        <4> QED
          BY <2>2, <3>1, Least
      <3>3. MergedStatus(c, order) = row[h[b]].status
        BY <2>2 DEF MergedStatus
      <3> HIDE DEF b
      <3> QED
        BY <1>1, <3>2, <3>3 DEF Trails, Rows
    <2> QED
      BY <2>1, <2>2
  <1>8. MergedRow(c, order, f) = [status |-> MergedStatus(c, order), trail |-> trail,
                                  scope |-> f.scope, grade |-> f.grade]
    BY DEF MergedRow, trail
  <1>9. f.scope \in Scopes /\ f.grade \in Grades
    BY DEF Facts
  <1>10. MergedRow(c, order, f) \in Rows
    <2> DEFINE st == MergedStatus(c, order)
               sc == f.scope
               g == f.grade
    <2>1. st \in Statuses /\ sc \in Scopes /\ g \in Grades
      BY <1>7, <1>9
    <2> HIDE DEF st, sc, g
    <2>2. [status |-> st, trail |-> trail, scope |-> sc, grade |-> g] \in Rows
      BY <1>4, <2>1 DEF Rows
    <2> QED
      BY <1>8, <2>2 DEF st, sc, g
  <1>11. MergedRow(c, order, f).trail = trail
    BY <1>8
  <1>12. Range(trail) = UNION {Events(d) : d \in S \cup {c}}
    BY <1>5, <1>6
  <1> QED
    BY <1>10, <1>11, <1>12

-----------------------------------------------------------------------------
(* Cleaning a trail.                                                       *)

\* Every decision has a last spot that says the same.
LEMMA LastSpotOf ==
    ASSUME NEW chain, NEW n, Trails(chain, n), NEW p \in Spots(chain), EventAt(chain, p).kind = "decided"
    PROVE  \E q \in LastSpots(chain) : /\ EventAt(chain, q).class = EventAt(chain, p).class
                                       /\ q = p \/ Precedes(p, q)
  <1> DEFINE K == Spots(chain)
             Q == {q \in K : EventAt(chain, q).class = EventAt(chain, p).class}
             P == {Place(K, q) : q \in Q}
  <1>1. IsFiniteSet(K) /\ Pairs(K) /\ \A q \in K : EventAt(chain, q) \in Entries
    BY SpotsFinite DEF Pairs, Trails
  <1>2. Cardinality(K) \in Nat /\ \A q \in K : Place(K, q) \in 1..Cardinality(K)
    <2> HIDE DEF K
    <2> QED
      BY <1>1, FS_CardinalityType, PlaceType
  <1>3. PICK m \in P : \A l \in P : l <= m
    <2>1. P \in SUBSET (1..Cardinality(K)) /\ P # {}
      <3>1. p \in Q
        OBVIOUS
      <3> HIDE DEF K
      <3> QED
        BY <1>2, <3>1
    <2> DEFINE N == Cardinality(K)
    <2>2. N \in Nat /\ P \in SUBSET (1..N)
      BY <1>2, <2>1
    <2> HIDE DEF P, N
    <2> QED
      BY <2>1, <2>2, Greatest
  <1>4. PICK q \in Q : m = Place(K, q)
    OBVIOUS
  <1>5. \A r \in Q : ~Precedes(q, r)
    <2> SUFFICES ASSUME NEW r \in Q, Precedes(q, r)
                 PROVE  FALSE
      OBVIOUS
    <2>1. Place(K, r) <= m
      BY <1>3
    <2>2. q \in K /\ r \in K
      OBVIOUS
    <2> HIDE DEF K, Q
    <2>3. Place(K, q) < Place(K, r)
      BY <1>1, <2>2, PlacesRise
    <2> QED
      BY <1>2, <1>4, <2>1, <2>2, <2>3
  <1>6. q \in LastSpots(chain)
    <2>1. \A r \in K : Precedes(q, r) => EventAt(chain, r).class # EventAt(chain, q).class
      BY <1>5
    <2> QED
      BY <2>1 DEF LastSpots
  <1>7. q = p \/ Precedes(p, q)
    <2>1. p \in Q /\ p \in K /\ q \in K
      OBVIOUS
    <2> HIDE DEF K, Q
    <2>2. ~Precedes(q, p)
      BY <1>5, <2>1
    <2> QED
      BY <1>1, <2>1, <2>2 DEF Pairs, Precedes
  <1> QED
    BY <1>6, <1>7

\* What _compact_repeated_decisions makes of a trail: its events, but for decisions
\* that one of its later ones says again.
LEMMA Compacting ==
    ASSUME TypeOK, NEW c \in Live
    PROVE  /\ Compacted(c) \in Seq(Entries)
           /\ Range(Compacted(c)) \subseteq Events(c)
           /\ \A i \in DOMAIN row[c].trail :
                 \/ row[c].trail[i] \in Range(Compacted(c))
                 \/ SaidAgain(c, i) \cap Range(Compacted(c)) # {}
  <1> DEFINE h == Chain(c, <<>>)
             K == LastSpots(h)
             t == row[c].trail
  <1>1. row[c] \in Rows /\ t \in Seq(Entries) /\ DOMAIN t = 1..Len(t) /\ Len(t) \in Nat
    BY DEF Live, TypeOK, Rows
  <1>2. DOMAIN h = 0..0 /\ h[0] = c
    BY DEF Chain
  <1>3. \A k \in 0..0 : k = 0
    OBVIOUS
  <1>4. Trails(h, 0)
    BY <1>1, <1>2, <1>3 DEF Trails
  <1>5. \A i \in DOMAIN t : <<0, i>> \in Spots(h) /\ EventAt(h, <<0, i>>) = t[i]
    <2>1. 0 \in DOMAIN h
      BY <1>2
    <2> HIDE DEF h
    <2> QED
      BY <1>2, <2>1 DEF Spots, EventAt
  <1>6. \A p \in Spots(h) : /\ p = <<0, p[2]>> /\ p[2] \in DOMAIN t /\ p[2] \in Nat
                            /\ EventAt(h, p) = t[p[2]]
    <2> HIDE DEF h
    <2>1. \A p \in Spots(h) : /\ p = <<p[1], p[2]>> /\ p[1] \in 0..0 /\ p[2] \in Nat
                              /\ p[2] \in DOMAIN row[h[p[1]]].trail
      BY <1>4, SpotsFinite
    <2> QED
      BY <1>2, <1>3, <2>1 DEF EventAt
  <1>7. Compacted(c) = Laid(K, h)
    BY DEF Compacted
  <1> HIDE DEF h
  <1>8. K \in SUBSET Spots(h)
    BY DEF LastSpots
  <1>9. Laid(K, h) \in Seq(Entries) /\ Range(Laid(K, h)) = {EventAt(h, p) : p \in K}
    <2> HIDE DEF K
    <2> QED
      BY <1>4, <1>8, LaidOut
  <1>10. Range(Compacted(c)) \subseteq Events(c)
    BY <1>6, <1>7, <1>8, <1>9 DEF Events, Range
  <1>11. ASSUME NEW i \in DOMAIN t
         PROVE  t[i] \in Range(Compacted(c)) \/ SaidAgain(c, i) \cap Range(Compacted(c)) # {}
    <2> DEFINE p == <<0, i>>
    <2>1. p \in Spots(h) /\ EventAt(h, p) = t[i] /\ p[1] = 0 /\ p[2] = i /\ i \in Nat
      BY <1>1, <1>5
    <2>2. CASE t[i].kind = "decided"
      <3>1. PICK q \in K : /\ EventAt(h, q).class = EventAt(h, p).class
                           /\ q = p \/ Precedes(p, q)
        BY <1>4, <2>1, <2>2, LastSpotOf
      <3>2. EventAt(h, q) \in Range(Compacted(c)) /\ q = <<0, q[2]>> /\ q[2] \in DOMAIN t
            /\ q[2] \in Nat /\ EventAt(h, q) = t[q[2]]
        BY <1>6, <1>7, <1>8, <1>9, <3>1
      <3>3. CASE q = p
        BY <2>1, <3>2, <3>3
      <3>4. CASE Precedes(p, q)
        <4>1. q[1] = 0
          BY <3>2
        <4>2. q[2] > i
          BY <2>1, <3>2, <3>4, <4>1 DEF Precedes
        <4>3. t[q[2]] \in SaidAgain(c, i)
          BY <2>1, <2>2, <3>1, <3>2, <4>2 DEF SaidAgain
        <4> QED
          BY <3>2, <4>3
      <3> QED
        BY <3>1, <3>3, <3>4
    <2>3. CASE t[i].kind # "decided"
      <3>1. p \in K
        BY <2>1, <2>3 DEF LastSpots
      <3> QED
        BY <1>7, <1>9, <2>1, <3>1
    <2> QED
      BY <2>2, <2>3
  <1> QED
    BY <1>7, <1>9, <1>10, <1>11

-----------------------------------------------------------------------------
(* The records agree.                                                      *)

Tasks   == [pc : Pcs, case : Sources \cup {None}, session : Sessions \cup {None},
            stage : 0..4, class : Classes \cup {None}]
Opening == {"announce", "save"}
Early   == {"idle", "start"}
Owner(s) == Held(s).case

\* A worker past its start holds a session of the process.
Sound ==
    /\ faults \in Nat
    /\ \A w \in Workers :
          /\ work[w].pc \notin Early => work[w].session \in Sessions /\ sess[work[w].session] # None
          /\ work[w].pc \in Opening \cup {"start"} => work[w].stage # 4
          /\ work[w].pc = "decide" /\ work[w].stage = 4 => work[w].class \in Classes

\* A case there is leads to itself, and what a source leads to is one.
Named ==
    /\ \A c \in Sources : row[c] # None <=> lead[c] = c
    /\ \A x \in Sources : lead[x] # None => row[lead[x]] # None

\* The case a session was opened for is one the index knows, and leads to the case
\* whose trail has the session.
Homed ==
    \A s \in Sessions :
        /\ Loadable(s) => lead[Owner(s)] # None
        /\ sess[s] # None /\ snap[s] # None => sess[s].case = snap[s].case
        /\ \A c \in Live : Loadable(s) /\ Started(s) \in Events(c) => lead[Owner(s)] = c

\* Before the first fault, a session that is not saved is about to be by the worker
\* that opened it; any other worker it is with writes its events to no case.
Unsaved ==
    faults = 0 =>
        /\ \A s \in Sessions : sess[s] # None /\ snap[s] = None =>
              \E v \in Workers : /\ work[v].pc \in Opening /\ work[v].session = s
                                 /\ work[v].case = sess[s].case
        /\ \A w \in Workers :
              work[w].pc \notin Early \cup Opening /\ snap[work[w].session] = None =>
                  row[sess[work[w].session].case] = None

\* The sessions of the decisions are saved before the first fault, and can still be
\* loaded before the second.
Kept ==
    \A c \in Live : \A e \in Events(c) : e.kind = "decided" =>
        /\ faults = 0 => snap[e.session] # None
        /\ faults <= 1 => Loadable(e.session)

Agreed == TypeOK /\ Sound /\ Named /\ Homed /\ Unsaved /\ Kept

\* Only what these variables hold matters.
LEMMA AgreedSame ==
    ASSUME Agreed, UNCHANGED <<disk, sess, work, faults>>, claimed' \subseteq Sources,
           queue' \in Seq(Sources)
    PROVE  Agreed'
  <1>1. UNCHANGED <<row, lead, snap, sess, work, faults>>
    BY DEF disk
  <1>2. TypeOK'
    BY <1>1 DEF Agreed, TypeOK
  <1>3. /\ \A s : Loadable(s)' <=> Loadable(s)
        /\ \A s : Owner(s)' = Owner(s)
        /\ \A c : Events(c)' = Events(c)
        /\ Live' = Live
    BY <1>1 DEF Loadable, Owner, Held, Events, Live
  <1>4. Sound' /\ Named'
    BY <1>1 DEF Agreed, Sound, Named
  <1>5. Homed' /\ Unsaved' /\ Kept'
    BY <1>1, <1>3 DEF Agreed, Homed, Unsaved, Kept
  <1> QED
    BY <1>2, <1>4, <1>5 DEF Agreed

LEMMA AgreedInit == Init => Agreed
  <1> SUFFICES ASSUME Init PROVE Agreed
    OBVIOUS
  <1>1. TypeOK
    <2>1. Idle \in Tasks
      BY DEF Idle, Tasks, Pcs
    <2>2. work \in [Workers -> Tasks]
      BY <2>1 DEF Init
    <2> QED
      BY <2>2 DEF Init, TypeOK, Tasks
  <1>2. Live = {}
    BY DEF Init, Live
  <1>3. \A s \in Sessions : sess[s] = None /\ snap[s] = None
    BY DEF Init
  <1>4. \A w \in Workers : work[w].pc = "idle"
    BY DEF Init, Idle
  <1>5. Sound
    BY <1>4 DEF Init, Sound, Early, Opening
  <1>6. Named
    BY DeskAssumption DEF Init, Named
  <1>7. Homed /\ Unsaved /\ Kept
    BY <1>2, <1>3, <1>4 DEF Homed, Unsaved, Kept, Loadable, Early
  <1> QED
    BY <1>1, <1>5, <1>6, <1>7 DEF Agreed

-----------------------------------------------------------------------------
(* What is written to the rows.                                            *)

\* The cases there are stay, with their events; case c may get those of E.
Grows(rows, c, E) ==
    /\ rows \in [Sources -> Rows \cup {None}]
    /\ \A d \in Sources :
          /\ rows[d] = None <=> row[d] = None
          /\ row[d] # None =>
                /\ Events(d) \subseteq Range(rows[d].trail)
                /\ Range(rows[d].trail) \subseteq Events(d) \cup (IF d = c THEN E ELSE {})

LEMMA SameGrows ==
    ASSUME TypeOK, NEW c, NEW E
    PROVE  Grows(row, c, E)
  BY DEF TypeOK, Grows, Events

LEMMA TouchedGrows ==
    ASSUME TypeOK, NEW c \in Sources, NEW st \in Statuses, NEW b, NEW E
    PROVE  Grows(Touched(c, st), b, E)
  <1>1. CASE row[c] = None
    BY <1>1, SameGrows DEF Touched
  <1>2. CASE row[c] # None
    <2> DEFINE r == [row[c] EXCEPT !.status = st]
    <2>1. row[c] \in Rows
      BY <1>2 DEF TypeOK
    <2>2. r \in Rows /\ r.trail = row[c].trail /\ r # None
      BY <2>1, NoneAssumption DEF Rows
    <2>3. Touched(c, st) = [row EXCEPT ![c] = r]
      BY <1>2 DEF Touched
    <2> HIDE DEF r
    <2>4. Touched(c, st) \in [Sources -> Rows \cup {None}]
      BY <2>2, <2>3 DEF TypeOK
    <2>5. \A d \in Sources : Touched(c, st)[d] = IF d = c THEN r ELSE row[d]
      BY <2>3 DEF TypeOK
    <2> HIDE DEF Touched
    <2> QED
      BY <1>2, <2>2, <2>4, <2>5 DEF Grows, Events
  <1> QED
    BY <1>1, <1>2

LEMMA AppendedGrows ==
    ASSUME TypeOK, NEW c \in Sources, NEW st \in Statuses, NEW e \in Entries
    PROVE  Grows(Appended(c, e, st), c, {e})
  <1>1. CASE row[c] = None
    BY <1>1, SameGrows DEF Appended
  <1>2. CASE row[c] # None
    <2> DEFINE t == IF Repeated(row[c], e) THEN row[c].trail ELSE Append(row[c].trail, e)
               r1 == [row[c] EXCEPT !.status = st]
               r == [r1 EXCEPT !.trail = t]
    <2>1. row[c] \in Rows /\ row[c].trail \in Seq(Entries)
      BY <1>2 DEF TypeOK, Rows
    <2>2. t \in Seq(Entries) /\ Range(row[c].trail) \subseteq Range(t)
          /\ Range(t) \subseteq Range(row[c].trail) \cup {e}
      BY <2>1, OneMore
    <2>3. Noted(row[c], e, st) = r
      BY <2>1 DEF Noted, Rows
    <2> HIDE DEF t
    <2>4. r1 \in Rows
      BY <2>1 DEF Rows
    <2> HIDE DEF r1
    <2>5. r \in Rows /\ r.trail = t /\ r # None
      BY <2>2, <2>4, NoneAssumption DEF Rows
    <2>6. Appended(c, e, st) = [row EXCEPT ![c] = r]
      BY <1>2, <2>3 DEF Appended
    <2> HIDE DEF r
    <2>7. Appended(c, e, st) \in [Sources -> Rows \cup {None}]
      BY <2>5, <2>6 DEF TypeOK
    <2>8. \A d \in Sources : Appended(c, e, st)[d] = IF d = c THEN r ELSE row[d]
      BY <2>6 DEF TypeOK
    <2> HIDE DEF Appended
    <2> QED
      BY <1>2, <2>2, <2>5, <2>7, <2>8 DEF Grows, Events
  <1> QED
    BY <1>1, <1>2

\* A written row, or what was there before.
LEMMA WritesGrow ==
    ASSUME Sound, NEW rows, NEW before, NEW c, NEW E, Grows(rows, c, E), Grows(before, c, E),
           Writes(rows, before)
    PROVE  Grows(row', c, E) /\ faults' \in {faults, faults + 1}
  BY DEF Writes

-----------------------------------------------------------------------------
(* A worker at its session.                                                *)

\* The fields of a task are replaced one at a time.
LEMMA TaskFields ==
    ASSUME NEW t \in Tasks
    PROVE  /\ \A pc \in Pcs : LET u == [t EXCEPT !.pc = pc] IN
                /\ u \in Tasks /\ u.pc = pc /\ u.case = t.case /\ u.session = t.session
                /\ u.stage = t.stage /\ u.class = t.class
           /\ \A s \in Sessions : LET u == [t EXCEPT !.session = s] IN
                /\ u \in Tasks /\ u.pc = t.pc /\ u.case = t.case /\ u.session = s
                /\ u.stage = t.stage /\ u.class = t.class
           /\ \A n \in 0..4 : LET u == [t EXCEPT !.stage = n] IN
                /\ u \in Tasks /\ u.pc = t.pc /\ u.case = t.case /\ u.session = t.session
                /\ u.stage = n /\ u.class = t.class
           /\ \A k \in Classes \cup {None} : LET u == [t EXCEPT !.class = k] IN
                /\ u \in Tasks /\ u.pc = t.pc /\ u.case = t.case /\ u.session = t.session
                /\ u.stage = t.stage /\ u.class = k
  BY DEF Tasks

\* Sessions in memory are kept, and stay with the case they were opened for; so do
\* the snapshots, and a new one is of the session given.
MemoryKept ==
    /\ sess' \in [Sessions -> Helds \cup {None}]
    /\ \A s \in Sessions : /\ sess'[s] = None <=> sess[s] = None
                           /\ sess[s] # None => sess'[s].case = sess[s].case
SnapshotsKept(held) ==
    /\ snap' \in [Sessions -> Helds \cup {None}]
    /\ \A s \in Sessions : /\ snap[s] # None => snap'[s] # None /\ snap'[s].case = snap[s].case
                           /\ snap'[s] # None => \/ snap[s] # None
                                                 \/ s = held /\ snap'[s].case = sess[s].case

\* A step of worker w that leaves it with task r, and adds the events E at most to
\* the case of its session.
Works(w, r, E) ==
    /\ Puts(w, r) /\ r \in Tasks
    /\ work[w].pc \notin Early
    /\ \/ r.pc = "idle"
       \/ /\ r.pc # "start" /\ r.session = work[w].session /\ r.case = work[w].case
          /\ r.pc \in Opening => work[w].pc \in Opening /\ r.stage # 4
          /\ r.pc = "decide" /\ r.stage = 4 => r.class \in Classes
    /\ UNCHANGED lead
    /\ claimed' \subseteq Sources /\ queue' \in Seq(Sources)
    /\ Grows(row', Home(w), E)
    /\ \/ E \subseteq {Started(work[w].session)}
       \/ work[w].pc \notin Opening /\ E \subseteq {Decided(work[w].session, k) : k \in Classes}
    /\ MemoryKept /\ SnapshotsKept(work[w].session)
    /\ \/ faults' = faults + 1
       \/ /\ faults' = faults
          /\ work[w].pc \in Opening => r.pc \in Opening \/ snap'[work[w].session] # None

LEMMA PutsTasks ==
    ASSUME TypeOK, NEW w \in Workers, NEW r \in Tasks, Puts(w, r)
    PROVE  /\ work' \in [Workers -> Tasks] /\ work'[w] = r
           /\ \A v \in Workers \ {w} : work'[v] = work[v]
  BY DEF TypeOK, Tasks, Puts

LEMMA WorksAgreed ==
    ASSUME Agreed, NEW w \in Workers, NEW r, NEW E, Works(w, r, E)
    PROVE  Agreed'
  <1> DEFINE s0 == work[w].session
             h == Home(w)
  <1>1. s0 \in Sessions /\ sess[s0] # None /\ faults \in Nat
    BY DEF Works, Agreed, Sound
  <1>2. h = sess[s0].case /\ h \in Sources
    BY <1>1 DEF Home, Agreed, TypeOK, Helds
  <1>3. /\ work' \in [Workers -> Tasks] /\ work'[w] = r
        /\ \A v \in Workers \ {w} : work'[v] = work[v]
    BY PutsTasks DEF Works, Agreed
  <1>4. TypeOK'
    BY <1>3 DEF Works, Agreed, TypeOK, Grows, MemoryKept, SnapshotsKept, Tasks
  <1>5. /\ \A s \in Sessions : (sess'[s] = None <=> sess[s] = None)
                                /\ (sess[s] # None => sess'[s].case = sess[s].case)
        /\ \A s \in Sessions : (snap[s] # None => snap'[s] # None /\ snap'[s].case = snap[s].case)
        /\ \A s \in Sessions : snap'[s] # None =>
              snap[s] # None \/ (s = s0 /\ snap'[s].case = sess[s].case)
    BY DEF Works, MemoryKept, SnapshotsKept
  <1>6. \A s \in Sessions : /\ Loadable(s)' <=> Loadable(s)
                            /\ Loadable(s) => Owner(s)' = Owner(s)
    BY <1>1, <1>5, DeskAssumption DEF Loadable, Owner, Held
  <1>7. /\ \A d \in Sources : row'[d] = None <=> row[d] = None
        /\ \A d \in Live : Events(d) \subseteq Events(d)'
                           /\ Events(d)' \subseteq Events(d) \cup (IF d = h THEN E ELSE {})
    BY DEF Works, Grows, Live, Events
  <1>8. Live' = Live
    BY <1>7 DEF Live
  <1>9. /\ lead' = lead
        /\ work[w].pc \notin Early
        /\ \/ r.pc = "idle"
           \/ /\ r.pc # "start" /\ r.session = s0 /\ r.case = work[w].case
              /\ r.pc \in Opening => work[w].pc \in Opening /\ r.stage # 4
              /\ r.pc = "decide" /\ r.stage = 4 => r.class \in Classes
        /\ \/ E \subseteq {Started(s0)}
           \/ work[w].pc \notin Opening /\ E \subseteq {Decided(s0, k) : k \in Classes}
        /\ \/ faults' = faults + 1
           \/ /\ faults' = faults
              /\ work[w].pc \in Opening => r.pc \in Opening \/ snap'[s0] # None
    BY DEF Works
  <1> HIDE DEF s0, h
  <1>10. Sound'
    <2>1. ASSUME NEW v \in Workers
          PROVE  /\ work'[v].pc \notin Early =>
                       work'[v].session \in Sessions /\ sess'[work'[v].session] # None
                 /\ work'[v].pc \in Opening \cup {"start"} => work'[v].stage # 4
                 /\ work'[v].pc = "decide" /\ work'[v].stage = 4 => work'[v].class \in Classes
      <3>1. CASE v # w
        BY <1>3, <1>5, <3>1 DEF Agreed, Sound
      <3>2. CASE v = w
        BY <1>1, <1>3, <1>5, <1>9, <3>2 DEF Early, Opening
      <3> QED
        BY <3>1, <3>2
    <2> QED
      BY <1>1, <1>9, <2>1 DEF Sound
  <1>11. Named'
    BY <1>7, <1>9 DEF Agreed, Named, TypeOK
  <1>12. Homed'
    <2> SUFFICES ASSUME NEW s \in Sessions
                 PROVE  /\ Loadable(s)' => lead'[Owner(s)'] # None
                        /\ sess'[s] # None /\ snap'[s] # None => sess'[s].case = snap'[s].case
                        /\ \A c \in Live' : Loadable(s)' /\ Started(s) \in Events(c)' =>
                              lead'[Owner(s)'] = c
      BY DEF Homed
    <2>1. Loadable(s)' => lead'[Owner(s)'] # None
      BY <1>6, <1>9 DEF Agreed, Homed
    <2>2. sess'[s] # None /\ snap'[s] # None => sess'[s].case = snap'[s].case
      BY <1>5 DEF Agreed, Homed
    <2>3. ASSUME NEW c \in Live', Loadable(s)', Started(s) \in Events(c)'
          PROVE  lead'[Owner(s)'] = c
      <3>1. CASE Started(s) \in Events(c)
        BY <1>6, <1>8, <1>9, <2>3, <3>1 DEF Agreed, Homed
      <3>2. CASE c = h /\ Started(s) \in E
        <4>1. s = s0
          BY <1>9, <3>2 DEF Started, Decided
        <4>2. Owner(s) = h
          BY <1>1, <1>2, <4>1 DEF Owner, Held
        <4>3. lead[h] = h
          BY <1>2, <1>8, <3>2 DEF Live, Agreed, Named
        <4> QED
          BY <1>6, <1>9, <2>3, <3>2, <4>2, <4>3
      <3> QED
        BY <1>7, <1>8, <2>3, <3>1, <3>2
    <2> QED
      BY <2>1, <2>2, <2>3
  <1>13. Unsaved'
    <2> SUFFICES ASSUME faults' = 0
                 PROVE  /\ \A s \in Sessions : sess'[s] # None /\ snap'[s] = None =>
                              \E v \in Workers : /\ work'[v].pc \in Opening /\ work'[v].session = s
                                                 /\ work'[v].case = sess'[s].case
                        /\ \A v \in Workers :
                              work'[v].pc \notin Early \cup Opening /\ snap'[work'[v].session] = None =>
                                  row'[sess'[work'[v].session].case] = None
      BY DEF Unsaved
    <2>1. faults = 0 /\ (work[w].pc \in Opening => r.pc \in Opening \/ snap'[s0] # None)
      BY <1>1, <1>9
    <2>2. ASSUME NEW s \in Sessions, sess'[s] # None, snap'[s] = None
          PROVE  \E v \in Workers : /\ work'[v].pc \in Opening /\ work'[v].session = s
                                    /\ work'[v].case = sess'[s].case
      <3>1. sess[s] # None /\ snap[s] = None /\ sess'[s].case = sess[s].case
        BY <1>5, <2>2
      <3>2. PICK v \in Workers : /\ work[v].pc \in Opening /\ work[v].session = s
                                 /\ work[v].case = sess[s].case
        BY <2>1, <3>1 DEF Agreed, Unsaved
      <3>3. CASE v # w
        BY <1>3, <3>1, <3>2, <3>3
      <3>4. CASE v = w
        <4>1. s = s0 /\ r.pc \in Opening
          BY <2>1, <2>2, <3>2, <3>4 DEF s0
        <4>2. r.session = s0 /\ r.case = work[w].case
          BY <1>9, <4>1 DEF Opening
        <4> QED
          BY <1>3, <3>1, <3>2, <3>4, <4>1, <4>2
      <3> QED
        BY <3>3, <3>4
    <2>3. ASSUME NEW v \in Workers, work'[v].pc \notin Early \cup Opening,
                 snap'[work'[v].session] = None
          PROVE  row'[sess'[work'[v].session].case] = None
      <3>1. /\ work[v].pc \notin Early \cup Opening /\ work[v].session = work'[v].session
        <4>1. CASE v # w
          BY <1>3, <2>3, <4>1
        <4>2. CASE v = w
          BY <1>3, <1>9, <2>1, <2>3, <4>2 DEF s0, Early
        <4> QED
          BY <4>1, <4>2
      <3>2. work[v].session \in Sessions /\ sess[work[v].session] # None
        BY <3>1 DEF Agreed, Sound
      <3>3. snap[work[v].session] = None
        BY <1>5, <2>3, <3>1, <3>2
      <3>4. row[sess[work[v].session].case] = None
        BY <2>1, <3>1, <3>3 DEF Agreed, Unsaved
      <3>5. sess[work[v].session].case \in Sources
        BY <3>2 DEF Agreed, TypeOK, Helds
      <3> QED
        BY <1>5, <1>7, <3>1, <3>2, <3>4, <3>5
    <2> QED
      BY <2>2, <2>3
  <1>14. Kept'
    <2> SUFFICES ASSUME NEW c \in Live', NEW e \in Events(c)', e.kind = "decided"
                 PROVE  /\ faults' = 0 => snap'[e.session] # None
                        /\ faults' <= 1 => Loadable(e.session)'
      BY DEF Kept
    <2>1. (faults' = 0 => faults = 0) /\ (faults' <= 1 => faults <= 1)
      BY <1>1, <1>9
    <2>2. CASE e \in Events(c)
      <3>1. e.session \in Sessions
        <4>1. row[c] \in Rows
          BY <1>8 DEF Live, Agreed, TypeOK
        <4>2. e \in Entries
          BY <2>2, <4>1 DEF Events, Rows, Range
        <4> QED
          BY <4>2, EntryKinds
      <3>2. /\ faults = 0 => snap[e.session] # None
            /\ faults <= 1 => Loadable(e.session)
        BY <1>8, <2>2 DEF Agreed, Kept
      <3> QED
        BY <1>5, <1>6, <2>1, <3>1, <3>2
    <2>3. CASE c = h /\ e \in E
      <3>1. work[w].pc \notin Opening /\ e.session = s0
        BY <1>9, <2>3 DEF Started, Decided
      <3>2. Loadable(s0)
        BY <1>1, DeskAssumption DEF Loadable
      <3>3. faults = 0 => snap[s0] # None
        BY <1>2, <1>8, <1>9, <2>3, <3>1 DEF Agreed, Unsaved, Live, s0
      <3> QED
        BY <1>1, <1>5, <1>6, <2>1, <3>1, <3>2, <3>3
    <2> QED
      BY <1>7, <1>8, <2>2, <2>3
  <1> QED
    BY <1>4, <1>10, <1>11, <1>12, <1>13, <1>14 DEF Agreed

\* What a worker past its start is at.
LEMMA AtSession ==
    ASSUME Agreed, NEW w \in Workers, work[w].pc \notin Early
    PROVE  /\ work[w] \in Tasks /\ work[w].session \in Sessions /\ sess[work[w].session] # None
           /\ sess[work[w].session] \in Helds /\ Home(w) \in Sources
           /\ claimed \subseteq Sources /\ queue \in Seq(Sources)
           /\ faults \in Nat
  <1>1. work[w] \in Tasks /\ work[w].session \in Sessions /\ sess[work[w].session] # None
    BY DEF Agreed, Sound, TypeOK, Tasks
  <1>2. sess[work[w].session] \in Helds
    BY <1>1 DEF Agreed, TypeOK
  <1> QED
    BY <1>1, <1>2 DEF Agreed, Sound, TypeOK, Home, Helds

LEMMA SameMemory ==
    ASSUME Agreed, sess' = sess
    PROVE  MemoryKept
  BY DEF Agreed, TypeOK, MemoryKept

LEMMA SameSnapshots ==
    ASSUME Agreed, snap' = snap, NEW held
    PROVE  SnapshotsKept(held)
  BY DEF Agreed, TypeOK, SnapshotsKept

LEMMA SavedSnapshots ==
    ASSUME Agreed, NEW w \in Workers, work[w].pc \notin Early, snap' = Saved(w)
    PROVE  SnapshotsKept(work[w].session) /\ snap'[work[w].session] # None
  <1> DEFINE s0 == work[w].session
  <1>1. s0 \in Sessions /\ sess[s0] # None /\ sess[s0] \in Helds
    BY AtSession
  <1>2. snap' = [snap EXCEPT ![s0] = sess[s0]]
    BY DEF Saved
  <1> HIDE DEF s0
  <1>3. \A s \in Sessions : snap'[s] = IF s = s0 THEN sess[s0] ELSE snap[s]
    BY <1>1, <1>2 DEF Agreed, TypeOK
  <1>4. snap' \in [Sessions -> Helds \cup {None}]
    BY <1>1, <1>2 DEF Agreed, TypeOK
  <1>5. snap[s0] # None => sess[s0].case = snap[s0].case
    BY <1>1 DEF Agreed, Homed
  <1>6. SnapshotsKept(s0) /\ snap'[s0] # None
    BY <1>1, <1>3, <1>4, <1>5 DEF SnapshotsKept
  <1> QED
    BY <1>6 DEF s0

\* A worker ends its turn.
LEMMA EndsWork ==
    ASSUME Inv, Agreed, NEW w \in Workers, work[w].pc \notin Early, Finishes(w),
           UNCHANGED <<lead, sess, queue>>, SnapshotsKept(work[w].session),
           Grows(row', Home(w), {}),
           faults' = faults + 1 \/ (faults' = faults /\ work[w].pc \notin Opening)
    PROVE  \E r, E : Works(w, r, E)
  <1>1. Puts(w, Idle) /\ Idle \in Tasks /\ Idle.pc = "idle"
    <2>1. Whole(Idle)
      BY DEF Whole, Idle
    <2>2. work' = [work EXCEPT ![w] = Idle] /\ Shape
      BY DEF Finishes, Inv
    <2>3. Puts(w, Idle)
      BY <2>1, <2>2, Replaced
    <2> QED
      BY <2>3 DEF Idle, Tasks, Pcs
  <1>2. claimed' \subseteq Sources /\ queue' \in Seq(Sources)
    BY AtSession DEF Finishes
  <1>3. MemoryKept
    BY SameMemory
  <1>4. Works(w, Idle, {})
    BY <1>1, <1>2, <1>3 DEF Works
  <1> QED
    BY <1>4

\* It goes on, with task r.
LEMMA GoesWork ==
    ASSUME Inv, Agreed, NEW w \in Workers, work[w].pc \notin Early,
           NEW r \in Tasks, work' = [work EXCEPT ![w] = r],
           r.pc \notin Early, r.session = work[w].session, r.case = work[w].case,
           r.pc \in Opening => work[w].pc \in Opening /\ r.stage # 4,
           r.pc = "decide" /\ r.stage = 4 => r.class \in Classes,
           UNCHANGED <<lead, claimed, queue>>, MemoryKept, SnapshotsKept(work[w].session),
           NEW E, Grows(row', Home(w), E),
           \/ E \subseteq {Started(work[w].session)}
           \/ work[w].pc \notin Opening /\ E \subseteq {Decided(work[w].session, k) : k \in Classes},
           faults' \in {faults, faults + 1},
           work[w].pc \in Opening => r.pc \in Opening \/ snap'[work[w].session] # None
    PROVE  Works(w, r, E)
  <1>1. Puts(w, r)
    <2>1. Whole(r)
      BY DEF Whole, Tasks
    <2> QED
      BY <2>1, Replaced DEF Inv
  <1>2. claimed' \subseteq Sources /\ queue' \in Seq(Sources)
    BY AtSession
  <1> QED
    BY <1>1, <1>2 DEF Works, Early

LEMMA AnnounceWorks ==
    ASSUME Inv, Agreed, NEW w \in Workers, Announce(w)
    PROVE  \E r, E : Works(w, r, E)
  <1> DEFINE s0 == work[w].session
             r == [work[w] EXCEPT !.pc = "save"]
             E == {Started(s0)}
  <1>1. work[w].pc = "announce" /\ work[w].pc \notin Early /\ work[w].pc \in Opening
        /\ work[w].stage # 4
    BY DEF Announce, Early, Opening, Agreed, Sound
  <1>2. /\ work[w] \in Tasks /\ s0 \in Sessions /\ Home(w) \in Sources /\ TypeOK /\ Sound
    BY <1>1, AtSession DEF Agreed
  <1>3. /\ r \in Tasks /\ r.pc = "save" /\ r.case = work[w].case /\ r.session = s0
        /\ r.stage = work[w].stage
    BY <1>2, TaskFields DEF Pcs
  <1>4. Grows(row', Home(w), E) /\ faults' \in {faults, faults + 1}
    <2>1. Started(s0) \in Entries /\ "investigating" \in Statuses
      BY <1>2, MadeEntries DEF Statuses
    <2>2. Grows(Appended(Home(w), Started(s0), "investigating"), Home(w), E)
      BY <1>2, <2>1, AppendedGrows
    <2>3. Grows(row, Home(w), E)
      BY <1>2, SameGrows
    <2>4. Writes(Appended(Home(w), Started(s0), "investigating"), row)
      BY DEF Announce
    <2> HIDE DEF E
    <2> QED
      BY <1>2, <2>2, <2>3, <2>4, WritesGrow
  <1>5. MemoryKept /\ SnapshotsKept(s0)
    BY SameMemory, SameSnapshots DEF Announce
  <1>6. UNCHANGED <<lead, claimed, queue>> /\ work' = [work EXCEPT ![w] = r]
    BY DEF Announce, Goes
  <1> HIDE DEF r
  <1>7. Works(w, r, E)
    BY <1>1, <1>2, <1>3, <1>4, <1>5, <1>6, GoesWork DEF Early, Opening
  <1> QED
    BY <1>7

LEMMA SaveWorks ==
    ASSUME Inv, Agreed, NEW w \in Workers, Save(w)
    PROVE  \E r, E : Works(w, r, E)
  <1> DEFINE s0 == work[w].session
             r == [work[w] EXCEPT !.pc = "decide"]
  <1>1. work[w].pc = "save" /\ work[w].pc \notin Early /\ work[w].pc \in Opening
        /\ work[w].stage # 4
    BY DEF Save, Early, Opening, Agreed, Sound
  <1>2. /\ work[w] \in Tasks /\ TypeOK
    BY <1>1, AtSession DEF Agreed
  <1>3. /\ r \in Tasks /\ r.pc = "decide" /\ r.case = work[w].case /\ r.session = s0
        /\ r.stage = work[w].stage
    BY <1>2, TaskFields DEF Pcs
  <1>4. Grows(row', Home(w), {})
    BY <1>2, SameGrows DEF Save
  <1>5. MemoryKept /\ SnapshotsKept(s0) /\ snap'[s0] # None
    BY <1>1, SameMemory, SavedSnapshots DEF Save
  <1>6. UNCHANGED <<lead, claimed, queue>> /\ work' = [work EXCEPT ![w] = r] /\ faults' = faults
    BY DEF Save, Goes
  <1> HIDE DEF r
  <1>7. Works(w, r, {})
    BY <1>1, <1>2, <1>3, <1>4, <1>5, <1>6, GoesWork DEF Early, Opening
  <1> QED
    BY <1>7

\* What a session may decide is a decision.
LEMMA OutcomesOf ==
    ASSUME NEW held \in Helds, NEW stage \in 0..4, NEW class, stage = 4 => class \in Classes
    PROVE  Outcomes(held, stage, class) \subseteq Classes
  <1>1. held.scope \in {"unresolved", "exact", "policy", "deny"}
    BY DeskAssumption DEF Helds
  <1>2. {"scope_gap", "scope_unresolved", "policy_pending", "blocked", "action_ready", "settled",
         "open_root"} \subseteq Classes
    BY DEF Classes, StatusOf
  <1>3. CASE stage = 4
    BY <1>3 DEF Outcomes
  <1>4. CASE stage # 4 /\ held.scope = "unresolved"
    BY <1>2, <1>4 DEF Outcomes
  <1>5. CASE stage # 4 /\ held.scope = "policy"
    BY <1>2, <1>5 DEF Outcomes
  <1>6. CASE stage # 4 /\ held.scope = "deny"
    BY <1>2, <1>6 DEF Outcomes
  <1>7. CASE stage # 4 /\ held.scope = "exact"
    BY <1>2, <1>7 DEF Outcomes
  <1> QED
    BY <1>1, <1>3, <1>4, <1>5, <1>6, <1>7

LEMMA RecordsWork ==
    ASSUME Inv, Agreed, NEW w \in Workers, work[w].pc \in {"decide", "reason"},
           NEW k \in Classes, NEW stage \in 0..4, NEW before,
           Grows(before, Home(w), {Decided(work[w].session, k)}),
           Records(w, k, stage, before), UNCHANGED <<lead, snap, claimed, queue>>
    PROVE  \E r, E : Works(w, r, E)
  <1> DEFINE s0 == work[w].session
             E == {Decided(s0, k)}
             r1 == [work[w] EXCEPT !.pc = "persist"]
             r2 == [r1 EXCEPT !.class = k]
             r3 == [r2 EXCEPT !.stage = stage]
  <1>1. work[w].pc \notin Early /\ work[w].pc \notin Opening
    BY DEF Early, Opening
  <1>2. /\ work[w] \in Tasks /\ s0 \in Sessions /\ sess[s0] # None /\ sess[s0] \in Helds
        /\ Home(w) \in Sources /\ TypeOK /\ Sound
    BY <1>1, AtSession DEF Agreed
  <1>3. work' = [work EXCEPT ![w] = r3]
    BY DEF Records, Inv, Shape
  <1>4. r1 \in Tasks /\ r1.pc = "persist" /\ r1.case = work[w].case /\ r1.session = s0
    BY <1>2, TaskFields DEF Pcs
  <1> HIDE DEF r1
  <1>5. r2 \in Tasks /\ r2.pc = "persist" /\ r2.case = work[w].case /\ r2.session = s0
    BY <1>4, TaskFields
  <1> HIDE DEF r2
  <1>6. r3 \in Tasks /\ r3.pc = "persist" /\ r3.case = work[w].case /\ r3.session = s0
    BY <1>5, TaskFields
  <1> HIDE DEF r3
  <1>7. Grows(row', Home(w), E) /\ faults' \in {faults, faults + 1}
    <2>1. Decided(s0, k) \in Entries /\ StatusOf[k] \in Statuses
      <3>1. Decided(s0, k) \in Entries
        BY <1>2, MadeEntries
      <3>2. StatusOf[k] \in Statuses
        BY DEF StatusOf, Classes, Statuses
      <3> QED
        BY <3>1, <3>2
    <2>2. Grows(Appended(Home(w), Decided(s0, k), StatusOf[k]), Home(w), E)
      BY <1>2, <2>1, AppendedGrows
    <2>3. Writes(Appended(Home(w), Decided(s0, k), StatusOf[k]), before)
      BY DEF Records
    <2> QED
      BY <1>2, <2>2, <2>3, WritesGrow
  <1>8. MemoryKept
    <2> DEFINE u == [sess[s0] EXCEPT !.class = k]
    <2>1. u \in Helds /\ u.case = sess[s0].case
      BY <1>2 DEF Helds
    <2>2. u # None
      BY <2>1, NoneAssumption
    <2>3. sess' = [sess EXCEPT ![s0] = u]
      BY DEF Records
    <2> HIDE DEF u, s0
    <2>4. \A s \in Sessions : sess'[s] = IF s = s0 THEN u ELSE sess[s]
      BY <1>2, <2>3 DEF TypeOK
    <2>5. sess' \in [Sessions -> Helds \cup {None}]
      BY <1>2, <2>1, <2>3 DEF TypeOK
    <2> QED
      BY <1>2, <2>1, <2>2, <2>4, <2>5 DEF MemoryKept
  <1>9. SnapshotsKept(s0)
    BY SameSnapshots
  <1>10. E \subseteq {Decided(s0, j) : j \in Classes}
    OBVIOUS
  <1>11. Works(w, r3, E)
    <2> HIDE DEF E
    <2> QED
      BY <1>1, <1>2, <1>3, <1>6, <1>7, <1>8, <1>9, <1>10, GoesWork DEF Early, Opening
  <1> QED
    BY <1>11

LEMMA DecideWorks ==
    ASSUME Inv, Agreed, NEW w \in Workers, Decide(w)
    PROVE  \E r, E : Works(w, r, E)
  <1> DEFINE s0 == work[w].session
  <1>1. work[w].pc = "decide" /\ work[w].pc \notin Early
    BY DEF Decide, Early
  <1>2. /\ work[w] \in Tasks /\ s0 \in Sessions /\ sess[s0] \in Helds
        /\ Home(w) \in Sources /\ TypeOK
        /\ work[w].stage = 4 => work[w].class \in Classes
    BY <1>1, AtSession DEF Agreed, Sound
  <1>3. work[w].stage \in 0..4
    BY <1>2 DEF Tasks
  <1>4. PICK k \in Outcomes(sess[s0], work[w].stage, work[w].class),
             before \in {row} \cup IF work[w].stage = 4 THEN {}
                                 ELSE {Touched(Home(w), "investigating")} :
            Records(w, k, work[w].stage, before)
    BY DEF Decide
  <1>5. k \in Classes
    BY <1>2, <1>3, OutcomesOf
  <1>6. Grows(before, Home(w), {Decided(s0, k)})
    <2>1. "investigating" \in Statuses
      BY DEF Statuses
    <2>2. Grows(row, Home(w), {Decided(s0, k)})
      BY <1>2, SameGrows
    <2>3. Grows(Touched(Home(w), "investigating"), Home(w), {Decided(s0, k)})
      BY <1>2, <2>1, TouchedGrows
    <2>4. before = row \/ before = Touched(Home(w), "investigating")
      OBVIOUS
    <2> QED
      BY <2>2, <2>3, <2>4
  <1>7. UNCHANGED <<lead, snap, claimed, queue>>
    BY DEF Decide
  <1> QED
    BY <1>1, <1>3, <1>4, <1>5, <1>6, <1>7, RecordsWork

LEMMA ReasonWorks ==
    ASSUME Inv, Agreed, NEW w \in Workers, Reason(w)
    PROVE  \E r, E : Works(w, r, E)
  <1> DEFINE s0 == work[w].session
  <1>1. work[w].pc = "reason" /\ work[w].pc \notin Early /\ 3 \in 0..4
    BY DEF Reason, Early
  <1>2. s0 \in Sessions /\ sess[s0] \in Helds /\ Home(w) \in Sources /\ TypeOK
    BY <1>1, AtSession DEF Agreed
  <1>3. UNCHANGED <<lead, snap, claimed, queue>>
    BY DEF Reason
  <1>4. CASE Records(w, "exhausted", 3, row)
    <2>1. "exhausted" \in Classes
      BY DEF Classes, StatusOf
    <2>2. Grows(row, Home(w), {Decided(s0, "exhausted")})
      BY <1>2, SameGrows
    <2> QED
      BY <1>1, <1>3, <1>4, <2>1, <2>2, RecordsWork
  <1>5. CASE \E k \in Outcomes(sess[s0], 3, None) : Records(w, k, 3, Touched(Home(w), "waiting"))
    <2>1. PICK k \in Outcomes(sess[s0], 3, None) : Records(w, k, 3, Touched(Home(w), "waiting"))
      BY <1>5
    <2>2. k \in Classes
      BY <1>1, <1>2, OutcomesOf
    <2>3. "waiting" \in Statuses
      BY DEF Statuses
    <2>4. Grows(Touched(Home(w), "waiting"), Home(w), {Decided(s0, k)})
      BY <1>2, <2>3, TouchedGrows
    <2> QED
      BY <1>1, <1>3, <2>1, <2>2, <2>4, RecordsWork
  <1> QED
    BY <1>4, <1>5 DEF Reason

LEMMA PersistWorks ==
    ASSUME Inv, Agreed, NEW w \in Workers, Persist(w)
    PROVE  \E r, E : Works(w, r, E)
  <1> DEFINE s0 == work[w].session
  <1>1. work[w].pc = "persist" /\ work[w].pc \notin Early /\ work[w].pc \notin Opening
    BY DEF Persist, Early, Opening
  <1>2. work[w] \in Tasks /\ TypeOK
    BY <1>1, AtSession DEF Agreed
  <1>3. Grows(row', Home(w), {})
    BY <1>2, SameGrows DEF Persist
  <1>4. MemoryKept /\ SnapshotsKept(s0)
    BY <1>1, SameMemory, SavedSnapshots DEF Persist
  <1>5. UNCHANGED <<lead, sess, queue, faults>>
    BY DEF Persist
  <1>6. CASE Finishes(w)
    BY <1>1, <1>3, <1>4, <1>5, <1>6, EndsWork
  <1>7. ASSUME UNCHANGED claimed, NEW pc \in {"reason", "act"}, Goes(w, pc)
        PROVE  \E r, E : Works(w, r, E)
    <2> DEFINE r == [work[w] EXCEPT !.pc = pc]
    <2>1. /\ r \in Tasks /\ r.pc = pc /\ r.case = work[w].case /\ r.session = s0
      <3>1. pc \in Pcs
        BY DEF Pcs
      <3> QED
        BY <1>2, <3>1, TaskFields
    <2>2. work' = [work EXCEPT ![w] = r]
      BY <1>7 DEF Goes
    <2> HIDE DEF r
    <2>3. Works(w, r, {})
      BY <1>1, <1>2, <1>3, <1>4, <1>5, <1>7, <2>1, <2>2, GoesWork DEF Early, Opening
    <2> QED
      BY <2>3
  <1>8. CASE UNCHANGED claimed /\ work' = [work EXCEPT ![w].pc = "decide", ![w].stage = 2]
    <2> DEFINE r1 == [work[w] EXCEPT !.pc = "decide"]
               r2 == [r1 EXCEPT !.stage = 2]
    <2>1. work' = [work EXCEPT ![w] = r2]
      BY <1>8 DEF Inv, Shape
    <2>2. r1 \in Tasks /\ r1.pc = "decide" /\ r1.case = work[w].case /\ r1.session = s0
      BY <1>2, TaskFields DEF Pcs
    <2> HIDE DEF r1
    <2>3. /\ r2 \in Tasks /\ r2.pc = "decide" /\ r2.case = work[w].case /\ r2.session = s0
          /\ r2.stage = 2
      <3>1. 2 \in 0..4
        OBVIOUS
      <3> QED
        BY <2>2, <3>1, TaskFields
    <2> HIDE DEF r2
    <2>4. r2.pc \notin Early /\ r2.pc \notin Opening /\ r2.stage # 4
      BY <2>3 DEF Early, Opening
    <2>5. UNCHANGED <<lead, claimed, queue>> /\ faults' \in {faults, faults + 1}
      BY <1>5, <1>8
    <2>6. Works(w, r2, {})
      BY <1>1, <1>3, <1>4, <2>1, <2>3, <2>4, <2>5, GoesWork
    <2> QED
      BY <2>6
  <1>9. \/ Finishes(w)
        \/ UNCHANGED claimed /\ \E pc \in {"reason", "act"} : Goes(w, pc)
        \/ UNCHANGED claimed /\ work' = [work EXCEPT ![w].pc = "decide", ![w].stage = 2]
    BY DEF Persist
  <1> QED
    BY <1>6, <1>7, <1>8, <1>9

\* The event of a worker that goes on: it touches the status of a case only.
LEMMA TouchesWork ==
    ASSUME Inv, Agreed, NEW w \in Workers, work[w].pc \in {"act", "readback"},
           NEW st \in Statuses, Writes(Touched(Home(w), st), row),
           NEW pc \in {"readback", "report"}, Goes(w, pc),
           UNCHANGED <<lead, snap, sess, claimed, queue>>
    PROVE  \E r, E : Works(w, r, E)
  <1> DEFINE s0 == work[w].session
             r == [work[w] EXCEPT !.pc = pc]
  <1>1. work[w].pc \notin Early /\ work[w].pc \notin Opening
    BY DEF Early, Opening
  <1>2. work[w] \in Tasks /\ Home(w) \in Sources /\ TypeOK /\ Sound
    BY <1>1, AtSession DEF Agreed
  <1>3. Grows(row', Home(w), {}) /\ faults' \in {faults, faults + 1}
    <2>1. Grows(Touched(Home(w), st), Home(w), {}) /\ Grows(row, Home(w), {})
      BY <1>2, TouchedGrows, SameGrows
    <2> QED
      BY <1>2, <2>1, WritesGrow
  <1>4. MemoryKept /\ SnapshotsKept(s0)
    BY SameMemory, SameSnapshots
  <1>5. /\ r \in Tasks /\ r.pc = pc /\ r.case = work[w].case /\ r.session = s0
    <2>1. pc \in Pcs
      BY DEF Pcs
    <2> QED
      BY <1>2, <2>1, TaskFields
  <1>6. work' = [work EXCEPT ![w] = r]
    BY DEF Goes
  <1> HIDE DEF r
  <1>7. Works(w, r, {})
    BY <1>1, <1>2, <1>3, <1>4, <1>5, <1>6, GoesWork DEF Early, Opening
  <1> QED
    BY <1>7

LEMMA ActWorks ==
    ASSUME Inv, Agreed, NEW w \in Workers, Act(w)
    PROVE  \E r, E : Works(w, r, E)
  <1>1. work[w].pc = "act" /\ work[w].pc \notin Early /\ work[w].pc \notin Opening /\ w \in Busy
        /\ "waiting" \in Statuses
    BY DEF Act, Early, Opening, Busy, Statuses
  <1>2. TypeOK /\ work[w].case \in Sources
    <2>1. work[w].case \in claimed
      BY <1>1 DEF Inv, ClaimsTell
    <2> QED
      BY <2>1 DEF Agreed, TypeOK
  <1>3. UNCHANGED <<lead, snap, sess, queue>> /\ SnapshotsKept(work[w].session)
    BY SameSnapshots DEF Act
  <1>4. CASE Writes(Touched(Home(w), "waiting"), row) /\ Goes(w, "readback") /\ UNCHANGED claimed
    BY <1>1, <1>3, <1>4, TouchesWork
  <1>5. CASE row' = Touched(work[w].case, "waiting") /\ Finishes(w) /\ UNCHANGED faults
    <2>1. Grows(row', Home(w), {})
      BY <1>1, <1>2, <1>5, TouchedGrows
    <2> QED
      BY <1>1, <1>3, <1>5, <2>1, EndsWork
  <1>6. CASE Finishes(w) /\ UNCHANGED <<row, faults>>
    <2>1. Grows(row', Home(w), {})
      BY <1>2, <1>6, SameGrows
    <2> QED
      BY <1>1, <1>3, <1>6, <2>1, EndsWork
  <1> QED
    BY <1>4, <1>5, <1>6 DEF Act

LEMMA ReadbackWorks ==
    ASSUME Inv, Agreed, NEW w \in Workers, Readback(w)
    PROVE  \E r, E : Works(w, r, E)
  <1>1. "investigating" \in Statuses
    BY DEF Statuses
  <1> QED
    BY <1>1, TouchesWork DEF Readback

LEMMA ReportWorks ==
    ASSUME Inv, Agreed, NEW w \in Workers, Report(w)
    PROVE  \E r, E : Works(w, r, E)
  <1> DEFINE s0 == work[w].session
  <1>1. work[w].pc = "report" /\ work[w].pc \notin Early /\ work[w].pc \notin Opening
    BY DEF Report, Early, Opening
  <1>2. work[w] \in Tasks /\ Home(w) \in Sources /\ TypeOK /\ Sound
    BY <1>1, AtSession DEF Agreed
  <1>3. PICK result \in {"resolved", "escalated", "investigating"} :
           /\ Writes(Touched(Home(w), result), row)
           /\ work' = [work EXCEPT ![w].pc = "decide", ![w].stage = 4,
                         ![w].class = IF result = "resolved" THEN "repaired" ELSE "repair_failed"]
    BY DEF Report
  <1>4. UNCHANGED <<lead, snap, sess, claimed, queue>>
    BY DEF Report
  <1>5. Grows(row', Home(w), {}) /\ faults' \in {faults, faults + 1}
    <2>1. result \in Statuses
      BY DEF Statuses
    <2>2. Grows(Touched(Home(w), result), Home(w), {}) /\ Grows(row, Home(w), {})
      BY <1>2, <2>1, TouchedGrows, SameGrows
    <2> QED
      BY <1>2, <1>3, <2>2, WritesGrow
  <1>6. MemoryKept /\ SnapshotsKept(s0)
    BY <1>4, SameMemory, SameSnapshots
  <1> DEFINE k == IF result = "resolved" THEN "repaired" ELSE "repair_failed"
             r1 == [work[w] EXCEPT !.pc = "decide"]
             r2 == [r1 EXCEPT !.stage = 4]
             r3 == [r2 EXCEPT !.class = k]
  <1>7. k \in Classes
    BY DEF Classes, StatusOf
  <1>8. work' = [work EXCEPT ![w] = r3]
    BY <1>3 DEF Inv, Shape
  <1> HIDE DEF k
  <1>9. r1 \in Tasks /\ r1.pc = "decide" /\ r1.case = work[w].case /\ r1.session = s0
    BY <1>2, TaskFields DEF Pcs
  <1> HIDE DEF r1
  <1>10. r2 \in Tasks /\ r2.pc = "decide" /\ r2.case = work[w].case /\ r2.session = s0
    <2>1. 4 \in 0..4
      OBVIOUS
    <2> QED
      BY <1>9, <2>1, TaskFields
  <1> HIDE DEF r2
  <1>11. /\ r3 \in Tasks /\ r3.pc = "decide" /\ r3.case = work[w].case /\ r3.session = s0
         /\ r3.class = k
    BY <1>7, <1>10, TaskFields
  <1> HIDE DEF r3
  <1>12. Works(w, r3, {})
    BY <1>1, <1>2, <1>4, <1>5, <1>6, <1>7, <1>8, <1>11, GoesWork DEF Early, Opening
  <1> QED
    BY <1>12

LEMMA RaiseWorks ==
    ASSUME Inv, Agreed, NEW w \in Workers, Raise(w), work[w].pc \notin Early
    PROVE  \E r, E : Works(w, r, E)
  <1>1. Finishes(w) /\ UNCHANGED <<row, lead, snap, sess, queue>> /\ faults' = faults + 1
    BY DEF Raise, disk
  <1>2. Grows(row', Home(w), {}) /\ SnapshotsKept(work[w].session)
    BY <1>1, SameGrows, SameSnapshots DEF Agreed
  <1> QED
    BY <1>1, <1>2, EndsWork

-----------------------------------------------------------------------------
(* A worker that has not begun.                                            *)

\* It takes a case, or gives one up before it has a session.
Rests(w, r) ==
    /\ Puts(w, r) /\ r \in Tasks
    /\ work[w].pc \in Early /\ r.pc \in Early /\ r.stage # 4
    /\ UNCHANGED <<disk, sess>>
    /\ claimed' \subseteq Sources /\ queue' \in Seq(Sources)
    /\ faults' \in {faults, faults + 1}

LEMMA RestsAgreed ==
    ASSUME Agreed, NEW w \in Workers, NEW r, Rests(w, r)
    PROVE  Agreed'
  <1>1. UNCHANGED <<row, lead, snap, sess>>
    BY DEF Rests, disk
  <1>2. /\ work' \in [Workers -> Tasks] /\ work'[w] = r
        /\ \A v \in Workers \ {w} : work'[v] = work[v]
    BY PutsTasks DEF Rests, Agreed
  <1>3. /\ faults \in Nat /\ faults' \in {faults, faults + 1}
        /\ work[w].pc \in Early /\ r.pc \in Early /\ r.stage # 4
    BY DEF Rests, Agreed, Sound
  <1>4. (faults' = 0 => faults = 0) /\ (faults' <= 1 => faults <= 1) /\ faults' \in Nat
    BY <1>3
  <1>5. TypeOK'
    BY <1>1, <1>2 DEF Rests, Agreed, TypeOK, Tasks
  <1>6. /\ \A s : Loadable(s)' <=> Loadable(s)
        /\ \A s : Owner(s)' = Owner(s)
        /\ \A c : Events(c)' = Events(c)
        /\ Live' = Live
    BY <1>1 DEF Loadable, Owner, Held, Events, Live
  <1>7. Sound'
    <2>1. ASSUME NEW v \in Workers
          PROVE  /\ work'[v].pc \notin Early =>
                       work'[v].session \in Sessions /\ sess'[work'[v].session] # None
                 /\ work'[v].pc \in Opening \cup {"start"} => work'[v].stage # 4
                 /\ work'[v].pc = "decide" /\ work'[v].stage = 4 => work'[v].class \in Classes
      <3>1. CASE v # w
        BY <1>1, <1>2, <3>1 DEF Agreed, Sound
      <3>2. CASE v = w
        BY <1>2, <1>3, <3>2 DEF Early
      <3> QED
        BY <3>1, <3>2
    <2> QED
      BY <1>4, <2>1 DEF Sound
  <1>8. Named' /\ Homed'
    BY <1>1, <1>6 DEF Agreed, Named, Homed
  <1>9. Unsaved'
    <2> SUFFICES ASSUME faults' = 0
                 PROVE  /\ \A s \in Sessions : sess'[s] # None /\ snap'[s] = None =>
                              \E v \in Workers : /\ work'[v].pc \in Opening /\ work'[v].session = s
                                                 /\ work'[v].case = sess'[s].case
                        /\ \A v \in Workers :
                              work'[v].pc \notin Early \cup Opening /\ snap'[work'[v].session] = None =>
                                  row'[sess'[work'[v].session].case] = None
      BY DEF Unsaved
    <2>1. ASSUME NEW s \in Sessions, sess[s] # None, snap[s] = None
          PROVE  \E v \in Workers : /\ work'[v].pc \in Opening /\ work'[v].session = s
                                    /\ work'[v].case = sess'[s].case
      <3>1. PICK v \in Workers : /\ work[v].pc \in Opening /\ work[v].session = s
                                 /\ work[v].case = sess[s].case
        BY <1>4, <2>1 DEF Agreed, Unsaved
      <3>2. v # w
        BY <1>3, <3>1 DEF Early, Opening
      <3> QED
        BY <1>1, <1>2, <3>1, <3>2
    <2>2. ASSUME NEW v \in Workers, work'[v].pc \notin Early \cup Opening,
                 snap[work'[v].session] = None
          PROVE  row[sess[work'[v].session].case] = None
      <3>1. v # w
        BY <1>2, <1>3, <2>2
      <3>2. work'[v] = work[v]
        BY <1>2, <3>1
      <3> QED
        BY <1>4, <2>2, <3>2 DEF Agreed, Unsaved
    <2> QED
      BY <1>1, <2>1, <2>2
  <1>10. Kept'
    BY <1>1, <1>4, <1>6 DEF Agreed, Kept
  <1> QED
    BY <1>5, <1>7, <1>8, <1>9, <1>10 DEF Agreed

LEMMA TakeAgreed ==
    ASSUME Inv, Agreed, NEW w \in Workers, Take(w)
    PROVE  Agreed'
  <1>1. /\ queue' \in Seq(Sources) /\ Head(queue) \in Range(queue) /\ Range(queue) \subseteq claimed
        /\ claimed \subseteq Sources
    BY Queues DEF Take, Inv, Shape, ClaimsTell, Agreed, TypeOK
  <1>2. UNCHANGED <<disk, sess, faults>> /\ work[w].pc \in Early
    BY DEF Take, Early
  <1>3. CASE claimed' = claimed \ {Head(queue)} /\ UNCHANGED work
    <2>1. claimed' \subseteq Sources
      BY <1>1, <1>3
    <2> QED
      BY <1>1, <1>2, <1>3, <2>1, AgreedSame
  <1>4. CASE work' = [work EXCEPT ![w] = Begun(Head(queue))] /\ UNCHANGED claimed
    <2> DEFINE r == Begun(Head(queue))
    <2>1. r \in Tasks /\ r.pc \in Early /\ r.stage # 4 /\ Whole(r)
      <3>1. Head(queue) \in Sources
        BY <1>1
      <3> QED
        BY <3>1 DEF Begun, Tasks, Early, Whole, Pcs
    <2>2. Puts(w, r)
      BY <1>4, <2>1, Replaced DEF Inv
    <2> HIDE DEF r
    <2>3. Rests(w, r)
      BY <1>1, <1>2, <1>4, <2>1, <2>2 DEF Rests
    <2> QED
      BY <2>3, RestsAgreed
  <1> QED
    BY <1>3, <1>4 DEF Take

\* A turn that ends before it has a session.
LEMMA RestAgreed ==
    ASSUME Inv, Agreed, NEW w \in Workers, work[w].pc \in Early, Finishes(w),
           UNCHANGED <<disk, sess, queue>>, faults' \in {faults, faults + 1}
    PROVE  Agreed'
  <1>1. Idle \in Tasks /\ Idle.pc \in Early /\ Idle.stage # 4 /\ Whole(Idle)
    BY DEF Idle, Tasks, Early, Whole, Pcs
  <1>2. Puts(w, Idle)
    BY <1>1, Replaced DEF Inv, Finishes
  <1>3. claimed' \subseteq Sources /\ queue' \in Seq(Sources)
    BY DEF Finishes, Agreed, TypeOK
  <1>4. Rests(w, Idle)
    BY <1>1, <1>2, <1>3 DEF Rests
  <1> QED
    BY <1>4, RestsAgreed

-----------------------------------------------------------------------------
(* A session is taken up or opened.                                        *)

\* Worker w goes on with task r: with the session of its case's trail, or with one
\* that was unused.
Begins(w, r) ==
    /\ Puts(w, r) /\ r \in Tasks
    /\ work[w].pc = "start" /\ row[work[w].case] # None
    /\ r.case = work[w].case /\ r.session \in Sessions /\ r.stage # 4
    /\ UNCHANGED <<row, lead, faults, claimed, queue>>
    /\ sess' \in [Sessions -> Helds \cup {None}] /\ sess'[r.session] # None
    /\ snap' \in [Sessions -> Helds \cup {None}]
    /\ \A s \in Sessions :
          /\ snap[s] # None => snap'[s] # None /\ snap'[s].case = snap[s].case
          /\ snap'[s] # None => Loadable(s) /\ snap'[s].case = Owner(s)
          /\ sess[s] # None => sess'[s] # None /\ sess'[s].case = sess[s].case
          /\ sess'[s] # None => \/ Loadable(s) /\ sess'[s].case = Owner(s)
                                \/ /\ s \in Unused /\ s = r.session /\ r.pc = "announce"
                                   /\ sess'[s].case = work[w].case
    /\ \/ r.pc = "announce"
       \/ /\ r.pc = "decide" /\ Loadable(r.session)
          /\ Started(r.session) \in Events(work[w].case)

LEMMA BeginsAgreed ==
    ASSUME Inv, Agreed, NEW w \in Workers, NEW r, Begins(w, r)
    PROVE  Agreed'
  <1> DEFINE c == work[w].case
             n == r.session
  <1>1. /\ row' = row /\ lead' = lead /\ faults' = faults
        /\ n \in Sessions /\ work[w].pc = "start" /\ r.case = c /\ r.stage # 4
        /\ row[c] # None
        /\ (r.pc = "announce") \/ (r.pc = "decide" /\ Loadable(n) /\ Started(n) \in Events(c))
    BY DEF Begins
  <1>2. c \in Live /\ w \in Busy /\ lead[c] = c
    <2>1. w \in Busy
      BY <1>1 DEF Busy
    <2>2. c \in claimed
      BY <2>1 DEF Inv, ClaimsTell
    <2> QED
      BY <1>1, <2>1, <2>2 DEF Live, Agreed, Named, TypeOK
  <1>3. /\ work' \in [Workers -> Tasks] /\ work'[w] = r
        /\ \A v \in Workers \ {w} : work'[v] = work[v]
    BY PutsTasks DEF Begins, Agreed
  <1>4. sess'[n] # None
        /\ \A s \in Sessions :
          /\ snap[s] # None => snap'[s] # None /\ snap'[s].case = snap[s].case
          /\ snap'[s] # None => Loadable(s) /\ snap'[s].case = Owner(s)
          /\ sess[s] # None => sess'[s] # None /\ sess'[s].case = sess[s].case
          /\ sess'[s] # None => \/ Loadable(s) /\ sess'[s].case = Owner(s)
                                \/ /\ s \in Unused /\ s = n /\ r.pc = "announce"
                                   /\ sess'[s].case = c
    BY DEF Begins
  <1>5. \A s \in Unused : ~Loadable(s) /\ \A d \in Live : Started(s) \notin Events(d)
    BY DEF Unused, Loadable
  <1> HIDE DEF c, n
  <1>6. ASSUME NEW s \in Sessions, Loadable(s)
        PROVE  Loadable(s)' /\ Owner(s)' = Owner(s)
    <2>1. s # None /\ (sess[s] # None \/ snap[s] # None)
      BY <1>6 DEF Loadable
    <2>2. CASE sess'[s] # None
      <3>1. sess'[s].case = Owner(s)
        BY <1>4, <1>5, <1>6, <2>2
      <3> QED
        BY <2>1, <2>2, <3>1 DEF Loadable, Owner, Held
    <2>3. CASE sess'[s] = None
      <3>1. sess[s] = None /\ snap'[s] # None /\ snap'[s].case = Owner(s)
        BY <1>4, <2>1, <2>3
      <3> QED
        BY <2>1, <2>3, <3>1 DEF Loadable, Owner, Held
    <2> QED
      BY <2>2, <2>3
  <1>7. ASSUME NEW s \in Sessions, Loadable(s)', ~Loadable(s)
        PROVE  s \in Unused /\ Owner(s)' = c
    <2>1. snap'[s] = None /\ sess'[s] # None
      BY <1>4, <1>7 DEF Loadable
    <2>2. s \in Unused /\ sess'[s].case = c
      BY <1>4, <1>7, <2>1
    <2> QED
      BY <2>1, <2>2 DEF Owner, Held
  <1>8. Live' = Live /\ \A d : Events(d)' = Events(d)
    BY <1>1 DEF Live, Events
  <1>9. TypeOK'
    BY <1>3 DEF Begins, Agreed, TypeOK, Tasks
  <1>10. Sound'
    <2>1. ASSUME NEW v \in Workers
          PROVE  /\ work'[v].pc \notin Early =>
                       work'[v].session \in Sessions /\ sess'[work'[v].session] # None
                 /\ work'[v].pc \in Opening \cup {"start"} => work'[v].stage # 4
                 /\ work'[v].pc = "decide" /\ work'[v].stage = 4 => work'[v].class \in Classes
      <3>1. CASE v # w
        BY <1>3, <1>4, <3>1 DEF Agreed, Sound
      <3>2. CASE v = w
        BY <1>1, <1>3, <1>4, <3>2 DEF n
      <3> QED
        BY <3>1, <3>2
    <2> QED
      BY <1>1, <2>1 DEF Sound, Agreed
  <1>11. Named'
    BY <1>1 DEF Agreed, Named
  <1>12. Homed'
    <2> SUFFICES ASSUME NEW s \in Sessions
                 PROVE  /\ Loadable(s)' => lead'[Owner(s)'] # None
                        /\ sess'[s] # None /\ snap'[s] # None => sess'[s].case = snap'[s].case
                        /\ \A d \in Live' : Loadable(s)' /\ Started(s) \in Events(d)' =>
                              lead'[Owner(s)'] = d
      BY DEF Homed
    <2>1. lead[c] # None
      BY <1>2, DeskAssumption DEF Live
    <2>2. Loadable(s)' => lead'[Owner(s)'] # None
      BY <1>1, <1>6, <1>7, <2>1 DEF Agreed, Homed
    <2>3. sess'[s] # None /\ snap'[s] # None => sess'[s].case = snap'[s].case
      BY <1>4, <1>5
    <2>4. \A d \in Live' : Loadable(s)' /\ Started(s) \in Events(d)' => lead'[Owner(s)'] = d
      BY <1>1, <1>5, <1>6, <1>7, <1>8 DEF Agreed, Homed
    <2> QED
      BY <2>2, <2>3, <2>4
  <1>13. Unsaved'
    <2> SUFFICES ASSUME faults' = 0
                 PROVE  /\ \A s \in Sessions : sess'[s] # None /\ snap'[s] = None =>
                              \E v \in Workers : /\ work'[v].pc \in Opening /\ work'[v].session = s
                                                 /\ work'[v].case = sess'[s].case
                        /\ \A v \in Workers :
                              work'[v].pc \notin Early \cup Opening /\ snap'[work'[v].session] = None =>
                                  row'[sess'[work'[v].session].case] = None
      BY DEF Unsaved
    <2>1. faults = 0
      BY <1>1
    <2>2. ASSUME NEW s \in Sessions, sess[s] # None, snap[s] = None
          PROVE  \E v \in Workers : /\ v # w /\ work[v].pc \in Opening /\ work[v].session = s
                                    /\ work[v].case = sess[s].case
      <3>1. PICK v \in Workers : /\ work[v].pc \in Opening /\ work[v].session = s
                                 /\ work[v].case = sess[s].case
        BY <2>1, <2>2 DEF Agreed, Unsaved
      <3>2. v # w
        BY <1>1, <3>1 DEF Opening
      <3> QED
        BY <3>1, <3>2
    <2>3. ASSUME NEW s \in Sessions, sess'[s] # None, snap'[s] = None
          PROVE  \E v \in Workers : /\ work'[v].pc \in Opening /\ work'[v].session = s
                                    /\ work'[v].case = sess'[s].case
      <3>1. CASE Loadable(s)
        <4>1. snap[s] = None /\ sess[s] # None /\ sess'[s].case = sess[s].case
          BY <1>4, <2>3, <3>1 DEF Loadable
        <4>2. PICK v \in Workers : /\ v # w /\ work[v].pc \in Opening /\ work[v].session = s
                                   /\ work[v].case = sess[s].case
          BY <2>2, <4>1
        <4> QED
          BY <1>3, <4>1, <4>2
      <3>2. CASE ~Loadable(s)
        <4>1. s = n /\ r.pc = "announce" /\ sess'[s].case = c
          BY <1>4, <2>3, <3>2
        <4> QED
          BY <1>1, <1>3, <4>1 DEF Opening, n
      <3> QED
        BY <3>1, <3>2
    <2>4. ASSUME NEW v \in Workers, work'[v].pc \notin Early \cup Opening,
                 snap'[work'[v].session] = None
          PROVE  row'[sess'[work'[v].session].case] = None
      <3>1. CASE v # w
        <4>1. work'[v] = work[v] /\ work[v].session \in Sessions /\ sess[work[v].session] # None
          BY <1>3, <2>4, <3>1 DEF Agreed, Sound
        <4>2. snap[work[v].session] = None
          BY <1>4, <2>4, <4>1
        <4>3. row[sess[work[v].session].case] = None
          BY <2>1, <2>4, <4>1, <4>2 DEF Agreed, Unsaved
        <4> QED
          BY <1>1, <1>4, <4>1, <4>3
      <3>2. CASE v = w
        <4>1. work'[v].session = n /\ Loadable(n) /\ Started(n) \in Events(c)
          BY <1>1, <1>3, <2>4, <3>2 DEF Opening, n
        <4>2. snap[n] = None /\ sess[n] # None
          BY <1>1, <1>4, <2>4, <4>1 DEF Loadable
        <4> DEFINE o == sess[n].case
        <4>3. o \in Sources /\ sess'[n].case = o
          BY <1>1, <1>4, <4>2 DEF Agreed, TypeOK, Helds
        <4>4. lead[o] = c
          BY <1>1, <1>2, <4>1, <4>2 DEF Agreed, Homed, Owner, Held
        <4>5. PICK u \in Workers : u # w /\ work[u].pc \in Opening /\ work[u].case = o
          BY <1>1, <2>2, <4>2
        <4>6. u \in Busy /\ work[u].case # work[w].case
          BY <1>2, <4>5 DEF Busy, Opening, Inv, ClaimsTell
        <4>7. o # c
          BY <4>5, <4>6 DEF c
        <4>8. row[o] = None
          BY <4>3, <4>4, <4>7 DEF Agreed, Named
        <4> QED
          BY <1>1, <4>1, <4>3, <4>8
      <3> QED
        BY <3>1, <3>2
    <2> QED
      BY <2>3, <2>4
  <1>14. Kept'
    <2> SUFFICES ASSUME NEW d \in Live, NEW e \in Events(d), e.kind = "decided"
                 PROVE  /\ faults = 0 => snap'[e.session] # None
                        /\ faults <= 1 => Loadable(e.session)'
      BY <1>1, <1>8 DEF Kept
    <2>1. e.session \in Sessions
      <3>1. row[d] \in Rows
        BY DEF Live, Agreed, TypeOK
      <3>2. e \in Entries
        BY <3>1 DEF Events, Rows, Range
      <3> QED
        BY <3>2, EntryKinds
    <2> QED
      BY <1>4, <1>6, <2>1 DEF Agreed, Kept
  <1> QED
    BY <1>9, <1>10, <1>11, <1>12, <1>13, <1>14 DEF Agreed

\* The sessions resumed are loaded as they were held, the one opened was unused.
Stores(c, u, f, R, D, N) ==
    /\ c \in Sources /\ f \in Helds /\ f.case = c
    /\ R \subseteq Sessions /\ D \subseteq R /\ N \subseteq Unused
    /\ \A s \in R : Loadable(s) /\ u \in Helds /\ u.case = Owner(s)
    /\ sess' = [s \in Sessions |-> IF s \in R THEN u ELSE IF s \in N THEN f ELSE sess[s]]
    /\ snap' = [s \in Sessions |-> IF s \in D THEN u ELSE snap[s]]

LEMMA OpenedStores ==
    ASSUME Agreed, NEW c, NEW u, NEW f, NEW R, NEW D, NEW N, Stores(c, u, f, R, D, N)
    PROVE  /\ sess' \in [Sessions -> Helds \cup {None}] /\ snap' \in [Sessions -> Helds \cup {None}]
           /\ \A s \in R \cup N : sess'[s] # None
           /\ \A s \in Sessions :
                 /\ snap[s] # None => snap'[s] # None /\ snap'[s].case = snap[s].case
                 /\ snap'[s] # None => Loadable(s) /\ snap'[s].case = Owner(s)
                 /\ sess[s] # None => sess'[s] # None /\ sess'[s].case = sess[s].case
                 /\ sess'[s] # None => \/ Loadable(s) /\ sess'[s].case = Owner(s)
                                       \/ s \in N /\ sess'[s].case = c
  <1> USE DEF Stores
  <1>1. sess \in [Sessions -> Helds \cup {None}] /\ snap \in [Sessions -> Helds \cup {None}]
    BY DEF Agreed, TypeOK
  <1>2. /\ sess' \in [Sessions -> Helds \cup {None}] /\ snap' \in [Sessions -> Helds \cup {None}]
    BY <1>1 DEF Unused
  <1>3. N \subseteq Sessions /\ \A s \in N : sess[s] = None /\ snap[s] = None
    BY DEF Unused
  <1>4. f # None /\ None \notin Sessions /\ \A s \in R : u # None
    BY NoneAssumption, DeskAssumption
  <1>5. \A s \in Sessions : sess[s] # None => Loadable(s) /\ Owner(s) = sess[s].case
    BY <1>4 DEF Loadable, Owner, Held
  <1>6. \A s \in Sessions : snap[s] # None => Loadable(s) /\ Owner(s) = snap[s].case
    BY <1>4 DEF Loadable, Owner, Held, Agreed, Homed
  <1>7. \A s \in R \cup N : sess'[s] # None
    BY <1>3, <1>4
  <1>8. ASSUME NEW s \in Sessions
        PROVE  /\ snap[s] # None => snap'[s] # None /\ snap'[s].case = snap[s].case
               /\ snap'[s] # None => Loadable(s) /\ snap'[s].case = Owner(s)
    BY <1>4, <1>6
  <1>9. ASSUME NEW s \in Sessions
        PROVE  /\ sess[s] # None => sess'[s] # None /\ sess'[s].case = sess[s].case
               /\ sess'[s] # None => \/ Loadable(s) /\ sess'[s].case = Owner(s)
                                     \/ s \in N /\ sess'[s].case = c
    BY <1>3, <1>4, <1>5
  <1> QED
    BY <1>2, <1>7, <1>8, <1>9

LEMMA Unuseds ==
    ASSUME Unused # {}
    PROVE  NewSession \in Unused /\ NewSession \in Sessions
  <1>1. Unused \in SUBSET Nat /\ Unused \subseteq Sessions
    BY DEF Unused, Sessions
  <1>2. \E s \in Unused : \A t \in Unused : s <= t
    BY <1>1, Least
  <1> QED
    BY <1>1, <1>2 DEF NewSession

\* A session taken up keeps its case.
LEMMA ResumedHeld ==
    ASSUME Agreed, NEW c \in Live, NEW s \in Sessions, Loadable(s)
    PROVE  Resumed(s, c) \in Helds /\ Resumed(s, c).case = Owner(s)
  <1> DEFINE k == IF Held(s).class = None THEN LatestClass(c) ELSE Held(s).class
             u1 == [Held(s) EXCEPT !.scope = row[c].scope]
             u2 == [u1 EXCEPT !.class = k]
  <1>1. Held(s) \in Helds
    BY DEF Loadable, Held, Agreed, TypeOK
  <1>2. c \in Sources /\ row[c] \in Rows
    BY DEF Live, Agreed, TypeOK
  <1>3. row[c].scope \in Scopes
    BY <1>2 DEF Rows
  <1>4. k \in Classes \cup {None}
    <2>1. LatestClass(c) \in Classes \cup {None}
      BY <1>2, LatestTold
    <2> QED
      BY <1>1, <2>1 DEF Helds
  <1>5. Resumed(s, c) = u2
    BY <1>1 DEF Resumed, Helds
  <1> HIDE DEF k
  <1>6. u1 \in Helds /\ u1.case = Held(s).case
    BY <1>1, <1>3 DEF Helds
  <1> HIDE DEF u1
  <1>7. u2 \in Helds /\ u2.case = u1.case
    BY <1>4, <1>6 DEF Helds
  <1> HIDE DEF u2
  <1> QED
    BY <1>5, <1>6, <1>7 DEF Owner

\* The task of a worker that begins.
Enters(w, pc, s) == work' = [work EXCEPT ![w].pc = pc, ![w].session = s]

LEMMA BeginsTask ==
    ASSUME Inv, Agreed, NEW w \in Workers, work[w].pc = "start",
           NEW pc \in {"decide", "announce"}, NEW s \in Sessions, Enters(w, pc, s)
    PROVE  \E r \in Tasks : /\ Puts(w, r) /\ r.pc = pc /\ r.session = s
                            /\ r.case = work[w].case /\ r.stage # 4
  <1> DEFINE r1 == [work[w] EXCEPT !.pc = pc]
             r2 == [r1 EXCEPT !.session = s]
  <1>1. work[w] \in Tasks /\ work[w].stage # 4
    BY DEF Agreed, TypeOK, Tasks, Sound
  <1>2. work' = [work EXCEPT ![w] = r2]
    BY DEF Inv, Shape, Enters
  <1>3. pc \in Pcs
    BY DEF Pcs
  <1>4. r1 \in Tasks /\ r1.pc = pc /\ r1.case = work[w].case /\ r1.stage = work[w].stage
    BY <1>1, <1>3, TaskFields
  <1> HIDE DEF r1
  <1>5. r2 \in Tasks /\ r2.pc = pc /\ r2.case = work[w].case /\ r2.stage = work[w].stage
        /\ r2.session = s
    BY <1>4, TaskFields
  <1>6. Puts(w, r2)
    <2>1. Whole(r2)
      BY <1>5 DEF Whole, Tasks
    <2> HIDE DEF r2
    <2> QED
      BY <1>2, <2>1, Replaced DEF Inv
  <1> HIDE DEF r2
  <1> QED
    BY <1>1, <1>5, <1>6

LEMMA StartAgreed ==
    ASSUME Inv, Agreed, NEW w \in Workers, Start(w)
    PROVE  Agreed'
  <1> DEFINE c == work[w].case
             s == IF row[c] = None THEN None ELSE LatestSession(c)
             u == Resumed(s, c)
             f == Fresh(c)
             n == NewSession
  <1>1. work[w].pc = "start" /\ c \in Sources
    <2>1. w \in Busy
      BY DEF Start, Busy
    <2>2. c \in claimed
      BY <2>1 DEF Inv, ClaimsTell
    <2> QED
      BY <2>2 DEF Start, Agreed, TypeOK
  <1>2. UNCHANGED <<row, lead, queue, faults>>
    BY DEF Start
  <1>3. row[c] # None => /\ c \in Live /\ row[c] \in Rows
                         /\ f \in Helds /\ f.case = c
    <2> SUFFICES ASSUME row[c] # None
                 PROVE  c \in Live /\ row[c] \in Rows /\ f \in Helds /\ f.case = c
      OBVIOUS
    <2>1. c \in Live /\ row[c] \in Rows
      BY <1>1 DEF Live, Agreed, TypeOK
    <2>2. row[c].scope \in Scopes
      BY <2>1 DEF Rows
    <2> HIDE DEF c
    <2> QED
      BY <1>1, <2>1, <2>2 DEF Fresh, Helds
  <1>4. Loadable(s) => /\ row[c] # None /\ s \in Sessions /\ Started(s) \in Events(c)
                       /\ u \in Helds /\ u.case = Owner(s)
    <2> SUFFICES ASSUME Loadable(s)
                 PROVE  /\ row[c] # None /\ s \in Sessions /\ Started(s) \in Events(c)
                        /\ u \in Helds /\ u.case = Owner(s)
      OBVIOUS
    <2>1. row[c] # None /\ s = LatestSession(c) /\ s # None
      BY DEF Loadable
    <2> HIDE DEF s, c
    <2>2. s \in Sessions /\ Started(s) \in Events(c)
      BY <1>1, <1>3, <2>1, LatestTold
    <2>3. u \in Helds /\ u.case = Owner(s)
      BY <1>3, <2>1, <2>2, ResumedHeld
    <2> QED
      BY <2>1, <2>2, <2>3
  <1> HIDE DEF s, u, f, n
  <1>5. CASE row[c] = None /\ Finishes(w) /\ UNCHANGED <<sess, snap>>
    <2>1. UNCHANGED <<disk, sess, queue>> /\ faults' \in {faults, faults + 1}
      BY <1>2, <1>5 DEF disk
    <2>2. work[w].pc \in Early
      BY <1>1 DEF Early
    <2> QED
      BY <1>5, <2>1, <2>2, RestAgreed
  <1>6. CASE /\ Loadable(s)
             /\ sess' = [sess EXCEPT ![s] = u]
             /\ snap' = IF u = Held(s) THEN snap ELSE [snap EXCEPT ![s] = u]
             /\ work' = [work EXCEPT ![w].pc = "decide", ![w].session = s]
             /\ UNCHANGED claimed
    <2>1. PICK r \in Tasks : /\ Puts(w, r) /\ r.pc = "decide" /\ r.session = s
                             /\ r.case = c /\ r.stage # 4
      <3>1. Enters(w, "decide", s)
        BY <1>6 DEF Enters
      <3> QED
        BY <1>1, <1>4, <1>6, <3>1, BeginsTask
    <2> DEFINE D == IF u = Held(s) THEN {} ELSE {s}
               R == {s}
               N == {}
    <2>2. sess' = [t \in Sessions |-> IF t \in R THEN u ELSE IF t \in N THEN f ELSE sess[t]]
      BY <1>4, <1>6 DEF Agreed, TypeOK
    <2>3. snap' = [t \in Sessions |-> IF t \in D THEN u ELSE snap[t]]
      BY <1>4, <1>6 DEF Agreed, TypeOK
    <2>4. /\ sess' \in [Sessions -> Helds \cup {None}] /\ snap' \in [Sessions -> Helds \cup {None}]
          /\ sess'[s] # None
          /\ \A t \in Sessions :
                /\ snap[t] # None => snap'[t] # None /\ snap'[t].case = snap[t].case
                /\ snap'[t] # None => Loadable(t) /\ snap'[t].case = Owner(t)
                /\ sess[t] # None => sess'[t] # None /\ sess'[t].case = sess[t].case
                /\ sess'[t] # None => Loadable(t) /\ sess'[t].case = Owner(t)
      <3>1. R \in SUBSET Sessions /\ D \in SUBSET R /\ N \in SUBSET Unused
        BY <1>4, <1>6
      <3>2. \A t \in R : Loadable(t) /\ u \in Helds /\ u.case = Owner(t)
        BY <1>4, <1>6
      <3>3. f \in Helds /\ f.case = c
        BY <1>3, <1>4, <1>6
      <3>4. s \in R \cup N /\ \A t : t \notin N
        OBVIOUS
      <3> HIDE DEF D, c, R, N
      <3>5. Stores(c, u, f, R, D, N)
        BY <1>1, <2>2, <2>3, <3>1, <3>2, <3>3 DEF Stores
      <3> QED
        BY <3>4, <3>5, OpenedStores
    <2>5. Begins(w, r)
      BY <1>1, <1>2, <1>4, <1>6, <2>1, <2>4 DEF Begins
    <2> QED
      BY <2>5, BeginsAgreed
  <1>7. CASE /\ Loadable(s) /\ Unused # {}
             /\ sess' = [sess EXCEPT ![s] = u, ![n] = f]
             /\ Opens(w, n)
             /\ snap' = [snap EXCEPT ![s] = u]
             /\ UNCHANGED claimed
    <2>1. n \in Unused /\ n \in Sessions /\ ~Loadable(n)
      <3>1. n \in Unused /\ n \in Sessions
        BY <1>7, Unuseds DEF n
      <3> QED
        BY <3>1 DEF Unused, Loadable
    <2>2. PICK r \in Tasks : /\ Puts(w, r) /\ r.pc = "announce" /\ r.session = n
                             /\ r.case = c /\ r.stage # 4
      <3>1. Enters(w, "announce", n)
        BY <1>7 DEF Enters, Opens
      <3> QED
        BY <1>1, <2>1, <3>1, BeginsTask
    <2> DEFINE R == {s}
               N == {n}
    <2>3. sess' = [t \in Sessions |-> IF t \in R THEN u ELSE IF t \in N THEN f ELSE sess[t]]
      <3>1. s # n
        BY <1>7, <2>1
      <3> QED
        BY <1>4, <1>7, <2>1, <3>1 DEF Agreed, TypeOK
    <2>4. snap' = [t \in Sessions |-> IF t \in R THEN u ELSE snap[t]]
      BY <1>4, <1>7 DEF Agreed, TypeOK
    <2>5. /\ sess' \in [Sessions -> Helds \cup {None}] /\ snap' \in [Sessions -> Helds \cup {None}]
          /\ sess'[n] # None
          /\ \A t \in Sessions :
                /\ snap[t] # None => snap'[t] # None /\ snap'[t].case = snap[t].case
                /\ snap'[t] # None => Loadable(t) /\ snap'[t].case = Owner(t)
                /\ sess[t] # None => sess'[t] # None /\ sess'[t].case = sess[t].case
                /\ sess'[t] # None => \/ Loadable(t) /\ sess'[t].case = Owner(t)
                                      \/ t = n /\ sess'[t].case = c
      <3>1. R \in SUBSET Sessions /\ R \in SUBSET R /\ N \in SUBSET Unused
        BY <1>4, <1>7, <2>1
      <3>2. \A t \in R : Loadable(t) /\ u \in Helds /\ u.case = Owner(t)
        BY <1>4, <1>7
      <3>3. f \in Helds /\ f.case = c
        BY <1>3, <1>4, <1>7
      <3>4. n \in R \cup N /\ \A t : t \in N <=> t = n
        OBVIOUS
      <3> HIDE DEF c, R, N
      <3>5. Stores(c, u, f, R, R, N)
        BY <1>1, <2>3, <2>4, <3>1, <3>2, <3>3 DEF Stores
      <3> QED
        BY <3>4, <3>5, OpenedStores
    <2>6. Begins(w, r)
      BY <1>1, <1>2, <1>4, <1>7, <2>1, <2>2, <2>5 DEF Begins
    <2> QED
      BY <2>6, BeginsAgreed
  <1>8. CASE /\ row[c] # None /\ Unused # {}
             /\ sess' = [sess EXCEPT ![n] = f]
             /\ Opens(w, n)
             /\ UNCHANGED <<snap, claimed>>
    <2>1. n \in Unused /\ n \in Sessions
      BY <1>8, Unuseds DEF n
    <2>2. PICK r \in Tasks : /\ Puts(w, r) /\ r.pc = "announce" /\ r.session = n
                             /\ r.case = c /\ r.stage # 4
      <3>1. Enters(w, "announce", n)
        BY <1>8 DEF Enters, Opens
      <3> QED
        BY <1>1, <2>1, <3>1, BeginsTask
    <2> DEFINE R == {}
               N == {n}
    <2>3. sess' = [t \in Sessions |-> IF t \in R THEN u ELSE IF t \in N THEN f ELSE sess[t]]
      BY <1>8, <2>1 DEF Agreed, TypeOK
    <2>4. snap' = [t \in Sessions |-> IF t \in R THEN u ELSE snap[t]]
      BY <1>8 DEF Agreed, TypeOK
    <2>5. /\ sess' \in [Sessions -> Helds \cup {None}] /\ snap' \in [Sessions -> Helds \cup {None}]
          /\ sess'[n] # None
          /\ \A t \in Sessions :
                /\ snap[t] # None => snap'[t] # None /\ snap'[t].case = snap[t].case
                /\ snap'[t] # None => Loadable(t) /\ snap'[t].case = Owner(t)
                /\ sess[t] # None => sess'[t] # None /\ sess'[t].case = sess[t].case
                /\ sess'[t] # None => \/ Loadable(t) /\ sess'[t].case = Owner(t)
                                      \/ t = n /\ sess'[t].case = c
      <3>1. R \in SUBSET Sessions /\ R \in SUBSET R /\ N \in SUBSET Unused
        BY <2>1
      <3>2. \A t \in R : Loadable(t) /\ u \in Helds /\ u.case = Owner(t)
        OBVIOUS
      <3>3. f \in Helds /\ f.case = c
        BY <1>3, <1>8
      <3>4. n \in R \cup N /\ \A t : t \in N <=> t = n
        OBVIOUS
      <3> HIDE DEF c, R, N
      <3>5. Stores(c, u, f, R, R, N)
        BY <1>1, <2>3, <2>4, <3>1, <3>2, <3>3 DEF Stores
      <3> QED
        BY <3>4, <3>5, OpenedStores
    <2>6. Begins(w, r)
      BY <1>1, <1>2, <1>8, <2>1, <2>2, <2>5 DEF Begins
    <2> QED
      BY <2>6, BeginsAgreed
  <1> QED
    BY <1>4, <1>5, <1>6, <1>7, <1>8 DEF Start, s, u, f, n

-----------------------------------------------------------------------------
(* Cases are gathered into one.                                            *)

\* The cases D, of which c is one unless it is new, become c; what led to them leads
\* to c.
Gathers(c, D) ==
    /\ c \in Sources /\ D \subseteq Live
    /\ c \in D \/ (D = {} /\ lead[c] = None)
    /\ row' \in [Sources -> Rows \cup {None}] /\ lead' \in [Sources -> Sources \cup {None}]
    /\ row'[c] # None
    /\ Events(c)' = UNION {Events(d) : d \in D}
    /\ \A d \in Sources : d # c => row'[d] = IF d \in D THEN None ELSE row[d]
    /\ lead'[c] = c
    /\ \A y \in Sources : /\ lead[y] \in D => lead'[y] = c
                          /\ lead[y] # None /\ lead[y] \notin D => lead'[y] = lead[y]
                          /\ lead'[y] \in {c, lead[y]}
    /\ UNCHANGED <<snap, process, faults>>

LEMMA GathersAgreed ==
    ASSUME Agreed, NEW c, NEW D, Gathers(c, D)
    PROVE  Agreed'
  <1>1. /\ c \in Sources /\ D \subseteq Live
        /\ c \in D \/ (D = {} /\ lead[c] = None)
        /\ row' \in [Sources -> Rows \cup {None}] /\ lead' \in [Sources -> Sources \cup {None}]
        /\ row'[c] # None /\ lead'[c] = c
        /\ Events(c)' = UNION {Events(d) : d \in D}
        /\ \A d \in Sources : d # c => row'[d] = IF d \in D THEN None ELSE row[d]
        /\ \A y \in Sources : /\ lead[y] \in D => lead'[y] = c
                              /\ lead[y] # None /\ lead[y] \notin D => lead'[y] = lead[y]
                              /\ lead'[y] \in {c, lead[y]}
    BY DEF Gathers
  <1>2. UNCHANGED <<snap, sess, work, faults, claimed, queue>>
    BY DEF Gathers, process
  <1>3. TypeOK'
    BY <1>1, <1>2 DEF Agreed, TypeOK
  <1>4. Sound'
    BY <1>2 DEF Agreed, Sound
  <1>5. /\ \A s : Loadable(s)' <=> Loadable(s)
        /\ \A s : Owner(s)' = Owner(s)
    BY <1>2 DEF Loadable, Owner, Held
  <1>6. c \in Sources /\ None \notin Sources
    <2>1. None \notin Sources
      BY DeskAssumption
    <2> QED
      BY <1>1, <2>1
  <1>7. \A d \in D : d \in Sources /\ row[d] # None /\ lead[d] = d
    BY <1>1 DEF Live, Agreed, Named
  <1>8. \A d \in Live' : d = c \/ (d # c /\ d \in Live /\ d \notin D /\ Events(d)' = Events(d))
    BY <1>1 DEF Live, Events
  <1>9. Named'
    <2>1. ASSUME NEW d \in Sources
          PROVE  row'[d] # None <=> lead'[d] = d
      <3>1. CASE d = c
        BY <1>1, <3>1
      <3>2. CASE d # c /\ d \in D
        BY <1>1, <1>7, <3>2
      <3>3. CASE d # c /\ d \notin D
        <4>1. row'[d] = row[d]
          BY <1>1, <3>3
        <4>2. lead'[d] = d <=> lead[d] = d
          BY <1>1, <1>6, <3>3
        <4> QED
          BY <4>1, <4>2 DEF Agreed, Named
      <3> QED
        BY <3>1, <3>2, <3>3
    <2>2. ASSUME NEW x \in Sources, lead'[x] # None
          PROVE  row'[lead'[x]] # None
      <3>1. CASE lead'[x] = c
        BY <1>1, <3>1
      <3>2. CASE lead'[x] # c
        <4>1. lead'[x] = lead[x] /\ lead[x] \notin D /\ lead[x] # None
          BY <1>1, <2>2, <3>2
        <4>2. lead[x] \in Sources /\ row[lead[x]] # None
          BY <4>1 DEF Agreed, Named, TypeOK
        <4> QED
          BY <1>1, <3>2, <4>1, <4>2
      <3> QED
        BY <3>1, <3>2
    <2> QED
      BY <2>1, <2>2 DEF Named
  <1>10. Homed'
    <2> SUFFICES ASSUME NEW s \in Sessions
                 PROVE  /\ Loadable(s)' => lead'[Owner(s)'] # None
                        /\ sess'[s] # None /\ snap'[s] # None => sess'[s].case = snap'[s].case
                        /\ \A d \in Live' : Loadable(s)' /\ Started(s) \in Events(d)' =>
                              lead'[Owner(s)'] = d
      BY DEF Homed
    <2>1. sess'[s] # None /\ snap'[s] # None => sess'[s].case = snap'[s].case
      BY <1>2 DEF Agreed, Homed
    <2>2. ASSUME Loadable(s)
          PROVE  /\ lead'[Owner(s)] # None
                 /\ \A d \in Live' : Started(s) \in Events(d)' => lead'[Owner(s)] = d
      <3>1. Owner(s) \in Sources
        BY <2>2 DEF Loadable, Owner, Held, Agreed, TypeOK, Helds
      <3>2. lead[Owner(s)] # None
        BY <2>2 DEF Agreed, Homed
      <3>3. lead'[Owner(s)] # None
        BY <1>1, <1>6, <3>1, <3>2
      <3>4. ASSUME NEW d \in Live', Started(s) \in Events(d)'
            PROVE  lead'[Owner(s)] = d
        <4>1. CASE d = c
          <5>1. PICK b \in D : Started(s) \in Events(b)
            BY <1>1, <3>4, <4>1
          <5>2. lead[Owner(s)] = b
            BY <1>1, <2>2, <5>1 DEF Agreed, Homed
          <5> QED
            BY <1>1, <3>1, <4>1, <5>2
        <4>2. CASE d # c
          <5>1. d \in Live /\ d \notin D /\ Started(s) \in Events(d)
            BY <1>8, <3>4, <4>2
          <5>2. lead[Owner(s)] = d
            BY <2>2, <5>1 DEF Agreed, Homed
          <5> QED
            BY <1>1, <3>1, <3>2, <5>1, <5>2
        <4> QED
          BY <4>1, <4>2
      <3> QED
        BY <3>3, <3>4
    <2> QED
      BY <1>5, <2>1, <2>2
  <1>11. Unsaved'
    <2> SUFFICES ASSUME faults = 0
                 PROVE  /\ \A s \in Sessions : sess[s] # None /\ snap[s] = None =>
                              \E v \in Workers : /\ work[v].pc \in Opening /\ work[v].session = s
                                                 /\ work[v].case = sess[s].case
                        /\ \A v \in Workers :
                              work[v].pc \notin Early \cup Opening /\ snap[work[v].session] = None =>
                                  row'[sess[work[v].session].case] = None
      BY <1>2 DEF Unsaved
    <2>1. ASSUME NEW v \in Workers, work[v].pc \notin Early \cup Opening, snap[work[v].session] = None
          PROVE  row'[sess[work[v].session].case] = None
      <3> DEFINE s == work[v].session
                 o == sess[s].case
      <3>1. s \in Sessions /\ sess[s] # None /\ row[o] = None
        BY <2>1 DEF Agreed, Sound, Unsaved
      <3>2. o \in Sources /\ Loadable(s) /\ Owner(s) = o
        BY <3>1, DeskAssumption DEF Agreed, TypeOK, Helds, Loadable, Owner, Held
      <3>3. lead[o] # None
        BY <3>1, <3>2 DEF Agreed, Homed
      <3> HIDE DEF o
      <3>4. o # c /\ o \notin D
        BY <1>1, <1>7, <3>1, <3>3
      <3> QED
        BY <1>1, <3>1, <3>2, <3>4 DEF o
    <2> QED
      BY <2>1 DEF Agreed, Unsaved
  <1>12. Kept'
    <2> SUFFICES ASSUME NEW d \in Live', NEW e \in Events(d)', e.kind = "decided"
                 PROVE  /\ faults = 0 => snap[e.session] # None
                        /\ faults <= 1 => Loadable(e.session)
      BY <1>2, <1>5 DEF Kept
    <2>1. PICK b \in Live : e \in Events(b)
      BY <1>1, <1>8
    <2> QED
      BY <2>1 DEF Agreed, Kept
  <1> QED
    BY <1>3, <1>4, <1>9, <1>10, <1>11, <1>12 DEF Agreed

\* ingest() gathers the cases its sources lead to.
LEMMA IngestedGathers ==
    ASSUME Agreed, NEW x \in Sources, NEW c \in Sources, NEW f \in Facts,
           NEW refs \in SUBSET Sources, x \in refs, Ingested(x, c, f, refs),
           UNCHANGED <<snap, process, faults>>
    PROVE  \E D : Gathers(c, D)
  <1> DEFINE D == {lead[y] : y \in refs} \ {None}
  <1>1. D \subseteq Live /\ IsFiniteSet(D)
    <2>1. D \subseteq Live
      BY DEF Live, Agreed, Named, TypeOK
    <2>2. IsFiniteSet(Sources)
      BY DeskAssumption, FS_Union DEF Sources
    <2>3. Live \subseteq Sources
      BY DEF Live
    <2>4. IsFiniteSet(D)
      <3> HIDE DEF D
      <3> QED
        BY <2>1, <2>2, <2>3, FS_Subset
    <2> QED
      BY <2>1, <2>4
  <1>2. lead' = [y \in Sources |-> IF y \in refs \/ lead[y] \in D THEN c ELSE lead[y]]
    BY DEF Ingested
  <1>3. TypeOK /\ \A y \in refs : lead[y] # None => lead[y] \in D
    BY DEF Agreed
  <1>4. CASE D = {}
    <2>1. c = x /\ row' = [row EXCEPT ![c] = NewRow(f)]
      BY <1>4 DEF Ingested
    <2>2. lead[c] = None
      BY <1>3, <1>4, <2>1
    <2>3. NewRow(f) \in Rows /\ NewRow(f) # None /\ Range(NewRow(f).trail) = {}
      <3>1. NewRow(f) \in Rows
        BY DEF NewRow, Rows, Statuses, Facts
      <3>2. NewRow(f).trail = <<>>
        BY DEF NewRow
      <3> QED
        BY <3>1, <3>2, NoneAssumption DEF Range
    <2>4. /\ row' \in [Sources -> Rows \cup {None}] /\ row'[c] = NewRow(f)
          /\ \A d \in Sources : d # c => row'[d] = row[d]
      BY <1>3, <2>1, <2>3 DEF TypeOK
    <2>5. Events(c)' = {}
      BY <2>3, <2>4 DEF Events
    <2>6. /\ lead' \in [Sources -> Sources \cup {None}] /\ lead'[c] = c
          /\ \A y \in Sources : /\ lead[y] # None => lead'[y] = lead[y]
                                /\ lead'[y] \in {c, lead[y]}
      BY <1>2, <1>3, <1>4, <2>1 DEF TypeOK
    <2>7. Gathers(c, {})
      BY <2>2, <2>3, <2>4, <2>5, <2>6 DEF Gathers
    <2> QED
      BY <2>7
  <1>5. CASE D # {}
    <2>1. PICK order \in SetToSeqs(D \ {c}) :
             /\ c \in D
             /\ row' = [d \in Sources |-> IF d = c THEN MergedRow(c, order, f)
                                          ELSE IF d \in D THEN None ELSE row[d]]
      BY <1>5 DEF Ingested
    <2>2. /\ c \in Live /\ D \ {c} \in SUBSET Live /\ IsFiniteSet(D \ {c})
      <3> HIDE DEF D
      <3> QED
        BY <1>1, <2>1, FS_Difference
    <2>3. /\ MergedRow(c, order, f) \in Rows
          /\ Range(MergedRow(c, order, f).trail) = UNION {Events(d) : d \in (D \ {c}) \cup {c}}
      <3> DEFINE S == D \ {c}
      <3>1. order \in SetToSeqs(S) /\ S \in SUBSET Live /\ IsFiniteSet(S)
        BY <2>1, <2>2
      <3> HIDE DEF S
      <3>2. /\ MergedRow(c, order, f) \in Rows
            /\ Range(MergedRow(c, order, f).trail) = UNION {Events(d) : d \in S \cup {c}}
        BY <1>3, <2>2, <3>1, Merging
      <3> QED
        BY <3>2 DEF S
    <2> HIDE DEF D
    <2>4. (D \ {c}) \cup {c} = D
      BY <2>1
    <2> DEFINE m == MergedRow(c, order, f)
    <2> HIDE DEF m
    <2>5. m \in Rows /\ m # None /\ Range(m.trail) = UNION {Events(d) : d \in D}
      BY <2>3, <2>4, NoneAssumption DEF m
    <2>6. /\ row' \in [Sources -> Rows \cup {None}] /\ row'[c] = m
          /\ \A d \in Sources : d # c => row'[d] = IF d \in D THEN None ELSE row[d]
      BY <1>3, <2>1, <2>5 DEF TypeOK, m
    <2>7. Events(c)' = UNION {Events(d) : d \in D}
      BY <2>5, <2>6 DEF Events
    <2>8. lead[c] = c /\ None \notin D
      BY <1>1, <2>1, <2>2 DEF Live, Agreed, Named, D
    <2>9. /\ lead' \in [Sources -> Sources \cup {None}] /\ lead'[c] = c
          /\ \A y \in Sources : /\ lead[y] \in D => lead'[y] = c
                                /\ lead[y] # None /\ lead[y] \notin D => lead'[y] = lead[y]
                                /\ lead'[y] \in {c, lead[y]}
      BY <1>2, <1>3, <2>1, <2>8 DEF TypeOK
    <2>10. Gathers(c, D)
      BY <1>1, <2>1, <2>5, <2>6, <2>7, <2>9 DEF Gathers
    <2> QED
      BY <2>10
  <1> QED
    BY <1>4, <1>5

LEMMA LandsGathers ==
    ASSUME Agreed, NEW x \in Alerts, AlertLands(x)
    PROVE  \E c, D : Gathers(c, D)
  <1>1. lead[x] = None /\ x \in Sources /\ UNCHANGED <<snap, process, faults>>
    BY DEF AlertLands, Sources
  <1>2. CASE \E f \in Facts : Ingested(x, x, f, {x})
    <2>1. {x} \in SUBSET Sources /\ x \in {x}
      BY <1>1
    <2> QED
      BY <1>1, <1>2, <2>1, IngestedGathers
  <1>3. CASE \E c \in Live, f \in Facts :
                /\ row' = [row EXCEPT ![c].scope = f.scope, ![c].grade = f.grade]
                /\ lead' = [lead EXCEPT ![x] = c]
    <2>1. PICK c \in Live, f \in Facts :
                /\ row' = [row EXCEPT ![c].scope = f.scope, ![c].grade = f.grade]
                /\ lead' = [lead EXCEPT ![x] = c]
      BY <1>3
    <2> DEFINE r1 == [row[c] EXCEPT !.scope = f.scope]
               r == [r1 EXCEPT !.grade = f.grade]
    <2>2. c \in Sources /\ row[c] \in Rows /\ row[c] # None /\ lead[c] = c
      BY DEF Live, Agreed, TypeOK, Named
    <2>3. r \in Rows /\ r.trail = row[c].trail /\ r # None
      <3>1. r1 \in Rows /\ r1.trail = row[c].trail
        BY <2>2 DEF Rows, Facts
      <3> HIDE DEF r1
      <3> QED
        BY <3>1, NoneAssumption DEF Rows, Facts
    <2>4. row' = [row EXCEPT ![c] = r]
      <3>1. \A d \in Sources : row'[d] = IF d = c THEN r ELSE row[d]
        BY <2>1, <2>2 DEF Agreed, TypeOK
      <3> HIDE DEF r
      <3> QED
        BY <2>1, <2>2, <3>1 DEF Agreed, TypeOK
    <2> HIDE DEF r
    <2>5. /\ row' \in [Sources -> Rows \cup {None}] /\ row'[c] = r
          /\ \A d \in Sources : d # c => row'[d] = row[d]
      BY <2>2, <2>3, <2>4 DEF Agreed, TypeOK
    <2>6. Events(c)' = UNION {Events(d) : d \in {c}}
      BY <2>3, <2>5 DEF Events
    <2>7. x # c
      BY <1>1, <2>2, DeskAssumption
    <2>8. /\ lead' \in [Sources -> Sources \cup {None}] /\ lead'[c] = c
          /\ \A y \in Sources : /\ lead[y] \in {c} => lead'[y] = c
                                /\ lead[y] # None /\ lead[y] \notin {c} => lead'[y] = lead[y]
                                /\ lead'[y] \in {c, lead[y]}
      BY <1>1, <2>1, <2>2, <2>7 DEF Agreed, TypeOK
    <2>9. Gathers(c, {c})
      BY <1>1, <2>2, <2>3, <2>5, <2>6, <2>8 DEF Gathers
    <2> QED
      BY <2>9
  <1> QED
    BY <1>2, <1>3 DEF AlertLands

LEMMA SuggestionGathers ==
    ASSUME Agreed, NEW x \in Suggestions, NEW related \in SUBSET Sources, SuggestionLands(x, related)
    PROVE  \E c, D : Gathers(c, D)
  <1>1. x \in Sources /\ related \cup {x} \in SUBSET Sources /\ x \in related \cup {x}
    BY DEF Sources
  <1>2. PICK c \in Sources, f \in Facts : Ingested(x, c, f, related \cup {x})
    BY DEF SuggestionLands
  <1>3. UNCHANGED <<snap, process, faults>>
    BY DEF SuggestionLands
  <1> QED
    BY <1>1, <1>2, <1>3, IngestedGathers

-----------------------------------------------------------------------------
(* The process starts again: what was saved before the first fault remains. *)

\* A trail keeps its events, but for decisions said again in it.
Cleans ==
    /\ row' \in [Sources -> Rows \cup {None}]
    /\ \A d \in Sources : row'[d] = None <=> row[d] = None
    /\ \A d \in Live :
          /\ Events(d)' \subseteq Events(d)
          /\ \A i \in DOMAIN row[d].trail :
                \/ row[d].trail[i] \in Events(d)'
                \/ SaidAgain(d, i) \cap Events(d)' # {}

LEMMA CrashCleans ==
    ASSUME TypeOK, Crash
    PROVE  Cleans
  <1>1. CASE UNCHANGED row
    <2>1. \A d \in Live : Events(d)' = Events(d)
      BY <1>1 DEF Events
    <2>2. \A d \in Live : \A i \in DOMAIN row[d].trail : row[d].trail[i] \in Events(d)
      BY DEF Events, Range
    <2> QED
      BY <1>1, <2>1, <2>2 DEF Cleans, TypeOK
  <1>2. CASE \E scopes \in [Live -> Scopes] : row' = Cleaned(scopes)
    <2>1. PICK scopes \in [Live -> Scopes] : row' = Cleaned(scopes)
      BY <1>2
    <2>2. \A d \in Sources : row[d] = None => row'[d] = None
      BY <2>1 DEF Cleaned
    <2>3. ASSUME NEW d \in Live
          PROVE  row'[d] \in Rows /\ row'[d] # None /\ row'[d].trail = Compacted(d)
      <3> DEFINE r1 == [row[d] EXCEPT !.trail = Compacted(d)]
                 r == [r1 EXCEPT !.scope = scopes[d]]
      <3>1. row[d] \in Rows /\ row[d] # None /\ d \in Sources
        BY <2>3 DEF Live, TypeOK
      <3>2. Compacted(d) \in Seq(Entries) /\ scopes[d] \in Scopes
        BY <2>3, Compacting
      <3>3. row'[d] = r
        BY <2>1, <3>1 DEF Cleaned
      <3>4. r1 \in Rows /\ r1.trail = Compacted(d)
        BY <3>1, <3>2 DEF Rows
      <3> HIDE DEF r1
      <3>5. r \in Rows /\ r.trail = r1.trail
        BY <3>2, <3>4 DEF Rows
      <3> QED
        BY <3>3, <3>4, <3>5, NoneAssumption
    <2>4. row' = [d \in Sources |-> row'[d]]
      BY <2>1 DEF Cleaned
    <2>5. \A d \in Sources : d \in Live <=> row[d] # None
      BY DEF Live
    <2>6. row' \in [Sources -> Rows \cup {None}]
      BY <2>2, <2>3, <2>4, <2>5
    <2>7. \A d \in Live : Events(d)' = Range(Compacted(d))
      BY <2>3 DEF Events
    <2> QED
      BY <2>2, <2>3, <2>5, <2>6, <2>7, Compacting DEF Cleans
  <1> QED
    BY <1>1, <1>2 DEF Crash

LEMMA CrashAgreed ==
    ASSUME Agreed, Crash
    PROVE  Agreed'
  <1>1. /\ UNCHANGED <<lead, snap>> /\ faults' = faults + 1 /\ faults \in Nat
        /\ sess' = [s \in Sessions |-> None] /\ claimed' = {} /\ queue' = <<>>
        /\ work' = [w \in Workers |-> Idle]
    BY DEF Crash, Agreed, Sound
  <1>2. faults' \in Nat /\ faults' # 0 /\ (faults' <= 1 => faults = 0)
    BY <1>1
  <1>3. Idle \in Tasks /\ Idle.pc = "idle"
    BY DEF Idle, Tasks, Pcs
  <1>4. TypeOK'
    <2>1. work' \in [Workers -> Tasks]
      BY <1>1, <1>3
    <2>2. row' \in [Sources -> Rows \cup {None}]
      BY CrashCleans DEF Agreed, Cleans
    <2> QED
      BY <1>1, <2>1, <2>2 DEF Agreed, TypeOK, Tasks
  <1>5. Sound'
    BY <1>1, <1>2, <1>3 DEF Sound, Early, Opening
  <1>6. Named'
    <2>1. \A x \in Sources : lead[x] # None => lead[x] \in Sources
      BY DEF Agreed, TypeOK
    <2> QED
      BY <1>1, <2>1, CrashCleans DEF Agreed, Named, Cleans
  <1>7. Live' = Live /\ \A c \in Live : Events(c)' \subseteq Events(c)
    BY CrashCleans DEF Agreed, Cleans, Live
  <1>8. ASSUME NEW s \in Sessions
        PROVE  /\ sess'[s] = None /\ (Loadable(s)' <=> snap[s] # None)
               /\ snap[s] # None => Loadable(s) /\ Owner(s)' = Owner(s)
    <2>1. s # None /\ sess'[s] = None
      BY <1>1, DeskAssumption
    <2>2. Loadable(s)' <=> snap[s] # None
      BY <1>1, <2>1 DEF Loadable
    <2>3. snap[s] # None => Loadable(s) /\ Owner(s) = snap[s].case
      BY <2>1 DEF Loadable, Owner, Held, Agreed, Homed
    <2>4. Owner(s)' = snap[s].case
      BY <1>1, <2>1 DEF Owner, Held
    <2> QED
      BY <2>1, <2>2, <2>3, <2>4
  <1>9. Homed'
    BY <1>1, <1>7, <1>8 DEF Agreed, Homed
  <1>10. Unsaved'
    BY <1>2 DEF Unsaved
  <1>11. Kept'
    <2> SUFFICES ASSUME NEW c \in Live, NEW e \in Events(c), e.kind = "decided", faults = 0
                 PROVE  Loadable(e.session)'
      BY <1>2, <1>7 DEF Kept
    <2>1. e.session \in Sessions
      <3>1. row[c] \in Rows
        BY DEF Live, Agreed, TypeOK
      <3>2. e \in Entries
        BY <3>1 DEF Events, Rows, Range
      <3> QED
        BY <3>2, EntryKinds
    <2> QED
      BY <1>8, <2>1 DEF Agreed, Kept
  <1> QED
    BY <1>4, <1>5, <1>6, <1>9, <1>10, <1>11 DEF Agreed

\* Every step leaves the records as they were, works on a session, gathers cases or
\* loses the process.
LEMMA WorkerSteps ==
    ASSUME Inv, Agreed, NEW w \in Workers, Step(w) \/ Raise(w)
    PROVE  \/ \E r, E : Works(w, r, E)
           \/ Agreed' /\ UNCHANGED <<row, lead>>
  <1>1. CASE Take(w)
    BY <1>1, TakeAgreed DEF Take, disk
  <1>2. CASE Start(w)
    BY <1>2, StartAgreed DEF Start
  <1>3. CASE Announce(w)
    BY <1>3, AnnounceWorks
  <1>4. CASE Save(w)
    BY <1>4, SaveWorks
  <1>5. CASE Decide(w)
    BY <1>5, DecideWorks
  <1>6. CASE Persist(w)
    BY <1>6, PersistWorks
  <1>7. CASE Reason(w)
    BY <1>7, ReasonWorks
  <1>8. CASE Act(w)
    BY <1>8, ActWorks
  <1>9. CASE Readback(w)
    BY <1>9, ReadbackWorks
  <1>10. CASE Report(w)
    BY <1>10, ReportWorks
  <1>11. CASE Raise(w)
    <2>1. CASE work[w].pc \notin Early
      BY <1>11, <2>1, RaiseWorks
    <2>2. CASE work[w].pc \in Early
      <3>1. Finishes(w) /\ UNCHANGED <<disk, sess, queue>> /\ faults' \in {faults, faults + 1}
        BY <1>11 DEF Raise
      <3> QED
        BY <2>2, <3>1, RestAgreed DEF disk
    <2> QED
      BY <2>1, <2>2
  <1> QED
    BY <1>1, <1>2, <1>3, <1>4, <1>5, <1>6, <1>7, <1>8, <1>9, <1>10, <1>11 DEF Step

LEMMA DispatchAgreed ==
    ASSUME Agreed, NEW c \in Sources, Dispatch(c)
    PROVE  Agreed' /\ UNCHANGED <<row, lead>>
  <1>1. /\ UNCHANGED <<disk, sess, work, faults>> /\ claimed' = claimed \cup {c}
        /\ queue' = Append(queue, c)
    BY DEF Dispatch
  <1>2. claimed' \subseteq Sources /\ queue' \in Seq(Sources)
    BY <1>1 DEF Agreed, TypeOK
  <1> QED
    BY <1>1, <1>2, AgreedSame DEF disk

LEMMA NextAgreed == Inv /\ Agreed /\ [Next]_vars => Agreed'
  <1> SUFFICES ASSUME Inv, Agreed, [Next]_vars PROVE Agreed'
    OBVIOUS
  <1>1. CASE UNCHANGED vars
    <2>1. claimed' \subseteq Sources /\ queue' \in Seq(Sources)
      BY <1>1 DEF vars, process, Agreed, TypeOK
    <2> QED
      BY <1>1, <2>1, AgreedSame DEF vars, process
  <1>2. CASE \E x \in Alerts : AlertLands(x)
    BY <1>2, LandsGathers, GathersAgreed
  <1>3. CASE \E x \in Suggestions, related \in SUBSET Sources : SuggestionLands(x, related)
    BY <1>3, SuggestionGathers, GathersAgreed
  <1>4. CASE \E c \in Sources : Dispatch(c)
    BY <1>4, DispatchAgreed
  <1>5. CASE \E w \in Workers : Step(w) \/ Raise(w)
    BY <1>5, WorkerSteps, WorksAgreed
  <1>6. CASE Crash
    BY <1>6, CrashAgreed
  <1> QED
    BY <1>1, <1>2, <1>3, <1>4, <1>5, <1>6 DEF Next

\* What the stores say agrees: every source of the index leads to a case there is,
\* every case is led to, and a decision in a trail of CaseRepository is of a session
\* that investigate.py can still load, as long as there was no more than one failed
\* write, exception or death of the process, however merges, workers and that one
\* failure interleave.
THEOREM RecordsAgreed == Spec => []RecordsAgree
  <1>1. Agreed => RecordsAgree
    <2> SUFFICES ASSUME Agreed PROVE RecordsAgree
      OBVIOUS
    <2>1. \A c \in Live : \E x \in Sources : lead[x] = c
      BY DEF Agreed, Named, Live
    <2>2. Indexed
      BY <2>1 DEF Agreed, Named, Indexed
    <2> QED
      BY <2>2 DEF Agreed, Kept, RecordsAgree
  <1>2. Init => Inv /\ Agreed
    BY InitInv, AgreedInit
  <1>3. Inv /\ Agreed /\ [Next]_vars => (Inv /\ Agreed)'
    BY NextInv, NextAgreed
  <1> QED
    BY <1>1, <1>2, <1>3, PTL DEF Spec

-----------------------------------------------------------------------------
(* No source and no event is lost.                                         *)
Keeps == \A x \in Sources : lead[x] # None =>
             /\ lead'[x] # None
             /\ \A i \in DOMAIN row[lead[x]].trail :
                   \/ row[lead[x]].trail[i] \in Events(lead[x])'
                   \/ Crash /\ SaidAgain(lead[x], i) \cap Events(lead[x])' # {}

LEMMA AllKept ==
    ASSUME \A x \in Sources : lead[x] # None =>
               lead'[x] # None /\ Events(lead[x]) \subseteq Events(lead[x])'
    PROVE  Keeps
  <1>1. \A c : \A i \in DOMAIN row[c].trail : row[c].trail[i] \in Events(c)
    BY DEF Events, Range
  <1> QED
    BY <1>1 DEF Keeps

LEMMA SameKeeps ==
    ASSUME UNCHANGED <<row, lead>>
    PROVE  Keeps
  <1>1. \A x \in Sources : lead[x] # None =>
            lead'[x] # None /\ Events(lead[x]) \subseteq Events(lead[x])'
    BY DEF Events
  <1> QED
    BY <1>1, AllKept

LEMMA CrashKeeps ==
    ASSUME Agreed, Crash
    PROVE  Keeps
  <1> SUFFICES ASSUME NEW x \in Sources, lead[x] # None
               PROVE  /\ lead'[x] # None
                      /\ \A i \in DOMAIN row[lead[x]].trail :
                            \/ row[lead[x]].trail[i] \in Events(lead[x])'
                            \/ SaidAgain(lead[x], i) \cap Events(lead[x])' # {}
    BY DEF Keeps
  <1>1. lead[x] \in Live
    BY DEF Agreed, Named, TypeOK, Live
  <1>2. lead' = lead
    BY DEF Crash
  <1>3. Events(lead[x])' = Range(row'[lead[x]].trail) /\ \A d : Events(d)' = Range(row'[d].trail)
    BY <1>2 DEF Events
  <1>4. Cleans
    BY CrashCleans DEF Agreed
  <1> QED
    BY <1>1, <1>2, <1>3, <1>4 DEF Cleans

LEMMA WorksKeeps ==
    ASSUME Agreed, NEW w, NEW r, NEW E, Works(w, r, E)
    PROVE  Keeps
  <1> SUFFICES ASSUME NEW x \in Sources, lead[x] # None
               PROVE  lead'[x] # None /\ Events(lead[x]) \subseteq Events(lead[x])'
    BY AllKept
  <1>1. lead[x] \in Sources /\ row[lead[x]] # None
    BY DEF Agreed, Named, TypeOK
  <1>2. lead' = lead /\ Grows(row', Home(w), E)
    BY DEF Works
  <1> QED
    BY <1>1, <1>2 DEF Grows, Events

LEMMA GathersKeeps ==
    ASSUME Agreed, NEW c, NEW D, Gathers(c, D)
    PROVE  Keeps
  <1> SUFFICES ASSUME NEW x \in Sources, lead[x] # None
               PROVE  lead'[x] # None /\ Events(lead[x]) \subseteq Events(lead[x])'
    BY AllKept
  <1>1. /\ c \in Sources
        /\ c \in D \/ (D = {} /\ lead[c] = None)
        /\ Events(c)' = UNION {Events(d) : d \in D}
        /\ \A d \in Sources : d # c => row'[d] = IF d \in D THEN None ELSE row[d]
        /\ lead[x] \in D => lead'[x] = c
        /\ lead[x] \notin D => lead'[x] = lead[x]
    BY DEF Gathers
  <1>2. lead[x] \in Sources /\ row[lead[x]] # None /\ lead[lead[x]] = lead[x]
        /\ None \notin Sources
    <2>1. lead[x] \in Sources /\ row[lead[x]] # None
      BY DEF Agreed, Named, TypeOK
    <2> QED
      BY <2>1, DeskAssumption DEF Agreed, Named
  <1>3. CASE lead[x] \in D
    <2>1. lead'[x] = c
      BY <1>1, <1>3
    <2>2. Events(lead[x])' = Events(c)'
      BY <2>1 DEF Events
    <2> QED
      BY <1>1, <1>2, <1>3, <2>1, <2>2
  <1>4. CASE lead[x] \notin D
    <2>1. lead'[x] = lead[x]
      BY <1>1, <1>4
    <2>2. lead[x] # c
      BY <1>1, <1>2, <1>4
    <2>3. row'[lead[x]] = row[lead[x]]
      BY <1>1, <1>2, <1>4, <2>2
    <2> QED
      BY <1>2, <2>1, <2>3 DEF Events
  <1> QED
    BY <1>3, <1>4

\* No step of ingest, merge or worker takes a source away from the index, or an event
\* from the case the source leads to: what _merge_cases makes of two trails holds
\* both, and a late event of a worker adds to a case or is dropped whole.  A start,
\* by _compact_repeated_decisions, takes away no source, no session and no decision
\* but one that a later decision of the same trail, which it keeps, says again.
THEOREM TrailsKept == Spec => TrailKept
  <1>1. Inv /\ Agreed /\ [Next]_vars => [Keeps]_vars
    <2> SUFFICES ASSUME Inv, Agreed, Next PROVE Keeps
      OBVIOUS
    <2>1. CASE \E x \in Alerts : AlertLands(x)
      BY <2>1, LandsGathers, GathersKeeps
    <2>2. CASE \E x \in Suggestions, related \in SUBSET Sources : SuggestionLands(x, related)
      BY <2>2, SuggestionGathers, GathersKeeps
    <2>3. CASE \E c \in Sources : Dispatch(c)
      BY <2>3, DispatchAgreed, SameKeeps
    <2>4. CASE \E w \in Workers : Step(w) \/ Raise(w)
      BY <2>4, WorkerSteps, WorksKeeps, SameKeeps
    <2>5. CASE Crash
      BY <2>5, CrashKeeps
    <2> QED
      BY <2>1, <2>2, <2>3, <2>4, <2>5 DEF Next
  <1>2. Init => Inv /\ Agreed
    BY InitInv, AgreedInit
  <1>3. Inv /\ Agreed /\ [Next]_vars => (Inv /\ Agreed)'
    BY NextInv, NextAgreed
  <1>4. TrailKept <=> [][Keeps]_vars
    BY DEF TrailKept, Keeps
  <1> QED
    BY <1>1, <1>2, <1>3, <1>4, PTL DEF Spec
=============================================================================
