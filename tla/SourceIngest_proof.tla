-------------------------- MODULE SourceIngest_proof --------------------------
(***************************************************************************)
(* What the collector promises of the lines of its source, for any number  *)
(* of lines, files, truncations and deaths, any batch and any blank lines. *)
(***************************************************************************)
EXTENDS SourceIngest, FiniteSetTheorems, WellFoundedInduction, TLAPS

Streaming == {"batch", "facts", "security", "alerts", "advance"}

\* Line l is not behind the checkpoint: it lies in a later file, or in the
\* checkpoint's own past the offset, or before it in a content that is new.
Remains(l) ==
    IF ckpt.file = 0 THEN l \in 1..Written
    ELSE \E f \in ckpt.file .. head :
            /\ l \in LinesOf(f)
            /\ f = ckpt.file => \/ l >= base[f] + ckpt.off \div 2
                                \/ stale /\ l < base[f] + (ckpt.off + 1) \div 2

Accounted ==
    \A l \in 1..Written : l \in Blank \/ Remains(l) \/ l \in givenUp \/ Landed(l)

\* The source: what is past the newest file is empty, and lines are within bounds.
Host ==
    \A f \in Files : /\ f > head => size[f] = 0
                     /\ f <= head => base[f] + (size[f] + 1) \div 2 <= MaxLines + 1

\* The checkpoint: not past the end of its file unless that was truncated, and
\* inside a line only if that line was given up.
Point ==
    /\ ckpt.file <= head /\ cur.file <= head
    /\ pc = "first" => ckpt.file = 0
    /\ pc \notin {"down", "first"} => ckpt.file # 0
    /\ stale => ckpt.file # 0
    /\ ckpt.file # 0 /\ ~stale =>
          /\ ckpt.off <= size[ckpt.file]
          /\ ckpt.off # 2 * (ckpt.off \div 2) => base[ckpt.file] + ckpt.off \div 2 \in givenUp

\* The files a turn of the loop is about, and the range it streams.
Turn ==
    /\ pc \in {"find", "probe", "drain", "switch"} => ckpt.file < cur.file
    /\ pc = "read" => ckpt.file = cur.file
    /\ pc \in Streaming \cup {"switch"} =>
          /\ rd.file = ckpt.file /\ ckpt.file <= cur.file
          /\ rd.first + rd.upto \div 2 <= MaxLines + 1
          /\ ~stale => rd.first = base[ckpt.file] /\ rd.upto <= size[ckpt.file]
          /\ ckpt.file < cur.file => ~stale /\ (~rd.cut => rd.upto = size[ckpt.file])
    /\ pc = "switch" => ~rd.cut /\ ckpt.off \div 2 >= rd.upto \div 2

\* The sinks a chunk has been through.
Delivered ==
    /\ pc \in {"security", "alerts", "advance"} => Chunk \subseteq stored["facts"]
    /\ pc \in {"alerts", "advance"} => Chunk \subseteq stored["security"]
    /\ pc = "advance" => Chunk \subseteq stored["alerts"]

Inv == TypeOK /\ Host /\ Point /\ Turn /\ Delivered /\ Accounted

-----------------------------------------------------------------------------
LEMMA Half ==
    ASSUME NEW n \in Int
    PROVE  n \div 2 \in Int /\ 2 * (n \div 2) <= n /\ n <= 2 * (n \div 2) + 1
  BY SMT

LEMMA Numbers ==
    ASSUME TypeOK
    PROVE  /\ MaxLines \in Nat /\ MaxLines > 0 /\ MaxFiles \in Nat /\ Batch \in Nat /\ Batch > 0
           /\ head \in Nat /\ ckpt.file \in Nat /\ ckpt.off \in Nat
           /\ \A f \in Files : f \in Nat /\ base[f] \in Nat /\ base[f] > 0 /\ size[f] \in Nat
           /\ \A n \in Int : n \div 2 \in Int
           /\ Written \in Int
  <1>0. MaxLines \in Nat /\ MaxLines > 0 /\ MaxFiles \in Nat /\ Batch \in Nat /\ Batch > 0
    BY IngestAssumption
  <1>1. \A f \in Files : f \in Nat /\ base[f] \in Nat /\ base[f] > 0 /\ size[f] \in Nat
    <2> SUFFICES ASSUME NEW f \in Files PROVE f \in Nat /\ base[f] \in Nat /\ base[f] > 0 /\ size[f] \in Nat
      OBVIOUS
    <2>1. base[f] \in 1 .. MaxLines + 1 /\ size[f] \in 0 .. 2 * MaxLines
      BY DEF TypeOK
    <2> QED BY <1>0, <2>1 DEF Files
  <1>2. head \in Files /\ head \in Nat /\ ckpt.file \in Nat /\ ckpt.off \in Nat
    BY <1>0 DEF TypeOK, Files
  <1>3. \A n \in Int : n \div 2 \in Int
    BY Half
  <1>4. size[head] \div 2 \in Int
    BY <1>1, <1>2, <1>3
  <1> QED BY <1>0, <1>1, <1>2, <1>3, <1>4 DEF Written

LEMMA AheadRemains ==
    ASSUME TypeOK, ckpt.file <= head, NEW l PROVE l \in Ahead <=> Remains(l)
  <1>1. CASE ckpt.file = 0
    BY <1>1 DEF Ahead, Remains
  <1>2. CASE ckpt.file # 0
    <2> DEFINE f == ckpt.file
               Later == UNION {LinesOf(g) : g \in f+1 .. head}
    <2>1. f \in Nat /\ head \in Nat /\ ckpt.off \in Nat /\ f \in Files /\ head \in Files
      BY Numbers, <1>2 DEF TypeOK, Files
    <2>2. l \in Later <=> \E g \in f+1 .. head : l \in LinesOf(g)
      OBVIOUS
    <2>3. /\ base[f] \in Int /\ ckpt.off \div 2 \in Int /\ (ckpt.off + 1) \div 2 \in Int
          /\ size[f] \div 2 \in Int
      BY <2>1, Numbers
    <2>4. l \in LinesPast(f, ckpt.off) <=> l \in LinesOf(f) /\ l >= base[f] + ckpt.off \div 2
      BY <2>3 DEF LinesPast, LinesTo, LinesOf
    <2>5. l \in Overlapped <=> stale /\ l \in LinesOf(f) /\ l < base[f] + (ckpt.off + 1) \div 2
      BY <2>3 DEF Overlapped, OverlapTo, LinesTo, LinesOf
    <2>6. l \in Ahead <=> l \in Later \/ l \in LinesPast(f, ckpt.off) \/ l \in Overlapped
      BY <1>2 DEF Ahead
    <2>7. Remains(l) <=> \E g \in f .. head :
                            /\ l \in LinesOf(g)
                            /\ g = f => \/ l >= base[g] + ckpt.off \div 2
                                        \/ stale /\ l < base[g] + (ckpt.off + 1) \div 2
      BY <1>2 DEF Remains
    <2>8. CASE f <= head
      <3> HIDE DEF f
      <3>1. \A g \in f .. head : g = f \/ g \in f+1 .. head
        BY <2>1
      <3>2. f \in f .. head /\ \A g \in f+1 .. head : g \in f .. head /\ g # f
        BY <2>1, <2>8
      <3> QED BY <3>1, <3>2, <2>2, <2>4, <2>5, <2>6, <2>7
    <2> QED BY <2>8
  <1> QED BY <1>1, <1>2

-----------------------------------------------------------------------------
(* Where a flush ends.                                                     *)

LEMMA Least ==
    ASSUME NEW T \in SUBSET Nat, T # {}
    PROVE  Min(T) \in T /\ \A y \in T : Min(T) <= y
  <1> DEFINE R == {ss \in Nat \X Nat : ss[1] < ss[2]}
  <1>1. IsWellFoundedOn(R, Nat)
    BY NatLessThanWellFounded DEF OpToRel
  <1>2. PICK x \in T : \A y \in T : ~ (<<y, x>> \in R)
    <2> HIDE DEF R
    <2> QED BY <1>1, WFMin
  <1>3. ASSUME NEW y \in T PROVE x <= y
    <2>1. x \in Nat /\ y \in Nat
      OBVIOUS
    <2>2. ~(y < x)
      BY <1>2, <2>1
    <2> QED BY <2>1, <2>2
  <1>4. \E z \in T : \A y \in T : z <= y
    BY <1>3
  <1> QED BY <1>4 DEF Min

LEMMA Larger ==
    ASSUME NEW a \in Int, NEW b \in Int
    PROVE  Max({a, b}) \in Int /\ Max({a, b}) = IF a >= b THEN a ELSE b
  <1> DEFINE m == IF a >= b THEN a ELSE b
  <1>1. m \in {a, b} /\ \A y \in {a, b} : m >= y
    OBVIOUS
  <1>2. \A x \in {a, b} : (\A y \in {a, b} : x >= y) => x = m
    OBVIOUS
  <1> HIDE DEF m
  <1>3. Max({a, b}) = m
    BY <1>1, <1>2 DEF Max
  <1> QED BY <1>3 DEF m

\* A flush ends at a line boundary of the range, or nothing is left to flush.
LEMMA Flushes ==
    ASSUME TypeOK
    PROVE  /\ FlushAt \in Nat /\ ckpt.off <= FlushAt
           /\ FlushAt = ckpt.off => 2 * (rd.upto \div 2) <= ckpt.off
           /\ FlushAt # ckpt.off => FlushAt = 2 * (FlushAt \div 2) /\ FlushAt <= 2 * (rd.upto \div 2)
  <1> DEFINE off == ckpt.off
             end == 2 * (rd.upto \div 2)
             due == {q \in off .. LastBoundary :
                        q % 2 = 0 /\ Cardinality(Parsed(off, q)) >= Batch}
  <1>1. off \in Nat /\ rd.upto \in Nat /\ rd.first \in Nat /\ MaxLines \in Nat /\ Batch \in Nat /\ Batch > 0
    BY Numbers DEF TypeOK
  <1>2. rd.upto \div 2 \in Int /\ end \in Int
    BY <1>1, Half
  <1>3. LastBoundary \in Int /\ LastBoundary = IF off >= end THEN off ELSE end
    BY <1>1, <1>2, Larger DEF LastBoundary
  <1>4. Parsed(off, off) = {}
    <2> SUFFICES ASSUME NEW l \in Parsed(off, off) PROVE FALSE
      OBVIOUS
    <2>1. l \in rd.first .. rd.first + off \div 2 - 1 /\ 2 * (l - rd.first) >= off
      BY DEF Parsed, RangeLines
    <2>2. off \div 2 \in Int /\ 2 * (off \div 2) <= off
      BY <1>1, Half
    <2> HIDE DEF off
    <2> QED BY <2>1, <2>2, <1>1
  <1>5. off \notin due
    BY <1>1, <1>4, FS_EmptySet
  <1>6. \A q \in due : q \in Nat /\ off < q /\ q <= LastBoundary /\ q % 2 = 0
    BY <1>1, <1>3, <1>5
  <1>7. FlushAt = IF due = {} THEN LastBoundary ELSE Min(due)
    BY DEF FlushAt
  <1> HIDE DEF due
  <1>8. CASE due = {}
    BY <1>1, <1>2, <1>3, <1>7, <1>8
  <1>9. CASE due # {}
    <2>1. due \in SUBSET Nat
      BY <1>6
    <2>2. FlushAt \in due
      BY <1>7, <1>9, <2>1, Least
    <2>3. FlushAt \in Nat /\ off < FlushAt /\ FlushAt <= LastBoundary /\ FlushAt % 2 = 0
      BY <1>6, <2>2
    <2> HIDE DEF off, end
    <2>4. FlushAt = 2 * (FlushAt \div 2)
      <3> DEFINE g == FlushAt
      <3>1. g \in Nat /\ g % 2 = 0
        BY <2>3
      <3> HIDE DEF g
      <3>2. g = 2 * (g \div 2)
        BY <3>1
      <3> QED BY <3>2 DEF g
    <2> QED BY <1>1, <1>2, <1>3, <2>3, <2>4 DEF off, end
  <1> QED BY <1>8, <1>9

\* What a flush carries: lines of the file, past the checkpoint.
LEMMA Chunks ==
    ASSUME TypeOK
    PROVE  /\ Chunk = {l \in rd.first .. rd.first + FlushAt \div 2 - 1 : 2 * (l - rd.first) >= ckpt.off} \ Blank
           /\ rd.first + rd.upto \div 2 <= MaxLines + 1 => Chunk \subseteq Lines
  <1>1. Chunk = {l \in rd.first .. rd.first + FlushAt \div 2 - 1 : 2 * (l - rd.first) >= ckpt.off} \ Blank
    BY DEF Chunk, Parsed, RangeLines
  <1>2. ASSUME rd.first + rd.upto \div 2 <= MaxLines + 1, NEW l \in Chunk PROVE l \in Lines
    <2>1. ckpt.off \in Nat /\ rd.upto \in Nat /\ rd.first \in Nat /\ rd.first >= 1 /\ MaxLines \in Nat
      BY Numbers DEF TypeOK
    <2>2. FlushAt \in Nat /\ FlushAt \div 2 \in Int /\ 2 * (FlushAt \div 2) <= FlushAt /\ rd.upto \div 2 \in Int
      BY <2>1, Flushes, Half
    <2>3. l \in rd.first .. rd.first + FlushAt \div 2 - 1 /\ 2 * (l - rd.first) >= ckpt.off
      BY <1>1
    <2>4. l \in Int /\ l >= rd.first /\ l <= rd.first + FlushAt \div 2 - 1
      BY <2>1, <2>2, <2>3
    <2>5. FlushAt # ckpt.off
      BY <2>1, <2>2, <2>3, <2>4
    <2>6. FlushAt \div 2 <= rd.upto \div 2
      BY <2>1, <2>2, <2>5, Flushes
    <2> QED BY <1>2, <2>1, <2>2, <2>4, <2>6 DEF Lines
  <1> QED BY <1>1, <1>2

-----------------------------------------------------------------------------
(* Steps that leave the source, the checkpoint and what is given up alone. *)

LEMMA Sorted ==
    ASSUME Inv
    PROVE  /\ MaxLines \in Nat /\ MaxLines > 0 /\ MaxFiles \in Nat /\ Batch \in Nat /\ Batch > 0
           /\ head \in Files /\ head \in Nat /\ ckpt.file \in Nat /\ ckpt.off \in Nat
           /\ ckpt.off <= 2 * MaxLines /\ ckpt.file <= MaxFiles
           /\ cur.file \in Files /\ cur.file \in Nat /\ cur.eof \in Nat
           /\ \A f \in Files : f \in Nat /\ base[f] \in Nat /\ base[f] > 0 /\ size[f] \in Nat
           /\ \A n \in Int : n \div 2 \in Int /\ 2 * (n \div 2) <= n /\ n <= 2 * (n \div 2) + 1
           /\ \A n \in 0 .. MaxFiles : n # 0 => n \in Files
           /\ Written \in Int
           /\ ckpt = [file |-> ckpt.file, off |-> ckpt.off]
  <1>1. cur.file \in Files /\ head \in Files /\ ckpt.file \in 0 .. MaxFiles
        /\ ckpt.off \in 0 .. 2 * MaxLines /\ cur.eof \in 0 .. 2 * MaxLines
        /\ ckpt = [file |-> ckpt.file, off |-> ckpt.off]
    BY DEF Inv, TypeOK
  <1> QED BY <1>1, Numbers, Half DEF Inv, Files

Standing ==
    /\ UNCHANGED <<source, ckpt, stale, givenUp>>
    /\ \A s \in Sinks : stored[s] \subseteq stored'[s]

LEMMA Stand == ASSUME Inv, Standing PROVE Host' /\ Accounted'
  <1>1. Host'
    BY DEF Inv, Host, Standing, source
  <1>2. \A l : Remains(l)' <=> Remains(l)
    BY DEF Remains, Standing, source, Written, LinesOf, LinesTo
  <1>3. Written' = Written /\ givenUp' = givenUp
    BY DEF Standing, source, Written
  <1>4. \A l : Landed(l) => Landed(l)'
    BY DEF Landed, Standing
  <1> QED BY <1>1, <1>2, <1>3, <1>4 DEF Inv, Accounted

LEMMA InitInv == Init => Inv
  <1> SUFFICES ASSUME Init PROVE Inv
    OBVIOUS
  <1> USE DEF Init
  <1>1. MaxLines \in Nat /\ MaxLines > 0 /\ MaxFiles \in Nat /\ MaxFiles > 0
        /\ MaxTruncates \in Nat /\ MaxDeaths \in Nat
    BY IngestAssumption
  <1>2. 0 \div 2 = 0 /\ (0 + 1) \div 2 = 0
    BY SMT
  <1>3. TypeOK
    <2>1. head \in Files /\ base \in [Files -> 1..MaxLines+1] /\ size \in [Files -> 0..2*MaxLines]
      BY <1>1 DEF Files
    <2>2. cur \in [file : Files, eof : 0..2*MaxLines] /\ ckpt \in [file : 0..MaxFiles, off : 0..2*MaxLines]
      BY <1>1 DEF Files, NoProbe
    <2>3. rd \in [file : 0..MaxFiles, first : 1..MaxLines+1, upto : 0..2*MaxLines, cut : BOOLEAN]
      BY <1>1 DEF NoRead
    <2>4. gone \subseteq Files /\ stored \in [Sinks -> SUBSET Lines] /\ windows \subseteq Lines /\ givenUp \subseteq Lines
      OBVIOUS
    <2>5. truncates \in 0..MaxTruncates /\ deaths \in 0..MaxDeaths /\ dist \in 0..MaxFiles
      BY <1>1
    <2> QED BY <2>1, <2>2, <2>3, <2>4, <2>5 DEF TypeOK
  <1>4. Host
    BY <1>1, <1>2 DEF Host, Files
  <1>5. Point /\ Turn /\ Delivered
    BY <1>1, <1>2 DEF Point, Turn, Delivered, NoProbe, Streaming
  <1>6. Accounted
    BY <1>1, <1>2 DEF Accounted, Written, Remains, Files
  <1> QED BY <1>3, <1>4, <1>5, <1>6 DEF Inv

LEMMA StartStep == ASSUME Inv, Start PROVE Inv'
  <1> USE DEF Start, source
  <1>1. Standing
    BY DEF Standing
  <1>2. TypeOK'
    BY DEF Inv, TypeOK
  <1>3. Point' /\ Turn' /\ Delivered'
    BY DEF Inv, Point, Turn, Delivered, Streaming
  <1> QED BY <1>1, <1>2, <1>3, Stand DEF Inv

LEMMA WarmStep == ASSUME Inv, Warm PROVE Inv'
  <1> USE DEF Warm, source, durable
  <1>1. Standing
    BY DEF Standing
  <1>2. windows' \subseteq Lines
    <2> SUFFICES ASSUME NEW l \in windows' PROVE l \in Lines
      OBVIOUS
    <2> DEFINE f == ckpt.file
               m == Min({ckpt.off, size[f]})
    <2>1. l \in LinesTo(f, m)
      OBVIOUS
    <2>2. f \in Files /\ f <= head /\ f # 0
      BY Sorted DEF Inv, Point, TypeOK
    <2>3. m \in Nat /\ m <= size[f]
      <3>1. {ckpt.off, size[f]} \in SUBSET Nat
        BY <2>2, Sorted
      <3> QED BY <3>1, Least, <2>2
    <2>4. base[f] + (size[f] + 1) \div 2 <= MaxLines + 1
      BY <2>2, Sorted DEF Inv, Host
    <2> HIDE DEF m, f
    <2>5. base[f] \in Nat /\ base[f] > 0 /\ size[f] \in Nat /\ MaxLines \in Nat
      BY <2>2, Sorted
    <2>6. m \div 2 \in Int /\ 2 * (m \div 2) <= m /\ (size[f] + 1) \div 2 \in Int
          /\ size[f] + 1 <= 2 * ((size[f] + 1) \div 2) + 1
      BY <2>3, <2>5, Sorted
    <2> QED BY <2>1, <2>3, <2>4, <2>5, <2>6 DEF LinesTo, Lines
  <1>3. TypeOK'
    BY <1>2 DEF Inv, TypeOK
  <1>4. Point' /\ Turn' /\ Delivered'
    BY DEF Inv, Point, Turn, Delivered, Streaming
  <1> QED BY <1>1, <1>3, <1>4, Stand DEF Inv

LEMMA FindRotatedStep == ASSUME Inv, FindRotated PROVE Inv'
  <1> USE DEF FindRotated, source, durable
  <1>1. Standing
    BY DEF Standing
  <1>2. dist' \in 0 .. MaxFiles
    BY Sorted DEF Inv, Point, Turn, Files
  <1>3. TypeOK'
    BY <1>2 DEF Inv, TypeOK
  <1>4. Point' /\ Turn' /\ Delivered'
    BY DEF Inv, Point, Turn, Delivered, Streaming
  <1> QED BY <1>1, <1>3, <1>4, Stand DEF Inv

LEMMA EndTurnStep ==
    ASSUME Inv, pc \notin {"down", "first"}, EndTurn, UNCHANGED <<source, ckpt, stale, givenUp>>,
           UNCHANGED <<windows, stored, deaths>>, gapStatus' \in BOOLEAN, latch' \in BOOLEAN
    PROVE  Inv'
  <1> USE DEF EndTurn, source
  <1>1. Standing
    BY DEF Standing
  <1>2. MaxLines \in Nat /\ MaxFiles \in Nat /\ 1 \in Files /\ 1 <= head
    BY Sorted DEF Files
  <1>3. NoProbe \in [file : Files, eof : 0 .. 2 * MaxLines]
        /\ NoRead \in [file : 0..MaxFiles, first : 1..MaxLines+1, upto : 0..2*MaxLines, cut : BOOLEAN]
    BY <1>2 DEF NoProbe, NoRead
  <1>4. TypeOK'
    BY <1>2, <1>3 DEF Inv, TypeOK
  <1>5. Point' /\ Turn' /\ Delivered'
    BY <1>2 DEF Inv, Point, Turn, Delivered, Streaming, NoProbe
  <1> QED BY <1>1, <1>4, <1>5, Stand DEF Inv

LEMMA EndingStep == ASSUME Inv, ProbeFails \/ Report PROVE Inv'
  <1>1. CASE ProbeFails
    BY <1>1, EndTurnStep DEF ProbeFails, durable, source, Inv, TypeOK
  <1>2. CASE Report
    BY <1>2, EndTurnStep DEF Report, source, Inv, TypeOK
  <1> QED BY <1>1, <1>2

LEMMA ReadNothingStep == ASSUME Inv, ReadNothing PROVE Inv'
  <1> USE DEF ReadNothing, source, durable
  <1>1. Standing
    BY DEF Standing
  <1>2. TypeOK'
    BY DEF Inv, TypeOK
  <1>3. Point' /\ Turn' /\ Delivered'
    BY DEF Inv, Point, Turn, Delivered, Streaming
  <1> QED BY <1>1, <1>2, <1>3, Stand DEF Inv

LEMMA NextFlushStep == ASSUME Inv, NextFlush PROVE Inv'
  <1>1. CASE Chunk # {} \/ FlushAt # ckpt.off
    <2> USE <1>1 DEF NextFlush, source, durable
    <2>1. Standing
      BY DEF Standing
    <2>2. pc' = "facts" \/ (pc' = "advance" /\ Chunk = {})
      OBVIOUS
    <2>3. UNCHANGED <<source, durable, cur, dist, rd, windows, latch, deaths, stale, givenUp>>
      OBVIOUS
    <2> HIDE DEF NextFlush
    <2>4. TypeOK'
      BY <2>2, <2>3 DEF Inv, TypeOK
    <2>5. Chunk' = Chunk
      BY <2>3 DEF Chunk, Parsed, RangeLines, FlushAt, LastBoundary
    <2>6. pc = "batch"
      BY DEF NextFlush
    <2>7. Point' /\ Turn' /\ Delivered'
      BY <2>2, <2>3, <2>5, <2>6 DEF Inv, Point, Turn, Delivered, Streaming
    <2> QED BY <2>1, <2>4, <2>7, Stand DEF Inv
  <1>2. CASE ~(Chunk # {} \/ FlushAt # ckpt.off) /\ rd.cut
    BY <1>2, EndTurnStep DEF NextFlush, durable, source, Inv, TypeOK
  <1>3. CASE ~(Chunk # {} \/ FlushAt # ckpt.off) /\ ~rd.cut
    <2> USE <1>3 DEF NextFlush, source, durable
    <2>1. Standing
      BY DEF Standing
    <2>2. pc = "batch" /\ UNCHANGED <<source, durable, cur, dist, rd, windows, latch, deaths, stale, givenUp>>
      OBVIOUS
    <2>3. pc' = IF rd.file = cur.file THEN "report" ELSE "switch"
      BY DEF AfterStream
    <2>4. TypeOK'
      BY <2>2, <2>3 DEF Inv, TypeOK
    <2>5. 2 * (rd.upto \div 2) <= ckpt.off
      BY Flushes DEF Inv
    <2>6. ckpt.off \div 2 >= rd.upto \div 2
      <3>1. rd.upto \in Nat /\ ckpt.off \in Nat /\ rd.upto \div 2 \in Int /\ ckpt.off \div 2 \in Int
            /\ ckpt.off <= 2 * (ckpt.off \div 2) + 1
        BY Sorted DEF Inv, TypeOK
      <3> QED BY <3>1, <2>5
    <2>7. rd.file = ckpt.file /\ ckpt.file <= cur.file
      BY <2>2 DEF Inv, Turn, Streaming
    <2>8. Point' /\ Turn' /\ Delivered'
      BY <2>2, <2>3, <2>6, <2>7, Sorted DEF Inv, Point, Turn, Delivered, Streaming
    <2> QED BY <2>1, <2>4, <2>8, Stand DEF Inv
  <1> QED BY <1>1, <1>2, <1>3

LEMMA InsertStep ==
    ASSUME Inv, Insert("facts", "security") \/ Insert("security", "alerts")
    PROVE  Inv'
  <1> USE DEF Insert, source
  <1>1. UNCHANGED <<source, ckpt, gapStatus, cur, dist, rd, windows, latch, deaths, stale, givenUp>>
    OBVIOUS
  <1>2. \/ /\ pc = "facts" /\ pc' = "security"
           /\ stored' = [stored EXCEPT !["facts"] = @ \cup Chunk]
        \/ /\ pc = "security" /\ pc' = "alerts"
           /\ stored' = [stored EXCEPT !["security"] = @ \cup Chunk]
    OBVIOUS
  <1> HIDE DEF Insert
  <1>3. Chunk \subseteq Lines
    BY <1>2, Chunks DEF Inv, Turn, Streaming
  <1>4. stored \in [Sinks -> SUBSET Lines] /\ {"facts", "security", "alerts"} = Sinks
    BY DEF Inv, TypeOK, Sinks
  <1>5. stored' \in [Sinks -> SUBSET Lines] /\ \A s \in Sinks : stored[s] \subseteq stored'[s]
    BY <1>2, <1>3, <1>4
  <1>6. Standing
    BY <1>1, <1>5 DEF Standing
  <1>7. TypeOK'
    BY <1>1, <1>2, <1>5 DEF Inv, TypeOK
  <1>8. Chunk' = Chunk
    BY <1>1 DEF Chunk, Parsed, RangeLines, FlushAt, LastBoundary
  <1>9. Point' /\ Turn'
    BY <1>1, <1>2 DEF Inv, Point, Turn, Streaming
  <1>10. Delivered'
    BY <1>2, <1>4, <1>8 DEF Inv, Delivered
  <1> QED BY <1>6, <1>7, <1>9, <1>10, Stand DEF Inv

LEMMA DetectStep == ASSUME Inv, Detect PROVE Inv'
  <1> USE DEF Detect, source
  <1>1. UNCHANGED <<source, ckpt, gapStatus, cur, dist, rd, latch, deaths, stale, givenUp>>
    OBVIOUS
  <1>2. pc = "alerts" /\ pc' = "advance" /\ windows' = windows \cup Chunk
        /\ stored' = [stored EXCEPT !["alerts"] = @ \cup Chunk]
    OBVIOUS
  <1> HIDE DEF Detect
  <1>3. Chunk \subseteq Lines
    BY <1>2, Chunks DEF Inv, Turn, Streaming
  <1>4. stored \in [Sinks -> SUBSET Lines] /\ {"facts", "security", "alerts"} = Sinks
    BY DEF Inv, TypeOK, Sinks
  <1>5. stored' \in [Sinks -> SUBSET Lines] /\ \A s \in Sinks : stored[s] \subseteq stored'[s]
    BY <1>2, <1>3, <1>4
  <1>6. Standing
    BY <1>1, <1>5 DEF Standing
  <1>7. TypeOK'
    BY <1>1, <1>2, <1>3, <1>5 DEF Inv, TypeOK
  <1>8. Chunk' = Chunk
    BY <1>1 DEF Chunk, Parsed, RangeLines, FlushAt, LastBoundary
  <1>9. Point' /\ Turn'
    BY <1>1, <1>2 DEF Inv, Point, Turn, Streaming
  <1>10. Delivered'
    BY <1>2, <1>4, <1>8 DEF Inv, Delivered
  <1> QED BY <1>6, <1>7, <1>9, <1>10, Stand DEF Inv

LEMMA DieStep == ASSUME Inv, Die PROVE Inv'
  <1> USE DEF Die, source
  <1>1. UNCHANGED <<source, ckpt, gapStatus, stale, givenUp>> /\ pc' = "down" /\ cur' = NoProbe /\ rd' = NoRead
        /\ dist' = 0 /\ windows' = {} /\ latch' = FALSE
    OBVIOUS
  <1>2. stored' \in [Sinks -> SUBSET Lines] /\ \A s \in Sinks : stored[s] \subseteq stored'[s]
    <2>1. stored \in [Sinks -> SUBSET Lines] /\ "alerts" \in Sinks
      BY DEF Inv, TypeOK, Sinks
    <2>2. CASE stored' = stored
      BY <2>1, <2>2
    <2>3. CASE pc = "alerts" /\ \E l \in Chunk : stored' = [stored EXCEPT !["alerts"] = @ \cup {k \in Chunk : k <= l}]
      <3>1. Chunk \subseteq Lines
        BY <2>3, Chunks DEF Inv, Turn, Streaming
      <3> QED BY <2>1, <2>3, <3>1
    <2> QED BY <2>2, <2>3
  <1>3. deaths' \in 0 .. MaxDeaths
    BY IngestAssumption DEF Inv, TypeOK
  <1> HIDE DEF Die
  <1>4. Standing
    BY <1>1, <1>2 DEF Standing
  <1>5. MaxLines \in Nat /\ MaxFiles \in Nat /\ 1 \in Files /\ 1 <= head
    BY Sorted DEF Files
  <1>6. NoProbe \in [file : Files, eof : 0 .. 2 * MaxLines]
        /\ NoRead \in [file : 0..MaxFiles, first : 1..MaxLines+1, upto : 0..2*MaxLines, cut : BOOLEAN]
    BY <1>5 DEF NoProbe, NoRead
  <1>7. TypeOK'
    <2>1. (head \in Files /\ base \in [Files -> 1..MaxLines+1] /\ size \in [Files -> 0..2*MaxLines]
           /\ gone \subseteq Files /\ truncates \in 0..MaxTruncates
           /\ ckpt \in [file : 0..MaxFiles, off : 0..2*MaxLines] /\ gapStatus \in BOOLEAN
           /\ stale \in BOOLEAN /\ givenUp \subseteq Lines)'
      BY <1>1 DEF Inv, TypeOK
    <2>2. dist' \in 0 .. MaxFiles
      BY <1>1, <1>5
    <2>3. windows' \subseteq Lines /\ latch' \in BOOLEAN
      BY <1>1
    <2> QED BY <1>1, <1>2, <1>3, <1>6, <2>1, <2>2, <2>3 DEF TypeOK
  <1>8. Point' /\ Turn' /\ Delivered'
    BY <1>1, <1>5 DEF Inv, Point, Turn, Delivered, Streaming, NoProbe
  <1> QED BY <1>4, <1>7, <1>8, Stand DEF Inv

-----------------------------------------------------------------------------
(* Steps of the checkpoint.                                                *)

\* The checkpoint goes to the start of the probed file; what it leaves in its
\* own file is given up, and so is what lies between.
LEMMA SwitchStep ==
    ASSUME Inv, NEW lost \in SUBSET Lines, SwitchFile(lost),
           ckpt.file # 0, ckpt.file < cur.file,
           \A l \in LinesOf(ckpt.file) :
              (l >= base[ckpt.file] + ckpt.off \div 2 \/ (stale /\ l < base[ckpt.file] + (ckpt.off + 1) \div 2))
                => l \in lost,
           UNCHANGED <<source, stored, gapStatus, cur, rd, windows, deaths>>, latch' \in BOOLEAN
    PROVE  Inv'
  <1> USE DEF source
  <1>1. ckpt' = [file |-> cur.file, off |-> 0] /\ stale' = FALSE /\ dist' = 0
        /\ givenUp' = givenUp \cup lost \cup Between
        /\ pc' \in {"read", "report"}
    BY DEF SwitchFile, AfterSwitch
  <1> HIDE DEF SwitchFile
  <1>2. cur.file \in Files /\ cur.file <= head /\ head \in Files
    BY Sorted DEF Inv, Point
  <1>3. \A f \in Files : f <= head => LinesOf(f) \subseteq Lines
    <2> SUFFICES ASSUME NEW f \in Files, f <= head, NEW l \in LinesOf(f) PROVE l \in Lines
      OBVIOUS
    <2>1. base[f] + (size[f] + 1) \div 2 <= MaxLines + 1
      BY DEF Inv, Host
    <2>2. base[f] \in Nat /\ base[f] > 0 /\ size[f] \in Nat /\ MaxLines \in Nat
      BY Sorted
    <2>3. size[f] \div 2 \in Int /\ (size[f] + 1) \div 2 \in Int /\ 2 * (size[f] \div 2) <= size[f]
          /\ size[f] + 1 <= 2 * ((size[f] + 1) \div 2) + 1
      BY <2>2, Sorted
    <2> QED BY <2>1, <2>2, <2>3 DEF LinesOf, LinesTo, Lines
  <1>4. Between \subseteq Lines
    <2>1. \A f \in ckpt.file + 1 .. cur.file - 1 : f \in Files /\ f <= head
      BY <1>2, Sorted DEF Files
    <2> QED BY <2>1, <1>3 DEF Between
  <1>5. TypeOK'
    <2>1. ckpt' \in [file : 0..MaxFiles, off : 0..2*MaxLines]
      BY <1>1, <1>2, Sorted DEF Files
    <2>2. (head \in Files /\ base \in [Files -> 1..MaxLines+1] /\ size \in [Files -> 0..2*MaxLines]
           /\ gone \subseteq Files /\ truncates \in 0..MaxTruncates
           /\ cur \in [file : Files, eof : 0..2*MaxLines]
           /\ rd \in [file : 0..MaxFiles, first : 1..MaxLines+1, upto : 0..2*MaxLines, cut : BOOLEAN]
           /\ stored \in [Sinks -> SUBSET Lines] /\ gapStatus \in BOOLEAN
           /\ windows \subseteq Lines /\ deaths \in 0..MaxDeaths)'
      BY DEF Inv, TypeOK
    <2>3. givenUp' \subseteq Lines
      BY <1>1, <1>4 DEF Inv, TypeOK
    <2>4. dist' \in 0 .. MaxFiles
      BY <1>1, Sorted
    <2> QED BY <1>1, <2>1, <2>2, <2>3, <2>4 DEF TypeOK
  <1>6. Host'
    BY DEF Inv, Host
  <1>7. Point' /\ Turn' /\ Delivered'
    <2>1. 0 \div 2 = 0
      BY SMT
    <2>2. size[cur.file] >= 0
      BY <1>2, Sorted
    <2> QED BY <1>1, <1>2, <2>1, <2>2, Sorted DEF Inv, Point, Turn, Delivered, Streaming, Files
  <1>8. Accounted'
    <2>1. Written' = Written /\ \A f : LinesOf(f)' = LinesOf(f)
      BY DEF Written, LinesOf, LinesTo
    <2>2. \A l : Landed(l)' = Landed(l)
      BY DEF Landed
    <2>3. ASSUME NEW l \in 1 .. Written, Remains(l) PROVE Remains(l)' \/ l \in givenUp'
      <3>1. PICK f \in ckpt.file .. head :
               /\ l \in LinesOf(f)
               /\ f = ckpt.file => \/ l >= base[f] + ckpt.off \div 2
                                   \/ stale /\ l < base[f] + (ckpt.off + 1) \div 2
        BY <2>3 DEF Remains
      <3>2. CASE f = ckpt.file
        BY <3>1, <3>2, <1>1
      <3>3. CASE f \in ckpt.file + 1 .. cur.file - 1
        BY <3>1, <3>3, <1>1 DEF Between
      <3>4. CASE f \in cur.file .. head
        <4>1. l \in base[f] .. base[f] + size[f] \div 2 - 1 /\ base[f] \in Nat /\ size[f] \div 2 \in Int
          BY <3>1, <3>4, <1>2, Sorted DEF LinesOf, LinesTo, Files
        <4>2. l >= base[f] + 0 \div 2
          BY <4>1, SMT
        <4>3. ckpt'.file = cur.file /\ ckpt'.off = 0 /\ cur.file # 0 /\ l \in LinesOf(f)'
          BY <1>1, <1>2, <2>1, <3>1, Sorted DEF Files
        <4> QED BY <3>4, <4>2, <4>3 DEF Remains
      <3> QED BY <3>1, <3>2, <3>3, <3>4, <1>2, Sorted
    <2> QED BY <2>1, <2>2, <2>3, <1>1 DEF Inv, Accounted
  <1> QED BY <1>5, <1>6, <1>7, <1>8 DEF Inv

\* In a content that is not new, a line is past the checkpoint or behind it.
LEMMA Whole ==
    ASSUME Inv, NEW f \in Files, f <= head
    PROVE  /\ LinesOf(f) \subseteq Lines
           /\ \A l \in LinesOf(f) : l \in Int /\ l >= base[f] /\ l < base[f] + size[f] \div 2
           /\ base[f] \in Nat /\ size[f] \in Nat /\ size[f] \div 2 \in Int /\ MaxLines \in Nat
           /\ base[f] + (size[f] + 1) \div 2 <= MaxLines + 1
           /\ (size[f] + 1) \div 2 \in Int /\ size[f] \div 2 <= (size[f] + 1) \div 2
  <1>1. base[f] + (size[f] + 1) \div 2 <= MaxLines + 1
    BY DEF Inv, Host
  <1>2. base[f] \in Nat /\ base[f] > 0 /\ size[f] \in Nat /\ MaxLines \in Nat
    BY Sorted
  <1>3. size[f] \div 2 \in Int /\ (size[f] + 1) \div 2 \in Int /\ 2 * (size[f] \div 2) <= size[f]
        /\ size[f] + 1 <= 2 * ((size[f] + 1) \div 2) + 1
    BY <1>2, Sorted
  <1>4. \A l \in LinesOf(f) : l \in Int /\ l >= base[f] /\ l < base[f] + size[f] \div 2
    BY <1>2, <1>3 DEF LinesOf, LinesTo
  <1>5. LinesOf(f) \subseteq Lines
    BY <1>1, <1>2, <1>3, <1>4 DEF Lines
  <1> QED BY <1>1, <1>2, <1>3, <1>4, <1>5

LEMMA DeclareGapStep == ASSUME Inv, DeclareGap PROVE Inv'
  <1> DEFINE f == ckpt.file
             lost == LinesPast(f, ckpt.off) \cup Overlapped
  <1>1. pc = "find" /\ latch' \in BOOLEAN /\ SwitchFile(lost)
        /\ UNCHANGED <<source, stored, gapStatus, cur, rd, windows, deaths>>
    BY DEF DeclareGap
  <1>2. f # 0 /\ f < cur.file /\ f \in Files /\ f <= head
    BY <1>1, Sorted DEF Inv, Point, Turn, Files
  <1>3. base[f] \in Nat /\ ckpt.off \div 2 \in Int /\ (ckpt.off + 1) \div 2 \in Int
    BY <1>2, Sorted
  <1>4. lost \subseteq Lines
    BY <1>2, Whole DEF LinesPast, Overlapped
  <1>5. ASSUME NEW l \in LinesOf(f),
               l >= base[f] + ckpt.off \div 2 \/ (stale /\ l < base[f] + (ckpt.off + 1) \div 2)
        PROVE  l \in lost
    BY <1>2, <1>3, <1>5, Whole DEF LinesPast, LinesTo, Overlapped, OverlapTo
  <1> QED BY <1>1, <1>2, <1>4, <1>5, SwitchStep

LEMMA DrainNothingStep == ASSUME Inv, DrainNothing PROVE Inv'
  <1> DEFINE f == ckpt.file
             lost == LinesPast(f, ckpt.off) \cup Overlapped
  <1>1. pc = "drain" /\ UNCHANGED latch /\ SwitchFile(lost)
        /\ UNCHANGED <<source, stored, gapStatus, cur, rd, windows, deaths>>
    BY DEF DrainNothing
  <1>2. f # 0 /\ f < cur.file /\ f \in Files /\ f <= head /\ latch' \in BOOLEAN
    BY <1>1, Sorted DEF Inv, Point, Turn, Files, TypeOK
  <1>3. base[f] \in Nat /\ ckpt.off \div 2 \in Int /\ (ckpt.off + 1) \div 2 \in Int
    BY <1>2, Sorted
  <1>4. lost \subseteq Lines
    BY <1>2, Whole DEF LinesPast, Overlapped
  <1>5. ASSUME NEW l \in LinesOf(f),
               l >= base[f] + ckpt.off \div 2 \/ (stale /\ l < base[f] + (ckpt.off + 1) \div 2)
        PROVE  l \in lost
    BY <1>2, <1>3, <1>5, Whole DEF LinesPast, LinesTo, Overlapped, OverlapTo
  <1> QED BY <1>1, <1>2, <1>4, <1>5, SwitchStep

LEMMA ProbeRotatedStep == ASSUME Inv, ProbeRotated PROVE Inv'
  <1> DEFINE f == ckpt.file
             lost == Overlapped \cup IF AtPath = f THEN {} ELSE LinesPast(f, ckpt.off)
  <1>1. pc = "probe" /\ AtPath # 0
        /\ UNCHANGED <<source, stored, gapStatus, cur, rd, windows, latch, deaths>>
    BY DEF ProbeRotated
  <1>2. f # 0 /\ f < cur.file /\ f \in Files /\ f <= head /\ latch' \in BOOLEAN
    BY <1>1, Sorted DEF Inv, Point, Turn, Files, TypeOK
  <1>3. CASE size[AtPath] > ckpt.off
    <2>1. pc' = "drain" /\ UNCHANGED <<ckpt, stale, dist, givenUp>>
      BY <1>3 DEF ProbeRotated
    <2>2. Standing
      BY <1>1, <2>1 DEF Standing
    <2>3. TypeOK'
      BY <1>1, <2>1 DEF Inv, TypeOK, source
    <2>4. Point' /\ Turn' /\ Delivered'
      BY <1>1, <1>2, <2>1 DEF Inv, Point, Turn, Delivered, Streaming, source
    <2> QED BY <2>2, <2>3, <2>4, Stand DEF Inv
  <1>4. CASE ~(size[AtPath] > ckpt.off)
    <2>1. SwitchFile(lost)
      BY <1>4 DEF ProbeRotated
    <2>2. base[f] \in Nat /\ ckpt.off \in Nat /\ ckpt.off \div 2 \in Int /\ (ckpt.off + 1) \div 2 \in Int
          /\ ckpt.off <= 2 * (ckpt.off \div 2) + 1
          /\ size[f] \in Nat /\ size[f] \div 2 \in Int /\ 2 * (size[f] \div 2) <= size[f]
      BY <1>2, Sorted
    <2>3. lost \subseteq Lines
      BY <1>2, Whole DEF LinesPast, Overlapped
    <2>4. ASSUME NEW l \in LinesOf(f),
                 l >= base[f] + ckpt.off \div 2 \/ (stale /\ l < base[f] + (ckpt.off + 1) \div 2)
          PROVE  l \in lost
      <3>1. l \in Int /\ l >= base[f] /\ l < base[f] + size[f] \div 2
        BY <1>2, Whole
      <3>2. CASE stale /\ l < base[f] + (ckpt.off + 1) \div 2
        BY <2>2, <3>1, <3>2 DEF LinesTo, Overlapped, OverlapTo
      <3>3. CASE l >= base[f] + ckpt.off \div 2 /\ AtPath # f
        BY <2>2, <3>1, <3>3 DEF LinesPast, LinesTo
      <3>4. CASE l >= base[f] + ckpt.off \div 2 /\ AtPath = f
        <4>1. size[f] <= ckpt.off
          BY <1>4, <2>2, <3>4
        <4> QED BY <2>2, <3>1, <3>4, <4>1
      <3> QED BY <2>4, <3>2, <3>3, <3>4
    <2> QED BY <1>1, <1>2, <2>1, <2>3, <2>4, SwitchStep
  <1> QED BY <1>3, <1>4

LEMMA DrainedStep == ASSUME Inv, Drained PROVE Inv'
  <1> DEFINE f == ckpt.file
  <1>1. pc = "switch" /\ UNCHANGED latch /\ SwitchFile(Overlapped)
        /\ UNCHANGED <<source, stored, gapStatus, cur, rd, windows, deaths>>
    BY DEF Drained
  <1>2. f # 0 /\ f < cur.file /\ f \in Files /\ f <= head /\ latch' \in BOOLEAN
    BY <1>1, Sorted DEF Inv, Point, Turn, Files, TypeOK
  <1>3. ~stale /\ rd.upto = size[f] /\ ckpt.off \div 2 >= rd.upto \div 2
    BY <1>1, <1>2 DEF Inv, Turn
  <1>4. Overlapped \subseteq Lines
    BY <1>2, Whole DEF Overlapped
  <1>5. ASSUME NEW l \in LinesOf(f) PROVE ~(l >= base[f] + ckpt.off \div 2)
    <2>1. l \in Int /\ l < base[f] + size[f] \div 2 /\ base[f] \in Nat /\ size[f] \div 2 \in Int
      BY <1>2, Whole
    <2>2. ckpt.off \div 2 \in Int
      BY Sorted
    <2> QED BY <1>3, <2>1, <2>2
  <1> QED BY <1>1, <1>2, <1>3, <1>4, <1>5, SwitchStep

\* A checkpoint that meant an earlier content stands in the new one: what lies
\* before it, the line it cuts included, is given up.
Renewed ==
    /\ ckpt.file # 0 /\ ckpt.off <= size[ckpt.file]
    /\ UNCHANGED <<source, ckpt, stored>>
    /\ givenUp' = givenUp \cup OverlapTo
    /\ stale' = FALSE

LEMMA Renew ==
    ASSUME Inv, Renewed
    PROVE  /\ Host' /\ Accounted' /\ givenUp' \subseteq Lines
           /\ ckpt.off # 2 * (ckpt.off \div 2) => base[ckpt.file] + ckpt.off \div 2 \in givenUp'
  <1> DEFINE f == ckpt.file
             off == ckpt.off
  <1> USE DEF Renewed, source
  <1>1. f \in Files /\ f <= head /\ f # 0
    BY Sorted DEF Inv, Point
  <1>2. base[f] \in Nat /\ base[f] > 0 /\ size[f] \in Nat /\ off \in Nat /\ off <= size[f] /\ MaxLines \in Nat
        /\ off \div 2 \in Int /\ (off + 1) \div 2 \in Int /\ (size[f] + 1) \div 2 \in Int
        /\ off + 1 <= 2 * ((off + 1) \div 2) + 1 /\ off <= 2 * (off \div 2) + 1 /\ 2 * (off \div 2) <= off
        /\ 2 * ((off + 1) \div 2) <= off + 1 /\ size[f] + 1 <= 2 * ((size[f] + 1) \div 2) + 1
    BY <1>1, Sorted
  <1>3. base[f] + (size[f] + 1) \div 2 <= MaxLines + 1
    BY <1>1, Whole
  <1>4. \A l : l \in OverlapTo <=> stale /\ l \in Int /\ base[f] <= l /\ l < base[f] + (off + 1) \div 2
    BY <1>2 DEF OverlapTo, LinesTo
  <1>5. givenUp' \subseteq Lines
    <2>1. OverlapTo \subseteq Lines
      BY <1>2, <1>3, <1>4 DEF Lines
    <2> QED BY <2>1 DEF Inv, TypeOK
  <1>6. ASSUME off # 2 * (off \div 2) PROVE base[f] + off \div 2 \in givenUp'
    <2>1. CASE ~stale
      BY <1>1, <1>6, <2>1 DEF Inv, Point
    <2>2. CASE stale
      <3> DEFINE l == base[f] + off \div 2
      <3>1. l \in Int /\ base[f] <= l /\ l < base[f] + (off + 1) \div 2
        <4> HIDE DEF f, off
        <4> QED BY <1>2, <1>6
      <3> HIDE DEF l, Renewed
      <3>2. l \in OverlapTo
        BY <1>4, <2>2, <3>1
      <3> QED BY <3>2 DEF l, Renewed
    <2> QED BY <2>1, <2>2
  <1>7. Host'
    BY DEF Inv, Host
  <1>8. Accounted'
    <2>1. Written' = Written /\ \A g : LinesOf(g)' = LinesOf(g)
      BY DEF Written, LinesOf, LinesTo
    <2>2. \A l : Landed(l)' = Landed(l)
      BY DEF Landed
    <2>3. ASSUME NEW l \in 1 .. Written, Remains(l) PROVE Remains(l)' \/ l \in givenUp'
      <3>1. PICK g \in f .. head :
               /\ l \in LinesOf(g)
               /\ g = f => \/ l >= base[g] + off \div 2
                           \/ stale /\ l < base[g] + (off + 1) \div 2
        BY <1>1, <2>3 DEF Remains
      <3>2. CASE g = f /\ ~(l >= base[f] + off \div 2)
        <4>1. l \in Int /\ l >= base[f]
          BY <1>1, <3>1, <3>2, Whole
        <4> QED BY <1>4, <3>1, <3>2, <4>1
      <3>3. CASE g = f => l >= base[f] + off \div 2
        BY <1>1, <2>1, <3>1, <3>3 DEF Remains
      <3> QED BY <3>2, <3>3
    <2> QED BY <2>1, <2>2, <2>3 DEF Inv, Accounted
  <1> QED BY <1>5, <1>6, <1>7, <1>8

LEMMA StreamStep ==
    ASSUME Inv, NEW full \in BOOLEAN, ReadLog(full) \/ DrainRotated(full)
    PROVE  Inv'
  <1> DEFINE f == ckpt.file
  <1>1. pc \in {"read", "drain"} /\ f # 0 /\ f \in Files /\ f <= cur.file /\ cur.file <= head
    BY Sorted DEF ReadLog, DrainRotated, Inv, Point, Turn
  <1>2. Stream(f, full)
    BY Sorted DEF ReadLog, DrainRotated, Inv, Turn
  <1>3. /\ pc' = "batch" /\ stale' = FALSE /\ dist' = 0 /\ ckpt.off <= size[f]
        /\ UNCHANGED <<source, durable, cur, windows, latch, deaths>>
        /\ givenUp' = givenUp \cup OverlapTo
    BY <1>2 DEF Stream
  <1>4. PICK upto \in ckpt.off .. size[f] :
           /\ full => upto = size[f]
           /\ rd' = [file |-> f, first |-> base[f], upto |-> upto, cut |-> ~full]
    BY <1>2 DEF Stream
  <1>5. Renewed
    BY <1>1, <1>3 DEF Renewed, durable
  <1>6. base[f] \in 1 .. MaxLines + 1 /\ size[f] \in 0 .. 2 * MaxLines /\ f \in 0 .. MaxFiles /\ upto \in 0 .. 2 * MaxLines
        /\ upto <= size[f] /\ upto \in Nat
    BY <1>1, <1>4, Sorted DEF Inv, TypeOK
  <1>7. rd' \in [file : 0..MaxFiles, first : 1..MaxLines+1, upto : 0..2*MaxLines, cut : BOOLEAN]
    BY <1>4, <1>6
  <1>8. TypeOK'
    <2>1. givenUp' \subseteq Lines /\ dist' \in 0 .. MaxFiles
      BY <1>3, <1>5, Renew, Sorted
    <2>2. (head \in Files /\ base \in [Files -> 1..MaxLines+1] /\ size \in [Files -> 0..2*MaxLines]
           /\ gone \subseteq Files /\ truncates \in 0..MaxTruncates
           /\ ckpt \in [file : 0..MaxFiles, off : 0..2*MaxLines]
           /\ cur \in [file : Files, eof : 0..2*MaxLines]
           /\ stored \in [Sinks -> SUBSET Lines] /\ gapStatus \in BOOLEAN /\ latch \in BOOLEAN
           /\ windows \subseteq Lines /\ deaths \in 0..MaxDeaths)'
      BY <1>3 DEF Inv, TypeOK, source, durable
    <2> QED BY <1>3, <1>7, <2>1, <2>2 DEF TypeOK
  <1>9. base[f] + upto \div 2 <= MaxLines + 1
    <2>1. base[f] + (size[f] + 1) \div 2 <= MaxLines + 1 /\ (size[f] + 1) \div 2 \in Int /\ base[f] \in Nat
          /\ MaxLines \in Nat /\ size[f] \in Nat
      BY <1>1, Whole, Sorted
    <2>2. upto \div 2 \in Int /\ 2 * (upto \div 2) <= upto
          /\ size[f] + 1 <= 2 * ((size[f] + 1) \div 2) + 1
      BY <1>6, <2>1, Sorted
    <2> QED BY <1>6, <2>1, <2>2
  <1>10. Point'
    BY <1>1, <1>3, <1>5, Renew DEF Inv, Point, source, durable
  <1>11. Turn'
    <2>1. rd'.file = f /\ rd'.first = base[f] /\ rd'.upto = upto /\ rd'.cut = ~full
      BY <1>4
    <2>2. base' = base /\ size' = size /\ ckpt' = ckpt /\ cur' = cur
      BY <1>3 DEF source, durable
    <2> QED BY <1>1, <1>3, <1>4, <1>6, <1>9, <2>1, <2>2 DEF Turn, Streaming
  <1>12. Delivered'
    BY <1>3 DEF Delivered
  <1> QED BY <1>5, <1>8, <1>10, <1>11, <1>12, Renew DEF Inv

LEMMA PollStep == ASSUME Inv, Poll PROVE Inv'
  <1> DEFINE f == ckpt.file
  <1>1. pc = "poll" /\ cur' = [file |-> head, eof |-> size[head]]
        /\ UNCHANGED <<source, stored, gapStatus, dist, rd, windows, latch, deaths>>
        /\ f # 0 /\ f <= head
    BY DEF Poll, Inv, Point
  <1>2. cur' \in [file : Files, eof : 0..2*MaxLines] /\ head \in Files
    BY <1>1 DEF Inv, TypeOK
  <1>3. (head \in Files /\ base \in [Files -> 1..MaxLines+1] /\ size \in [Files -> 0..2*MaxLines]
         /\ gone \subseteq Files /\ truncates \in 0..MaxTruncates
         /\ rd \in [file : 0..MaxFiles, first : 1..MaxLines+1, upto : 0..2*MaxLines, cut : BOOLEAN]
         /\ stored \in [Sinks -> SUBSET Lines] /\ gapStatus \in BOOLEAN /\ latch \in BOOLEAN
         /\ dist \in 0..MaxFiles /\ windows \subseteq Lines /\ deaths \in 0..MaxDeaths)'
    BY <1>1 DEF Inv, TypeOK, source
  <1>4. CASE f # head
    <2>1. pc' = "find" /\ UNCHANGED <<ckpt, stale, givenUp>>
      BY <1>4 DEF Poll
    <2>2. Standing
      BY <1>1, <2>1 DEF Standing
    <2>3. TypeOK'
      BY <1>2, <1>3, <2>1 DEF Inv, TypeOK
    <2>4. Point' /\ Turn' /\ Delivered'
      BY <1>1, <1>4, <2>1, Sorted DEF Inv, Point, Turn, Delivered, Streaming, source
    <2> QED BY <2>2, <2>3, <2>4, Stand DEF Inv
  <1>5. CASE f = head /\ size[head] < ckpt.off
    <2>1. ckpt' = [file |-> head, off |-> 0] /\ stale' = FALSE /\ UNCHANGED givenUp
          /\ pc' \in {"read", "report"}
      BY <1>5 DEF Poll, AfterSwitch
    <2>2. ckpt' \in [file : 0..MaxFiles, off : 0..2*MaxLines]
      BY <1>2, <2>1, Sorted DEF Files
    <2>3. TypeOK'
      BY <1>2, <1>3, <2>1, <2>2 DEF Inv, TypeOK
    <2>4. 0 \div 2 = 0 /\ size[head] \in Nat /\ head # 0
      BY Sorted, SMT DEF Files
    <2>5. Point' /\ Turn' /\ Delivered'
      BY <1>1, <2>1, <2>4, Sorted DEF Inv, Point, Turn, Delivered, Streaming, source
    <2>6. Host'
      BY <1>1 DEF Inv, Host, source
    <2>7. Accounted'
      <3>1. Written' = Written /\ (\A g : LinesOf(g)' = LinesOf(g)) /\ base' = base /\ head' = head
        BY <1>1 DEF Written, LinesOf, LinesTo, source
      <3>2. \A l : Landed(l)' = Landed(l)
        BY <1>1 DEF Landed
      <3>3. ASSUME NEW l \in 1 .. Written, Remains(l) PROVE Remains(l)'
        <4>1. l \in LinesOf(head) /\ head \in head .. head
          BY <1>1, <1>5, <3>3, Sorted DEF Remains
        <4>2. l >= base[head] + 0 \div 2
          BY <1>2, <2>4, <4>1, Whole, Sorted
        <4> QED BY <2>1, <2>4, <3>1, <4>1, <4>2 DEF Remains
      <3> QED BY <2>1, <3>1, <3>2, <3>3 DEF Inv, Accounted
    <2> QED BY <2>3, <2>5, <2>6, <2>7 DEF Inv
  <1>6. CASE f = head /\ ~(size[head] < ckpt.off)
    <2>1. UNCHANGED ckpt /\ stale' = FALSE /\ givenUp' = givenUp \cup OverlapTo
          /\ pc' \in {"read", "report"}
      BY <1>6 DEF Poll, AfterSwitch
    <2>2. ckpt.off <= size[f]
      BY <1>2, <1>6, Sorted
    <2>3. Renewed
      BY <1>1, <2>1, <2>2 DEF Renewed
    <2>4. givenUp' \subseteq Lines
      BY <2>3, Renew
    <2>5. TypeOK'
      BY <1>2, <1>3, <2>1, <2>4 DEF Inv, TypeOK
    <2>6. Point' /\ Turn' /\ Delivered'
      BY <1>1, <1>6, <2>1, <2>2, <2>3, Renew, Sorted DEF Inv, Point, Turn, Delivered, Streaming, source
    <2> QED BY <2>3, <2>5, <2>6, Renew DEF Inv
  <1> QED BY <1>4, <1>5, <1>6

LEMMA FirstStep == ASSUME Inv, FirstCheckpoint PROVE Inv'
  <1> USE DEF FirstCheckpoint, source
  <1>1. ckpt.file = 0 /\ ~stale
    BY DEF Inv, Point
  <1>2. head \in Files /\ head # 0
    BY Sorted DEF Files
  <1>3. /\ LinesOf(head) \subseteq Lines /\ base[head] \in Nat /\ size[head] \in Nat /\ MaxLines \in Nat
        /\ size[head] \div 2 \in Int /\ (size[head] + 1) \div 2 \in Int
        /\ base[head] + (size[head] + 1) \div 2 <= MaxLines + 1 /\ size[head] \div 2 <= (size[head] + 1) \div 2
        /\ size[head] <= 2 * (size[head] \div 2) + 1 /\ 2 * (size[head] \div 2) <= size[head]
        /\ size[head] + 1 <= 2 * ((size[head] + 1) \div 2) + 1
        /\ base[head] > 0
    BY <1>2, Whole, Sorted
  <1>4. 1 .. base[head] + (size[head] + 1) \div 2 - 1 \subseteq Lines
    BY <1>3 DEF Lines
  <1>5. ckpt' \in [file : 0..MaxFiles, off : 0..2*MaxLines]
    <2>1. size[head] \in 0 .. 2 * MaxLines
      BY <1>2 DEF Inv, TypeOK
    <2>2. head \in 0 .. MaxFiles
      BY <1>2, Sorted DEF Files
    <2> QED BY <2>1, <2>2
  <1>6. TypeOK'
    BY <1>4, <1>5 DEF Inv, TypeOK
  <1>7. Host'
    BY DEF Inv, Host
  <1>8. Point' /\ Turn' /\ Delivered'
    <2>1. ASSUME size[head] # 2 * (size[head] \div 2) PROVE base[head] + size[head] \div 2 \in givenUp'
      <3> DEFINE b == base[head]
                 n == size[head]
                 h == n \div 2
                 k == (n + 1) \div 2
      <3>1. b \in Nat /\ b > 0 /\ n \in Nat /\ h \in Int /\ k \in Int /\ n <= 2 * h + 1 /\ 2 * h <= n
            /\ n + 1 <= 2 * k + 1 /\ n # 2 * h
        BY <1>3, <2>1
      <3>2. givenUp' = givenUp \cup (1 .. b + k - 1)
        OBVIOUS
      <3> HIDE DEF b, n, h, k, FirstCheckpoint
      <3>3. b + h \in 1 .. b + k - 1
        BY <3>1
      <3>4. b + h \in givenUp'
        BY <3>2, <3>3
      <3> QED BY <3>4 DEF b, h, n
    <2> QED BY <1>1, <1>2, <1>3, <2>1, Sorted DEF Inv, Point, Turn, Delivered, Streaming
  <1>9. Accounted'
    BY <1>3 DEF Accounted, Written
  <1> QED BY <1>6, <1>7, <1>8, <1>9 DEF Inv

LEMMA AdvanceStep == ASSUME Inv, Advance PROVE Inv'
  <1> DEFINE f == ckpt.file
             off == ckpt.off
             to == FlushAt
  <1>1. pc = "advance" /\ pc' = "batch" /\ ckpt' = [file |-> rd.file, off |-> FlushAt]
        /\ UNCHANGED <<source, stored, gapStatus, cur, dist, rd, windows, latch, deaths, stale, givenUp>>
    BY DEF Advance
  <1>2. rd.file = f /\ f # 0 /\ f <= cur.file /\ rd.first + rd.upto \div 2 <= MaxLines + 1
    BY <1>1 DEF Inv, Point, Turn, Streaming
  <1>3. f \in Files /\ f <= head
    BY <1>2, Sorted DEF Inv, Point
  <1>4. /\ off \in Nat /\ rd.upto \in Nat /\ rd.upto <= 2 * MaxLines /\ rd.first \in Nat /\ MaxLines \in Nat
        /\ off <= 2 * MaxLines
    BY Sorted DEF Inv, TypeOK
  <1>5. /\ to \in Nat /\ off <= to
        /\ to # off => to = 2 * (to \div 2) /\ to <= 2 * (rd.upto \div 2)
    BY Flushes DEF Inv
  <1>6. /\ off \div 2 \in Int /\ (off + 1) \div 2 \in Int /\ to \div 2 \in Int /\ (to + 1) \div 2 \in Int
        /\ rd.upto \div 2 \in Int /\ 2 * (rd.upto \div 2) <= rd.upto
        /\ 2 * (to \div 2) <= to /\ to <= 2 * (to \div 2) + 1 /\ to + 1 <= 2 * ((to + 1) \div 2) + 1
        /\ 2 * (off \div 2) <= off /\ off <= 2 * (off \div 2) + 1
    BY <1>4, <1>5, Sorted
  <1>7. ckpt' \in [file : 0..MaxFiles, off : 0..2*MaxLines] /\ ckpt'.file = f /\ ckpt'.off = to
    BY <1>1, <1>2, <1>4, <1>5, <1>6, Sorted
  <1> HIDE DEF f, off, to
  <1>8. TypeOK'
    BY <1>1, <1>7 DEF Inv, TypeOK, source
  <1>9. Host'
    BY <1>1 DEF Inv, Host, source
  <1>10. Point'
    <2>1. ~stale => to <= size[f]
      <3>1. ~stale => off <= size[f] /\ rd.upto <= size[f]
        BY <1>1, <1>2 DEF Inv, Point, Turn, Streaming, f, off
      <3>2. size[f] \in Nat
        BY <1>3, Sorted
      <3> QED BY <1>4, <1>5, <1>6, <3>1, <3>2
    <2>2. ~stale /\ to # 2 * (to \div 2) => base[f] + to \div 2 \in givenUp
      BY <1>1, <1>2, <1>5 DEF Inv, Point, f, off
    <2>3. base' = base /\ size' = size /\ head' = head /\ cur' = cur /\ stale' = stale /\ givenUp' = givenUp
      BY <1>1 DEF source
    <2> QED BY <1>1, <1>2, <1>3, <1>7, <2>1, <2>2, <2>3 DEF Inv, Point
  <1>11. Turn' /\ Delivered'
    BY <1>1, <1>2, <1>7 DEF Inv, Turn, Delivered, Streaming, source, f
  <1>12. Accounted'
    <2>1. Written' = Written /\ (\A g : LinesOf(g)' = LinesOf(g)) /\ base' = base /\ head' = head
      BY <1>1 DEF Written, LinesOf, LinesTo, source
    <2>2. \A l : Landed(l)' = Landed(l)
      BY <1>1 DEF Landed
    <2>3. \A l \in Chunk : Landed(l)
      BY <1>1 DEF Inv, Delivered, Landed, Sinks
    <2>4. ASSUME NEW l \in 1 .. Written, Remains(l)
          PROVE  Remains(l)' \/ l \in Blank \/ l \in givenUp \/ l \in Chunk
      <3>1. PICK g \in f .. head :
               /\ l \in LinesOf(g)
               /\ g = f => \/ l >= base[g] + off \div 2
                           \/ stale /\ l < base[g] + (off + 1) \div 2
        BY <1>2, <2>4 DEF Remains, f, off
      <3>2. CASE g # f
        BY <1>1, <1>2, <1>7, <2>1, <3>1, <3>2 DEF Remains
      <3>3. CASE g = f
        <4>1. l \in Int /\ l >= base[f] /\ base[f] \in Nat
          BY <1>3, <3>1, <3>3, Whole
        <4>2. CASE stale \/ l >= base[f] + to \div 2
          <5>0. to \div 2 <= (to + 1) \div 2
            BY <1>5, <1>6
          <5>1. l >= base[f] + to \div 2 \/ (stale /\ l < base[f] + (to + 1) \div 2)
            <6>1. l >= base[f] + to \div 2 \/ l < base[f] + (to + 1) \div 2
              BY <1>6, <4>1, <5>0
            <6> QED BY <4>2, <6>1
          <5> QED BY <1>1, <1>2, <1>7, <2>1, <3>1, <3>3, <5>1 DEF Remains
        <4>3. CASE ~stale /\ ~(l >= base[f] + to \div 2)
          <5>1. rd.first = base[f]
            BY <1>1, <4>3 DEF Inv, Turn, Streaming, f
          <5>2. l >= base[f] + off \div 2
            BY <3>1, <3>3, <4>3
          <5>3. CASE off # 2 * (off \div 2) /\ l = base[f] + off \div 2
            BY <1>2, <4>3, <5>3 DEF Inv, Point, f, off
          <5>4. CASE ~(off # 2 * (off \div 2) /\ l = base[f] + off \div 2)
            <6>1. 2 * (l - rd.first) >= off
              BY <1>4, <1>6, <4>1, <5>1, <5>2, <5>4
            <6>2. l \in rd.first .. rd.first + to \div 2 - 1
              BY <1>4, <1>6, <4>1, <4>3, <5>1
            <6> QED BY <6>1, <6>2, Chunks DEF Inv, to, off
          <5> QED BY <5>3, <5>4
        <4> QED BY <4>2, <4>3
      <3> QED BY <3>2, <3>3
    <2> QED BY <1>1, <2>1, <2>2, <2>3, <2>4 DEF Inv, Accounted
  <1> QED BY <1>8, <1>9, <1>10, <1>11, <1>12 DEF Inv

-----------------------------------------------------------------------------
(* Steps of the source.                                                    *)

LEMMA SameChunk == ASSUME UNCHANGED <<ckpt, rd>> PROVE Chunk' = Chunk
  BY DEF Chunk, Parsed, RangeLines, FlushAt, LastBoundary

LEMMA CompressStep == ASSUME Inv, NEW g \in Files, Compress(g) PROVE Inv'
  <1> USE DEF Compress, durable, process
  <1>1. TypeOK'
    BY DEF Inv, TypeOK
  <1>2. Host' /\ Point' /\ Turn'
    BY DEF Inv, Host, Point, Turn
  <1>3. Delivered'
    BY SameChunk DEF Inv, Delivered
  <1>4. \A l : (Remains(l)' <=> Remains(l)) /\ (Landed(l)' <=> Landed(l))
    BY DEF Remains, Landed, Written, LinesOf, LinesTo
  <1>5. Accounted'
    BY <1>4 DEF Inv, Accounted, Written
  <1> QED BY <1>1, <1>2, <1>3, <1>5 DEF Inv

LEMMA WriteStep == ASSUME Inv, Write PROVE Inv'
  <1> DEFINE b == base[head]
             n == size[head]
  <1>1. Written < MaxLines /\ size' = [size EXCEPT ![head] = @ + 1]
        /\ UNCHANGED <<head, base, gone, truncates, durable, process, stale, givenUp>>
    BY DEF Write
  <1>2. head \in Files /\ b \in Nat /\ b > 0 /\ n \in Nat /\ MaxLines \in Nat /\ head \in Nat /\ head > 0
    BY Sorted DEF Files
  <1>3. size \in [Files -> 0 .. 2 * MaxLines] /\ b + (n + 1) \div 2 <= MaxLines + 1
    BY <1>2, Whole DEF Inv, TypeOK
  <1>4. size'[head] = n + 1 /\ \A f \in Files : f # head => size'[f] = size[f]
    BY <1>1, <1>2, <1>3
  <1>5. Written = b + n \div 2 - 1
    BY DEF Written
  <1>6. /\ n \div 2 \in Int /\ (n + 1) \div 2 \in Int /\ (n + 2) \div 2 \in Int
        /\ 2 * (n \div 2) <= n /\ n <= 2 * (n \div 2) + 1
        /\ 2 * ((n + 1) \div 2) <= n + 1 /\ n + 1 <= 2 * ((n + 1) \div 2) + 1
        /\ 2 * ((n + 2) \div 2) <= n + 2 /\ n + 2 <= 2 * ((n + 2) \div 2) + 1
    BY <1>2, Sorted
  <1> HIDE DEF b, n
  <1>7. (n + 2) \div 2 = n \div 2 + 1
    BY <1>2, <1>6
  <1>8. b + (n + 2) \div 2 <= MaxLines + 1 /\ n + 1 \in 0 .. 2 * MaxLines
    BY <1>1, <1>2, <1>5, <1>6, <1>7
  <1>9. size' \in [Files -> 0 .. 2 * MaxLines]
    BY <1>1, <1>2, <1>3, <1>8 DEF n
  <1>10. TypeOK'
    BY <1>1, <1>9 DEF Inv, TypeOK, durable, process
  <1>11. Host'
    <2> SUFFICES ASSUME NEW f \in Files
                 PROVE  /\ f > head => size'[f] = 0
                        /\ f <= head => base[f] + (size'[f] + 1) \div 2 <= MaxLines + 1
      BY <1>1 DEF Host
    <2>1. CASE f # head
      BY <1>4, <2>1 DEF Inv, Host
    <2>2. CASE f = head
      <3>1. (size'[f] + 1) \div 2 = (n + 2) \div 2
        <4>1. size'[f] + 1 = n + 2
          BY <1>2, <1>4, <2>2
        <4> QED BY <4>1
      <3> QED BY <1>2, <1>8, <2>2, <3>1 DEF b
    <2> QED BY <2>1, <2>2
  <1>12. \A f \in Files : size[f] <= size'[f] /\ size'[f] \in Nat /\ size[f] \in Nat
    BY <1>2, <1>4, Sorted DEF n
  <1>13. Point'
    <2>1. head' = head /\ base' = base /\ ckpt' = ckpt /\ cur' = cur /\ pc' = pc /\ stale' = stale /\ givenUp' = givenUp
      BY <1>1 DEF durable, process
    <2>2. ckpt.file # 0 => ckpt.file \in Files
      BY Sorted DEF Inv, TypeOK
    <2>3. ckpt.file # 0 /\ ~stale => ckpt.off <= size'[ckpt.file]
      BY <1>12, <2>2, Sorted DEF Inv, Point
    <2> QED BY <2>1, <2>3 DEF Inv, Point
  <1>14. Turn'
    <2>1. head' = head /\ base' = base /\ ckpt' = ckpt /\ cur' = cur /\ pc' = pc /\ stale' = stale /\ rd' = rd
      BY <1>1 DEF durable, process
    <2>2. ASSUME pc \in Streaming \cup {"switch"}
          PROVE  /\ rd.upto <= size[ckpt.file] => rd.upto <= size'[ckpt.file]
                 /\ ckpt.file < cur.file => size'[ckpt.file] = size[ckpt.file]
      <3>1. ckpt.file \in Files /\ cur.file <= head /\ rd.upto \in Nat
        BY <2>2, Sorted DEF Inv, Point, Turn, Streaming, TypeOK
      <3>2. ckpt.file < cur.file => ckpt.file # head
        BY <3>1, Sorted
      <3> QED BY <1>4, <1>12, <3>1, <3>2
    <2> QED BY <2>1, <2>2 DEF Inv, Turn
  <1>15. Delivered'
    BY <1>1, SameChunk DEF Inv, Delivered, durable, process
  <1>16. Accounted'
    <2>1. Written' = b + (n + 1) \div 2 - 1
      BY <1>1, <1>2, <1>4 DEF Written, b
    <2>2. \A f \in Files : LinesOf(f) \subseteq LinesOf(f)'
      <3>1. \A f \in Files : f # head => LinesOf(f)' = LinesOf(f)
        BY <1>1, <1>4 DEF LinesOf, LinesTo
      <3>2. LinesOf(head) = b .. b + n \div 2 - 1 /\ LinesOf(head)' = b .. b + (n + 1) \div 2 - 1
        BY <1>1, <1>2, <1>4 DEF LinesOf, LinesTo, b, n
      <3>3. n \div 2 <= (n + 1) \div 2
        BY <1>2, <1>6
      <3> DEFINE u == n \div 2
                 v == (n + 1) \div 2
      <3>5. b .. b + u - 1 \subseteq b .. b + v - 1
        <4>1. u \in Int /\ v \in Int /\ u <= v
          BY <1>6, <3>3
        <4> HIDE DEF u, v
        <4> QED BY <1>2, <4>1
      <3>4. LinesOf(head) \subseteq LinesOf(head)'
        BY <3>2, <3>5
      <3> QED
        <4> SUFFICES ASSUME NEW f \in Files PROVE LinesOf(f) \subseteq LinesOf(f)'
          OBVIOUS
        <4>1. CASE f = head
          BY <1>1, <3>2, <3>5, <4>1 DEF LinesOf, LinesTo
        <4>2. CASE f # head
          BY <3>1, <4>2
        <4> QED BY <4>1, <4>2
    <2>3. \A l : Landed(l)' = Landed(l)
      BY <1>1 DEF Landed, durable
    <2>4. ASSUME NEW l \in 1 .. Written, Remains(l) PROVE Remains(l)'
      <3>1. CASE ckpt.file = 0
        <4>1. 1 .. Written \subseteq 1 .. Written'
          BY <1>2, <1>5, <1>6, <2>1
        <4> QED BY <1>1, <3>1, <4>1 DEF Remains, durable
      <3>2. CASE ckpt.file # 0
        <4>1. PICK f \in ckpt.file .. head :
                 /\ l \in LinesOf(f)
                 /\ f = ckpt.file => \/ l >= base[f] + ckpt.off \div 2
                                     \/ stale /\ l < base[f] + (ckpt.off + 1) \div 2
          BY <2>4, <3>2 DEF Remains
        <4>2. f \in Files
          BY <1>2, <3>2, Sorted DEF Files
        <4> QED BY <1>1, <2>2, <3>2, <4>1, <4>2 DEF Remains, durable
      <3> QED BY <3>1, <3>2
    <2>5. ASSUME NEW l \in 1 .. Written', l \notin 1 .. Written PROVE Remains(l)'
      <3>1. l = b + n \div 2 /\ l \in LinesOf(head)'
        <4>1. l \in b .. b + (n + 1) \div 2 - 1 /\ l = b + n \div 2
          BY <1>2, <1>5, <1>6, <2>1, <2>5
        <4>2. LinesOf(head)' = b .. b + (n + 1) \div 2 - 1
          BY <1>1, <1>2, <1>4 DEF LinesOf, LinesTo, b, n
        <4> QED BY <4>1, <4>2
      <3>2. CASE ckpt.file = 0
        BY <1>1, <2>5, <3>2 DEF Remains, durable
      <3>3. CASE ckpt.file # 0
        <4>1. head \in ckpt.file .. head
          BY <3>3, Sorted DEF Inv, Point
        <4>2. head = ckpt.file => l >= b + ckpt.off \div 2 \/ (stale /\ l < b + (ckpt.off + 1) \div 2)
          <5>1. ckpt.off \in Nat /\ ckpt.off \div 2 \in Int /\ (ckpt.off + 1) \div 2 \in Int
                /\ 2 * (ckpt.off \div 2) <= ckpt.off /\ ckpt.off + 1 <= 2 * ((ckpt.off + 1) \div 2) + 1
            BY Sorted
          <5>2. ckpt.off \div 2 <= (ckpt.off + 1) \div 2
            BY <5>1
          <5>3. CASE stale
            BY <1>2, <1>6, <3>1, <5>1, <5>2, <5>3
          <5>4. CASE ~stale /\ head = ckpt.file
            <6>1. ckpt.off <= n
              BY <3>3, <5>4 DEF Inv, Point, n
            <6> QED BY <1>2, <1>6, <3>1, <5>1, <6>1
          <5> QED BY <5>3, <5>4
        <4> QED BY <1>1, <3>1, <3>3, <4>1, <4>2 DEF Remains, durable, b
      <3> QED BY <3>2, <3>3
    <2> QED BY <1>1, <2>3, <2>4, <2>5 DEF Inv, Accounted
  <1> QED BY <1>10, <1>11, <1>13, <1>14, <1>15, <1>16 DEF Inv

LEMMA RotateStep == ASSUME Inv, Rotate PROVE Inv'
  <1> DEFINE b == base[head]
             n == size[head]
  <1>1. head < MaxFiles /\ n > 0 /\ n % 2 = 0 /\ head' = head + 1
        /\ base' = [base EXCEPT ![head+1] = Written + 1]
        /\ UNCHANGED <<size, gone, truncates, durable, process, stale, givenUp>>
    BY DEF Rotate
  <1>2. head \in Files /\ head + 1 \in Files /\ b \in Nat /\ b > 0 /\ n \in Nat /\ MaxLines \in Nat
        /\ head \in Nat /\ head > 0 /\ head \in 1 .. head
    BY <1>1, Sorted DEF Files
  <1>3. Written = b + n \div 2 - 1 /\ n \div 2 \in Int /\ 2 * (n \div 2) <= n /\ n <= 2 * (n \div 2) + 1
        /\ b + (n + 1) \div 2 <= MaxLines + 1 /\ (n + 1) \div 2 \in Int /\ n \div 2 <= (n + 1) \div 2
    BY <1>2, Sorted, Whole DEF Written
  <1>4. Written + 1 \in 1 .. MaxLines + 1
    <2> HIDE DEF b, n
    <2> QED BY <1>2, <1>3
  <1>5. base' \in [Files -> 1 .. MaxLines + 1] /\ base'[head + 1] = Written + 1
        /\ \A f \in Files : f # head + 1 => base'[f] = base[f]
    <2>1. base \in [Files -> 1 .. MaxLines + 1]
      BY DEF Inv, TypeOK
    <2> QED BY <1>1, <1>2, <1>4, <2>1
  <1>6. size[head + 1] = 0
    BY <1>2 DEF Inv, Host
  <1>7. 0 \div 2 = 0 /\ (0 + 1) \div 2 = 0
    BY SMT
  <1>8. TypeOK'
    BY <1>1, <1>2, <1>5 DEF Inv, TypeOK, durable, process
  <1>9. Host'
    <2> SUFFICES ASSUME NEW f \in Files
                 PROVE  /\ f > head + 1 => size[f] = 0
                        /\ f <= head + 1 => base'[f] + (size[f] + 1) \div 2 <= MaxLines + 1
      BY <1>1 DEF Host
    <2>1. CASE f = head + 1
      <3>1. (size[f] + 1) \div 2 = 0
        BY <1>6, <1>7, <2>1
      <3> QED BY <1>2, <1>4, <1>5, <2>1, <3>1
    <2>2. CASE f # head + 1
      <3>1. f \in Nat /\ base'[f] = base[f]
        BY <1>5, <2>2, Sorted
      <3> QED BY <1>2, <2>2, <3>1 DEF Inv, Host
    <2> QED BY <2>1, <2>2
  <1>10. ckpt.file # head + 1 /\ ckpt.file <= head + 1 /\ cur.file <= head + 1
    BY <1>2, Sorted DEF Inv, Point
  <1>11. ckpt.file # 0 => ckpt.file \in Files /\ base'[ckpt.file] = base[ckpt.file]
    BY <1>5, <1>10, Sorted
  <1>12. Point'
    BY <1>1, <1>10, <1>11 DEF Inv, Point, durable, process
  <1>13. Turn'
    <2>1. size' = size /\ ckpt' = ckpt /\ cur' = cur /\ pc' = pc /\ stale' = stale /\ rd' = rd
      BY <1>1 DEF durable, process
    <2>2. pc \in Streaming \cup {"switch"} => ckpt.file # 0
      BY DEF Inv, Point, Streaming
    <2> QED BY <1>11, <2>1, <2>2 DEF Inv, Turn
  <1>14. Delivered'
    BY <1>1, SameChunk DEF Inv, Delivered, durable, process
  <1>15. Accounted'
    <2>1. Written' = Written
      <3>1. Written' = Written + 1 + 0 \div 2 - 1
        BY <1>1, <1>5, <1>6 DEF Written
      <3>2. Written \in Int
        BY Sorted
      <3> QED BY <1>7, <3>1, <3>2
    <2>2. \A f \in Files : f # head + 1 => LinesOf(f)' = LinesOf(f)
      BY <1>1, <1>5 DEF LinesOf, LinesTo
    <2>3. \A l : Landed(l)' = Landed(l)
      BY <1>1 DEF Landed, durable
    <2>4. ASSUME NEW l \in 1 .. Written, Remains(l) PROVE Remains(l)'
      <3>1. CASE ckpt.file = 0
        BY <1>1, <2>1, <3>1 DEF Remains, durable
      <3>2. CASE ckpt.file # 0
        <4>1. PICK f \in ckpt.file .. head :
                 /\ l \in LinesOf(f)
                 /\ f = ckpt.file => \/ l >= base[f] + ckpt.off \div 2
                                     \/ stale /\ l < base[f] + (ckpt.off + 1) \div 2
          BY <2>4, <3>2 DEF Remains
        <4>2. f \in Files /\ f # head + 1 /\ f \in ckpt.file .. head + 1
          BY <1>2, <3>2, Sorted DEF Files
        <4> QED BY <1>1, <1>5, <2>2, <3>2, <4>1, <4>2 DEF Remains, durable
      <3> QED BY <3>1, <3>2
    <2> QED BY <1>1, <2>1, <2>3, <2>4 DEF Inv, Accounted
  <1> QED BY <1>8, <1>9, <1>12, <1>13, <1>14, <1>15 DEF Inv

LEMMA TruncateStep == ASSUME Inv, Truncate PROVE Inv'
  <1> DEFINE b == base[head]
             n == size[head]
             lost == IF ckpt.file = head THEN LinesPast(head, ckpt.off) \cup Overlapped ELSE LinesOf(head)
  <1>1. truncates < MaxTruncates /\ truncates' = truncates + 1
        /\ givenUp' = givenUp \cup lost /\ stale' = (stale \/ ckpt.file = head)
        /\ base' = [base EXCEPT ![head] = Written + 1] /\ size' = [size EXCEPT ![head] = 0]
        /\ UNCHANGED <<head, gone, durable, process>>
    BY DEF Truncate
  <1>2. head \in Files /\ b \in Nat /\ b > 0 /\ n \in Nat /\ MaxLines \in Nat /\ head \in Nat /\ head > 0
    BY Sorted DEF Files
  <1>3. Written = b + n \div 2 - 1 /\ n \div 2 \in Int /\ 2 * (n \div 2) <= n /\ n <= 2 * (n \div 2) + 1
        /\ b + (n + 1) \div 2 <= MaxLines + 1 /\ (n + 1) \div 2 \in Int /\ n \div 2 <= (n + 1) \div 2
    BY <1>2, Sorted, Whole DEF Written
  <1>4. Written + 1 \in 1 .. MaxLines + 1
    <2> HIDE DEF b, n, lost
    <2> QED BY <1>2, <1>3
  <1>5. /\ base' \in [Files -> 1 .. MaxLines + 1] /\ base'[head] = Written + 1
        /\ size' \in [Files -> 0 .. 2 * MaxLines] /\ size'[head] = 0
        /\ \A f \in Files : f # head => base'[f] = base[f] /\ size'[f] = size[f]
    <2>1. base \in [Files -> 1 .. MaxLines + 1] /\ size \in [Files -> 0 .. 2 * MaxLines]
      BY DEF Inv, TypeOK
    <2> QED BY <1>1, <1>2, <1>4, <2>1
  <1>6. lost \subseteq Lines
    BY <1>2, Whole DEF LinesPast, Overlapped
  <1>7. 0 \div 2 = 0 /\ (0 + 1) \div 2 = 0
    BY SMT
  <1>8. TypeOK'
    <2>1. truncates' \in 0 .. MaxTruncates
      BY <1>1, IngestAssumption DEF Inv, TypeOK
    <2>2. stale' \in BOOLEAN
      BY <1>1
    <2>3. givenUp' \subseteq Lines
      BY <1>1, <1>6 DEF Inv, TypeOK
    <2> QED BY <1>1, <1>5, <2>1, <2>2, <2>3 DEF Inv, TypeOK, durable, process
  <1> HIDE DEF lost
  <1>9. Host'
    <2> SUFFICES ASSUME NEW f \in Files
                 PROVE  /\ f > head => size'[f] = 0
                        /\ f <= head => base'[f] + (size'[f] + 1) \div 2 <= MaxLines + 1
      BY <1>1 DEF Host
    <2>1. CASE f = head
      <3>1. (size'[f] + 1) \div 2 = 0
        BY <1>5, <1>7, <2>1
      <3> QED BY <1>2, <1>4, <1>5, <2>1, <3>1
    <2>2. CASE f # head
      BY <1>5, <2>2 DEF Inv, Host
    <2> QED BY <2>1, <2>2
  <1>10. ckpt.file # 0 /\ ckpt.file # head => ckpt.file \in Files
    BY Sorted
  <1>11. Point'
    <2>1. CASE ckpt.file = head
      <3>1. stale' = TRUE
        BY <1>1, <2>1
      <3>2. head' = head /\ ckpt' = ckpt /\ cur' = cur /\ pc' = pc
        BY <1>1 DEF durable, process
      <3>3. head # 0 /\ Point
        BY <1>2 DEF Inv
      <3> QED BY <2>1, <3>1, <3>2, <3>3 DEF Point
    <2>2. CASE ckpt.file # head
      <3>1. stale' = stale
        BY <1>1, <2>2 DEF Inv, TypeOK
      <3>2. head' = head /\ ckpt' = ckpt /\ cur' = cur /\ pc' = pc /\ givenUp \subseteq givenUp'
        BY <1>1 DEF durable, process
      <3>3. ckpt.file # 0 => base'[ckpt.file] = base[ckpt.file] /\ size'[ckpt.file] = size[ckpt.file]
        BY <1>5, <1>10, <2>2
      <3>4. Point
        BY DEF Inv
      <3>5. ckpt'.file # 0 /\ ~stale' =>
              /\ ckpt'.off <= size'[ckpt'.file]
              /\ ckpt'.off # 2 * (ckpt'.off \div 2) => base'[ckpt'.file] + ckpt'.off \div 2 \in givenUp'
        BY <3>1, <3>2, <3>3, <3>4 DEF Point
      <3> QED BY <3>1, <3>2, <3>4, <3>5 DEF Point
    <2> QED BY <2>1, <2>2
  <1>12. Turn'
    <2>1. ckpt' = ckpt /\ cur' = cur /\ pc' = pc /\ rd' = rd
      BY <1>1 DEF durable, process
    <2>2. CASE ckpt.file = head
      <3>1. ~(ckpt.file < cur.file)
        BY <2>2, Sorted DEF Inv, Point
      <3> QED BY <1>1, <2>1, <2>2, <3>1 DEF Inv, Turn
    <2>3. CASE ckpt.file # head
      <3>1. pc \in Streaming \cup {"switch"} => ckpt.file \in Files
        BY <1>10, <2>3 DEF Inv, Point, Streaming
      <3> QED BY <1>1, <1>5, <2>1, <2>3, <3>1 DEF Inv, Turn
    <2> QED BY <2>2, <2>3
  <1>13. Delivered'
    BY <1>1, SameChunk DEF Inv, Delivered, durable, process
  <1>14. Accounted'
    <2>1. Written' = Written
      <3>1. Written' = Written + 1 + 0 \div 2 - 1
        BY <1>1, <1>5 DEF Written
      <3>2. Written \in Int
        BY Sorted
      <3> QED BY <1>7, <3>1, <3>2
    <2>2. \A f \in Files : f # head => LinesOf(f)' = LinesOf(f)
      BY <1>1, <1>5 DEF LinesOf, LinesTo
    <2>3. \A l : Landed(l)' = Landed(l)
      BY <1>1 DEF Landed, durable
    <2>4. ASSUME NEW l \in 1 .. Written, Remains(l) PROVE Remains(l)' \/ l \in givenUp'
      <3>1. CASE ckpt.file = 0
        BY <1>1, <2>1, <3>1 DEF Remains, durable
      <3>2. CASE ckpt.file # 0
        <4>1. PICK f \in ckpt.file .. head :
                 /\ l \in LinesOf(f)
                 /\ f = ckpt.file => \/ l >= base[f] + ckpt.off \div 2
                                     \/ stale /\ l < base[f] + (ckpt.off + 1) \div 2
          BY <2>4, <3>2 DEF Remains
        <4>2. f \in Files /\ f <= head
          BY <1>2, <3>2, Sorted DEF Files
        <4>3. CASE f = head /\ ckpt.file # head
          BY <1>1, <4>1, <4>3 DEF lost
        <4>4. CASE f = head /\ ckpt.file = head
          <5>1. l \in Int /\ l >= b /\ ckpt.off \div 2 \in Int /\ (ckpt.off + 1) \div 2 \in Int
            BY <1>2, <4>1, <4>4, Whole, Sorted
          <5>2. l \in LinesPast(head, ckpt.off) \cup Overlapped
            BY <1>2, <4>1, <4>4, <5>1 DEF LinesPast, LinesTo, Overlapped, OverlapTo
          <5> QED BY <1>1, <4>4, <5>2 DEF lost
        <4>5. CASE f # head
          <5>1. stale => stale'
            BY <1>1
          <5> QED BY <1>1, <1>5, <2>2, <3>2, <4>1, <4>2, <4>5, <5>1 DEF Remains, durable
        <4> QED BY <4>3, <4>4, <4>5
      <3> QED BY <3>1, <3>2
    <2> QED BY <1>1, <2>1, <2>3, <2>4 DEF Inv, Accounted
  <1> QED BY <1>8, <1>9, <1>11, <1>12, <1>13, <1>14 DEF Inv

-----------------------------------------------------------------------------
LEMMA NextInv == Inv /\ [Next]_vars => Inv'
  <1> SUFFICES ASSUME Inv, [Next]_vars PROVE Inv'
    OBVIOUS
  <1>1. CASE Source
    BY <1>1, WriteStep, RotateStep, TruncateStep, CompressStep DEF Source
  <1>2. CASE Collector
    <2>1. CASE Start \/ FirstCheckpoint \/ Warm \/ Poll \/ NextFlush \/ Detect \/ Advance
      BY <2>1, StartStep, FirstStep, WarmStep, PollStep, NextFlushStep, DetectStep, AdvanceStep
    <2>2. CASE Drained \/ Report \/ FindRotated \/ DeclareGap \/ ProbeRotated \/ ProbeFails
      BY <2>2, DrainedStep, EndingStep, FindRotatedStep, DeclareGapStep, ProbeRotatedStep
    <2>3. CASE \E full \in BOOLEAN : ReadLog(full) \/ DrainRotated(full)
      BY <2>3, StreamStep
    <2>4. CASE ReadNothing \/ DrainNothing
      BY <2>4, ReadNothingStep, DrainNothingStep
    <2>5. CASE Insert("facts", "security") \/ Insert("security", "alerts")
      BY <2>5, InsertStep
    <2> QED BY <1>2, <2>1, <2>2, <2>3, <2>4, <2>5 DEF Collector
  <1>3. CASE Die
    BY <1>3, DieStep
  <1>4. CASE UNCHANGED vars
    <2> USE <1>4 DEF vars, source, durable, process
    <2>1. Standing
      BY DEF Standing
    <2>2. TypeOK'
      BY DEF Inv, TypeOK
    <2>3. Point' /\ Turn'
      BY DEF Inv, Point, Turn
    <2>4. Delivered'
      BY SameChunk DEF Inv, Delivered
    <2> QED BY <2>1, <2>2, <2>3, <2>4, Stand DEF Inv
  <1> QED BY <1>1, <1>2, <1>3, <1>4 DEF Next

LEMMA Invariance == Spec => []Inv
  BY InitInv, NextInv, PTL DEF Spec

\* Typing, and no line is lost but at the places the code names: not between
\* two sinks and the checkpoint, not where a stream is cut or half a line is
\* read, however often the log is rotated, truncated and the process dies
\* (_stream, commit_live_batch_sinks and live of facts_ingest.py).
THEOREM NoLineLost == Spec => []LossAccounted
  <1>1. Inv => LossAccounted
    <2> SUFFICES ASSUME Inv PROVE LossAccounted
      OBVIOUS
    <2>1. TypeOK /\ ckpt.file <= head
      BY DEF Inv, Point
    <2>2. \A l : l \in Ahead <=> Remains(l)
      BY <2>1, AheadRemains
    <2> QED BY <2>1, <2>2 DEF Inv, Accounted, LossAccounted
  <1> QED BY <1>1, Invariance, PTL

-----------------------------------------------------------------------------
(* The windows of the detector.                                            *)

Seen == windows \cup Blank \cup givenUp

\* The last lines before offset off of a file that begins with line first.
Near(first, off, seen) ==
    \A k \in Int : /\ first <= k /\ k < first + off \div 2
                   /\ first + off \div 2 - Window <= k
                   => k \in seen

Watched ==
    /\ pc \in Streaming /\ ckpt.off # 2 * (ckpt.off \div 2) => rd.first + ckpt.off \div 2 \in givenUp
    /\ pc \in Streaming /\ ckpt.file = cur.file => Near(rd.first, ckpt.off, Seen)
    /\ pc \in {"poll", "read", "report"} /\ ~stale /\ (ckpt.file = head \/ pc = "read") =>
          Near(base[ckpt.file], ckpt.off, Seen)
    /\ pc = "advance" => Chunk \subseteq windows

LEMMA NearKept ==
    ASSUME NEW first, NEW off, NEW more, NEW seen \in SUBSET more, Near(first, off, seen)
    PROVE  Near(first, off, more)
  BY DEF Near

LEMMA NearStart == ASSUME NEW first \in Int, NEW seen PROVE Near(first, 0, seen)
  <1>1. 0 \div 2 = 0
    BY SMT
  <1> QED BY <1>1 DEF Near

\* Steps of the loop that read nothing and move no checkpoint.
LEMMA WatchedPassed ==
    ASSUME Inv, Watched, UNCHANGED <<source, ckpt, stale, givenUp, windows>>,
           \/ pc \in {"probe", "find"} /\ pc' \in {"poll", "probe", "drain"}
           \/ pc = "read" /\ pc' = "report"
           \/ pc = "report" /\ pc' = "poll"
           \/ pc = "poll" /\ pc' = "find"
           \/ pc' \in {"down", "first", "warm", "switch"}
    PROVE  Watched'
  <1> USE DEF source
  <1>1. Seen' = Seen
    BY DEF Seen
  <1>2. CASE pc \in {"probe", "find"} /\ pc' \in {"poll", "probe", "drain"}
    <2>1. ckpt.file < head
      BY <1>2, Sorted DEF Inv, Point, Turn
    <2> QED BY <1>2, <2>1, Sorted DEF Watched, Streaming
  <1>3. CASE pc = "read" /\ pc' = "report"
    BY <1>1, <1>3 DEF Watched, Streaming
  <1>4. CASE pc = "report" /\ pc' = "poll"
    BY <1>1, <1>4 DEF Watched, Streaming
  <1>5. CASE pc = "poll" /\ pc' = "find"
    BY <1>5 DEF Watched, Streaming
  <1>6. CASE pc' \in {"down", "first", "warm", "switch"}
    BY <1>6 DEF Watched, Streaming
  <1> QED BY <1>2, <1>3, <1>4, <1>5, <1>6

LEMMA WatchedFlush == ASSUME Inv, Watched, NextFlush PROVE Watched'
  <1>1. pc = "batch" /\ UNCHANGED <<source, durable, windows, latch, deaths, stale, givenUp>>
    BY DEF NextFlush
  <1>2. Seen' = Seen /\ base' = base /\ head' = head /\ ckpt' = ckpt /\ stale' = stale
    BY <1>1 DEF Seen, source, durable
  <1>3. ckpt.file <= cur.file /\ cur.file <= head /\ (~stale => rd.first = base[ckpt.file])
    BY <1>1 DEF Inv, Point, Turn, Streaming
  <1>4. ASSUME ckpt.file = head, ~stale PROVE Near(base[ckpt.file], ckpt.off, Seen)
    <2>1. ckpt.file = cur.file
      BY <1>3, <1>4, Sorted
    <2> QED BY <1>1, <1>3, <1>4, <2>1 DEF Watched, Streaming
  <1>5. CASE Chunk # {} \/ FlushAt # ckpt.off
    <2>1. (pc' = "facts" \/ (pc' = "advance" /\ Chunk = {})) /\ cur' = cur /\ rd' = rd
      BY <1>5 DEF NextFlush
    <2>2. Chunk' = Chunk
      BY <1>2, <2>1, SameChunk
    <2> QED BY <1>1, <1>2, <2>1, <2>2 DEF Watched, Streaming
  <1>6. CASE ~(Chunk # {} \/ FlushAt # ckpt.off)
    <2>1. pc' \in {"poll", "report", "switch"}
      BY <1>6 DEF NextFlush, EndTurn, AfterStream
    <2> QED BY <1>2, <1>4, <2>1 DEF Watched, Streaming
  <1> QED BY <1>5, <1>6

LEMMA WatchedSink ==
    ASSUME Inv, Watched, Insert("facts", "security") \/ Insert("security", "alerts") \/ Detect
    PROVE  Watched'
  <1>1. /\ pc \in {"facts", "security", "alerts"} /\ pc' \in {"security", "alerts", "advance"}
        /\ UNCHANGED <<source, ckpt, cur, rd, stale, givenUp>> /\ windows \subseteq windows'
        /\ pc' = "advance" => Chunk \subseteq windows'
    BY DEF Insert, Detect
  <1>2. Chunk' = Chunk /\ Seen \subseteq Seen'
    BY <1>1, SameChunk DEF Seen
  <1>3. ckpt.file = cur.file => Near(rd.first, ckpt.off, Seen')
    BY <1>1, <1>2, NearKept DEF Watched, Streaming
  <1> QED BY <1>1, <1>2, <1>3 DEF Watched, Streaming

\* What a flush leaves out of the lines up to its end.
LEMMA Skipped ==
    ASSUME Inv, Watched, pc \in Streaming, NEW k \in Int,
           rd.first + ckpt.off \div 2 <= k, k < rd.first + FlushAt \div 2
    PROVE  k \in Chunk \cup Blank \cup givenUp
  <1> DEFINE off == ckpt.off
  <1>1. off \in Nat /\ rd.first \in Nat /\ off \div 2 \in Int /\ off <= 2 * (off \div 2) + 1
    BY Sorted DEF Inv, TypeOK
  <1>2. FlushAt \in Nat /\ FlushAt \div 2 \in Int
    BY Flushes, Sorted DEF Inv
  <1>3. CASE off # 2 * (off \div 2) /\ k = rd.first + off \div 2
    BY <1>3 DEF Watched
  <1>4. CASE ~(off # 2 * (off \div 2) /\ k = rd.first + off \div 2)
    <2> HIDE DEF off
    <2>1. rd.first + off \div 2 <= k
      BY DEF off
    <2>2. 2 * (off \div 2) <= off
      BY <1>1, Half
    <2>3. 2 * (k - rd.first) >= off
      BY <1>1, <1>4, <2>1, <2>2
    <2>4. off \div 2 >= 0
      BY <1>1
    <2>5. k \in rd.first .. rd.first + FlushAt \div 2 - 1
      BY <1>1, <1>2, <2>1, <2>4
    <2> QED BY <2>3, <2>5, Chunks DEF Inv, off
  <1> QED BY <1>3, <1>4

LEMMA WatchedAdvance == ASSUME Inv, Watched, Advance PROVE Watched'
  <1> DEFINE off == ckpt.off
             to == FlushAt
  <1>1. pc = "advance" /\ pc' = "batch" /\ ckpt' = [file |-> rd.file, off |-> FlushAt]
        /\ UNCHANGED <<source, cur, rd, windows, stale, givenUp>>
    BY DEF Advance
  <1>2. rd.file = ckpt.file /\ ckpt'.file = ckpt.file /\ ckpt'.off = to
    BY <1>1 DEF Inv, Turn, Streaming
  <1>3. to \in Nat /\ off \in Nat /\ off <= to /\ (to # off => to = 2 * (to \div 2))
        /\ to \div 2 \in Int /\ off \div 2 \in Int /\ rd.first \in Int
    BY Flushes, Sorted DEF Inv, TypeOK
  <1>4. off \div 2 <= to \div 2
    <2>1. 2 * (off \div 2) <= off /\ to <= 2 * (to \div 2) + 1
      BY <1>3, Half
    <2> HIDE DEF off, to
    <2> QED BY <1>3, <2>1
  <1>5. to # 2 * (to \div 2) => rd.first + to \div 2 \in givenUp
    BY <1>1, <1>3 DEF Watched, Streaming
  <1>6. Seen' = Seen
    BY <1>1 DEF Seen
  <1>7. ASSUME ckpt.file = cur.file PROVE Near(rd.first, to, Seen)
    <2> SUFFICES ASSUME NEW k \in Int, rd.first <= k, k < rd.first + to \div 2,
                        rd.first + to \div 2 - Window <= k
                 PROVE  k \in Seen
      BY DEF Near
    <2>1. CASE k < rd.first + off \div 2
      <3>1. rd.first + off \div 2 - Window <= k
        <4>1. Window \in Nat
          BY IngestAssumption
        <4> HIDE DEF off, to
        <4> QED BY <1>3, <1>4, <4>1
      <3> QED BY <1>1, <1>7, <2>1, <3>1 DEF Watched, Near, Streaming
    <2>2. CASE ~(k < rd.first + off \div 2)
      <3>1. k \in Chunk \cup Blank \cup givenUp
        BY <1>1, <1>3, <2>2, Skipped DEF Streaming
      <3> QED BY <1>1, <3>1 DEF Watched, Seen
    <2> QED BY <2>1, <2>2
  <1> HIDE DEF to
  <1> QED BY <1>1, <1>2, <1>5, <1>6, <1>7 DEF Watched, Streaming

\* The process starts, begins at the end of the log, or dies.
LEMMA WatchedIdle == ASSUME Inv, Watched, Start \/ FirstCheckpoint \/ Die PROVE Watched'
  <1>1. pc' \in {"down", "first", "warm"}
    BY DEF Start, FirstCheckpoint, Die
  <1> QED BY <1>1 DEF Watched, Streaming

\* The warm-up puts the lines before the checkpoint into the windows.
LEMMA WatchedWarm == ASSUME Inv, Watched, Warm, WarmLines >= Window PROVE Watched'
  <1> DEFINE f == ckpt.file
             off == ckpt.off
  <1>1. pc = "warm" /\ pc' = "poll" /\ UNCHANGED <<source, durable, cur, rd, stale, givenUp>>
    BY DEF Warm
  <1>2. ASSUME f = head, ~stale PROVE Near(base[f], off, Seen')
    <2>1. windows' = LinesTo(f, Min({off, size[f]})) \ (LinesTo(f, off - 2 * WarmLines) \cup Blank)
      BY <1>2 DEF Warm
    <2>2. f \in Files /\ off \in Nat /\ off <= size[f] /\ size[f] \in Nat /\ base[f] \in Nat
          /\ off \div 2 \in Int /\ WarmLines \in Nat /\ Window \in Nat
      BY <1>1, <1>2, Sorted, IngestAssumption DEF Inv, Point
    <2>3. Min({off, size[f]}) = off
      <3> HIDE DEF off, f
      <3>1. Min({off, size[f]}) \in {off, size[f]} /\ Min({off, size[f]}) <= off
        BY <2>2, Least
      <3> QED BY <2>2, <3>1
    <2>4. (off - 2 * WarmLines) \div 2 = off \div 2 - WarmLines
      <3> HIDE DEF off
      <3>1. off - 2 * WarmLines \in Int
        BY <2>2
      <3>2. LET m == (off - 2 * WarmLines) \div 2
            IN  m \in Int /\ 2 * m <= off - 2 * WarmLines /\ off - 2 * WarmLines <= 2 * m + 1
        BY <3>1, Half
      <3>3. 2 * (off \div 2) <= off /\ off <= 2 * (off \div 2) + 1
        BY <2>2, Half
      <3> DEFINE m == (off - 2 * WarmLines) \div 2
                 h == off \div 2
      <3>4. m \in Int /\ 2 * m <= off - 2 * WarmLines /\ off - 2 * WarmLines <= 2 * m + 1
        BY <3>2
      <3>5. h \in Int /\ 2 * h <= off /\ off <= 2 * h + 1
        BY <2>2, <3>3
      <3> HIDE DEF m, h
      <3>6. m = h - WarmLines
        BY <2>2, <3>4, <3>5
      <3> QED BY <3>6 DEF m, h
    <2>5. ASSUME NEW k \in Int, base[f] <= k, k < base[f] + off \div 2, base[f] + off \div 2 - Window <= k
          PROVE  k \in windows' \cup Blank
      <3>1. k \in LinesTo(f, off)
        BY <2>2, <2>5 DEF LinesTo
      <3>2. k \notin LinesTo(f, off - 2 * WarmLines)
        <4> HIDE DEF f, off
        <4>1. ~(k <= base[f] + (off \div 2 - WarmLines) - 1)
          BY <2>2, <2>5
        <4> QED BY <2>2, <2>4, <4>1 DEF LinesTo
      <3> QED BY <2>1, <2>3, <3>1, <3>2
    <2> HIDE DEF f, off
    <2> QED BY <2>5 DEF Near, Seen
  <1> QED BY <1>1, <1>2 DEF Watched, Streaming, source, durable

\* What an overlapped checkpoint has behind it is given up.
LEMMA NearOverlap ==
    ASSUME Inv, ckpt.file # 0, stale, NEW seen, OverlapTo \subseteq seen
    PROVE  Near(base[ckpt.file], ckpt.off, seen)
  <1> DEFINE b == base[ckpt.file]
             off == ckpt.off
  <1>1. ckpt.file \in Files /\ b \in Nat /\ off \in Nat
    BY Sorted DEF Inv, Point
  <1>2. OverlapTo = b .. b + (off + 1) \div 2 - 1
    BY DEF OverlapTo, LinesTo
  <1> HIDE DEF b, off
  <1>3. off \div 2 \in Int /\ (off + 1) \div 2 \in Int /\ 2 * (off \div 2) <= off
        /\ off + 1 <= 2 * ((off + 1) \div 2) + 1
    BY <1>1, Half
  <1>4. off \div 2 <= (off + 1) \div 2
    BY <1>1, <1>3
  <1>5. \A k \in Int : b <= k /\ k < b + off \div 2 => k \in seen
    BY <1>1, <1>2, <1>3, <1>4
  <1> QED BY <1>5 DEF Near, b, off

LEMMA WatchedPoll == ASSUME Inv, Watched, Poll PROVE Watched'
  <1> DEFINE f == ckpt.file
             off == ckpt.off
  <1>1. pc = "poll" /\ cur'.file = head /\ UNCHANGED <<source, windows, rd>> /\ f # 0
    BY DEF Poll, Inv, Point
  <1>2. CASE f # head
    <2>1. pc' = "find" /\ UNCHANGED <<ckpt, stale, givenUp>>
      BY <1>2 DEF Poll
    <2> QED BY <1>1, <2>1, WatchedPassed
  <1>3. CASE f = head /\ size[head] < off
    <2>1. ckpt' = [file |-> head, off |-> 0] /\ pc' \in {"read", "report"}
      BY <1>3 DEF Poll, AfterSwitch
    <2>2. base[head] \in Int
      BY Sorted
    <2>3. Near(base[head], 0, Seen')
      BY <2>2, NearStart
    <2> QED BY <1>1, <2>1, <2>3 DEF Watched, Streaming, source
  <1>4. CASE f = head /\ ~(size[head] < off)
    <2>1. pc' \in {"read", "report"} /\ givenUp' = givenUp \cup OverlapTo /\ ckpt' = ckpt
      BY <1>4 DEF Poll, AfterSwitch
    <2>2. Seen \subseteq Seen' /\ OverlapTo \subseteq Seen'
      BY <1>1, <2>1 DEF Seen
    <2>3. Near(base[f], off, Seen')
      <3>1. CASE stale
        BY <1>1, <2>2, <3>1, NearOverlap
      <3>2. CASE ~stale
        <4>1. Near(base[f], off, Seen)
          BY <1>1, <1>4, <3>2 DEF Watched
        <4> QED BY <2>2, <4>1, NearKept
      <3> QED BY <3>1, <3>2
    <2> QED BY <1>1, <2>1, <2>3 DEF Watched, Streaming, source
  <1> QED BY <1>2, <1>3, <1>4

\* The checkpoint goes to the start of a file: nothing is before it.
LEMMA WatchedSwitch ==
    ASSUME Inv, Watched, NEW lost, SwitchFile(lost), UNCHANGED <<source, cur, rd, windows>>
    PROVE  Watched'
  <1>1. ckpt' = [file |-> cur.file, off |-> 0] /\ pc' \in {"read", "report"}
    BY DEF SwitchFile, AfterSwitch
  <1>2. cur.file \in Files /\ base[cur.file] \in Int
    BY Sorted
  <1>3. Near(base[cur.file], 0, Seen')
    BY <1>2, NearStart
  <1> QED BY <1>1, <1>3 DEF Watched, Streaming, source

LEMMA WatchedTurn ==
    ASSUME Inv, Watched,
           FindRotated \/ DeclareGap \/ ProbeRotated \/ ProbeFails \/ Drained \/ Report
             \/ ReadNothing \/ DrainNothing
    PROVE  Watched'
  <1>1. CASE DeclareGap \/ Drained \/ DrainNothing
    <2>1. PICK lost : SwitchFile(lost)
      BY <1>1 DEF DeclareGap, Drained, DrainNothing
    <2>2. UNCHANGED <<source, cur, rd, windows>>
      BY <1>1 DEF DeclareGap, Drained, DrainNothing
    <2> QED BY <2>1, <2>2, WatchedSwitch
  <1>2. CASE ProbeRotated
    <2>1. pc = "probe" /\ UNCHANGED <<source, cur, rd, windows>>
      BY <1>2 DEF ProbeRotated
    <2>2. CASE size[AtPath] > ckpt.off
      <3>1. pc' = "drain" /\ UNCHANGED <<ckpt, stale, givenUp>>
        BY <1>2, <2>2 DEF ProbeRotated
      <3> QED BY <2>1, <3>1, WatchedPassed
    <2>3. CASE ~(size[AtPath] > ckpt.off)
      <3>1. PICK lost : SwitchFile(lost)
        BY <1>2, <2>3 DEF ProbeRotated
      <3> QED BY <2>1, <3>1, WatchedSwitch
    <2> QED BY <2>2, <2>3
  <1>3. CASE FindRotated \/ ProbeFails
    <2>1. pc \in {"find", "probe"} /\ pc' \in {"probe", "poll"}
          /\ UNCHANGED <<source, ckpt, stale, givenUp, windows>>
      BY <1>3 DEF FindRotated, ProbeFails, EndTurn, durable
    <2> QED BY <2>1, WatchedPassed
  <1>4. CASE ReadNothing
    BY <1>4, WatchedPassed DEF ReadNothing, durable
  <1>5. CASE Report
    BY <1>5, WatchedPassed DEF Report, EndTurn, durable
  <1> QED BY <1>1, <1>2, <1>3, <1>4, <1>5

\* A stream of the log begins where the windows end.
LEMMA WatchedStream ==
    ASSUME Inv, Watched, NEW full \in BOOLEAN, ReadLog(full) \/ DrainRotated(full)
    PROVE  Watched'
  <1> DEFINE f == ckpt.file
             off == ckpt.off
  <1>1. /\ pc \in {"read", "drain"} /\ pc' = "batch" /\ UNCHANGED <<source, durable, cur, windows>>
        /\ off <= size[f] /\ rd'.first = base[f] /\ givenUp' = givenUp \cup OverlapTo /\ stale' = FALSE
        /\ pc = "drain" => f < cur.file
        /\ f # 0
    BY DEF ReadLog, DrainRotated, Stream, Inv, Turn, Point
  <1>2. Renewed
    BY <1>1 DEF Renewed, durable
  <1>3. off # 2 * (off \div 2) => base[f] + off \div 2 \in givenUp'
    BY <1>2, Renew
  <1>4. Seen \subseteq Seen' /\ OverlapTo \subseteq Seen'
    BY <1>1 DEF Seen
  <1>5. ASSUME f = cur.file PROVE Near(base[f], off, Seen')
    <2>1. pc = "read"
      BY <1>1, <1>5, Sorted
    <2>2. CASE stale
      BY <1>1, <1>4, <2>2, NearOverlap
    <2>3. CASE ~stale
      <3>1. Near(base[f], off, Seen)
        BY <2>1, <2>3 DEF Watched
      <3> QED BY <1>4, <3>1, NearKept
    <2> QED BY <2>2, <2>3
  <1> QED BY <1>1, <1>3, <1>5 DEF Watched, Streaming, source, durable

LEMMA WatchedSource == ASSUME Inv, Watched, Source PROVE Watched'
  <1>1. /\ UNCHANGED <<ckpt, pc, cur, rd, windows>> /\ givenUp \subseteq givenUp'
        /\ head <= head' /\ (stale => stale')
    <2>1. CASE Write \/ \E g \in Files : Compress(g)
      BY <2>1, Sorted DEF Write, Compress, durable, process
    <2>2. CASE Rotate
      BY <2>2, Sorted DEF Rotate, durable, process
    <2>3. CASE Truncate
      <3>1. stale => stale'
        BY <2>3 DEF Truncate
      <3>2. UNCHANGED <<head, durable, process>> /\ givenUp \subseteq givenUp'
        BY <2>3 DEF Truncate
      <3> QED BY <3>1, <3>2, Sorted DEF durable, process
    <2> QED BY <2>1, <2>2, <2>3 DEF Source
  <1>2. Seen \subseteq Seen' /\ Chunk' = Chunk
    BY <1>1, SameChunk DEF Seen
  <1>3. ASSUME ckpt.file # 0, ~stale' PROVE base'[ckpt.file] = base[ckpt.file]
    <2>1. ckpt.file \in Files /\ ckpt.file <= head
      BY <1>3, Sorted DEF Inv, Point
    <2>2. CASE Rotate
      BY <2>1, <2>2, Sorted DEF Rotate, Inv, TypeOK
    <2>3. CASE Truncate
      <3>1. ckpt.file # head
        BY <1>3, <2>3 DEF Truncate
      <3> QED BY <2>1, <2>3, <3>1, Sorted DEF Truncate, Inv, TypeOK
    <2>4. CASE Write \/ \E g \in Files : Compress(g)
      BY <2>4 DEF Write, Compress
    <2> QED BY <2>2, <2>3, <2>4 DEF Source
  <1>4. pc \in Streaming /\ ckpt.file = cur.file => Near(rd.first, ckpt.off, Seen')
    BY <1>2, NearKept DEF Watched
  <1>5. ASSUME pc \in {"poll", "read", "report"}, ~stale', ckpt.file = head' \/ pc = "read"
        PROVE  Near(base'[ckpt.file], ckpt.off, Seen')
    <2>1. ckpt.file # 0 /\ ckpt.file <= head
      BY <1>5 DEF Inv, Point
    <2>2. ckpt.file = head \/ pc = "read"
      BY <1>1, <1>5, <2>1, Sorted
    <2>3. ~stale
      BY <1>1, <1>5
    <2>4. Near(base[ckpt.file], ckpt.off, Seen)
      BY <1>5, <2>2, <2>3 DEF Watched
    <2> QED BY <1>2, <1>3, <1>5, <2>1, <2>4, NearKept
  <1> QED BY <1>1, <1>2, <1>4, <1>5 DEF Watched, Streaming

LEMMA WatchedNext == ASSUME WarmLines >= Window, Inv, Watched, [Next]_vars PROVE Watched'
  <1>1. CASE Source \/ Die
    BY <1>1, WatchedSource, WatchedIdle
  <1>2. CASE Collector
    <2>1. CASE Start \/ FirstCheckpoint \/ Warm \/ Poll \/ NextFlush \/ Detect \/ Advance
      BY <2>1, WatchedIdle, WatchedWarm, WatchedPoll, WatchedFlush, WatchedSink, WatchedAdvance
    <2>2. CASE Drained \/ Report \/ FindRotated \/ DeclareGap \/ ProbeRotated \/ ProbeFails
               \/ ReadNothing \/ DrainNothing
      BY <2>2, WatchedTurn
    <2>3. CASE \E full \in BOOLEAN : ReadLog(full) \/ DrainRotated(full)
      BY <2>3, WatchedStream
    <2>4. CASE Insert("facts", "security") \/ Insert("security", "alerts")
      BY <2>4, WatchedSink
    <2> QED BY <1>2, <2>1, <2>2, <2>3, <2>4 DEF Collector
  <1>3. CASE UNCHANGED vars
    <2>1. UNCHANGED <<head, base, ckpt, pc, cur, rd, windows, stale, givenUp>>
      BY <1>3 DEF vars, source, durable, process
    <2>2. Seen' = Seen /\ Chunk' = Chunk
      BY <2>1, SameChunk DEF Seen
    <2> QED BY <2>1, <2>2 DEF Watched
  <1> QED BY <1>1, <1>2, <1>3 DEF Next

\* Where the warm-up reads at least as far back as the windows reach, a line of
\* the current log is judged with the lines before it, however often the
\* process died and whatever became of the file in between
\* (_warm_alert_pipeline and process_batch).
THEOREM WindowsWarm == ASSUME WarmLines >= Window PROVE Spec => []WindowKept
  <1>1. Init => Watched
    BY DEF Init, Watched, Streaming
  <1>2. Inv /\ Watched /\ [Next]_vars => Watched'
    BY WatchedNext
  <1>3. Inv /\ Watched => WindowKept
    <2> SUFFICES ASSUME Inv, Watched, pc = "alerts", rd.file = cur.file, NEW l \in Chunk,
                        NEW k \in (l - Window .. l - 1) \cap (rd.first .. l)
                 PROVE  k \in windows \cup Chunk \cup Blank \cup givenUp
      BY DEF WindowKept
    <2> DEFINE h == ckpt.off \div 2
               e == FlushAt \div 2
    <2>1. /\ rd.first \in Nat /\ ckpt.off \in Nat /\ h \in Int /\ 2 * h <= ckpt.off
          /\ FlushAt \in Nat /\ e \in Int /\ Window \in Nat
      BY Sorted, Flushes, Half, IngestAssumption DEF Inv, TypeOK
    <2>2. l \in rd.first .. rd.first + e - 1 /\ 2 * (l - rd.first) >= ckpt.off
      BY Chunks DEF Inv
    <2> HIDE DEF h, e
    <2>3. l \in Int /\ k \in Int /\ k < l /\ l - Window <= k /\ rd.first <= k /\ l < rd.first + e
          /\ rd.first + h <= l
      BY <2>1, <2>2
    <2>4. CASE k < rd.first + h
      <3>1. rd.first + h - Window <= k
        BY <2>1, <2>3
      <3>2. Near(rd.first, ckpt.off, Seen)
        BY DEF Watched, Streaming, Inv, Turn
      <3> QED BY <2>3, <2>4, <3>1, <3>2 DEF Near, Seen, h
    <2>5. CASE ~(k < rd.first + h)
      <3>1. k < rd.first + e /\ rd.first + h <= k
        BY <2>1, <2>3, <2>5
      <3>2. k \in Chunk \cup Blank \cup givenUp
        BY <2>3, <3>1, Skipped DEF Streaming, h, e
      <3> QED BY <3>2
    <2> QED BY <2>4, <2>5
  <1> QED BY <1>1, <1>2, <1>3, Invariance, PTL DEF Spec

=============================================================================
