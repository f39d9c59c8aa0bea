---------------------------- MODULE SourceIngest ----------------------------
(***************************************************************************)
(* The live collector of src/frontend/gateway/ingest/facts_ingest.py: it    *)
(* polls a log file over SSH, writes every new line to two archive tables   *)
(* and to the alert detector, and only then moves its checkpoint, a pair    *)
(* (inode, byte offset) on disk.  The log grows, is rotated by renaming,    *)
(* compressed, or truncated in place; the SSH commands fail or are cut; the *)
(* process dies at any point and is started again.                          *)
(*                                                                         *)
(* Bytes are counted in half lines: a line is written in two steps, so that *)
(* a poll may see the first half of one.  Lines are numbered in the order   *)
(* they are written; files in the order they are created.  A file is known  *)
(* to the collector by its inode, here its number, and by its path, here    *)
(* its distance from the newest file: log, log.1, log.2, ...                *)
(***************************************************************************)
EXTENDS Integers, FiniteSets, FiniteSetsExt

CONSTANTS
    MaxLines,      \* bound: lines ever written
    MaxFiles,      \* bound: files ever created
    MaxTruncates,  \* bound: copy-truncate rotations
    MaxDeaths,     \* bound: times the process dies
    Blank,         \* the lines no parser makes anything of
    Batch,         \* BATCH: parsed lines that make a flush due
    Window,        \* lines back that the windows of the detector reach
    WarmLines      \* ALERT_WARMUP_BYTES: the whole lines in them

Lines == 1..MaxLines
Files == 1..MaxFiles
Sinks == {"facts", "security", "alerts"}

ASSUME IngestAssumption ==
    /\ {MaxLines, MaxFiles, Batch} \subseteq Nat \ {0}
    /\ {MaxTruncates, MaxDeaths, Window, WarmLines} \subseteq Nat
    /\ Blank \subseteq Lines

VARIABLES
    \* the source host
    head,        \* the file now at the path of the log
    base,        \* base[f]: number of the first line in f
    size,        \* size[f]: half lines in f
    gone,        \* rotated files that were compressed away
    truncates,   \* copy-truncate rotations so far
    \* on the collector's disks
    ckpt,        \* the checkpoint file; file 0: there is none yet
    stored,      \* stored[s]: lines that sink s has accepted
    gapStatus,   \* source_gap_detected in the status file
    \* in the process
    pc,          \* where the live loop stands
    cur,         \* the position probed by this poll: file and size
    dist,        \* the path found for the rotated file
    rd,          \* the range being streamed
    windows,     \* lines the detector's windows have taken in
    latch,       \* source_gap_latched
    deaths,
    \* history, read by no action
    stale,       \* the checkpoint's file was truncated after the last read
    givenUp      \* lines the code left behind, each time at a named place

source  == <<head, base, size, gone, truncates>>
durable == <<ckpt, stored, gapStatus>>
process == <<pc, cur, dist, rd, windows, latch, deaths>>
vars    == <<source, durable, process, stale, givenUp>>

NoProbe == [file |-> 1, eof |-> 0]
NoRead  == [file |-> 0, first |-> 1, upto |-> 0, cut |-> FALSE]

Init ==
    /\ head = 1
    /\ base = [f \in Files |-> 1]
    /\ size = [f \in Files |-> 0]
    /\ gone = {}
    /\ truncates = 0
    /\ ckpt = [file |-> 0, off |-> 0]
    /\ stored = [s \in Sinks |-> {}]
    /\ gapStatus = FALSE
    /\ pc = "down"
    /\ cur = NoProbe
    /\ dist = 0
    /\ rd = NoRead
    /\ windows = {}
    /\ latch = FALSE
    /\ deaths = 0
    /\ stale = FALSE
    /\ givenUp = {}

\* The complete lines of f in the half lines from 0 to p.
LinesTo(f, p) == base[f] .. base[f] + p \div 2 - 1
LinesOf(f)    == LinesTo(f, size[f])
Written       == base[head] + size[head] \div 2 - 1

\* Lines of f past offset p: what a reader that stands at p has before it.
LinesPast(f, p) == LinesOf(f) \ LinesTo(f, p)

\* Lines at or before the offset of a checkpoint that means an earlier content
\* of the file: the next read from that offset passes over them.
OverlapTo  == IF stale THEN LinesTo(ckpt.file, ckpt.off + 1) ELSE {}
Overlapped == OverlapTo \cap LinesOf(ckpt.file)

\* The lines not behind the checkpoint.
Ahead ==
    IF ckpt.file = 0
    THEN 1..Written
    ELSE (UNION {LinesOf(f) : f \in ckpt.file+1 .. head})
           \cup LinesPast(ckpt.file, ckpt.off) \cup Overlapped

Landed(l) == \A s \in Sinks : l \in stored[s]

-----------------------------------------------------------------------------
(* The source host.                                                        *)

\* The next half line is written to the log.
Write ==
    /\ Written < MaxLines
    /\ size' = [size EXCEPT ![head] = @ + 1]
    /\ UNCHANGED <<head, base, gone, truncates, durable, process, stale, givenUp>>

\* The log is renamed and a new file takes its path, between two lines.
Rotate ==
    /\ head < MaxFiles
    /\ size[head] > 0 /\ size[head] % 2 = 0
    /\ head' = head + 1
    /\ base' = [base EXCEPT ![head+1] = Written + 1]
    /\ UNCHANGED <<size, gone, truncates, durable, process, stale, givenUp>>

\* A rotated file is compressed: its inode and its path are gone.
Compress(f) ==
    /\ f < head
    /\ f \notin gone
    /\ gone' = gone \cup {f}
    /\ UNCHANGED <<head, base, size, truncates, durable, process, stale, givenUp>>

\* The log is copied elsewhere and truncated: same inode, size zero.  What the
\* checkpoint had not reached is out of the collector's sight.
Truncate ==
    /\ truncates < MaxTruncates
    /\ size[head] > 0 /\ size[head] % 2 = 0
    /\ truncates' = truncates + 1
    /\ givenUp' = givenUp \cup
                    IF ckpt.file = head THEN LinesPast(head, ckpt.off) \cup Overlapped
                                        ELSE LinesOf(head)
    /\ stale' = (stale \/ ckpt.file = head)
    /\ base' = [base EXCEPT ![head] = Written + 1]
    /\ size' = [size EXCEPT ![head] = 0]
    /\ UNCHANGED <<head, gone, durable, process>>

-----------------------------------------------------------------------------
(* Starting.                                                               *)

\* live() overwrites the status file before it reads the previous gap flag
\* from it, so the latch starts down whatever the last process had recorded.
Start ==
    /\ pc = "down"
    /\ gapStatus' = FALSE
    /\ latch' = gapStatus'
    /\ pc' = IF ckpt.file = 0 THEN "first" ELSE "warm"
    /\ UNCHANGED <<source, ckpt, stored, cur, dist, rd, windows, deaths, stale, givenUp>>

\* Without a checkpoint the collector begins at the end of the log.
FirstCheckpoint ==
    /\ pc = "first"
    /\ ckpt' = [file |-> head, off |-> size[head]]
    /\ givenUp' = givenUp \cup (1 .. base[head] + (size[head] + 1) \div 2 - 1)
    /\ pc' = "warm"
    /\ UNCHANGED <<source, stored, gapStatus, cur, dist, rd, windows, latch, deaths, stale>>

\* A mutant for the check of WindowKept: a restart that skips the warm-up.
WarmNothing ==
    /\ pc = "warm"
    /\ windows' = {}
    /\ pc' = "poll"
    /\ UNCHANGED <<source, durable, cur, dist, rd, latch, deaths, stale, givenUp>>

\* _warm_alert_pipeline: the detector reads again the bytes before the
\* checkpoint, in the checkpoint's own file, if that can be found.
Warm ==
    /\ pc = "warm"
    /\ \/ /\ ckpt.file = head \/ ckpt.file \notin gone
          /\ windows' = LinesTo(ckpt.file, Min({ckpt.off, size[ckpt.file]}))
                           \ (LinesTo(ckpt.file, ckpt.off - 2 * WarmLines) \cup Blank)
       \/ /\ ckpt.file # head
          /\ windows' = {}
    /\ pc' = "poll"
    /\ UNCHANGED <<source, durable, cur, dist, rd, latch, deaths, stale, givenUp>>

-----------------------------------------------------------------------------
(* One poll.                                                               *)

\* A mutant for the check of EveryLineLands: a file one line long is not read.
AfterSwitchShort(probe, off) == IF probe.eof > off + 2 THEN "read" ELSE "report"

\* The step after the checkpoint stands in the probed file at offset off.
AfterSwitch(probe, off) == IF probe.eof > off THEN "read" ELSE "report"

\* _source_position, and what the loop decides from it: another file is at the
\* path; the same file became shorter; there is something to read; or nothing.
Poll ==
    /\ pc = "poll"
    /\ cur' = [file |-> head, eof |-> size[head]]
    /\ IF ckpt.file # head
       THEN pc' = "find" /\ UNCHANGED <<ckpt, stale, givenUp>>
       ELSE IF size[head] < ckpt.off
       THEN /\ ckpt' = [file |-> head, off |-> 0]
            /\ stale' = FALSE
            /\ pc' = AfterSwitch(cur', 0)
            /\ UNCHANGED givenUp
       ELSE /\ pc' = AfterSwitch(cur', ckpt.off)
            /\ givenUp' = givenUp \cup OverlapTo
            /\ stale' = FALSE
            /\ UNCHANGED ckpt
    /\ UNCHANGED <<source, stored, gapStatus, dist, rd, windows, latch, deaths>>

\* Lines of the files between the checkpoint's and the probed one: they were
\* rotated away without ever being polled, and nothing looks for them.
Between == UNION {LinesOf(f) : f \in ckpt.file+1 .. cur.file-1}

\* The checkpoint leaves its file for the start of the probed one.
SwitchFile(lost) ==
    /\ ckpt' = [file |-> cur.file, off |-> 0]
    /\ givenUp' = givenUp \cup lost \cup Between
    /\ stale' = FALSE
    /\ dist' = 0
    /\ pc' = AfterSwitch(cur, 0)

\* The locals of one turn of the loop end with it.
EndTurn ==
    /\ pc' = "poll"
    /\ cur' = NoProbe
    /\ dist' = 0
    /\ rd' = NoRead

\* _find_source_file knows the checkpoint's inode under some path.
FindRotated ==
    /\ pc = "find"
    /\ ckpt.file \notin gone
    /\ dist' = head - ckpt.file
    /\ pc' = "probe"
    /\ UNCHANGED <<source, durable, cur, rd, windows, latch, deaths, stale, givenUp>>

\* It does not: the file is compressed, or the search itself failed or timed
\* out.  Either way the rest of the file is a gap.
DeclareGap ==
    /\ pc = "find"
    /\ latch' = TRUE
    /\ SwitchFile(LinesPast(ckpt.file, ckpt.off) \cup Overlapped)
    /\ UNCHANGED <<source, stored, gapStatus, cur, rd, windows, deaths>>

\* The file that now has the path found for the rotated one; 0 for none.
AtPath == IF dist < head /\ head - dist \notin gone THEN head - dist ELSE 0

\* _source_position(rotated_path): drain the file if there is more in it.
ProbeRotated ==
    /\ pc = "probe"
    /\ AtPath # 0
    /\ IF size[AtPath] > ckpt.off
       THEN pc' = "drain" /\ UNCHANGED <<ckpt, stale, dist, givenUp>>
       ELSE SwitchFile(Overlapped \cup IF AtPath = ckpt.file THEN {}
                                       ELSE LinesPast(ckpt.file, ckpt.off))
    /\ UNCHANGED <<source, stored, gapStatus, cur, rd, windows, latch, deaths>>

\* A probe that fails, of a path that is no more too, is tried again from the
\* start of the loop; so is a stream that breaks off.
ProbeFails ==
    /\ pc = "probe"
    /\ EndTurn
    /\ UNCHANGED <<source, durable, windows, latch, deaths, stale, givenUp>>

\* The command of read_file_range compares the inode at the path and sends the
\* bytes after the checkpoint, all of them or until the connection is cut.
Stream(f, full) ==
    /\ \E upto \in ckpt.off .. size[f] :
          /\ full => upto = size[f]
          /\ rd' = [file |-> f, first |-> base[f], upto |-> upto, cut |-> ~full]
    /\ ckpt.off <= size[f]
    /\ givenUp' = givenUp \cup OverlapTo
    /\ stale' = FALSE
    /\ dist' = 0
    /\ pc' = "batch"
    /\ UNCHANGED <<source, durable, cur, windows, latch, deaths>>

ReadLog(full) ==
    /\ pc = "read"
    /\ head = cur.file
    /\ Stream(head, full)

DrainRotated(full) ==
    /\ pc = "drain"
    /\ AtPath = ckpt.file
    /\ Stream(ckpt.file, full)

\* The path has another inode, or the file ends before the offset: nothing is
\* sent and the command succeeds.
ReadNothing ==
    /\ pc = "read"
    /\ head # cur.file \/ size[head] < ckpt.off
    /\ pc' = "report"
    /\ UNCHANGED <<source, durable, cur, dist, rd, windows, latch, deaths, stale, givenUp>>

DrainNothing ==
    /\ pc = "drain"
    /\ AtPath # ckpt.file
    /\ SwitchFile(LinesPast(ckpt.file, ckpt.off) \cup Overlapped)
    /\ UNCHANGED <<source, stored, gapStatus, cur, rd, windows, latch, deaths>>

-----------------------------------------------------------------------------
(* _stream: flushes, each followed by the checkpoint.                      *)

\* Complete lines of the range that begin at or after offset p and end by q,
\* and those of them that some parser takes.
RangeLines(p, q) == {l \in rd.first .. rd.first + q \div 2 - 1 : 2 * (l - rd.first) >= p}
Parsed(p, q)     == RangeLines(p, q) \ Blank

\* A mutant for the check of LossAccounted: a half line is left behind.
LastBoundaryTorn == Max({ckpt.off, rd.upto})

\* The last line boundary of the range, and the offset of the next flush: where
\* Batch lines are parsed, else the end.
LastBoundary == Max({ckpt.off, 2 * (rd.upto \div 2)})
FlushAt ==
    LET due == {q \in ckpt.off .. LastBoundary :
                    q % 2 = 0 /\ Cardinality(Parsed(ckpt.off, q)) >= Batch}
    IN  IF due = {} THEN LastBoundary ELSE Min(due)

Chunk == Parsed(ckpt.off, FlushAt)

\* What follows a stream whose command succeeded: after a drain the checkpoint
\* goes to the probed file.  A command that failed ends the turn.
AfterStream == IF rd.file = cur.file THEN "report" ELSE "switch"

\* A flush begins, or the last step of the checkpoint over lines that nothing
\* parsed, or the range is at its end.
NextFlush ==
    /\ pc = "batch"
    /\ IF Chunk # {} \/ FlushAt # ckpt.off
       THEN pc' = (IF Chunk # {} THEN "facts" ELSE "advance") /\ UNCHANGED <<cur, dist, rd>>
       ELSE IF rd.cut
       THEN EndTurn
       ELSE pc' = AfterStream /\ UNCHANGED <<cur, dist, rd>>
    /\ UNCHANGED <<source, durable, windows, latch, deaths, stale, givenUp>>

\* commit_live_batch_sinks: the facts table, then the security table.
Insert(sink, next) ==
    /\ pc = sink
    /\ stored' = [stored EXCEPT ![sink] = @ \cup Chunk]
    /\ pc' = next
    /\ UNCHANGED <<source, ckpt, gapStatus, cur, dist, rd, windows, latch, deaths, stale, givenUp>>

\* process_batch of the alert pipeline: each event enters the windows, and the
\* alert it raises, if any, is stored and filed.
Detect ==
    /\ pc = "alerts"
    /\ windows' = windows \cup Chunk
    /\ stored' = [stored EXCEPT !["alerts"] = @ \cup Chunk]
    /\ pc' = "advance"
    /\ UNCHANGED <<source, ckpt, gapStatus, cur, dist, rd, latch, deaths, stale, givenUp>>

\* on_source_progress: the checkpoint file is replaced.
Advance ==
    /\ pc = "advance"
    /\ ckpt' = [file |-> rd.file, off |-> FlushAt]
    /\ pc' = "batch"
    /\ UNCHANGED <<source, stored, gapStatus, cur, dist, rd, windows, latch, deaths, stale, givenUp>>

\* The rotated file is drained.
Drained ==
    /\ pc = "switch"
    /\ SwitchFile(Overlapped)
    /\ UNCHANGED <<source, stored, gapStatus, cur, rd, windows, latch, deaths>>

\* The status of a poll that came to its end.
Report ==
    /\ pc = "report"
    /\ gapStatus' = latch
    /\ EndTurn
    /\ UNCHANGED <<source, ckpt, stored, windows, latch, deaths, stale, givenUp>>

\* Every exception but RecoverableSSHError ends the process, and outside the
\* loop that one does too.  A batch may have filed some of its alerts by then.
Die ==
    /\ pc # "down"
    /\ deaths < MaxDeaths
    /\ deaths' = deaths + 1
    /\ \/ stored' = stored
       \/ /\ pc = "alerts"
          /\ \E l \in Chunk : stored' = [stored EXCEPT !["alerts"] = @ \cup {k \in Chunk : k <= l}]
    /\ pc' = "down"
    /\ windows' = {} /\ latch' = FALSE
    /\ cur' = NoProbe /\ dist' = 0 /\ rd' = NoRead
    /\ UNCHANGED <<source, ckpt, gapStatus, stale, givenUp>>

-----------------------------------------------------------------------------
Collector ==
    \/ Start \/ FirstCheckpoint \/ Warm \/ Poll \/ NextFlush \/ Detect \/ Advance \/ Drained \/ Report
    \/ FindRotated \/ DeclareGap \/ ProbeRotated \/ ProbeFails
    \/ \E full \in BOOLEAN : ReadLog(full) \/ DrainRotated(full)
    \/ ReadNothing \/ DrainNothing
    \/ Insert("facts", "security") \/ Insert("security", "alerts")

Source == Write \/ Rotate \/ Truncate \/ \E f \in Files : Compress(f)

Next == Source \/ Collector \/ Die

Spec == Init /\ [][Next]_vars

\* systemd starts the process again and the loop goes on; an SSH command that
\* is tried for ever succeeds at last.  Nothing is asked of the source, and the
\* process dies finitely often.
FairSpec ==
    /\ Spec
    /\ WF_vars(Collector)
    /\ SF_vars(ProbeRotated) /\ SF_vars(ReadLog(TRUE)) /\ SF_vars(DrainRotated(TRUE))

-----------------------------------------------------------------------------
TypeOK ==
    /\ head \in Files
    /\ base \in [Files -> 1..MaxLines+1]
    /\ size \in [Files -> 0..2*MaxLines]
    /\ gone \subseteq Files
    /\ truncates \in 0..MaxTruncates
    /\ ckpt \in [file : 0..MaxFiles, off : 0..2*MaxLines]
    /\ stored \in [Sinks -> SUBSET Lines]
    /\ gapStatus \in BOOLEAN
    /\ pc \in {"down", "first", "warm", "poll", "find", "probe", "read", "drain", "batch",
               "facts", "security", "alerts", "advance", "switch", "report"}
    /\ cur \in [file : Files, eof : 0..2*MaxLines]
    /\ dist \in 0..MaxFiles
    /\ rd \in [file : 0..MaxFiles, first : 1..MaxLines+1, upto : 0..2*MaxLines, cut : BOOLEAN]
    /\ windows \subseteq Lines
    /\ latch \in BOOLEAN
    /\ deaths \in 0..MaxDeaths
    /\ stale \in BOOLEAN
    /\ givenUp \subseteq Lines

\* A line that was written is in both tables and was seen by the detector, or
\* it is still before the checkpoint, or the collector came past it at one of
\* four places: at its first start, where it declares a gap, where the path it
\* found has another file by the time it is read, and where the source
\* truncated or rotated twice between two polls.  No death between a sink and
\* the next, no cut stream and no half-written line adds to them.
LossAccounted ==
    /\ TypeOK
    /\ \A l \in 1..Written :
        l \in Blank \/ l \in Ahead \/ l \in givenUp \/ Landed(l)

\* A line of the current log is judged with the lines before it in the
\* detector's windows, after a restart too: the warm-up put them there.  What
\* lies before the start of the file, or was given up, may be missing.
WindowKept ==
    pc = "alerts" /\ rd.file = cur.file =>
        \A l \in Chunk :
            (l - Window .. l - 1) \cap (rd.first .. l)
                \subseteq windows \cup Chunk \cup Blank \cup givenUp

\* Every line the source completes ends up in the sinks unless it is given up:
\* polling neither stalls nor turns for ever over the same bytes.
EveryLineLands ==
    \A l \in Lines : l <= Written ~> (l \in Blank \cup givenUp \/ Landed(l))

=============================================================================
