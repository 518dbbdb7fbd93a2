------------------------------ MODULE Backfill ------------------------------
(***************************************************************************)
(* ctxpack/agent/backfill.py and what its sweeps meet: transcripts that    *)
(* grow, live checkpoints between two of its packs, session starts that    *)
(* read project-gist.md and latest-gist.md one after the other, and deaths *)
(* that may leave a torn row in the journal.                               *)
(*                                                                         *)
(* Files carry the 8-character prefix of a session.  A transcript or a     *)
(* ledger is the number of turns in it and its mtime.  One checkpoint runs *)
(* at a time here; Checkpoint has the overlapping ones.                    *)
(***************************************************************************)
EXTENDS Integers, Sequences, FiniteSets, SequencesExt

CONSTANTS
    Conv, ConvPrefix,
    Nobody,                     \* no prefix
    Grade,                      \* session -> "ok", "hollow" or "broken"
    Named,                      \* session -> its place in the order of the names
    ActiveSlack, StaleSlack,    \* ACTIVE_SLACK_S, STALE_SLACK_S in ticks
    MaxNow, MaxTurns, MaxRuns, MaxSweeps, MaxDeaths, MaxBegins,
    MaxFeeds                   \* bound on runs, sweeps, deaths and starts together

ASSUME ConvAssumption ==
    /\ IsFiniteSet(Conv) /\ Nobody \notin Conv
    /\ Grade \in [Conv -> {"ok", "hollow", "broken"}]
    /\ Named \in [Conv -> Nat]
ASSUME SlackAssumption == ActiveSlack \in Nat /\ StaleSlack \in Nat

VARIABLES
    trans,      \* transcripts
    led,        \* session-<prefix>.ctx
    latest,     \* whose gist latest-gist.md is
    rollup,     \* whose facts project-gist.md has
    journal, tornTail,
    writer,     \* the checkpoint in progress
    sweep,      \* the backfill in progress, or the last one
    start,      \* the session start in progress, or the last one
    banked,     \* prefixes some checkpoint has completed for
    now, count

bfVars == <<trans, led, latest, rollup, journal, tornTail, writer, sweep, start,
            banked, now, count>>
ledgerFiles == <<led, latest, rollup, journal, tornTail, banked>>

NoLedger == [turns |-> 0, mtime |-> 0]
More(k, max) ==
    /\ count[k] < max
    /\ count.runs + count.sweeps + count.deaths + count.starts < MaxFeeds
    /\ count' = [count EXCEPT ![k] = @ + 1]
NoOne == [pc |-> "idle"]
Torn == [s |-> Nobody, archive |-> TRUE]

BackfillInit ==
    /\ trans = [s \in Conv |-> [turns |-> 1, mtime |-> 0]]
    /\ led = [p \in {ConvPrefix[s] : s \in Conv} |-> NoLedger]
    /\ latest = Nobody /\ rollup = {} /\ journal = <<>> /\ tornTail = FALSE
    /\ writer = NoOne /\ sweep = NoOne /\ start = NoOne /\ banked = {}
    /\ now = 0
    /\ count = [runs |-> 0, sweeps |-> 0, deaths |-> 0, starts |-> 0]

Tick == now < MaxNow /\ now' = now + 1
        /\ UNCHANGED <<trans, ledgerFiles, writer, sweep, start, count>>
Grow(s) ==
    /\ trans[s].turns < MaxTurns /\ Grade[s] = "ok"
    /\ trans' = [trans EXCEPT ![s] = [turns |-> @.turns + 1, mtime |-> now]]
    /\ UNCHANGED <<ledgerFiles, writer, sweep, start, now, count>>

(***************************************************************************)
(* run_checkpoint, live or archive.                                        *)
(***************************************************************************)
Parsed(s, archive) == [pc |-> "ledger", s |-> s, archive |-> archive, turns |-> trans[s].turns]
LiveRun(s) ==
    /\ writer = NoOne /\ More("runs", MaxRuns)
    /\ trans[s].turns > 0 /\ Grade[s] = "ok"
    /\ writer' = Parsed(s, FALSE)
    /\ start' = IF start.pc = "latest" THEN [start EXCEPT !.raced = TRUE] ELSE start
    /\ UNCHANGED <<trans, ledgerFiles, sweep, now>>

\* the order of mtimes, a tie by the session's name
SortsBefore(s, x) ==
    trans[s].mtime < trans[x].mtime \/ (trans[s].mtime = trans[x].mtime /\ Named[s] <= Named[x])
\* find_live_transcript: the one written last
LiveTranscripts == {s \in Conv : \A x \in Conv : SortsBefore(x, s)}
\* `ctxpack checkpoint`, or ctx/checkpoint, in session caller without a transcript;
\* one that is rejected writes nothing
BareCheckpoint(caller) ==
    /\ trans[caller].turns > 0
    /\ \E s \in LiveTranscripts : LiveRun(s)

WriteLedger ==
    /\ writer.pc = "ledger"
    /\ led' = [led EXCEPT ![ConvPrefix[writer.s]] = [turns |-> writer.turns, mtime |-> now]]
    /\ writer' = [writer EXCEPT !.pc = "latest"]
    /\ UNCHANGED <<trans, latest, rollup, journal, tornTail, banked, sweep, start, now, count>>

WriteLatest ==
    /\ writer.pc = "latest"
    /\ latest' = IF writer.archive THEN latest ELSE ConvPrefix[writer.s]
    /\ writer' = [writer EXCEPT !.pc = "row"]
    /\ UNCHANGED <<trans, led, rollup, journal, tornTail, banked, sweep, start, now, count>>

\* a row ends its line, also the one that a torn row began: that is read as neither
TailAfterRow == FALSE
AppendRow ==
    /\ writer.pc = "row"
    /\ journal' = Append(journal, IF tornTail THEN Torn
                                  ELSE [s |-> writer.s, archive |-> writer.archive])
    /\ tornTail' = TailAfterRow
    /\ writer' = [writer EXCEPT !.pc = "rollup"]
    /\ UNCHANGED <<trans, led, latest, rollup, banked, sweep, start, now, count>>

LatestLive(j) ==
    LET live == {i \in DOMAIN j : ~j[i].archive} IN
    IF live = {} THEN Nobody ELSE ConvPrefix[j[CHOOSE i \in live : \A k \in live : k <= i].s]

\* (mutant) the run's own session, as a live run does
ExcludeOwn == ConvPrefix[writer.s]
\* the session that is injected alongside
Exclude == IF writer.archive THEN LatestLive(journal) ELSE ConvPrefix[writer.s]

WriteRollup ==
    /\ writer.pc = "rollup"
    /\ rollup' = {p \in DOMAIN led : led[p].turns > 0} \ {Exclude}
    /\ banked' = banked \cup {ConvPrefix[writer.s]}
    /\ writer' = NoOne
    /\ sweep' = IF writer.archive
                THEN [sweep EXCEPT !.todo = Tail(@), !.rows = Append(@, <<writer.s, "packed">>)]
                ELSE sweep
    /\ UNCHANGED <<trans, led, latest, journal, tornTail, start, now, count>>

\* a run dies, between two writes or inside the append; a sweep dies with it
Killed(torn) ==
    /\ writer # NoOne /\ More("deaths", MaxDeaths)
    /\ torn => writer.pc = "row"
    /\ tornTail' = (torn \/ tornTail)
    /\ writer' = NoOne
    /\ sweep' = IF writer.archive THEN NoOne ELSE sweep
    /\ UNCHANGED <<trans, led, latest, rollup, journal, banked, start, now>>

(***************************************************************************)
(* capture_coverage and run_backfill.                                      *)
(***************************************************************************)
Outgrew(t, l) == t.mtime - l.mtime > StaleSlack

Status(s) ==
    LET t == trans[s]  l == led[ConvPrefix[s]] IN
    CASE now - t.mtime < ActiveSlack -> "active"
      [] OTHER -> IF l.turns = 0 THEN "unpacked"
                  ELSE IF Outgrew(t, l) THEN "stale" ELSE "packed"
Todo(active) ==
    {s \in Conv : trans[s].turns > 0
        /\ Status(s) \in {"unpacked", "stale"} \cup (IF active THEN {"active"} ELSE {})}

\* oldest first
Orders(todo) ==
    {order \in SetToSeqs(todo) : \A i, j \in DOMAIN order : i < j => SortsBefore(order[i], order[j])}

SweepBegins(active) ==
    /\ sweep.pc \in {"idle", "done"} /\ More("sweeps", MaxSweeps)
    /\ \E order \in Orders(Todo(active)) :
         sweep' = [pc |-> "packing", asof |-> trans, rows |-> <<>>, all |-> Todo(active),
                   todo |-> order]
    /\ UNCHANGED <<trans, ledgerFiles, writer, start, now>>

SweepPacks ==
    /\ sweep.pc = "packing" /\ sweep.todo # <<>> /\ writer = NoOne
    /\ Grade[Head(sweep.todo)] = "ok"
    /\ writer' = Parsed(Head(sweep.todo), TRUE)
    /\ UNCHANGED <<trans, ledgerFiles, sweep, start, now, count>>

\* per-session fail-open
AfterSkip(todo) == Tail(todo)

SweepSkips ==
    /\ sweep.pc = "packing" /\ sweep.todo # <<>> /\ writer = NoOne
    /\ LET s == Head(sweep.todo) IN
       /\ Grade[s] # "ok"
       /\ sweep' = [sweep EXCEPT !.todo = AfterSkip(@), !.rows = Append(@, <<s, Grade[s]>>)]
    /\ UNCHANGED <<trans, ledgerFiles, writer, start, now, count>>

\* a pack that raises leaves what it wrote, and the sweep goes on
SweepFails ==
    /\ sweep.pc = "packing" /\ writer # NoOne /\ writer.archive /\ More("deaths", MaxDeaths)
    /\ writer' = NoOne
    /\ sweep' = [sweep EXCEPT !.todo = AfterSkip(@), !.rows = Append(@, <<writer.s, "failed">>)]
    /\ UNCHANGED <<trans, led, latest, rollup, journal, tornTail, banked, start, now>>

SweepEnds ==
    /\ sweep.pc = "packing" /\ sweep.todo = <<>>
    /\ sweep' = [sweep EXCEPT !.pc = "done"]
    /\ UNCHANGED <<trans, ledgerFiles, writer, start, now, count>>

\* the exit code of `ctxpack backfill`
SweepExit == IF \E row \in ToSet(sweep.rows) : row[2] = "failed" THEN 1 ELSE 0

(***************************************************************************)
(* read_startup_context.                                                   *)
(***************************************************************************)
StartReadsProject ==
    /\ start.pc \in {"idle", "done"} /\ More("starts", MaxBegins)
    /\ start' = [pc |-> "latest", seen |-> rollup, owed |-> banked,
                 raced |-> writer # NoOne]
    /\ UNCHANGED <<trans, ledgerFiles, writer, sweep, now>>
StartReadsLatest ==
    /\ start.pc = "latest"
    /\ start' = [start EXCEPT !.pc = "done", !.seen = @ \cup {latest}]
    /\ UNCHANGED <<trans, ledgerFiles, writer, sweep, now, count>>

BackfillNext ==
    \/ Tick
    \/ \E s \in Conv : Grow(s) \/ LiveRun(s) \/ BareCheckpoint(s)
    \/ WriteLedger \/ WriteLatest \/ AppendRow \/ WriteRollup
    \/ \E torn \in BOOLEAN : Killed(torn)
    \/ \E active \in BOOLEAN : SweepBegins(active)
    \/ SweepPacks \/ SweepSkips \/ SweepFails \/ SweepEnds
    \/ StartReadsProject \/ StartReadsLatest

-----------------------------------------------------------------------------
Twins(s) == {x \in Conv \ {s} : ConvPrefix[x] = ConvPrefix[s]}

(* A sweep reports every session it set out to pack, once, and a session   *)
(* reported as packed has at least the turns it had when the sweep decided *)
(* (run_backfill: "each skip is REPORTED, not silent"), whatever live runs *)
(* came between; unless another session's ledger bears its name.           *)
SweepCovers ==
    sweep.pc = "done" =>
        /\ {r[1] : r \in ToSet(sweep.rows)} = sweep.all
        /\ Len(sweep.rows) = Cardinality(sweep.all)
        /\ \A s \in sweep.all : <<s, "packed">> \in ToSet(sweep.rows) /\ Twins(s) = {} =>
                led[ConvPrefix[s]].turns >= sweep.asof[s].turns

(* A session that a sweep packed and that has not grown since needs no     *)
(* second sweep ("make missing memory visible, then closable"), and one    *)
(* that exits with 0 leaves open only what it refused by name.             *)
SweepConverges ==
    sweep.pc = "done" =>
        \A s \in sweep.all :
            /\ trans[s] = sweep.asof[s]
            /\ <<s, "packed">> \in ToSet(sweep.rows) \/ (SweepExit = 0 /\ Grade[s] = "ok")
            => Status(s) \notin {"unpacked", "stale"}

(* "A Jul-15 backfill must never become latest on Jul-21": between runs    *)
(* latest-gist.md is that of the last live row, however many archive rows  *)
(* follow it; deaths excepted, which may come between the two.             *)
LatestIsLastLive ==
    writer = NoOne /\ count.deaths = 0 => latest = LatestLive(journal)

(* A start that reads the two files while checkpoints rewrite them misses  *)
(* at most one session, the one displaced as latest; a start that nothing  *)
(* raced misses none (read_startup_context, run_checkpoint's order of      *)
(* writes).                                                                *)
StartMissesOnlyDisplaced ==
    start.pc = "done" /\ count.deaths = 0 =>
        LET missing == start.owed \ start.seen IN
        /\ Cardinality(missing) <= 1
        /\ ~start.raced => missing = {}

(* A row torn by a death costs that row and the next one, and no more.     *)
RowsSurvive ==
    Cardinality({i \in DOMAIN journal : journal[i] = Torn}) <= count.deaths

(* Stated and refuted: a session that coverage counts as packed has a row  *)
(* in the journal (a run that failed behind its ledger left none, and no   *)
(* later sweep takes it up).                                               *)
PackedIsJournaled ==
    writer = NoOne => \A s \in Conv : Status(s) = "packed" /\ Twins(s) = {} =>
        \E i \in DOMAIN journal : journal[i].s = s

(* Stated and refuted: "one call banks the current session"                *)
(* (handle_checkpoint): it banks the session of the project that wrote     *)
(* last, which need not be the caller's.                                   *)
BareCallBanksCaller ==
    [][\A s \in Conv : BareCheckpoint(s) => writer'.s = s]_bfVars

(* Sweeps, live runs, starts and deaths in any order: a sweep tells the    *)
(* truth and closes what it found open, the latest gist is live, a start   *)
(* misses at most the session displaced under it, and a torn row takes no  *)
(* more than its neighbour.                                                *)
SweepsAreSound ==
    /\ SweepCovers
    /\ SweepConverges
    /\ LatestIsLastLive
    /\ StartMissesOnlyDisplaced
    /\ RowsSurvive

=============================================================================
