----------------------------- MODULE Checkpoint -----------------------------
(***************************************************************************)
(* The checkpoint pipeline of ctxpack/agent/checkpoint.py and the hook     *)
(* that starts it (ctxpack/cli/main.py), over one shared ledger directory. *)
(*                                                                         *)
(* A ledger, a gist or an events block is a deterministic function of the  *)
(* transcript prefix it was parsed from, so a file's content is the        *)
(* version [s, t]: session s, parsed at turn t.  A file that is absent,    *)
(* truncated or empty reads the same to every consumer and is version 0.   *)
(*                                                                         *)
(* Every step of run_checkpoint that touches a shared file is an action of *)
(* its own: there are no locks and no temp-file-then-rename, a rewrite is  *)
(* open(.., "w"), which truncates, and then the write.                     *)
(***************************************************************************)
EXTENDS Naturals, Sequences

CONSTANTS
    Session,        \* transcripts of one project
    Proc,           \* checkpoint invocations that can be in flight
    Overlap,        \* which invocations may overlap: "none", "sessions", "any"
    DebounceTurns,  \* CTXPACK_STOP_DEBOUNCE_TURNS
    StakesFrom,     \* turn from which a ledger carries a stakes-trio fact
    NoSession,      \* what latest-gist.md names while the file is missing
    MaxTurns,       \* bound: length of a transcript
    MaxRuns,        \* bound: invocations in a behaviour
    MaxCrashes      \* bound: invocations that die between two steps

ASSUME OverlapAssumption == Overlap \in {"none", "sessions", "any"}
ASSUME BoundAssumption ==
    /\ DebounceTurns \in Nat
    /\ StakesFrom \in Nat \ {0}
    /\ MaxTurns \in Nat
    /\ MaxRuns \in Nat
    /\ MaxCrashes \in Nat
ASSUME NoSessionAssumption == NoSession \notin Session

VARIABLES
    transcript,  \* turns written by the agent, per session (L0, append-only)
    ledger,      \* version of session-<sid>.ctx, 0 if unreadable
    events,      \* events.jsonl: one block of rows per session
    gist,        \* version of session-<sid>-gist.md
    latest,      \* version held by latest-gist.md
    journal,     \* checkpoints.jsonl
    rollup,      \* versions merged into project-gist.md, {} if no file
    job,         \* the local state of each invocation
    runs,        \* invocations started
    crashes      \* invocations that died

vars == <<transcript, ledger, events, gist, latest, journal, rollup, job,
          runs, crashes>>
files == <<ledger, events, gist, latest, journal, rollup>>

Turn == 0..MaxTurns
Version == [s : Session, t : Turn]
Block == [s : Session, t : Turn, against : SUBSET Version]
Row == [s : Session, turns : Turn, new : Turn, archive : BOOLEAN]

Nowhere == [s |-> NoSession, t |-> 0]

(***************************************************************************)
(* Reading the journal.                                                    *)
(***************************************************************************)
RowsOf(s) == {i \in DOMAIN journal : journal[i].s = s}
Journaled == {journal[i].s : i \in DOMAIN journal}

\* (mutant) the newest row of any session
LastTurnsOfAnyone(s) == IF journal = <<>> THEN 0 ELSE journal[Len(journal)].turns

\* _last_checkpoint_turns: the turns of the session's last row, 0 if none
LastTurns(s) ==
    IF RowsOf(s) = {} THEN 0
    ELSE journal[CHOOSE i \in RowsOf(s) : \A j \in RowsOf(s) : j <= i].turns

\* _journal_session_order: x first checkpointed before y
FirstBefore(x, y) == \E i \in RowsOf(x) : \A j \in RowsOf(y) : i < j

\* (mutant) the slice at the current session is forgotten
EveryOtherSession(s) == Journaled \ {s}

\* the sessions _banked_constraints compares s with
EarlierSessions(s) == {x \in Journaled \ {s} : FirstBefore(x, s)}

LiveRows == {i \in DOMAIN journal : ~journal[i].archive}
\* (mutant) archive rows count as live
LatestRow == IF journal = <<>> THEN NoSession ELSE journal[Len(journal)].s

\* _latest_live_sid: the session of the last row that is not an archive row
LatestLive ==
    IF LiveRows = {} THEN NoSession
    ELSE journal[CHOOSE i \in LiveRows : \A j \in LiveRows : j <= i].s

\* the stop hook's gate: has the session grown enough since its last row?
DueOnStop(s) ==
    LET now == transcript[s]
        last == LastTurns(s)
    IN  /\ now > last
        /\ \/ last = 0
           \/ now - last >= DebounceTurns /\ now - last >= 1

(***************************************************************************)
(* Pure parts of the pipeline.                                             *)
(***************************************************************************)

\* _emit_events: the session's block replaces its old one in place, or is
\* appended when the session has none
Splice(evs, b) ==
    IF \E i \in DOMAIN evs : evs[i].s = b.s
    THEN [i \in DOMAIN evs |-> IF evs[i].s = b.s THEN b ELSE evs[i]]
    ELSE Append(evs, b)

\* build_project_gist: every readable ledger but the excluded one, if it has
\* a stakes fact
Merge(exclude) ==
    {[s |-> x, t |-> ledger[x]] :
        x \in {y \in Session \ {exclude} : ledger[y] >= StakesFrom}}

(***************************************************************************)
(* The local state of an invocation.                                       *)
(***************************************************************************)
Steps == {"parse", "read_journal", "open_ledger", "write_ledger", "lint",
          "read_events", "open_events", "write_events", "write_gist",
          "open_latest", "write_latest", "append_journal", "read_ledgers",
          "open_rollup", "write_rollup"}

IdleJob == [pc |-> "idle"]

Job == [pc : Steps, s : Session, archive : BOOLEAN, t : Turn, prev : Turn,
        against : SUBSET Version, seen : Seq(Block),
        text : SUBSET Version]

At(p, step) == job[p].pc = step
Active(p) == job[p].pc # "idle"
Goto(p, step) == job' = [job EXCEPT ![p].pc = step]
Return(p) == job' = [job EXCEPT ![p] = IdleJob]

\* hooks of one session are run one at a time by its agent; hooks of two
\* sessions, a backfill and an MCP ctx/checkpoint are not coordinated
MayStart(s) ==
    \A q \in Proc : Active(q) => CASE Overlap = "none" -> FALSE
                                   [] Overlap = "sessions" -> job[q].s # s
                                   [] Overlap = "any" -> TRUE

Begin(p, s, archive) ==
    /\ ~Active(p)
    /\ runs < MaxRuns
    /\ transcript[s] > 0
    /\ MayStart(s)
    /\ job' = [job EXCEPT ![p] =
                 [pc |-> "parse", s |-> s, archive |-> archive, t |-> 0,
                  prev |-> 0, against |-> {}, seen |-> <<>>, text |-> {}]]
    /\ runs' = runs + 1
    /\ UNCHANGED <<transcript, files, crashes>>

-----------------------------------------------------------------------------
Init ==
    /\ transcript = [s \in Session |-> 0]
    /\ ledger = [s \in Session |-> 0]
    /\ events = <<>>
    /\ gist = [s \in Session |-> 0]
    /\ latest = Nowhere
    /\ journal = <<>>
    /\ rollup = {}
    /\ job = [p \in Proc |-> IdleJob]
    /\ runs = 0
    /\ crashes = 0

\* the agent appends an entry to the transcript
Grow(s) ==
    /\ transcript[s] < MaxTurns
    /\ transcript' = [transcript EXCEPT ![s] = @ + 1]
    /\ UNCHANGED <<files, job, runs, crashes>>

\* pre-compact, session-end and MCP ctx/checkpoint always pack
PackHook(p, s) == Begin(p, s, FALSE)

\* stop packs only when the debounce gate is open
StopHook(p, s) == DueOnStop(s) /\ Begin(p, s, FALSE)

\* backfill packs a past session in archive mode
Backfill(p, s) == Begin(p, s, TRUE)

\* parse_transcript reads the whole transcript again
ParseTranscript(p) ==
    /\ At(p, "parse")
    /\ job' = [job EXCEPT ![p].t = transcript[job[p].s],
                          ![p].pc = "read_journal"]
    /\ UNCHANGED <<transcript, files, runs, crashes>>

\* a format error or a hollow transcript: raised before anything is written
Refuse(p) ==
    /\ At(p, "parse")
    /\ crashes < MaxCrashes
    /\ crashes' = crashes + 1
    /\ Return(p)
    /\ UNCHANGED <<transcript, files, runs>>

\* prev_turns, read before this run's own row exists
ReadJournal(p) ==
    /\ At(p, "read_journal")
    /\ job' = [job EXCEPT ![p].prev = LastTurns(job[p].s),
                          ![p].pc = "open_ledger"]
    /\ UNCHANGED <<transcript, files, runs, crashes>>

OpenLedger(p) ==
    /\ At(p, "open_ledger")
    /\ ledger' = [ledger EXCEPT ![job[p].s] = 0]
    /\ Goto(p, "write_ledger")
    /\ UNCHANGED <<transcript, events, gist, latest, journal, rollup, runs,
                   crashes>>

WriteLedger(p) ==
    /\ At(p, "write_ledger")
    /\ ledger' = [ledger EXCEPT ![job[p].s] = job[p].t]
    /\ Goto(p, "lint")
    /\ UNCHANGED <<transcript, events, gist, latest, journal, rollup, runs,
                   crashes>>

\* lint_decisions: the conflict rows depend on the ledgers of the sessions
\* that first checkpointed earlier, as they are on disk now
Lint(p) ==
    /\ At(p, "lint")
    /\ job' = [job EXCEPT
         ![p].against = {[s |-> x, t |-> ledger[x]] :
             x \in {y \in EarlierSessions(job[p].s) : ledger[y] > 0}},
         ![p].pc = "read_events"]
    /\ UNCHANGED <<transcript, files, runs, crashes>>

\* _emit_events reads the file around this session's old block ...
ReadEvents(p) ==
    /\ At(p, "read_events")
    /\ job' = [job EXCEPT ![p].seen = events, ![p].pc = "open_events"]
    /\ UNCHANGED <<transcript, files, runs, crashes>>

\* ... truncates it ...
OpenEvents(p) ==
    /\ At(p, "open_events")
    /\ events' = <<>>
    /\ Goto(p, "write_events")
    /\ UNCHANGED <<transcript, ledger, gist, latest, journal, rollup, runs,
                   crashes>>

\* ... and writes back what it read, with the block regenerated
WriteEvents(p) ==
    /\ At(p, "write_events")
    /\ events' = Splice(job[p].seen, [s |-> job[p].s, t |-> job[p].t,
                                      against |-> job[p].against])
    /\ Goto(p, "write_gist")
    /\ UNCHANGED <<transcript, ledger, gist, latest, journal, rollup, runs,
                   crashes>>

WriteGist(p) ==
    /\ At(p, "write_gist")
    /\ gist' = [gist EXCEPT ![job[p].s] = job[p].t]
    /\ Goto(p, IF job[p].archive THEN "append_journal" ELSE "open_latest")
    /\ UNCHANGED <<transcript, ledger, events, latest, journal, rollup, runs,
                   crashes>>

OpenLatest(p) ==
    /\ At(p, "open_latest")
    /\ latest' = Nowhere
    /\ Goto(p, "write_latest")
    /\ UNCHANGED <<transcript, ledger, events, gist, journal, rollup, runs,
                   crashes>>

WriteLatest(p) ==
    /\ At(p, "write_latest")
    /\ latest' = [s |-> job[p].s, t |-> job[p].t]
    /\ Goto(p, "append_journal")
    /\ UNCHANGED <<transcript, ledger, events, gist, journal, rollup, runs,
                   crashes>>

\* (mutant) the row records the turns added
AppendNewTurns(p) ==
    /\ At(p, "append_journal")
    /\ LET j == job[p] IN
       journal' = Append(journal,
         [s |-> j.s, turns |-> IF j.t > j.prev THEN j.t - j.prev ELSE 0,
          new |-> j.t, archive |-> j.archive])
    /\ Goto(p, "read_ledgers")
    /\ UNCHANGED <<transcript, ledger, events, gist, latest, rollup, runs,
                   crashes>>

AppendJournal(p) ==
    /\ At(p, "append_journal")
    /\ LET j == job[p] IN
       journal' = Append(journal,
         [s |-> j.s, turns |-> j.t,
          new |-> IF j.t > j.prev THEN j.t - j.prev ELSE 0,
          archive |-> j.archive])
    /\ Goto(p, "read_ledgers")
    /\ UNCHANGED <<transcript, ledger, events, gist, latest, rollup, runs,
                   crashes>>

\* build_project_gist, excluding this session, or the latest live one when
\* this run is an archive run
ReadLedgers(p) ==
    /\ At(p, "read_ledgers")
    /\ job' = [job EXCEPT
         ![p].text = Merge(IF job[p].archive THEN LatestLive ELSE job[p].s),
         ![p].pc = "open_rollup"]
    /\ UNCHANGED <<transcript, files, runs, crashes>>

\* an empty rollup removes the file and returns
OpenRollup(p) ==
    /\ At(p, "open_rollup")
    /\ rollup' = {}
    /\ IF job[p].text = {} THEN Return(p) ELSE Goto(p, "write_rollup")
    /\ UNCHANGED <<transcript, ledger, events, gist, latest, journal, runs,
                   crashes>>

WriteRollup(p) ==
    /\ At(p, "write_rollup")
    /\ rollup' = job[p].text
    /\ Return(p)
    /\ UNCHANGED <<transcript, ledger, events, gist, latest, journal, runs,
                   crashes>>

\* the process dies, or a step raises and the hook swallows the exception
Crash(p) ==
    /\ Active(p)
    /\ ~At(p, "parse")
    /\ crashes < MaxCrashes
    /\ crashes' = crashes + 1
    /\ Return(p)
    /\ UNCHANGED <<transcript, files, runs>>

Step(p) ==
    \/ ParseTranscript(p) \/ ReadJournal(p)
    \/ OpenLedger(p) \/ WriteLedger(p)
    \/ Lint(p)
    \/ ReadEvents(p) \/ OpenEvents(p) \/ WriteEvents(p)
    \/ WriteGist(p) \/ OpenLatest(p) \/ WriteLatest(p)
    \/ AppendJournal(p)
    \/ ReadLedgers(p) \/ OpenRollup(p) \/ WriteRollup(p)

Next ==
    \/ \E s \in Session : Grow(s)
    \/ \E p \in Proc, s \in Session :
          PackHook(p, s) \/ StopHook(p, s) \/ Backfill(p, s)
    \/ \E p \in Proc : Step(p) \/ Refuse(p) \/ Crash(p)

Spec == Init /\ [][Next]_vars

-----------------------------------------------------------------------------
Quiet == \A p \in Proc : ~Active(p)

\* Type invariant.
TypeOK ==
    /\ transcript \in [Session -> Turn]
    /\ ledger \in [Session -> Turn]
    /\ events \in Seq(Block)
    /\ gist \in [Session -> Turn]
    /\ latest \in Version \cup {Nowhere}
    /\ journal \in Seq(Row)
    /\ rollup \in SUBSET Version
    /\ job \in [Proc -> Job \cup {IdleJob}]
    /\ runs \in 0..MaxRuns
    /\ crashes \in 0..MaxCrashes

(***************************************************************************)
(* Properties that hold whenever one session's invocations do not overlap, *)
(* crashes and other sessions' checkpoints included.                       *)
(***************************************************************************)
\* The journal never goes back: a later row of a session covers at least the
\* turns of an earlier one, so the debounce gate and turns_new, which read
\* the last row, never under-report what is banked.
JournalMonotone ==
    \A i, j \in DOMAIN journal :
        i < j /\ journal[i].s = journal[j].s
          => journal[i].turns <= journal[j].turns

\* A session's turns_new receipts add up: each row's count starts where the
\* session's previous row stopped, whoever died or interleaved in between.
ReceiptsAddUp ==
    \A j \in DOMAIN journal :
        LET older == {i \in RowsOf(journal[j].s) : i < j}
        IN  /\ older = {} => journal[j].new = journal[j].turns
            /\ \A i \in older :
                  (\A k \in older : k <= i)
                    => journal[j].turns = journal[i].turns + journal[j].new

\* When a row is appended the ledger on disk is the one the row describes:
\* the receipt never certifies a file that another run has since rewritten.
RowDescribesLedger ==
    [][Len(journal') > Len(journal) =>
         LET r == journal'[Len(journal')] IN ledger[r.s] = r.turns]_vars

(***************************************************************************)
(* Properties that hold under every overlap.                               *)
(***************************************************************************)
\* events.jsonl never holds two blocks of one session: no fact is asserted
\* twice, however the rewrites interleave.
OneBlockPerSession ==
    \A i, j \in DOMAIN events : events[i].s = events[j].s => i = j

\* Conflict rows only ever look back in first-checkpoint order: once a
\* session is journaled, everything its block was compared against was
\* journaled first, so no two sessions are ever flagged against each other.
ComparesBackwards ==
    \A i \in DOMAIN events : \A v \in events[i].against :
        events[i].s \in Journaled => FirstBefore(v.s, events[i].s)

(***************************************************************************)
(* Properties of a ledger directory with one writer at a time, of which    *)
(* the first three hold for as long as no writer dies half way.            *)
(***************************************************************************)
\* After every completed checkpoint events.jsonl holds exactly one block per
\* journaled session, in first-checkpoint order and at the version of the
\* session's ledger: the view the docstring of _emit_events describes.
EventsMirrorLedgers ==
    Quiet /\ crashes = 0 =>
      /\ {events[i].s : i \in DOMAIN events} = Journaled
      /\ \A i \in DOMAIN events : events[i].t = ledger[events[i].s]
      /\ \A i, j \in DOMAIN events :
            i < j => FirstBefore(events[i].s, events[j].s)

\* What SessionStart injects (read_startup_context): a session whose ledger
\* has a stakes fact is in the rollup or is the latest gist, never in both
\* and never in neither.
Represented(s) == latest.s = s
Merged(s) == \E v \in rollup : v.s = s
StartupHoldsOnce ==
    \A s \in Session :
        ledger[s] >= StakesFrom => (Represented(s) # Merged(s))
StartupComplete == Quiet /\ crashes = 0 => StartupHoldsOnce

\* What is merged is current: a rolled-up session is at its ledger's version.
RollupCurrent == Quiet /\ crashes = 0 => \A v \in rollup : v.t = ledger[v.s]

\* A live run that completes leaves startup whole again, whatever an earlier
\* run that died half way left behind.
Completes(p) == At(p, "write_rollup") \/ At(p, "open_rollup")
LiveRunRestoresStartup ==
    [][\A p \in Proc :
         Completes(p) /\ ~job[p].archive /\ job'[p] = IdleJob
           /\ crashes' = crashes
         => StartupHoldsOnce']_vars

(***************************************************************************)
(* What the code says of itself.  Overlapping runs break the first two and *)
(* a run that dies half way the third.                                     *)
(***************************************************************************)
\* checkpoint.py:376-378: "other sessions' rows are preserved byte-for-byte":
\* once nothing runs, no journaled session's block is missing.
OtherBlocksPreserved ==
    Quiet => Journaled \subseteq {events[i].s : i \in DOMAIN events}

\* checkpoint.py:667-669: the rollup "excludes the session whose gist is
\* latest-gist.md, injected alongside".
RollupExcludesLatest == Quiet => \A v \in rollup : v.s # latest.s

\* checkpoint.py:717-718: the last non-archive row is "the session whose gist
\* latest-gist.md actually holds".
LatestLiveIsInGist == Quiet => latest.s = LatestLive

(***************************************************************************)
(* Liveness: the operating system keeps scheduling an invocation, and none *)
(* of its steps waits for another.                                         *)
(***************************************************************************)
FairSpec == Spec /\ \A p \in Proc : WF_vars(Step(p))

\* A checkpoint that starts banks every turn written before it started,
\* unless it dies or refuses the transcript.
CheckpointBanks ==
    \A s \in Session, n \in 1..MaxTurns :
        (transcript[s] >= n /\ \E p \in Proc : At(p, "parse") /\ job[p].s = s)
          ~> (LastTurns(s) >= n \/ crashes > 0)

(***************************************************************************)
(* Checkpointing implements the abstract bank.                             *)
(***************************************************************************)
Bank == INSTANCE SessionBank WITH
            written <- transcript,
            banked <- [s \in Session |-> LastTurns(s)]
BankRefinement == Bank!BankSpec

\* Between runs what the next session is told agrees with what is banked: the
\* events mirror the ledgers, the gist and the rollup hold every session with
\* stakes once and at its version, and a live run restores that after a death.
StartupIsWhole ==
    /\ [](EventsMirrorLedgers /\ StartupComplete /\ RollupCurrent)
    /\ LiveRunRestoresStartup

\* The journal is the exact account of the bank, whatever dies and whichever
\* other sessions interleave: it never goes back, its turns_new add up, and
\* each row describes the ledger on disk.
JournalIsExact ==
    /\ [](JournalMonotone /\ ReceiptsAddUp)
    /\ RowDescribesLedger

\* Under every overlap: typed state, one block of rows per session, and
\* conflicts that only look back.
EventsAreSound ==
    /\ TypeOK
    /\ OneBlockPerSession
    /\ ComparesBackwards

=============================================================================
