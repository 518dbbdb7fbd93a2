-------------------------- MODULE CheckpointProofs --------------------------
(***************************************************************************)
(* What Checkpoint.tla guarantees for every set of sessions, every number  *)
(* of invocations and every bound; and what TranscriptText.tla, which cuts *)
(* up the messages it is called for, does with every message.              *)
(***************************************************************************)
EXTENDS Checkpoint, TranscriptText, PositionLemmas, FiniteSetTheorems, SequenceTheorems, TLAPS

(***************************************************************************)
(* The last row of a session.                                              *)
(***************************************************************************)
LEMMA RowsOfPositions ==
    ASSUME NEW s, journal \in Seq(Row)
    PROVE  RowsOf(s) \in SUBSET (1..Len(journal))
  BY DEF RowsOf

\* LastTurns is the turns of a row of s that no row of s follows.
LEMMA LastTurnsRow ==
    ASSUME journal \in Seq(Row), NEW s, RowsOf(s) # {}
    PROVE  \E i \in RowsOf(s) :
              /\ \A j \in RowsOf(s) : j <= i
              /\ LastTurns(s) = journal[i].turns
<1>1. \E i \in RowsOf(s) : \A j \in RowsOf(s) : j <= i
  BY RowsOfPositions, GreatestPosition, LenProperties
<1> QED BY <1>1 DEF LastTurns

LEMMA LastTurnsType ==
    ASSUME journal \in Seq(Row), NEW s
    PROVE  LastTurns(s) \in Turn
<1>1. CASE RowsOf(s) = {}
  BY <1>1, BoundAssumption DEF LastTurns, Turn
<1>2. CASE RowsOf(s) # {}
  <2>1. PICK i \in RowsOf(s) : LastTurns(s) = journal[i].turns
    BY <1>2, LastTurnsRow
  <2>2. journal[i] \in Row
    BY <2>1, RowsOfPositions, ElementOfSeq DEF RowsOf
  <2> QED BY <2>1, <2>2 DEF Row
<1> QED BY <1>1, <1>2

(***************************************************************************)
(* Type correctness.                                                       *)
(***************************************************************************)
LEMMA ActiveJob ==
    ASSUME TypeOK, NEW p \in Proc, Active(p)
    PROVE  job[p] \in Job
  BY DEF TypeOK, Active, IdleJob

LEMMA GotoType ==
    ASSUME TypeOK, NEW p \in Proc, Active(p), NEW step \in Steps,
           Goto(p, step)
    PROVE  job' \in [Proc -> Job \cup {IdleJob}]
<1>1. job[p] \in Job
  BY ActiveJob
<1>2. [job[p] EXCEPT !.pc = step] \in Job
  BY <1>1 DEF Job
<1> QED BY <1>2 DEF TypeOK, Goto

LEMMA ReturnType ==
    ASSUME TypeOK, NEW p \in Proc, Return(p)
    PROVE  job' \in [Proc -> Job \cup {IdleJob}]
  BY DEF TypeOK, Return

LEMMA StepActive ==
    ASSUME NEW p \in Proc, NEW step \in Steps, At(p, step)
    PROVE  Active(p)
  BY DEF At, Active, Steps

LEMMA MergeType ==
    ASSUME TypeOK, NEW x
    PROVE  Merge(x) \in SUBSET Version
  BY DEF TypeOK, Merge, Version

LEMMA JournaledType ==
    ASSUME journal \in Seq(Row)
    PROVE  Journaled \subseteq Session
<1>1. ASSUME NEW i \in DOMAIN journal PROVE journal[i].s \in Session
  <2>1. journal[i] \in Row
    BY LenProperties, ElementOfSeq
  <2> QED BY <2>1 DEF Row
<1> QED BY <1>1 DEF Journaled

LEMMA SpliceType ==
    ASSUME NEW evs \in Seq(Block), NEW b \in Block
    PROVE  Splice(evs, b) \in Seq(Block)
<1>1. CASE \E i \in DOMAIN evs : evs[i].s = b.s
  <2>1. Splice(evs, b) \in [1..Len(evs) -> Block]
    BY <1>1, LenProperties, ElementOfSeq DEF Splice
  <2> QED BY <2>1, SeqDef, LenProperties
<1>2. CASE ~\E i \in DOMAIN evs : evs[i].s = b.s
  BY <1>2, AppendProperties DEF Splice
<1> QED BY <1>1, <1>2

LEMMA TypeInit == Init => TypeOK
<1> SUFFICES ASSUME Init PROVE TypeOK
  OBVIOUS
<1>1. events \in Seq(Block) /\ journal \in Seq(Row)
  BY EmptySeq DEF Init
<1> QED BY <1>1, BoundAssumption DEF Init, TypeOK, Turn

LEMMA TypeNext == TypeOK /\ [Next]_vars => TypeOK'
<1> SUFFICES ASSUME TypeOK, [Next]_vars PROVE TypeOK'
  OBVIOUS
<1> USE BoundAssumption
<1>1. ASSUME NEW s \in Session, Grow(s) PROVE TypeOK'
  BY <1>1 DEF Grow, TypeOK, files, Turn
<1>2. ASSUME NEW p \in Proc, NEW s \in Session, NEW a \in BOOLEAN,
             Begin(p, s, a)
      PROVE  TypeOK'
  <2>1. [pc |-> "parse", s |-> s, archive |-> a, t |-> 0, prev |-> 0,
         against |-> {}, seen |-> <<>>, text |-> {}] \in Job
    BY EmptySeq DEF Job, Steps, Turn
  <2>2. job' \in [Proc -> Job \cup {IdleJob}]
    BY <1>2, <2>1 DEF Begin, TypeOK
  <2> QED BY <1>2, <2>2 DEF Begin, TypeOK, files
<1>3. ASSUME NEW p \in Proc, ParseTranscript(p) PROVE TypeOK'
  <2>1. job[p] \in Job
    BY <1>3, ActiveJob DEF ParseTranscript, At, Active
  <2>2. [job[p] EXCEPT !.t = transcript[job[p].s], !.pc = "read_journal"] \in Job
    BY <2>1 DEF Job, Steps, TypeOK
  <2> QED BY <1>3, <2>2 DEF ParseTranscript, TypeOK, files
<1>4. ASSUME NEW p \in Proc, Refuse(p) \/ Crash(p) PROVE TypeOK'
  BY <1>4, ReturnType DEF Refuse, Crash, TypeOK, files
<1>5. ASSUME NEW p \in Proc, ReadJournal(p) PROVE TypeOK'
  <2>1. job[p] \in Job
    BY <1>5, ActiveJob DEF ReadJournal, At, Active
  <2>2. LastTurns(job[p].s) \in Turn
    BY LastTurnsType DEF TypeOK
  <2>3. [job[p] EXCEPT !.prev = LastTurns(job[p].s), !.pc = "open_ledger"] \in Job
    BY <2>1, <2>2 DEF Job, Steps
  <2> QED BY <1>5, <2>3 DEF ReadJournal, TypeOK, files
<1>6. ASSUME NEW p \in Proc, OpenLedger(p) \/ WriteLedger(p) PROVE TypeOK'
  <2>1. job[p] \in Job
    BY <1>6, ActiveJob DEF OpenLedger, WriteLedger, At, Active
  <2>2. job' \in [Proc -> Job \cup {IdleJob}]
    BY <1>6, GotoType DEF OpenLedger, WriteLedger, At, Active, Steps
  <2>3. ledger' \in [Session -> Turn]
    BY <1>6, <2>1 DEF OpenLedger, WriteLedger, TypeOK, Job, Turn
  <2> QED BY <1>6, <2>2, <2>3 DEF OpenLedger, WriteLedger, TypeOK
<1>7. ASSUME NEW p \in Proc, Lint(p) PROVE TypeOK'
  <2> DEFINE A == {[s |-> x, t |-> ledger[x]] :
                    x \in {y \in EarlierSessions(job[p].s) : ledger[y] > 0}}
  <2>1. job[p] \in Job
    BY <1>7, ActiveJob DEF Lint, At, Active
  <2>2. Journaled \subseteq Session
    BY JournaledType DEF TypeOK
  <2>3. A \in SUBSET Version
    BY <2>2 DEF EarlierSessions, TypeOK, Version
  <2>4. [job[p] EXCEPT !.against = A, !.pc = "read_events"] \in Job
    BY <2>1, <2>3 DEF Job, Steps
  <2> QED BY <1>7, <2>4 DEF Lint, TypeOK, files
<1>8. ASSUME NEW p \in Proc, ReadEvents(p) PROVE TypeOK'
  <2>1. job[p] \in Job
    BY <1>8, ActiveJob DEF ReadEvents, At, Active
  <2>2. [job[p] EXCEPT !.seen = events, !.pc = "open_events"] \in Job
    BY <2>1 DEF Job, Steps, TypeOK
  <2> QED BY <1>8, <2>2 DEF ReadEvents, TypeOK, files
<1>9. ASSUME NEW p \in Proc, OpenEvents(p) \/ WriteEvents(p) PROVE TypeOK'
  <2>1. job[p] \in Job
    BY <1>9, ActiveJob DEF OpenEvents, WriteEvents, At, Active
  <2>2. job' \in [Proc -> Job \cup {IdleJob}]
    BY <1>9, GotoType DEF OpenEvents, WriteEvents, At, Active, Steps
  <2>3. [s |-> job[p].s, t |-> job[p].t, against |-> job[p].against] \in Block
    BY <2>1 DEF Job, Block
  <2>4. events' \in Seq(Block)
    BY <1>9, <2>1, <2>3, SpliceType, EmptySeq DEF OpenEvents, WriteEvents, Job
  <2> QED BY <1>9, <2>2, <2>4 DEF OpenEvents, WriteEvents, TypeOK
<1>10. ASSUME NEW p \in Proc, WriteGist(p) PROVE TypeOK'
  <2>1. job[p] \in Job
    BY <1>10, ActiveJob DEF WriteGist, At, Active
  <2>2. job' \in [Proc -> Job \cup {IdleJob}]
    BY <1>10, GotoType DEF WriteGist, At, Active, Steps
  <2> QED BY <1>10, <2>1, <2>2 DEF WriteGist, TypeOK, Job
<1>11. ASSUME NEW p \in Proc, OpenLatest(p) \/ WriteLatest(p) PROVE TypeOK'
  <2>1. job[p] \in Job
    BY <1>11, ActiveJob DEF OpenLatest, WriteLatest, At, Active
  <2>2. job' \in [Proc -> Job \cup {IdleJob}]
    BY <1>11, GotoType DEF OpenLatest, WriteLatest, At, Active, Steps
  <2>3. latest' \in Version \cup {Nowhere}
    BY <1>11, <2>1 DEF OpenLatest, WriteLatest, Job, Version
  <2> QED BY <1>11, <2>2, <2>3 DEF OpenLatest, WriteLatest, TypeOK
<1>12. ASSUME NEW p \in Proc, AppendJournal(p) PROVE TypeOK'
  <2> DEFINE j == job[p]
             r == [s |-> j.s, turns |-> j.t,
                   new |-> IF j.t > j.prev THEN j.t - j.prev ELSE 0,
                   archive |-> j.archive]
  <2>1. job[p] \in Job
    BY <1>12, ActiveJob DEF AppendJournal, At, Active
  <2>2. job' \in [Proc -> Job \cup {IdleJob}]
    BY <1>12, GotoType DEF AppendJournal, At, Active, Steps
  <2>3. r \in Row
    BY <2>1 DEF Job, Row, Turn
  <2>4. journal' \in Seq(Row)
    BY <1>12, <2>3, AppendProperties DEF AppendJournal, TypeOK
  <2> QED BY <1>12, <2>2, <2>4 DEF AppendJournal, TypeOK
<1>13. ASSUME NEW p \in Proc, ReadLedgers(p) PROVE TypeOK'
  <2> DEFINE M == Merge(IF job[p].archive THEN LatestLive ELSE job[p].s)
  <2>1. job[p] \in Job
    BY <1>13, ActiveJob DEF ReadLedgers, At, Active
  <2>2. M \in SUBSET Version
    BY MergeType
  <2>3. [job[p] EXCEPT !.text = M, !.pc = "open_rollup"] \in Job
    BY <2>1, <2>2 DEF Job, Steps
  <2> QED BY <1>13, <2>3 DEF ReadLedgers, TypeOK, files
<1>14. ASSUME NEW p \in Proc, OpenRollup(p) PROVE TypeOK'
  <2>1. job' \in [Proc -> Job \cup {IdleJob}]
    BY <1>14, GotoType, ReturnType DEF OpenRollup, At, Active, Steps
  <2> QED BY <1>14, <2>1 DEF OpenRollup, TypeOK
<1>15. ASSUME NEW p \in Proc, WriteRollup(p) PROVE TypeOK'
  <2>1. job[p] \in Job
    BY <1>15, ActiveJob DEF WriteRollup, At, Active
  <2> QED BY <1>15, <2>1, ReturnType DEF WriteRollup, TypeOK, Job
<1>16. CASE UNCHANGED vars
  BY <1>16 DEF vars, TypeOK
<1> QED
  BY <1>1, <1>2, <1>3, <1>4, <1>5, <1>6, <1>7, <1>8, <1>9, <1>10, <1>11,
     <1>12, <1>13, <1>14, <1>15, <1>16
  DEF Next, Step, PackHook, StopHook, Backfill

\* Every reachable state is well typed: no action, crash or interleaving
\* leaves a file, a journal row or an invocation outside its range.
THEOREM TypeCorrect == Spec => []TypeOK
<1>1. Init => TypeOK
  BY TypeInit
<1>2. TypeOK /\ [Next]_vars => TypeOK'
  BY TypeNext
<1> QED BY <1>1, <1>2, PTL DEF Spec

(***************************************************************************)
(* One block per session, under every overlap.  A rewrite replaces the     *)
(* whole file by what the invocation read and spliced, so the file can be  *)
(* trusted only if everything in flight is itself free of duplicates.      *)
(***************************************************************************)
UniqueBlocks(evs) == \A i, j \in DOMAIN evs : evs[i].s = evs[j].s => i = j

BlocksInv ==
    /\ UniqueBlocks(events)
    /\ \A p \in Proc : Active(p) => UniqueBlocks(job[p].seen)

LEMMA SpliceUnique ==
    ASSUME NEW evs \in Seq(Block), NEW b \in Block, UniqueBlocks(evs)
    PROVE  UniqueBlocks(Splice(evs, b))
<1>1. CASE \E i \in DOMAIN evs : evs[i].s = b.s
  <2>1. Splice(evs, b) =
          [i \in DOMAIN evs |-> IF evs[i].s = b.s THEN b ELSE evs[i]]
    BY <1>1 DEF Splice
  <2>2. \A i \in DOMAIN evs : Splice(evs, b)[i].s = evs[i].s
    BY <2>1
  <2>3. DOMAIN Splice(evs, b) = DOMAIN evs
    BY <2>1
  <2> QED BY <2>2, <2>3 DEF UniqueBlocks
<1>2. CASE \A i \in DOMAIN evs : evs[i].s # b.s
  <2> DEFINE n == Len(evs)
  <2>1. Splice(evs, b) = Append(evs, b)
    BY <1>2 DEF Splice
  <2>2. /\ DOMAIN evs = 1..n
        /\ DOMAIN Append(evs, b) = 1..(n + 1)
        /\ n \in Nat
    BY AppendProperties, LenProperties
  <2>3. /\ \A i \in 1..n : Append(evs, b)[i] = evs[i]
        /\ Append(evs, b)[n + 1] = b
    BY AppendProperties
  <2>4. ASSUME NEW i \in 1..(n + 1), NEW j \in 1..(n + 1),
               Append(evs, b)[i].s = Append(evs, b)[j].s
        PROVE  i = j
    BY <1>2, <2>2, <2>3, <2>4 DEF UniqueBlocks
  <2> HIDE DEF n
  <2> QED BY <2>1, <2>2, <2>4 DEF UniqueBlocks
<1> QED BY <1>1, <1>2

\* An invocation that keeps what it read, or stops, preserves the invariant.
LEMMA BlocksKept ==
    ASSUME BlocksInv, NEW p \in Proc, UNCHANGED events,
           \A q \in Proc \ {p} : job'[q] = job[q],
           \/ job'[p].pc = "idle"
           \/ Active(p) /\ job'[p].seen = job[p].seen
           \/ job'[p].seen = events
           \/ job'[p].seen = <<>>
    PROVE  BlocksInv'
<1>1. UniqueBlocks(<<>>)
  BY DEF UniqueBlocks
<1> QED BY <1>1 DEF BlocksInv, UniqueBlocks, Active

LEMMA BlocksNext == TypeOK /\ BlocksInv /\ [Next]_vars => BlocksInv'
<1> SUFFICES ASSUME TypeOK, BlocksInv, [Next]_vars PROVE BlocksInv'
  OBVIOUS
<1> USE DEF TypeOK
<1>1. ASSUME NEW s \in Session, Grow(s) PROVE BlocksInv'
  BY <1>1 DEF Grow, files, BlocksInv, Active
<1>2. ASSUME NEW p \in Proc, NEW s \in Session, NEW a \in BOOLEAN,
             Begin(p, s, a)
      PROVE  BlocksInv'
  BY <1>2, BlocksKept DEF Begin, files
<1>3. ASSUME NEW p \in Proc, ParseTranscript(p) \/ ReadJournal(p) \/ Lint(p)
      PROVE  BlocksInv'
  <2>1. job[p] \in Job /\ Active(p)
    BY <1>3, ActiveJob DEF ParseTranscript, ReadJournal, Lint, At, Active
  <2>2. job'[p].seen = job[p].seen
    BY <1>3, <2>1 DEF ParseTranscript, ReadJournal, Lint, Job
  <2> QED BY <1>3, <2>1, <2>2, BlocksKept
          DEF ParseTranscript, ReadJournal, Lint, files
<1>4. ASSUME NEW p \in Proc, Refuse(p) \/ Crash(p) PROVE BlocksInv'
  BY <1>4, BlocksKept DEF Refuse, Crash, Return, IdleJob, files
<1>5. ASSUME NEW p \in Proc,
             \/ OpenLedger(p) \/ WriteLedger(p) \/ WriteGist(p)
             \/ OpenLatest(p) \/ WriteLatest(p) \/ AppendJournal(p)
      PROVE  BlocksInv'
  <2>1. job[p] \in Job /\ Active(p)
    BY <1>5, ActiveJob DEF OpenLedger, WriteLedger, WriteGist, OpenLatest,
       WriteLatest, AppendJournal, At, Active
  <2>2. /\ job'[p].seen = job[p].seen
        /\ \A q \in Proc \ {p} : job'[q] = job[q]
    BY <1>5, <2>1 DEF OpenLedger, WriteLedger, WriteGist, OpenLatest,
       WriteLatest, AppendJournal, Goto, Job
  <2>3. UNCHANGED events
    BY <1>5 DEF OpenLedger, WriteLedger, WriteGist, OpenLatest,
       WriteLatest, AppendJournal
  <2> QED BY <2>1, <2>2, <2>3, BlocksKept
<1>6. ASSUME NEW p \in Proc, ReadEvents(p) PROVE BlocksInv'
  <2>1. job[p] \in Job
    BY <1>6, ActiveJob DEF ReadEvents, At, Active
  <2>2. job'[p].seen = events
    BY <1>6, <2>1 DEF ReadEvents, Job
  <2> QED BY <1>6, <2>2, BlocksKept DEF ReadEvents, files
<1>7. ASSUME NEW p \in Proc, OpenEvents(p) \/ WriteEvents(p) PROVE BlocksInv'
  <2>1. job[p] \in Job /\ Active(p)
    BY <1>7, ActiveJob DEF OpenEvents, WriteEvents, At, Active
  <2>2. [s |-> job[p].s, t |-> job[p].t, against |-> job[p].against] \in Block
    BY <2>1 DEF Job, Block
  <2>3. UniqueBlocks(events')
    <3>1. CASE OpenEvents(p)
      BY <3>1 DEF OpenEvents, UniqueBlocks
    <3>2. CASE WriteEvents(p)
      BY <3>2, <2>1, <2>2, SpliceUnique DEF WriteEvents, BlocksInv, Job
    <3> QED BY <1>7, <3>1, <3>2
  <2>4. /\ job'[p].seen = job[p].seen
        /\ \A q \in Proc \ {p} : job'[q] = job[q]
    BY <1>7, <2>1 DEF OpenEvents, WriteEvents, Goto, Job
  <2> QED BY <2>1, <2>3, <2>4 DEF BlocksInv, Active
<1>8. ASSUME NEW p \in Proc, ReadLedgers(p) PROVE BlocksInv'
  <2>1. job[p] \in Job /\ Active(p)
    BY <1>8, ActiveJob DEF ReadLedgers, At, Active
  <2>2. job'[p].seen = job[p].seen
    BY <1>8, <2>1 DEF ReadLedgers, Job
  <2> QED BY <1>8, <2>1, <2>2, BlocksKept DEF ReadLedgers, files
<1>9. ASSUME NEW p \in Proc, OpenRollup(p) \/ WriteRollup(p) PROVE BlocksInv'
  <2>1. job[p] \in Job /\ Active(p)
    BY <1>9, ActiveJob DEF OpenRollup, WriteRollup, At, Active
  <2>2. /\ job'[p].pc = "idle" \/ job'[p].seen = job[p].seen
        /\ \A q \in Proc \ {p} : job'[q] = job[q]
    BY <1>9, <2>1 DEF OpenRollup, WriteRollup, Goto, Return, IdleJob, Job
  <2>3. UNCHANGED events
    BY <1>9 DEF OpenRollup, WriteRollup
  <2> QED BY <2>1, <2>2, <2>3, BlocksKept
<1>10. CASE UNCHANGED vars
  BY <1>10 DEF vars, BlocksInv, Active
<1> QED
  BY <1>1, <1>2, <1>3, <1>4, <1>5, <1>6, <1>7, <1>8, <1>9, <1>10
  DEF Next, Step, PackHook, StopHook, Backfill

\* events.jsonl never holds two blocks of one session, however the rewrites
\* of concurrent checkpoints interleave and wherever they die.
THEOREM BlocksUnique == Spec => []OneBlockPerSession
<1>1. Init => BlocksInv
  BY DEF Init, BlocksInv, UniqueBlocks, Active, IdleJob
<1>2. TypeOK /\ BlocksInv /\ [Next]_vars => BlocksInv'
  BY BlocksNext
<1>3. BlocksInv => OneBlockPerSession
  BY DEF BlocksInv, UniqueBlocks, OneBlockPerSession
<1> QED BY <1>1, <1>2, <1>3, TypeCorrect, PTL DEF Spec

(***************************************************************************)
(* The journal, when one session's invocations do not overlap.  The row    *)
(* that an invocation appends is decided when it parses, many steps before *)
(* it is written; the invariant says what stays true in between.           *)
(***************************************************************************)
Wrote == {"lint", "read_events", "open_events", "write_events", "write_gist",
          "open_latest", "write_latest", "append_journal"}
PrevRead == Wrote \cup {"open_ledger", "write_ledger"}
Parsed == PrevRead \cup {"read_journal"}

SerialSessions ==
    \A p, q \in Proc :
        Active(p) /\ Active(q) /\ p # q => job[p].s # job[q].s

RowsBehindTranscript ==
    \A i \in DOMAIN journal : journal[i].turns <= transcript[journal[i].s]

ParseAhead(p) ==
    job[p].pc \in Parsed =>
        /\ job[p].t <= transcript[job[p].s]
        /\ \A i \in RowsOf(job[p].s) : journal[i].turns <= job[p].t
PrevIsLast(p) ==
    job[p].pc \in PrevRead => job[p].prev = LastTurns(job[p].s)
LedgerIsParse(p) ==
    job[p].pc \in Wrote => ledger[job[p].s] = job[p].t

JournalInv ==
    /\ SerialSessions
    /\ RowsBehindTranscript
    /\ \A p \in Proc : ParseAhead(p) /\ PrevIsLast(p) /\ LedgerIsParse(p)
    /\ JournalMonotone
    /\ ReceiptsAddUp

\* An invocation that neither touches the journal, the transcripts nor the
\* ledgers and keeps what it parsed preserves the invariant as long as its
\* step claims no more than its last one did.
LEMMA JournalKept ==
    ASSUME TypeOK, JournalInv, NEW p \in Proc,
           UNCHANGED <<transcript, ledger, journal>>,
           \A q \in Proc \ {p} : job'[q] = job[q],
           \/ job'[p].pc = "idle"
           \/ /\ Active(p)
              /\ job'[p].s = job[p].s /\ job'[p].t = job[p].t
              /\ job'[p].prev = job[p].prev
              /\ job'[p].pc \in Parsed => job[p].pc \in Parsed
              /\ job'[p].pc \in PrevRead => job[p].pc \in PrevRead
              /\ job'[p].pc \in Wrote => job[p].pc \in Wrote
    PROVE  JournalInv'
<1>1. \A s : RowsOf(s)' = RowsOf(s) /\ LastTurns(s)' = LastTurns(s)
  BY DEF RowsOf, LastTurns
<1>2. SerialSessions'
  BY DEF JournalInv, SerialSessions, Active
<1>3. RowsBehindTranscript' /\ JournalMonotone' /\ ReceiptsAddUp'
  BY <1>1 DEF JournalInv, RowsBehindTranscript, JournalMonotone, ReceiptsAddUp
<1>4. ASSUME NEW q \in Proc
      PROVE  (ParseAhead(q) /\ PrevIsLast(q) /\ LedgerIsParse(q))'
  BY <1>1 DEF JournalInv, ParseAhead, PrevIsLast, LedgerIsParse, Parsed,
     PrevRead, Wrote
<1> QED BY <1>2, <1>3, <1>4 DEF JournalInv

LEMMA LastTurnsBound ==
    ASSUME TypeOK, NEW s, NEW n \in Nat,
           \A i \in RowsOf(s) : journal[i].turns <= n
    PROVE  LastTurns(s) <= n
<1>1. CASE RowsOf(s) = {}
  BY <1>1 DEF LastTurns
<1>2. CASE RowsOf(s) # {}
  BY <1>2, LastTurnsRow DEF TypeOK
<1> QED BY <1>1, <1>2

\* What appending one row does to the rows of each session.
LEMMA AppendRow ==
    ASSUME TypeOK, NEW r \in Row, journal' = Append(journal, r)
    PROVE  /\ Len(journal') = Len(journal) + 1
           /\ DOMAIN journal' = 1..(Len(journal) + 1)
           /\ DOMAIN journal = 1..Len(journal)
           /\ Len(journal) \in Nat
           /\ \A i \in 1..Len(journal) : journal'[i] = journal[i]
           /\ journal'[Len(journal) + 1] = r
           /\ \A s : s # r.s => RowsOf(s)' = RowsOf(s)
           /\ RowsOf(r.s)' = RowsOf(r.s) \cup {Len(journal) + 1}
<1>1. /\ Len(journal') = Len(journal) + 1
      /\ DOMAIN journal' = 1..(Len(journal) + 1)
      /\ DOMAIN journal = 1..Len(journal)
      /\ Len(journal) \in Nat
      /\ \A i \in 1..Len(journal) : journal'[i] = journal[i]
      /\ journal'[Len(journal) + 1] = r
  BY AppendProperties, LenProperties DEF TypeOK
<1> QED BY <1>1 DEF RowsOf

\* After the append the session's last row is the new one, and every other
\* session's last row is the one it had.
LEMMA LastTurnsAfterAppend ==
    ASSUME TypeOK, NEW r \in Row, journal' = Append(journal, r)
    PROVE  /\ LastTurns(r.s)' = r.turns
           /\ \A s : s # r.s => LastTurns(s)' = LastTurns(s)
<1> DEFINE n == Len(journal) + 1
<1>0. /\ RowsOf(r.s) \in SUBSET (1..Len(journal))
      /\ RowsOf(r.s)' = RowsOf(r.s) \cup {n}
      /\ Len(journal) \in Nat
  BY AppendRow, RowsOfPositions DEF TypeOK
<1>1. n \in RowsOf(r.s)' /\ \A j \in RowsOf(r.s)' : j <= n
  BY <1>0
<1>2. \A i \in RowsOf(r.s)' : (\A j \in RowsOf(r.s)' : j <= i) => i = n
  BY <1>0
<1>3. LastTurns(r.s)' = journal'[n].turns
  <2> HIDE DEF n
  <2> QED BY <1>1, <1>2 DEF LastTurns
<1>4. journal'[n] = r
  BY AppendRow
<1>5. ASSUME NEW s, s # r.s PROVE LastTurns(s)' = LastTurns(s)
  <2>1. RowsOf(s)' = RowsOf(s)
    BY <1>5, AppendRow
  <2>2. \A i \in RowsOf(s) : journal'[i] = journal[i]
    BY AppendRow, RowsOfPositions DEF TypeOK
  <2>3. CASE RowsOf(s) = {}
    BY <2>1, <2>3 DEF LastTurns
  <2>4. CASE RowsOf(s) # {}
    <3>0. RowsOf(s) \in SUBSET (1..Len(journal)) /\ Len(journal) \in Nat
      BY RowsOfPositions, LenProperties DEF TypeOK
    <3>1. PICK m \in RowsOf(s) : \A j \in RowsOf(s) : j <= m
      BY <2>4, <3>0, GreatestPosition
    <3>2. \A i \in RowsOf(s) : (\A j \in RowsOf(s) : j <= i) => i = m
      BY <3>0, <3>1
    <3>3. LastTurns(s) = journal[m].turns
      BY <2>4, <3>1, <3>2 DEF LastTurns
    <3>4. LastTurns(s)' = journal'[m].turns
      BY <2>1, <2>4, <3>1, <3>2 DEF LastTurns
    <3> QED BY <2>2, <3>1, <3>3, <3>4
  <2> QED BY <2>3, <2>4
<1> QED BY <1>3, <1>4, <1>5

LEMMA JournalInit == Init => JournalInv
  BY DEF Init, JournalInv, SerialSessions, RowsBehindTranscript, ParseAhead,
     PrevIsLast, LedgerIsParse, JournalMonotone, ReceiptsAddUp, Active,
     IdleJob, Parsed, PrevRead, Wrote

LEMMA JournalAppended ==
    ASSUME TypeOK, JournalInv, NEW p \in Proc, AppendJournal(p)
    PROVE  JournalInv'
<1> DEFINE new == IF job[p].t > job[p].prev THEN job[p].t - job[p].prev ELSE 0
           row == [s |-> job[p].s, turns |-> job[p].t, new |-> new,
                   archive |-> job[p].archive]
<1>1. job[p] \in Job /\ Active(p)
  BY ActiveJob DEF AppendJournal, At, Active
<1>2. PICK r \in Row : r.turns = job[p].t /\ r.s = job[p].s /\ r.new = new
                       /\ journal' = Append(journal, r)
  <2>1. row \in Row
    BY <1>1, BoundAssumption DEF Job, Row, Turn
  <2>2. journal' = Append(journal, row)
    BY DEF AppendJournal
  <2> QED BY <2>1, <2>2
<1>3. PICK s \in Session : s = job[p].s
  BY <1>1 DEF Job
<1>4. PICK n \in Nat \ {0} :
        /\ DOMAIN journal' = 1..n
        /\ DOMAIN journal = 1..(n - 1)
        /\ \A i \in 1..(n - 1) : journal'[i] = journal[i]
        /\ journal'[n] = r
        /\ \A x : x # s => RowsOf(x)' = RowsOf(x)
        /\ RowsOf(s)' = RowsOf(s) \cup {n}
  <2> DEFINE m == Len(journal)
  <2>1. /\ DOMAIN journal' = 1..(m + 1)
        /\ DOMAIN journal = 1..m
        /\ m \in Nat
        /\ \A i \in 1..m : journal'[i] = journal[i]
        /\ journal'[m + 1] = r
        /\ \A x : x # r.s => RowsOf(x)' = RowsOf(x)
        /\ RowsOf(r.s)' = RowsOf(r.s) \cup {m + 1}
    BY <1>2, AppendRow
  <2>2. m + 1 \in Nat \ {0} /\ 1..m = 1..((m + 1) - 1)
    BY <2>1
  <2> HIDE DEF m
  <2> QED BY <1>2, <1>3, <2>1, <2>2
<1>5. \A x : RowsOf(x) \in SUBSET (1..(n - 1))
  BY <1>4, RowsOfPositions DEF TypeOK
<1>6. /\ job[p].t <= transcript[s]
      /\ \A i \in RowsOf(s) : journal[i].turns <= job[p].t
      /\ job[p].prev = LastTurns(s)
      /\ ledger[s] = job[p].t
  BY <1>3 DEF JournalInv, ParseAhead, PrevIsLast, LedgerIsParse, Parsed, PrevRead,
     Wrote, AppendJournal, At
<1>7. /\ job'[p].pc = "read_ledgers" /\ job'[p].s = s
      /\ \A q \in Proc \ {p} : job'[q] = job[q]
      /\ UNCHANGED <<transcript, ledger>>
  BY <1>1, <1>3 DEF AppendJournal, Goto, TypeOK, Job
<1>8. LastTurns(s)' = job[p].t /\ \A x : x # s => LastTurns(x)' = LastTurns(x)
  BY <1>2, <1>3, LastTurnsAfterAppend
<1>9. \A i \in 1..(n - 1) : journal[i] \in Row
  BY <1>4, ElementOfSeq DEF TypeOK
<1> HIDE DEF row
<1>10. SerialSessions'
  BY <1>1, <1>3, <1>7 DEF JournalInv, SerialSessions, Active
<1>11. RowsBehindTranscript'
  <2>1. ASSUME NEW i \in 1..n PROVE journal'[i].turns <= transcript[journal'[i].s]
    <3>1. CASE i = n
      BY <1>2, <1>3, <1>4, <1>6, <3>1
    <3>2. CASE i # n
      <4>1. i \in 1..(n - 1)
        BY <3>2
      <4> QED BY <1>4, <4>1 DEF JournalInv, RowsBehindTranscript
    <3> QED BY <3>1, <3>2
  <2> QED BY <1>4, <1>7, <2>1 DEF RowsBehindTranscript
<1>12. ASSUME NEW q \in Proc
       PROVE  (ParseAhead(q) /\ PrevIsLast(q) /\ LedgerIsParse(q))'
  <2>1. CASE q = p
    BY <1>7, <2>1 DEF ParseAhead, PrevIsLast, LedgerIsParse, Parsed, PrevRead,
       Wrote
  <2>2. CASE q # p /\ Active(q)
    <3>1. job[q].s # s
      BY <1>1, <1>3, <2>2 DEF JournalInv, SerialSessions
    <3>2. /\ RowsOf(job[q].s)' = RowsOf(job[q].s)
          /\ LastTurns(job[q].s)' = LastTurns(job[q].s)
          /\ job'[q] = job[q]
      BY <1>4, <1>7, <1>8, <2>2, <3>1
    <3>3. \A i \in RowsOf(job[q].s) : journal'[i] = journal[i]
      BY <1>4, <1>5
    <3> QED BY <1>7, <3>2, <3>3 DEF JournalInv, ParseAhead, PrevIsLast,
               LedgerIsParse
  <2>3. CASE q # p /\ ~Active(q)
    BY <1>7, <2>3 DEF Active, ParseAhead, PrevIsLast, LedgerIsParse, Parsed,
       PrevRead, Wrote
  <2> QED BY <2>1, <2>2, <2>3
<1>13. JournalMonotone'
  <2>1. ASSUME NEW i \in 1..n, NEW j \in 1..n, i < j,
               journal'[i].s = journal'[j].s
        PROVE  journal'[i].turns <= journal'[j].turns
    <3>1. i \in 1..(n - 1)
      BY <1>4, <2>1
    <3>2. CASE j = n
      <4>1. i \in RowsOf(s)
        BY <1>2, <1>4, <2>1, <3>1, <3>2 DEF RowsOf
      <4> QED BY <1>2, <1>4, <1>6, <3>1, <3>2, <4>1
    <3>3. CASE j # n
      <4>1. j \in 1..(n - 1)
        BY <1>4, <3>3
      <4> QED BY <1>4, <2>1, <3>1, <4>1 DEF JournalInv, JournalMonotone
    <3> QED BY <3>2, <3>3
  <2> QED BY <1>4, <2>1 DEF JournalMonotone
<1>14. ReceiptsAddUp'
  <2> DEFINE Older(j) == {i \in RowsOf(journal[j].s) : i < j}
  <2>1. ASSUME NEW j \in 1..(n - 1)
        PROVE  /\ Older(j)' = Older(j)
               /\ \A i \in Older(j) : journal'[i] = journal[i]
               /\ journal'[j] = journal[j]
    BY <1>4, <1>5
  <2>2. /\ Older(n)' = RowsOf(s)
        /\ \A i \in RowsOf(s) : journal'[i] = journal[i]
    <3>1. journal'[n].s = s
      BY <1>2, <1>3, <1>4
    <3>2. Older(n)' = {i \in RowsOf(s)' : i < n}
      BY <3>1 DEF RowsOf
    <3> QED BY <1>4, <1>5, <3>2
  <2>3. ASSUME NEW j \in 1..(n - 1)
        PROVE  /\ Older(j)' = {} => journal'[j].new = journal'[j].turns
               /\ \A i \in Older(j)' :
                    (\A k \in Older(j)' : k <= i)
                      => journal'[j].turns = journal'[i].turns + journal'[j].new
    BY <1>4, <2>1 DEF JournalInv, ReceiptsAddUp
  <2>4. LastTurns(s) <= job[p].t
    BY <1>1, <1>6, LastTurnsBound DEF Job, Turn
  <2>5. r.turns = LastTurns(s) + r.new
    BY <1>1, <1>6, <2>4, <1>2, LastTurnsType DEF TypeOK, Job, Turn
  <2>6. RowsOf(s) = {} => r.new = r.turns
    BY <2>5, <1>2 DEF LastTurns, Row, Turn
  <2>7. ASSUME NEW i \in RowsOf(s), \A k \in RowsOf(s) : k <= i
        PROVE  LastTurns(s) = journal[i].turns
    <3>1. PICK m \in RowsOf(s) : /\ \A k \in RowsOf(s) : k <= m
                                 /\ LastTurns(s) = journal[m].turns
      BY LastTurnsRow DEF TypeOK
    <3>2. m = i
      BY <1>4, <1>5, <2>7, <3>1
    <3> QED BY <3>1, <3>2
  <2>8. /\ Older(n)' = {} => journal'[n].new = journal'[n].turns
        /\ \A i \in Older(n)' :
              (\A k \in Older(n)' : k <= i)
                => journal'[n].turns = journal'[i].turns + journal'[n].new
    <3> HIDE DEF Older
    <3> QED BY <1>4, <2>2, <2>5, <2>6, <2>7
  <2>9. \A j \in 1..n : j = n \/ j \in 1..(n - 1)
    BY <1>4
  <2> QED BY <1>4, <2>3, <2>8, <2>9 DEF ReceiptsAddUp
<1> QED BY <1>10, <1>11, <1>12, <1>13, <1>14 DEF JournalInv

LEMMA JournalNext ==
    ASSUME Overlap # "any", TypeOK, JournalInv, [Next]_vars
    PROVE  JournalInv'
<1> USE DEF TypeOK
<1>1. ASSUME NEW s \in Session, Grow(s) PROVE JournalInv'
  <2>1. \A x : RowsOf(x)' = RowsOf(x) /\ LastTurns(x)' = LastTurns(x)
    BY <1>1 DEF Grow, files, RowsOf, LastTurns
  <2>2. \A x \in Session : transcript[x] <= transcript'[x]
    BY <1>1 DEF Grow, Turn
  <2>3. RowsBehindTranscript'
    <3>1. ASSUME NEW i \in DOMAIN journal
          PROVE  journal[i].turns <= transcript'[journal[i].s]
      <4>1. journal[i] \in Row
        BY LenProperties, ElementOfSeq
      <4> QED BY <1>1, <2>2, <4>1 DEF JournalInv, RowsBehindTranscript, Row,
                 Turn, Grow
    <3> QED BY <1>1, <3>1 DEF Grow, files, RowsBehindTranscript
  <2>4. ASSUME NEW p \in Proc
        PROVE  (ParseAhead(p) /\ PrevIsLast(p) /\ LedgerIsParse(p))'
    <3>1. job[p].pc \in Parsed => job[p] \in Job
      BY DEF IdleJob, Parsed, PrevRead, Wrote
    <3>2. job[p].pc \in Parsed => job[p].t <= transcript'[job[p].s]
      BY <1>1, <2>2, <3>1 DEF JournalInv, ParseAhead, Job, Turn, Grow
    <3> QED BY <1>1, <2>1, <3>2 DEF Grow, files, JournalInv, ParseAhead,
               PrevIsLast, LedgerIsParse
  <2> QED BY <1>1, <2>1, <2>3, <2>4 DEF Grow, files, JournalInv,
             SerialSessions, Active, JournalMonotone, ReceiptsAddUp
<1>2. ASSUME NEW p \in Proc, NEW s \in Session, NEW a \in BOOLEAN,
             Begin(p, s, a)
      PROVE  JournalInv'
  <2>1. \A x : RowsOf(x)' = RowsOf(x) /\ LastTurns(x)' = LastTurns(x)
    BY <1>2 DEF Begin, files, RowsOf, LastTurns
  <2>2. SerialSessions'
    <3>1. \A q \in Proc : Active(q) => job[q].s # s
      BY <1>2, OverlapAssumption DEF Begin, MayStart
    <3> QED BY <1>2, <3>1 DEF Begin, JournalInv, SerialSessions, Active
  <2>3. ASSUME NEW q \in Proc
        PROVE  (ParseAhead(q) /\ PrevIsLast(q) /\ LedgerIsParse(q))'
    BY <1>2, <2>1 DEF Begin, files, JournalInv, ParseAhead, PrevIsLast,
       LedgerIsParse, Parsed, PrevRead, Wrote
  <2> QED BY <1>2, <2>1, <2>2, <2>3 DEF Begin, files, JournalInv,
             RowsBehindTranscript, JournalMonotone, ReceiptsAddUp
<1>3. ASSUME NEW p \in Proc, ParseTranscript(p) PROVE JournalInv'
  <2>1. \A x : RowsOf(x)' = RowsOf(x) /\ LastTurns(x)' = LastTurns(x)
    BY <1>3 DEF ParseTranscript, files, RowsOf, LastTurns
  <2>2. job[p] \in Job /\ Active(p)
    BY <1>3, ActiveJob DEF ParseTranscript, At, Active
  <2>3. /\ job'[p].pc = "read_journal" /\ job'[p].s = job[p].s
        /\ job'[p].t = transcript[job[p].s]
        /\ \A q \in Proc \ {p} : job'[q] = job[q]
    BY <1>3, <2>2 DEF ParseTranscript, Job
  <2>4. \A i \in RowsOf(job[p].s) : journal[i].turns <= transcript[job[p].s]
    BY DEF JournalInv, RowsBehindTranscript, RowsOf
  <2>5. transcript[job[p].s] <= transcript[job[p].s]
    BY <2>2 DEF Job, Turn
  <2>6. ASSUME NEW q \in Proc
        PROVE  (ParseAhead(q) /\ PrevIsLast(q) /\ LedgerIsParse(q))'
    BY <1>3, <2>1, <2>3, <2>4, <2>5 DEF ParseTranscript, files, JournalInv,
       ParseAhead, PrevIsLast, LedgerIsParse, Parsed, PrevRead, Wrote
  <2> QED BY <1>3, <2>1, <2>2, <2>3, <2>6 DEF ParseTranscript, files,
             JournalInv, RowsBehindTranscript, JournalMonotone, ReceiptsAddUp,
             SerialSessions, Active
<1>4. ASSUME NEW p \in Proc, ReadJournal(p) PROVE JournalInv'
  <2>1. \A x : RowsOf(x)' = RowsOf(x) /\ LastTurns(x)' = LastTurns(x)
    BY <1>4 DEF ReadJournal, files, RowsOf, LastTurns
  <2>2. job[p] \in Job /\ Active(p)
    BY <1>4, ActiveJob DEF ReadJournal, At, Active
  <2>3. /\ job'[p].pc = "open_ledger" /\ job'[p].s = job[p].s
        /\ job'[p].t = job[p].t /\ job'[p].prev = LastTurns(job[p].s)
        /\ \A q \in Proc \ {p} : job'[q] = job[q]
    BY <1>4, <2>2 DEF ReadJournal, Job
  <2>4. ASSUME NEW q \in Proc
        PROVE  (ParseAhead(q) /\ PrevIsLast(q) /\ LedgerIsParse(q))'
    BY <1>4, <2>1, <2>3 DEF ReadJournal, At, files, JournalInv,
       ParseAhead, PrevIsLast, LedgerIsParse, Parsed, PrevRead, Wrote
  <2> QED BY <1>4, <2>1, <2>2, <2>3, <2>4 DEF ReadJournal, files,
             JournalInv, RowsBehindTranscript, JournalMonotone, ReceiptsAddUp,
             SerialSessions, Active
<1>5. ASSUME NEW p \in Proc, OpenLedger(p) \/ WriteLedger(p) PROVE JournalInv'
  <2>1. /\ UNCHANGED <<transcript, journal>>
        /\ \A x : RowsOf(x)' = RowsOf(x) /\ LastTurns(x)' = LastTurns(x)
    <3>1. UNCHANGED <<transcript, journal>>
      BY <1>5 DEF OpenLedger, WriteLedger
    <3> QED BY <3>1 DEF RowsOf, LastTurns
  <2>2. job[p] \in Job /\ Active(p)
    BY <1>5, ActiveJob DEF OpenLedger, WriteLedger, At, Active
  <2>3. /\ job'[p].s = job[p].s /\ job'[p].t = job[p].t
        /\ job'[p].prev = job[p].prev
        /\ job[p].pc \in PrevRead
        /\ \/ job'[p].pc = "write_ledger"
           \/ job'[p].pc = "lint" /\ ledger'[job[p].s] = job[p].t
        /\ \A q \in Proc \ {p} : job'[q] = job[q]
        /\ \A x \in Session \ {job[p].s} : ledger'[x] = ledger[x]
    BY <1>5, <2>2 DEF OpenLedger, WriteLedger, At, Goto, Job, PrevRead
  <2>4. ASSUME NEW q \in Proc PROVE LedgerIsParse(q)'
    <3>1. CASE q = p
      BY <2>3, <3>1 DEF LedgerIsParse, Wrote
    <3>2. CASE q # p /\ Active(q)
      <4>1. job[q].s \in Session \ {job[p].s}
        BY <2>2, <3>2, ActiveJob DEF JournalInv, SerialSessions, Job
      <4> QED BY <2>3, <3>2, <4>1 DEF JournalInv, LedgerIsParse
    <3>3. CASE q # p /\ ~Active(q)
      BY <2>3, <3>3 DEF Active, LedgerIsParse, Wrote
    <3> QED BY <3>1, <3>2, <3>3
  <2>5. ASSUME NEW q \in Proc PROVE (ParseAhead(q) /\ PrevIsLast(q))'
    BY <2>1, <2>3 DEF JournalInv, ParseAhead, PrevIsLast, Parsed
  <2> QED BY <2>1, <2>2, <2>3, <2>4, <2>5 DEF JournalInv, SerialSessions,
             Active, RowsBehindTranscript, JournalMonotone, ReceiptsAddUp
<1>6. ASSUME NEW p \in Proc, AppendJournal(p) PROVE JournalInv'
  BY <1>6, JournalAppended
<1>7. ASSUME NEW p \in Proc,
             \/ Lint(p) \/ ReadEvents(p) \/ OpenEvents(p) \/ WriteEvents(p)
             \/ WriteGist(p) \/ OpenLatest(p) \/ WriteLatest(p)
      PROVE  JournalInv'
  <2>1. job[p] \in Job /\ Active(p)
    BY <1>7, ActiveJob DEF Lint, ReadEvents, OpenEvents, WriteEvents,
       WriteGist, OpenLatest, WriteLatest, At, Active
  <2>2. UNCHANGED <<transcript, ledger, journal>>
    BY <1>7 DEF Lint, ReadEvents, OpenEvents, WriteEvents,
       WriteGist, OpenLatest, WriteLatest, files
  <2>3. job[p].pc \in Wrote
    BY <1>7 DEF Lint, ReadEvents, OpenEvents, WriteEvents,
       WriteGist, OpenLatest, WriteLatest, At, Wrote
  <2>4. /\ \A q \in Proc \ {p} : job'[q] = job[q]
        /\ job'[p].s = job[p].s /\ job'[p].t = job[p].t
        /\ job'[p].prev = job[p].prev
    BY <1>7, <2>1 DEF Lint, ReadEvents, OpenEvents, WriteEvents,
       WriteGist, OpenLatest, WriteLatest, Goto, Job
  <2> QED BY <2>1, <2>2, <2>3, <2>4, JournalKept DEF Parsed, PrevRead
<1>8. ASSUME NEW p \in Proc,
             ReadLedgers(p) \/ OpenRollup(p) \/ WriteRollup(p)
      PROVE  JournalInv'
  <2>1. job[p] \in Job /\ Active(p)
    BY <1>8, ActiveJob DEF ReadLedgers, OpenRollup, WriteRollup, At, Active
  <2>2. UNCHANGED <<transcript, ledger, journal>>
    BY <1>8 DEF ReadLedgers, OpenRollup, WriteRollup, files
  <2>3. /\ \A q \in Proc \ {p} : job'[q] = job[q]
        /\ \/ job'[p].pc = "idle"
           \/ /\ job'[p].s = job[p].s /\ job'[p].t = job[p].t
              /\ job'[p].prev = job[p].prev
              /\ job'[p].pc \in {"open_rollup", "write_rollup"}
    BY <1>8, <2>1 DEF ReadLedgers, OpenRollup, WriteRollup, Goto, Return,
       IdleJob, Job
  <2> QED BY <2>1, <2>2, <2>3, JournalKept DEF Parsed, PrevRead, Wrote
<1>9. ASSUME NEW p \in Proc, Refuse(p) \/ Crash(p) PROVE JournalInv'
  <2>1. /\ UNCHANGED <<transcript, ledger, journal>>
        /\ \A q \in Proc \ {p} : job'[q] = job[q]
        /\ job'[p].pc = "idle"
    BY <1>9 DEF Refuse, Crash, Return, IdleJob, files
  <2> QED BY <2>1, JournalKept
<1>10. CASE UNCHANGED vars
  <2>1. UNCHANGED <<transcript, ledger, journal, job>>
    BY <1>10 DEF vars
  <2>2. \A x : RowsOf(x)' = RowsOf(x) /\ LastTurns(x)' = LastTurns(x)
    BY <2>1 DEF RowsOf, LastTurns
  <2> QED BY <2>1, <2>2 DEF JournalInv, SerialSessions, Active,
             RowsBehindTranscript, ParseAhead, PrevIsLast, LedgerIsParse,
             JournalMonotone, ReceiptsAddUp
<1> QED
  BY <1>1, <1>2, <1>3, <1>4, <1>5, <1>6, <1>7, <1>8, <1>9, <1>10
  DEF Next, Step, PackHook, StopHook, Backfill

LEMMA JournalInvariant ==
    ASSUME Overlap # "any"
    PROVE  Spec => [](TypeOK /\ JournalInv)
<1>1. Init => TypeOK /\ JournalInv
  BY TypeInit, JournalInit
<1>2. TypeOK /\ JournalInv /\ [Next]_vars => (TypeOK /\ JournalInv)'
  BY TypeNext, JournalNext
<1> QED BY <1>1, <1>2, PTL DEF Spec

\* As long as one session's checkpoints do not overlap, no later journal row
\* of the session covers fewer turns than an earlier one, whatever other
\* sessions' checkpoints do and wherever any of them dies.
THEOREM JournalNeverRegresses ==
    ASSUME Overlap # "any" PROVE Spec => []JournalMonotone
<1>1. TypeOK /\ JournalInv => JournalMonotone
  BY DEF JournalInv
<1> QED BY <1>1, JournalInvariant, PTL

\* ... its turns_new receipts add up ...
THEOREM ReceiptsAreExact ==
    ASSUME Overlap # "any" PROVE Spec => []ReceiptsAddUp
<1>1. TypeOK /\ JournalInv => ReceiptsAddUp
  BY DEF JournalInv
<1> QED BY <1>1, JournalInvariant, PTL

\* ... and the row that is appended describes the ledger that is on disk.
THEOREM RowsDescribeLedgers ==
    ASSUME Overlap # "any" PROVE Spec => RowDescribesLedger
<1>1. TypeOK /\ JournalInv /\ [Next]_vars =>
        [Len(journal') > Len(journal) =>
           LET r == journal'[Len(journal')] IN ledger[r.s] = r.turns]_vars
  <2> SUFFICES ASSUME TypeOK, JournalInv, [Next]_vars,
                      Len(journal') > Len(journal)
               PROVE  LET r == journal'[Len(journal')] IN ledger[r.s] = r.turns
    OBVIOUS
  <2>1. Len(journal) \in Nat
    BY LenProperties DEF TypeOK
  <2>2. journal' # journal
    BY <2>1
  <2>3. PICK p \in Proc : AppendJournal(p)
    BY <2>2 DEF Next, Step, PackHook, StopHook, Backfill, Begin, Grow,
       ParseTranscript, Refuse, ReadJournal, OpenLedger, WriteLedger, Lint,
       ReadEvents, OpenEvents, WriteEvents, WriteGist, OpenLatest,
       WriteLatest, ReadLedgers, OpenRollup, WriteRollup, Crash, files, vars
  <2>4. job[p] \in Job
    BY <2>3, ActiveJob DEF AppendJournal, At, Active
  <2> DEFINE r == [s |-> job[p].s, turns |-> job[p].t,
                   new |-> IF job[p].t > job[p].prev
                           THEN job[p].t - job[p].prev ELSE 0,
                   archive |-> job[p].archive]
  <2>5. r \in Row
    BY <2>4, BoundAssumption DEF Job, Row, Turn
  <2>6. journal'[Len(journal')] = r
    <3>1. journal' = Append(journal, r)
      BY <2>3 DEF AppendJournal
    <3> HIDE DEF r
    <3> QED BY <2>5, <3>1, AppendProperties DEF TypeOK
  <2>7. ledger[job[p].s] = job[p].t
    BY <2>3 DEF JournalInv, LedgerIsParse, AppendJournal, At, Wrote
  <2> QED BY <2>6, <2>7
<1> QED BY <1>1, JournalInvariant, PTL DEF Spec, RowDescribesLedger

(***************************************************************************)
(* Checkpointing implements the abstract bank.                             *)
(***************************************************************************)
\* Every step of every checkpoint is, to a reader of the journal, a step of
\* the atomic bank of SessionBank.tla or no step at all.
THEOREM CheckpointImplementsBank ==
    ASSUME Overlap # "any" PROVE Spec => BankRefinement
<1>1. Init => Bank!BankInit
  BY DEF Init, Bank!BankInit, LastTurns, RowsOf
<1>2. TypeOK /\ JournalInv /\ [Next]_vars => [Bank!BankNext]_(Bank!bankVars)
  <2> SUFFICES ASSUME TypeOK, JournalInv, [Next]_vars
               PROVE  [Bank!BankNext]_(Bank!bankVars)
    OBVIOUS
  <2>1. CASE UNCHANGED <<transcript, journal>>
    BY <2>1 DEF Bank!bankVars, LastTurns, RowsOf
  <2>2. ASSUME NEW s \in Session, Grow(s) PROVE Bank!Write(s)
    BY <2>2 DEF Grow, files, Bank!Write, LastTurns, RowsOf
  <2>3. ASSUME NEW p \in Proc, AppendJournal(p)
        PROVE  \E s \in Session : Bank!Bank(s)
    <3>1. job[p] \in Job
      BY <2>3, ActiveJob DEF AppendJournal, At, Active
    <3>2. PICK s \in Session, r \in Row :
             /\ s = job[p].s /\ r.s = s /\ r.turns = job[p].t
             /\ journal' = Append(journal, r)
      <4> DEFINE row == [s |-> job[p].s, turns |-> job[p].t,
                         new |-> IF job[p].t > job[p].prev
                                 THEN job[p].t - job[p].prev ELSE 0,
                         archive |-> job[p].archive]
      <4>1. row \in Row /\ job[p].s \in Session
        BY <3>1, BoundAssumption DEF Job, Row, Turn
      <4>2. journal' = Append(journal, row)
        BY <2>3 DEF AppendJournal
      <4> QED BY <4>1, <4>2
    <3>3. /\ LastTurns(s)' = r.turns
          /\ \A x : x # s => LastTurns(x)' = LastTurns(x)
      BY <3>2, LastTurnsAfterAppend
    <3>4. /\ job[p].t <= transcript[s]
          /\ LastTurns(s) <= job[p].t
      BY <2>3, <3>1, <3>2, LastTurnsBound DEF JournalInv, ParseAhead,
         AppendJournal, At, Parsed, PrevRead, Wrote, Job, Turn
    <3>5. r.turns \in LastTurns(s)..transcript[s]
      BY <3>2, <3>4, LastTurnsType DEF TypeOK, Row, Turn
    <3>6. [x \in Session |-> LastTurns(x)]' =
            [[x \in Session |-> LastTurns(x)] EXCEPT ![s] = r.turns]
      BY <3>3
    <3>7. transcript' = transcript
      BY <2>3 DEF AppendJournal
    <3> QED BY <3>5, <3>6, <3>7 DEF Bank!Bank
  <2> QED
    BY <2>1, <2>2, <2>3 DEF Next, Step, PackHook, StopHook, Backfill, Begin,
       ParseTranscript, Refuse, ReadJournal, OpenLedger, WriteLedger, Lint,
       ReadEvents, OpenEvents, WriteEvents, WriteGist, OpenLatest,
       WriteLatest, ReadLedgers, OpenRollup, WriteRollup, Crash, files, vars,
       Bank!BankNext
<1> QED BY <1>1, <1>2, JournalInvariant, PTL
        DEF Spec, BankRefinement, Bank!BankSpec

(***************************************************************************)
(* Conflict rows look back.  First-checkpoint order never changes once it  *)
(* exists, so what was earlier when the lint ran is earlier ever after.    *)
(***************************************************************************)
Before == {xy \in Session \X Session : FirstBefore(xy[1], xy[2])}
LooksBack(B, s, A) == \A v \in A : <<v.s, s>> \in B
AllLookBack(B, evs) ==
    \A i \in DOMAIN evs : LooksBack(B, evs[i].s, evs[i].against)

CompareInv ==
    /\ AllLookBack(Before, events)
    /\ \A p \in Proc :
          Active(p) => /\ LooksBack(Before, job[p].s, job[p].against)
                       /\ AllLookBack(Before, job[p].seen)

LEMMA FirstBeforeStable ==
    ASSUME TypeOK, NEW r \in Row, journal' = Append(journal, r), NEW x, NEW y,
           FirstBefore(x, y)
    PROVE  FirstBefore(x, y)'
<1>1. PICK i \in RowsOf(x) : \A j \in RowsOf(y) : i < j
  BY DEF FirstBefore
<1>2. RowsOf(x) \in SUBSET (1..Len(journal)) /\ Len(journal) \in Nat
  BY RowsOfPositions, LenProperties DEF TypeOK
<1>3. i \in RowsOf(x)'
  BY <1>1, AppendRow
<1>4. RowsOf(y)' \subseteq RowsOf(y) \cup {Len(journal) + 1}
  BY AppendRow
<1> QED BY <1>1, <1>2, <1>3, <1>4 DEF FirstBefore

LEMMA BeforeGrows ==
    ASSUME TypeOK, [Next]_vars
    PROVE  Before \subseteq Before'
<1> SUFFICES ASSUME NEW x \in Session, NEW y \in Session, FirstBefore(x, y)
             PROVE  FirstBefore(x, y)'
  BY DEF Before
<1>1. CASE UNCHANGED journal
  BY <1>1 DEF FirstBefore, RowsOf
<1>2. ASSUME NEW p \in Proc, AppendJournal(p) PROVE FirstBefore(x, y)'
  <2>1. job[p] \in Job
    BY <1>2, ActiveJob DEF AppendJournal, At, Active
  <2>2. \E r \in Row : journal' = Append(journal, r)
    <3> DEFINE row == [s |-> job[p].s, turns |-> job[p].t,
                       new |-> IF job[p].t > job[p].prev
                               THEN job[p].t - job[p].prev ELSE 0,
                       archive |-> job[p].archive]
    <3>1. row \in Row
      BY <2>1, BoundAssumption DEF Job, Row, Turn
    <3>2. journal' = Append(journal, row)
      BY <1>2 DEF AppendJournal
    <3> QED BY <3>1, <3>2
  <2> QED BY <2>2, FirstBeforeStable
<1> QED
  BY <1>1, <1>2 DEF Next, Step, PackHook, StopHook, Backfill, Begin, Grow,
     ParseTranscript, Refuse, ReadJournal, OpenLedger, WriteLedger, Lint,
     ReadEvents, OpenEvents, WriteEvents, WriteGist, OpenLatest,
     WriteLatest, ReadLedgers, OpenRollup, WriteRollup, Crash, files, vars

LEMMA SpliceLooksBack ==
    ASSUME NEW B, NEW evs \in Seq(Block), NEW b \in Block,
           AllLookBack(B, evs), LooksBack(B, b.s, b.against)
    PROVE  AllLookBack(B, Splice(evs, b))
<1>1. CASE \E i \in DOMAIN evs : evs[i].s = b.s
  BY <1>1 DEF Splice, AllLookBack
<1>2. CASE \A i \in DOMAIN evs : evs[i].s # b.s
  <2>1. Splice(evs, b) = Append(evs, b)
    BY <1>2 DEF Splice
  <2>2. /\ DOMAIN Append(evs, b) = 1..(Len(evs) + 1)
        /\ DOMAIN evs = 1..Len(evs) /\ Len(evs) \in Nat
        /\ \A i \in 1..Len(evs) : Append(evs, b)[i] = evs[i]
        /\ Append(evs, b)[Len(evs) + 1] = b
    BY AppendProperties, LenProperties
  <2> QED BY <2>1, <2>2 DEF AllLookBack
<1> QED BY <1>1, <1>2

\* What an invocation holds, and what the file holds, after a step: what was
\* held before, what the lint just gathered, or the spliced file.
LEMMA CompareNext ==
    ASSUME TypeOK, CompareInv, [Next]_vars
    PROVE  CompareInv'
<1>2. Before \subseteq Before'
  BY BeforeGrows
<1>3. AllLookBack(Before', <<>>) /\ \A s : LooksBack(Before', s, {})
  BY DEF AllLookBack, LooksBack
<1>4. ASSUME AllLookBack(Before', events'),
             \A p \in Proc :
                Active(p)' => /\ LooksBack(Before', job'[p].s, job'[p].against)
                              /\ AllLookBack(Before', job'[p].seen)
      PROVE  CompareInv'
  BY <1>4 DEF CompareInv
<1>5. AllLookBack(Before', events)
  BY <1>2 DEF CompareInv, AllLookBack, LooksBack
<1>6. \A p \in Proc :
         Active(p) => /\ LooksBack(Before', job[p].s, job[p].against)
                      /\ AllLookBack(Before', job[p].seen)
  BY <1>2 DEF CompareInv, AllLookBack, LooksBack
<1>7. \A p \in Proc : Active(p) => job[p] \in Job
  BY ActiveJob
<1>8. ASSUME NEW p \in Proc, WriteEvents(p) PROVE CompareInv'
  <2> DEFINE b == [s |-> job[p].s, t |-> job[p].t, against |-> job[p].against]
  <2>1. Active(p) /\ job[p] \in Job
    BY <1>7, <1>8 DEF WriteEvents, At, Active
  <2>2. b \in Block
    BY <2>1 DEF Job, Block
  <2>3. /\ LooksBack(Before', b.s, b.against)
        /\ AllLookBack(Before', job[p].seen)
    BY <1>6, <2>1
  <2>4. events' = Splice(job[p].seen, b)
    BY <1>8 DEF WriteEvents
  <2> HIDE DEF b
  <2>5. AllLookBack(Before', Splice(job[p].seen, b))
    BY <2>1, <2>2, <2>3, SpliceLooksBack DEF Job
  <2>6. AllLookBack(Before', events')
    BY <2>4, <2>5
  <2>7. \A q \in Proc : Active(q)' =>
           /\ Active(q) /\ job'[q].s = job[q].s
           /\ job'[q].against = job[q].against /\ job'[q].seen = job[q].seen
    BY <1>8, <2>1 DEF WriteEvents, Goto, Active, Job, TypeOK
  <2> QED BY <1>4, <1>6, <2>6, <2>7
<1>9. ASSUME NEW p \in Proc, Lint(p) PROVE CompareInv'
  <2> DEFINE A == {[s |-> x, t |-> ledger[x]] :
                    x \in {y \in EarlierSessions(job[p].s) : ledger[y] > 0}}
  <2>1. Active(p) /\ job[p] \in Job
    BY <1>7, <1>9 DEF Lint, At, Active
  <2>2. LooksBack(Before, job[p].s, A)
    BY <2>1, JournaledType DEF LooksBack, EarlierSessions, Before, TypeOK, Job
  <2>3. LooksBack(Before', job[p].s, A)
    BY <1>2, <2>2 DEF LooksBack
  <2>4. /\ job'[p].s = job[p].s /\ job'[p].against = A
        /\ job'[p].seen = job[p].seen
        /\ \A q \in Proc \ {p} : job'[q] = job[q]
    BY <1>9, <2>1 DEF Lint, Job, TypeOK
  <2>5. UNCHANGED events
    BY <1>9 DEF Lint, files
  <2> HIDE DEF A
  <2> QED BY <1>4, <1>5, <1>6, <2>1, <2>3, <2>4, <2>5 DEF Active
<1>10. ASSUME NEW p \in Proc, ReadEvents(p) PROVE CompareInv'
  <2>1. Active(p) /\ job[p] \in Job
    BY <1>7, <1>10 DEF ReadEvents, At, Active
  <2>2. /\ job'[p].s = job[p].s /\ job'[p].against = job[p].against
        /\ job'[p].seen = events
        /\ \A q \in Proc \ {p} : job'[q] = job[q]
    BY <1>10, <2>1 DEF ReadEvents, Job, TypeOK
  <2>3. UNCHANGED events
    BY <1>10 DEF ReadEvents, files
  <2> QED BY <1>4, <1>5, <1>6, <2>1, <2>2, <2>3 DEF Active
<1>11. ASSUME NEW p \in Proc, NEW s \in Session, NEW a \in BOOLEAN,
              Begin(p, s, a)
       PROVE  CompareInv'
  <2>1. /\ job'[p].against = {} /\ job'[p].seen = <<>>
        /\ \A q \in Proc \ {p} : job'[q] = job[q]
        /\ UNCHANGED events
    BY <1>11 DEF Begin, files, TypeOK
  <2> QED BY <1>3, <1>4, <1>5, <1>6, <2>1 DEF Active
<1>12. ASSUME events' \in {events, <<>>},
              \A q \in Proc : Active(q)' =>
                 /\ Active(q) /\ job'[q].s = job[q].s
                 /\ job'[q].against = job[q].against
                 /\ job'[q].seen = job[q].seen
       PROVE  CompareInv'
  BY <1>3, <1>4, <1>5, <1>6, <1>12
<1>13. ASSUME NEW p \in Proc,
              \/ ParseTranscript(p) \/ ReadJournal(p) \/ ReadLedgers(p)
              \/ OpenLedger(p) \/ WriteLedger(p) \/ OpenEvents(p)
              \/ WriteGist(p) \/ OpenLatest(p) \/ WriteLatest(p)
              \/ AppendJournal(p) \/ OpenRollup(p) \/ WriteRollup(p)
              \/ Refuse(p) \/ Crash(p)
       PROVE  CompareInv'
  <2>1. Active(p) /\ job[p] \in Job
    BY <1>7, <1>13 DEF ParseTranscript, ReadJournal, ReadLedgers, OpenLedger,
       WriteLedger, OpenEvents, WriteGist, OpenLatest, WriteLatest,
       AppendJournal, OpenRollup, WriteRollup, Refuse, Crash, At, Active
  <2>2. events' \in {events, <<>>}
    BY <1>13 DEF ParseTranscript, ReadJournal, ReadLedgers, OpenLedger,
       WriteLedger, OpenEvents, WriteGist, OpenLatest, WriteLatest,
       AppendJournal, OpenRollup, WriteRollup, Refuse, Crash, files
  <2>3. /\ \A q \in Proc \ {p} : job'[q] = job[q]
        /\ \/ job'[p].pc = "idle"
           \/ /\ job'[p].s = job[p].s /\ job'[p].against = job[p].against
              /\ job'[p].seen = job[p].seen
    BY <1>13, <2>1 DEF ParseTranscript, ReadJournal, ReadLedgers, OpenLedger,
       WriteLedger, OpenEvents, WriteGist, OpenLatest, WriteLatest,
       AppendJournal, OpenRollup, WriteRollup, Refuse, Crash, Goto, Return,
       IdleJob, Job, TypeOK
  <2> QED BY <1>12, <2>1, <2>2, <2>3 DEF Active
<1>14. ASSUME UNCHANGED <<events, job>> PROVE CompareInv'
  BY <1>12, <1>14 DEF Active
<1> QED
  BY <1>8, <1>9, <1>10, <1>11, <1>13, <1>14
  DEF Next, Step, PackHook, StopHook, Backfill, Grow, files, vars

\* Conflict rows only look back in first-checkpoint order, under every
\* overlap: two sessions are never flagged against each other.
THEOREM ConflictsLookBack == Spec => []ComparesBackwards
<1>1. Init => CompareInv
  BY DEF Init, CompareInv, AllLookBack, Active, IdleJob
<1>2. TypeOK /\ CompareInv /\ [Next]_vars => CompareInv'
  BY CompareNext
<1>3. CompareInv => ComparesBackwards
  BY DEF CompareInv, AllLookBack, LooksBack, Before, ComparesBackwards
<1> QED BY <1>1, <1>2, <1>3, TypeCorrect, PTL DEF Spec

(***************************************************************************)
(* The journal as a whole, when one session's runs do not overlap: it      *)
(* never goes back, its receipts add up and its rows describe the ledgers. *)
(***************************************************************************)
THEOREM JournalOfRunsIsExact ==
    ASSUME Overlap # "any" PROVE Spec => JournalIsExact
<1> QED BY JournalNeverRegresses, ReceiptsAreExact, RowsDescribeLedgers, PTL
         DEF JournalIsExact

(***************************************************************************)
(* The events log under every overlap: typed, one block per session, and   *)
(* conflicts that only look back.                                          *)
(***************************************************************************)
THEOREM EventsStaySound == Spec => []EventsAreSound
<1>1. TypeOK /\ OneBlockPerSession /\ ComparesBackwards => EventsAreSound
  BY DEF EventsAreSound
<1> QED BY <1>1, TypeCorrect, BlocksUnique, ConflictsLookBack, PTL

-----------------------------------------------------------------------------
(***************************************************************************)
(* One writer at a time: between runs, what the next session is told       *)
(* agrees with what is banked.  The invariant: whenever no run has died,   *)
(* the events log (or, while the file is truncated, the copy the run       *)
(* holds) mirrors the journal and the ledgers but for the one session the  *)
(* run is about; the latest gist is the last live session's but for the    *)
(* two steps that move it; and what a run is about to write as rollup is   *)
(* what the ledgers on disk merge to.                                      *)
(***************************************************************************)
OneJob == \A p, q \in Proc : Active(p) /\ Active(q) => p = q

\* evs holds one block run per session of sessions, in first-checkpoint
\* order, and, the loose ones aside, at the version of the ledger
Mirrors(evs, sessions, loose) ==
    /\ {evs[i].s : i \in DOMAIN evs} = sessions
    /\ \A i \in DOMAIN evs :
          evs[i].s \in loose \/ evs[i].t = ledger[evs[i].s]
    /\ \A i, j \in DOMAIN evs : i < j => FirstBefore(evs[i].s, evs[j].s)

\* between the truncation of the ledger and the write of the events
Midway == {"write_ledger", "lint", "read_events", "open_events",
           "write_events"}
\* between the write of the events and the journal row
Listed == {"write_gist", "open_latest", "write_latest", "append_journal"}

View(p) == IF At(p, "write_events") THEN job[p].seen ELSE events
Listing(p) == Journaled \cup IF job[p].pc \in Listed THEN {job[p].s} ELSE {}
Loose(p) == IF job[p].pc \in Midway THEN {job[p].s} ELSE {}
Reflects(p) ==
    /\ Mirrors(View(p), Listing(p), Loose(p))
    /\ At(p, "open_events") => job[p].seen = events

EventsInv ==
    crashes = 0 =>
      /\ Quiet => Mirrors(events, Journaled, {})
      /\ \A p \in Proc : Active(p) => Reflects(p)

GistWritten == {"append_journal", "read_ledgers", "open_rollup",
                "write_rollup"}
Merging == {"open_rollup", "write_rollup"}
Moving == {"write_latest", "append_journal"}

\* the session the rollup leaves to the latest gist
LeftOut(p) == IF job[p].archive THEN LatestLive ELSE job[p].s
GistStep(p) ==
    /\ job[p].pc \in {"open_latest", "write_latest"} => ~job[p].archive
    /\ ~job[p].archive /\ job[p].pc \in GistWritten => latest.s = job[p].s
    /\ job[p].pc \in Merging => job[p].text = Merge(LeftOut(p))
    /\ crashes = 0 => \/ latest.s = LatestLive
                      \/ ~job[p].archive /\ job[p].pc \in Moving

GistInv ==
    /\ \A p \in Proc : Active(p) => GistStep(p)
    /\ crashes = 0 /\ Quiet =>
         latest.s = LatestLive /\ rollup = Merge(latest.s)

SerialInv == OneJob /\ EventsInv /\ GistInv

(***************************************************************************)
(* One writer at a time.                                                   *)
(***************************************************************************)
\* A step leaves every other invocation alone; only the start of one, with
\* all idle, makes an idle one active.
LEMMA StepsAlone ==
    ASSUME TypeOK, NEW p \in Proc, Step(p) \/ Refuse(p) \/ Crash(p)
    PROVE  /\ Active(p) /\ job[p] \in Job
           /\ \A q \in Proc \ {p} : job'[q] = job[q]
<1>1. Active(p)
  BY DEF Step, ParseTranscript, ReadJournal, ReadLedgers, OpenLedger,
     WriteLedger, Lint, ReadEvents, OpenEvents, WriteEvents, WriteGist,
     OpenLatest, WriteLatest, AppendJournal, OpenRollup, WriteRollup, Refuse,
     Crash, At, Active
<1>2. \A q \in Proc \ {p} : job'[q] = job[q]
  BY DEF Step, ParseTranscript, ReadJournal, ReadLedgers, OpenLedger,
     WriteLedger, Lint, ReadEvents, OpenEvents, WriteEvents, WriteGist,
     OpenLatest, WriteLatest, AppendJournal, OpenRollup, WriteRollup, Refuse,
     Crash, Goto, Return, TypeOK
<1> QED BY <1>1, <1>2, ActiveJob

LEMMA GotoKeeps ==
    ASSUME TypeOK, NEW p \in Proc, Active(p), NEW step, Goto(p, step)
    PROVE  /\ job'[p].pc = step
           /\ job'[p].s = job[p].s /\ job'[p].archive = job[p].archive
           /\ job'[p].seen = job[p].seen /\ job'[p].text = job[p].text
<1>1. job[p] \in Job
  BY ActiveJob
<1> QED BY <1>1 DEF Goto, Job, TypeOK

LEMMA OneJobNext ==
    ASSUME Overlap = "none", TypeOK, OneJob, [Next]_vars
    PROVE  OneJob'
<1>1. ASSUME NEW p \in Proc, Step(p) \/ Refuse(p) \/ Crash(p) PROVE OneJob'
  <2>1. Active(p) /\ \A q \in Proc \ {p} : job'[q] = job[q]
    BY <1>1, StepsAlone
  <2> QED BY <2>1 DEF OneJob, Active
<1>2. ASSUME NEW p \in Proc, NEW s \in Session, NEW a \in BOOLEAN,
             Begin(p, s, a)
      PROVE  OneJob'
  <2>1. \A q \in Proc : ~Active(q)
    BY <1>2 DEF Begin, MayStart
  <2>2. \A q \in Proc \ {p} : job'[q] = job[q]
    BY <1>2 DEF Begin, TypeOK
  <2> QED BY <2>1, <2>2 DEF OneJob, Active
<1>3. CASE UNCHANGED job
  BY <1>3 DEF OneJob, Active
<1> QED BY <1>1, <1>2, <1>3 DEF Next, PackHook, StopHook, Backfill, Grow, vars

(***************************************************************************)
(* The events log.                                                         *)
(***************************************************************************)
LEMMA MirrorsKept ==
    ASSUME UNCHANGED <<ledger, journal>>
    PROVE  /\ \A e, s, l : Mirrors(e, s, l)' <=> Mirrors(e, s, l)
           /\ Journaled' = Journaled
  BY DEF Mirrors, FirstBefore, RowsOf, Journaled

\* It is enough that the one running invocation still reflects the ledgers.
LEMMA ReflectsOnly ==
    ASSUME OneJob, EventsInv, NEW p \in Proc, Active(p), Active(p)',
           \A q \in Proc \ {p} : job'[q] = job[q],
           crashes' = crashes, crashes = 0 /\ Reflects(p) => Reflects(p)'
    PROVE  EventsInv'
<1>1. \A q \in Proc \ {p} : ~Active(q)'
  BY DEF OneJob, Active
<1>2. ~Quiet'
  BY DEF Quiet
<1> QED BY <1>1, <1>2 DEF EventsInv

\* The splice of a session's block into a log that mirrors the journal.
LEMMA SpliceMirrors ==
    ASSUME TypeOK, NEW evs \in Seq(Block), NEW b \in Block,
           Mirrors(evs, Journaled, {b.s}), b.t = ledger[b.s]
    PROVE  Mirrors(Splice(evs, b), Journaled \cup {b.s}, {})
<1>1. CASE \E i \in DOMAIN evs : evs[i].s = b.s
  <2> DEFINE e == Splice(evs, b)
  <2>1. e = [i \in DOMAIN evs |-> IF evs[i].s = b.s THEN b ELSE evs[i]]
    BY <1>1 DEF Splice
  <2>2. /\ DOMAIN e = DOMAIN evs
        /\ \A i \in DOMAIN evs : e[i].s = evs[i].s
        /\ \A i \in DOMAIN evs : e[i] = b \/ (e[i] = evs[i] /\ evs[i].s # b.s)
    BY <2>1
  <2> HIDE DEF e
  <2>3. {e[i].s : i \in DOMAIN e} = Journaled \cup {b.s}
    BY <1>1, <2>2 DEF Mirrors
  <2>4. \A i \in DOMAIN e : e[i].t = ledger[e[i].s]
    BY <2>2 DEF Mirrors
  <2>5. \A i, j \in DOMAIN e : i < j => FirstBefore(e[i].s, e[j].s)
    BY <2>2 DEF Mirrors
  <2>6. Mirrors(e, Journaled \cup {b.s}, {})
    BY <2>3, <2>4, <2>5 DEF Mirrors
  <2> QED BY <2>6 DEF e
<1>2. CASE \A i \in DOMAIN evs : evs[i].s # b.s
  <2> DEFINE n == Len(evs)
             e == Append(evs, b)
  <2>1. Splice(evs, b) = e
    BY <1>2 DEF Splice
  <2>2. /\ DOMAIN evs = 1..n /\ DOMAIN e = 1..(n + 1) /\ n \in Nat
        /\ \A i \in 1..n : e[i] = evs[i]
        /\ e[n + 1] = b
    BY AppendProperties, LenProperties
  <2> HIDE DEF n, e
  <2>3. {e[i].s : i \in DOMAIN e} = Journaled \cup {b.s}
    <3>1. {evs[i].s : i \in 1..n} = Journaled
      BY <2>2 DEF Mirrors
    <3>2. \A i \in 1..(n + 1) : i = n + 1 \/ i \in 1..n
      BY <2>2
    <3>3. \A i \in 1..n : i \in 1..(n + 1)
      BY <2>2
    <3>4. n + 1 \in 1..(n + 1)
      BY <2>2
    <3> QED BY <2>2, <3>1, <3>2, <3>3, <3>4
  <2>4. \A i \in DOMAIN e : e[i].t = ledger[e[i].s]
    BY <1>2, <2>2 DEF Mirrors
  <2>5. ASSUME NEW i \in 1..n PROVE FirstBefore(evs[i].s, b.s)
    <3>1. b.s \notin Journaled /\ evs[i].s \in Journaled
      BY <1>2, <2>2 DEF Mirrors
    <3>2. RowsOf(b.s) = {} /\ RowsOf(evs[i].s) # {}
      BY <3>1 DEF RowsOf, Journaled
    <3> QED BY <3>2 DEF FirstBefore
  <2>6. ASSUME NEW i \in 1..(n + 1), NEW j \in 1..(n + 1), i < j
        PROVE  FirstBefore(e[i].s, e[j].s)
    <3>1. i \in 1..n
      BY <2>2, <2>6
    <3>2. CASE j = n + 1
      BY <2>2, <2>5, <3>1, <3>2
    <3>3. CASE j \in 1..n
      BY <2>2, <2>6, <3>1, <3>3 DEF Mirrors
    <3> QED BY <2>2, <3>2, <3>3
  <2>7. Mirrors(e, Journaled \cup {b.s}, {})
    BY <2>2, <2>3, <2>4, <2>6 DEF Mirrors
  <2> QED BY <2>1, <2>7
<1> QED BY <1>1, <1>2

\* The row a run appends is a row of its session and of its kind.
LEMMA RowAppended ==
    ASSUME TypeOK, NEW p \in Proc, AppendJournal(p)
    PROVE  \E r \in Row : /\ r.s = job[p].s /\ r.archive = job[p].archive
                          /\ journal' = Append(journal, r)
<1> DEFINE row == [s |-> job[p].s, turns |-> job[p].t,
                   new |-> IF job[p].t > job[p].prev
                           THEN job[p].t - job[p].prev ELSE 0,
                   archive |-> job[p].archive]
<1>1. job[p] \in Job
  BY ActiveJob DEF AppendJournal, At, Active
<1>2. row \in Row
  BY <1>1, BoundAssumption DEF Job, Row, Turn
<1>3. journal' = Append(journal, row)
  BY DEF AppendJournal
<1> QED BY <1>2, <1>3

LEMMA JournaledAfterAppend ==
    ASSUME TypeOK, NEW r \in Row, journal' = Append(journal, r)
    PROVE  Journaled' = Journaled \cup {r.s}
<1> DEFINE n == Len(journal)
<1>1. /\ DOMAIN journal = 1..n /\ DOMAIN journal' = 1..(n + 1) /\ n \in Nat
      /\ \A i \in 1..n : journal'[i] = journal[i]
      /\ journal'[n + 1] = r
  BY AppendProperties, LenProperties DEF TypeOK
<1> HIDE DEF n
<1>2. \A i \in 1..(n + 1) : i = n + 1 \/ i \in 1..n
  BY <1>1
<1>3. /\ \A i \in 1..n : i \in 1..(n + 1)
      /\ n + 1 \in 1..(n + 1)
  BY <1>1
<1> QED BY <1>1, <1>2, <1>3 DEF Journaled

LEMMA EventsNext ==
    ASSUME Overlap = "none", TypeOK, JournalInv, OneJob, EventsInv,
           [Next]_vars
    PROVE  EventsInv'
<1>1. ASSUME NEW p \in Proc, Refuse(p) \/ Crash(p) PROVE EventsInv'
  BY <1>1 DEF Refuse, Crash, EventsInv, TypeOK
<1>2. ASSUME NEW p \in Proc, NEW s \in Session, NEW a \in BOOLEAN,
             Begin(p, s, a), Quiet
      PROVE  EventsInv'
  <2>1. /\ UNCHANGED <<ledger, journal, events, crashes>>
        /\ job'[p].pc = "parse" /\ \A q \in Proc \ {p} : job'[q] = job[q]
    BY <1>2 DEF Begin, files, TypeOK
  <2>2. \A q \in Proc : Active(q)' <=> q = p
    BY <1>2, <2>1 DEF Quiet, Active
  <2>3. View(p)' = events /\ Listing(p)' = Journaled /\ Loose(p)' = {}
    BY <2>1, MirrorsKept DEF View, Listing, Loose, At, Listed, Midway
  <2>4. ~At(p, "open_events")' /\ ~Quiet'
    BY <2>1, <2>2 DEF At, Quiet
  <2> QED BY <1>2, <2>1, <2>2, <2>3, <2>4, MirrorsKept DEF EventsInv, Reflects
<1>3. ASSUME NEW p \in Proc,
             \/ ParseTranscript(p) \/ ReadJournal(p) \/ ReadLedgers(p)
             \/ Lint(p) \/ WriteGist(p) \/ OpenLatest(p) \/ WriteLatest(p)
      PROVE  EventsInv'
  <2>1. Active(p) /\ job[p] \in Job /\ \A q \in Proc \ {p} : job'[q] = job[q]
    BY <1>3, StepsAlone DEF Step
  <2>2. /\ UNCHANGED <<ledger, journal, events, crashes>>
        /\ job'[p].s = job[p].s
        /\ job[p].pc \in Listed <=> job'[p].pc \in Listed
        /\ job[p].pc \in Midway <=> job'[p].pc \in Midway
        /\ job'[p].pc \notin {"idle", "open_events", "write_events"}
        /\ job[p].pc # "write_events"
    BY <1>3, <2>1 DEF ParseTranscript, ReadJournal, ReadLedgers, Lint,
       WriteGist, OpenLatest, WriteLatest, Goto, At, Job, Listed, Midway,
       files, TypeOK
  <2>3. /\ View(p)' = View(p) /\ Listing(p)' = Listing(p)
        /\ Loose(p)' = Loose(p)
    BY <2>2, MirrorsKept DEF View, Listing, Loose, At
  <2>4. Active(p)' /\ ~At(p, "open_events")'
    BY <2>2 DEF Active, At
  <2> QED BY <2>1, <2>2, <2>3, <2>4, MirrorsKept, ReflectsOnly DEF Reflects
<1>4. ASSUME NEW p \in Proc, OpenLedger(p) \/ WriteLedger(p) PROVE EventsInv'
  <2>1. Active(p) /\ job[p] \in Job /\ \A q \in Proc \ {p} : job'[q] = job[q]
    BY <1>4, StepsAlone DEF Step
  <2>2. /\ UNCHANGED <<journal, events, crashes>>
        /\ job'[p].s = job[p].s
        /\ job[p].pc \notin Listed /\ job'[p].pc \notin Listed
        /\ job'[p].pc \in Midway
        /\ job'[p].pc \notin {"idle", "open_events", "write_events"}
        /\ job[p].pc # "write_events"
        /\ \A x \in Session \ {job[p].s} : ledger'[x] = ledger[x]
    BY <1>4, <2>1 DEF OpenLedger, WriteLedger, Goto, At, Job, Listed, Midway,
       TypeOK
  <2>3. /\ View(p) = events /\ View(p)' = events
        /\ Listing(p) = Journaled /\ Listing(p)' = Journaled
        /\ Loose(p) \subseteq {job[p].s} /\ Loose(p)' = {job[p].s}
    BY <2>2 DEF View, Listing, Loose, At, Journaled
  <2>4. ASSUME Mirrors(events, Journaled, Loose(p))
        PROVE  Mirrors(events, Journaled, {job[p].s})'
    <3>1. Journaled \subseteq Session
      BY JournaledType DEF TypeOK
    <3>2. \A i \in DOMAIN events : events[i].s \in Session
      BY <2>4, <3>1 DEF Mirrors
    <3>3. \A i \in DOMAIN events :
             events[i].s = job[p].s \/ events[i].t = ledger'[events[i].s]
      BY <2>2, <2>3, <2>4, <3>2 DEF Mirrors
    <3>4. \A x, y : FirstBefore(x, y)' <=> FirstBefore(x, y)
      BY <2>2 DEF FirstBefore, RowsOf
    <3>5. Journaled' = Journaled
      BY <2>2 DEF Journaled
    <3> QED BY <2>2, <2>4, <3>3, <3>4, <3>5 DEF Mirrors
  <2>5. Active(p)' /\ ~At(p, "open_events")'
    BY <2>2 DEF Active, At
  <2>6. Reflects(p) => Reflects(p)'
    <3>1. SUFFICES ASSUME Reflects(p) PROVE Mirrors(View(p), Listing(p), Loose(p))'
      BY <2>5 DEF Reflects
    <3>2. Mirrors(events, Journaled, {job[p].s})'
      BY <2>3, <2>4, <3>1 DEF Reflects
    <3>3. Loose(p)' = {job[p].s}' /\ Listing(p)' = Journaled' /\ View(p)' = events'
      BY <2>2, <2>3 DEF Journaled
    <3> QED BY <3>2, <3>3 DEF Mirrors
  <2> QED BY <2>1, <2>2, <2>5, <2>6, ReflectsOnly
<1>5. ASSUME NEW p \in Proc, ReadEvents(p) \/ OpenEvents(p) PROVE EventsInv'
  <2>1. Active(p) /\ job[p] \in Job /\ \A q \in Proc \ {p} : job'[q] = job[q]
    BY <1>5, StepsAlone DEF Step
  <2>2. /\ UNCHANGED <<ledger, journal, crashes>>
        /\ job'[p].s = job[p].s
        /\ job[p].pc \in Midway /\ job'[p].pc \in Midway
        /\ \/ /\ UNCHANGED events /\ job'[p].pc = "open_events"
              /\ job[p].pc = "read_events" /\ job'[p].seen = events
           \/ /\ job[p].pc = "open_events" /\ job'[p].pc = "write_events"
              /\ job'[p].seen = job[p].seen
    BY <1>5, <2>1 DEF ReadEvents, OpenEvents, Goto, At, Job, Midway, files,
       TypeOK
  <2>3. /\ Listing(p)' = Listing(p) /\ Loose(p)' = Loose(p)
    BY <2>2, MirrorsKept DEF Listing, Loose, Listed, Midway
  <2>4. Reflects(p) => View(p)' = View(p)
    BY <2>2 DEF Reflects, View, At
  <2>5. Active(p)' /\ (At(p, "open_events")' => job'[p].seen = events')
    BY <2>2 DEF Active, At, Midway
  <2> QED BY <2>1, <2>2, <2>3, <2>4, <2>5, MirrorsKept, ReflectsOnly
          DEF Reflects
<1>6. ASSUME NEW p \in Proc, WriteEvents(p) PROVE EventsInv'
  <2> DEFINE b == [s |-> job[p].s, t |-> job[p].t, against |-> job[p].against]
  <2>1. Active(p) /\ job[p] \in Job /\ \A q \in Proc \ {p} : job'[q] = job[q]
    BY <1>6, StepsAlone DEF Step
  <2>2. /\ UNCHANGED <<ledger, journal, crashes>>
        /\ job[p].pc = "write_events" /\ job'[p].pc = "write_gist"
        /\ job'[p].s = job[p].s
        /\ events' = Splice(job[p].seen, b)
    BY <1>6, <2>1 DEF WriteEvents, Goto, At, Job, TypeOK
  <2>3. b \in Block /\ b.s = job[p].s /\ b.t = ledger[b.s]
    BY <2>1, <2>2 DEF Job, Block, JournalInv, LedgerIsParse, Wrote
  <2>4. /\ View(p) = job[p].seen /\ View(p)' = events'
        /\ Listing(p) = Journaled /\ Listing(p)' = Journaled \cup {b.s}
        /\ Loose(p) = {b.s} /\ Loose(p)' = {}
    BY <2>2, <2>3, MirrorsKept DEF View, Listing, Loose, At, Listed, Midway
  <2> HIDE DEF b
  <2>5. Active(p)' /\ ~At(p, "open_events")'
    BY <2>2 DEF Active, At
  <2>6. Reflects(p) => Mirrors(events', Journaled \cup {b.s}, {})
    BY <2>1, <2>2, <2>3, <2>4, SpliceMirrors DEF Reflects, Job
  <2>7. Reflects(p) => Reflects(p)'
    BY <2>2, <2>4, <2>5, <2>6, MirrorsKept DEF Reflects
  <2> QED BY <2>1, <2>2, <2>5, <2>7, ReflectsOnly
<1>7. ASSUME NEW p \in Proc, AppendJournal(p) PROVE EventsInv'
  <2>1. Active(p) /\ job[p] \in Job /\ \A q \in Proc \ {p} : job'[q] = job[q]
    BY <1>7, StepsAlone DEF Step
  <2>2. /\ UNCHANGED <<ledger, events, crashes>>
        /\ job[p].pc = "append_journal" /\ job'[p].pc = "read_ledgers"
        /\ job'[p].s = job[p].s
    BY <1>7, <2>1 DEF AppendJournal, Goto, At, Job, TypeOK
  <2>3. PICK r \in Row : r.s = job[p].s /\ journal' = Append(journal, r)
    BY <1>7, RowAppended
  <2>4. /\ View(p) = events /\ View(p)' = events
        /\ Listing(p) = Listing(p)'
        /\ Loose(p) = {} /\ Loose(p)' = {}
    BY <2>2, <2>3, JournaledAfterAppend
    DEF View, Listing, Loose, At, Listed, Midway
  <2>5. \A x, y : FirstBefore(x, y) => FirstBefore(x, y)'
    BY <2>3, FirstBeforeStable
  <2>6. Active(p)' /\ ~At(p, "open_events")'
    BY <2>2 DEF Active, At
  <2>7. Reflects(p) => Reflects(p)'
    BY <2>2, <2>4, <2>5, <2>6 DEF Reflects, Mirrors
  <2> QED BY <2>1, <2>2, <2>6, <2>7, ReflectsOnly
<1>8. ASSUME NEW p \in Proc, OpenRollup(p) \/ WriteRollup(p) PROVE EventsInv'
  <2>1. Active(p) /\ job[p] \in Job /\ \A q \in Proc \ {p} : job'[q] = job[q]
    BY <1>8, StepsAlone DEF Step
  <2>2. /\ UNCHANGED <<ledger, journal, events, crashes>>
        /\ job[p].pc \in {"open_rollup", "write_rollup"}
        /\ \/ job'[p].pc = "write_rollup" /\ job'[p].s = job[p].s
           \/ job'[p].pc = "idle"
    BY <1>8, <2>1 DEF OpenRollup, WriteRollup, Goto, Return, IdleJob, At, Job,
       TypeOK
  <2>3. View(p) = events /\ Listing(p) = Journaled /\ Loose(p) = {}
    BY <2>2 DEF View, Listing, Loose, At, Listed, Midway
  <2>4. View(p)' = events /\ Listing(p)' = Journaled /\ Loose(p)' = {}
    BY <2>2, MirrorsKept DEF View, Listing, Loose, At, Listed, Midway
  <2>5. ~At(p, "open_events")'
    BY <2>2 DEF At
  <2>6. CASE Active(p)'
    BY <2>1, <2>2, <2>3, <2>4, <2>5, <2>6, MirrorsKept, ReflectsOnly
    DEF Reflects
  <2>7. CASE ~Active(p)'
    <3>1. \A q \in Proc : ~Active(q)'
      BY <2>1, <2>7 DEF OneJob, Active
    <3>2. crashes = 0 => Mirrors(events, Journaled, {})
      BY <2>1, <2>3 DEF EventsInv, Reflects
    <3> QED BY <2>2, <3>1, <3>2, MirrorsKept DEF EventsInv
  <2> QED BY <2>6, <2>7
<1>9. CASE UNCHANGED <<ledger, journal, events, crashes, job>>
  <2>1. Quiet' = Quiet /\ \A q \in Proc : Active(q)' = Active(q)
    BY <1>9 DEF Quiet, Active
  <2>2. \A q \in Proc : Reflects(q)' <=> Reflects(q)
    BY <1>9, MirrorsKept DEF Reflects, View, Listing, Loose, At
  <2> QED BY <1>9, <2>1, <2>2, MirrorsKept DEF EventsInv
<1>10. ASSUME NEW p \in Proc, NEW s \in Session, NEW a \in BOOLEAN,
              Begin(p, s, a)
       PROVE  Quiet
  BY <1>10 DEF Begin, MayStart, Quiet
<1> QED
  BY <1>1, <1>2, <1>3, <1>4, <1>5, <1>6, <1>7, <1>8, <1>9, <1>10
  DEF Next, Step, PackHook, StopHook, Backfill, Grow, files, vars

(***************************************************************************)
(* The latest gist and the rollup.                                         *)
(***************************************************************************)
\* The last live session after a row is appended.
LEMMA LatestLiveAfterAppend ==
    ASSUME TypeOK, NEW r \in Row, journal' = Append(journal, r)
    PROVE  LatestLive' = IF r.archive THEN LatestLive ELSE r.s
<1> DEFINE n == Len(journal)
<1>1. /\ DOMAIN journal = 1..n /\ DOMAIN journal' = 1..(n + 1) /\ n \in Nat
      /\ \A i \in 1..n : journal'[i] = journal[i]
      /\ journal'[n + 1] = r
  BY AppendProperties, LenProperties DEF TypeOK
<1> HIDE DEF n
<1>2. \A i \in 1..(n + 1) : i = n + 1 \/ (i \in 1..n /\ i < n + 1)
  BY <1>1
<1>3. /\ \A i \in 1..n : i \in 1..(n + 1)
      /\ n + 1 \in 1..(n + 1)
  BY <1>1
<1>4. CASE r.archive
  <2>1. LiveRows' = LiveRows
    BY <1>1, <1>2, <1>3, <1>4 DEF LiveRows
  <2>2. CASE LiveRows = {}
    BY <1>4, <2>1, <2>2 DEF LatestLive
  <2>3. CASE LiveRows # {}
    <3>1. LiveRows \subseteq 1..n
      BY <1>1 DEF LiveRows
    <3>2. \E i \in LiveRows : \A j \in LiveRows : j <= i
      BY <1>1, <2>3, <3>1, GreatestPosition
    <3>3. (CHOOSE i \in LiveRows : \A j \in LiveRows : j <= i) \in 1..n
      BY <3>1, <3>2
    <3>4. LatestLive = journal[CHOOSE i \in LiveRows : \A j \in LiveRows : j <= i]
                          .s
      BY <2>3 DEF LatestLive
    <3>5. LatestLive' = journal'[CHOOSE i \in LiveRows : \A j \in LiveRows : j <= i]
                          .s
      BY <2>1, <2>3 DEF LatestLive
    <3> QED BY <1>1, <1>4, <3>3, <3>4, <3>5
  <2> QED BY <2>2, <2>3
<1>5. CASE ~r.archive
  <2>1. n + 1 \in LiveRows' /\ LiveRows' \subseteq 1..(n + 1)
    BY <1>1, <1>3, <1>5 DEF LiveRows
  <2>2. \A j \in LiveRows' : j <= n + 1
    BY <1>1, <2>1
  <2>3. ASSUME NEW i \in LiveRows', \A j \in LiveRows' : j <= i
        PROVE  i = n + 1
    BY <1>1, <2>1, <2>3
  <2>4. (CHOOSE i \in LiveRows' : \A j \in LiveRows' : j <= i) = n + 1
    BY <2>1, <2>2, <2>3
  <2>5. LatestLive' = journal'[n + 1].s
    BY <2>1, <2>4 DEF LatestLive
  <2> QED BY <1>1, <1>5, <2>5
<1> QED BY <1>4, <1>5

LEMMA LatestLiveKept ==
    ASSUME UNCHANGED journal PROVE LatestLive' = LatestLive
  BY DEF LatestLive, LiveRows

LEMMA MergeKept ==
    ASSUME UNCHANGED ledger PROVE \A x : Merge(x)' = Merge(x)
  BY DEF Merge

LEMMA GistOnly ==
    ASSUME OneJob, GistInv, NEW p \in Proc, Active(p), Active(p)',
           \A q \in Proc \ {p} : job'[q] = job[q],
           GistStep(p) => GistStep(p)'
    PROVE  GistInv'
<1>1. \A q \in Proc \ {p} : ~Active(q)'
  BY DEF OneJob, Active
<1>2. ~Quiet'
  BY DEF Quiet
<1> QED BY <1>1, <1>2 DEF GistInv

\* The end of a run: the rollup is truncated or it is what the run merged.
LEMMA RollupWritten ==
    ASSUME TypeOK, NEW p \in Proc, OpenRollup(p) \/ WriteRollup(p)
    PROVE  /\ UNCHANGED <<ledger, journal, latest, crashes>>
           /\ job[p].pc \in Merging
           /\ \/ /\ job'[p].pc = "write_rollup" /\ job'[p].s = job[p].s
                 /\ job'[p].archive = job[p].archive
                 /\ job'[p].text = job[p].text
              \/ job'[p].pc = "idle" /\ rollup' = job[p].text
<1>1. Active(p) /\ job[p].pc \in Merging
  BY DEF OpenRollup, WriteRollup, At, Active, Merging
<1>2. Return(p) => job'[p].pc = "idle"
  BY DEF Return, IdleJob, TypeOK
<1>3. CASE OpenRollup(p)
  <2>1. CASE job[p].text = {}
    BY <1>1, <1>2, <1>3, <2>1 DEF OpenRollup
  <2>2. CASE job[p].text # {}
    <3>1. Goto(p, "write_rollup")
      BY <1>3, <2>2 DEF OpenRollup
    <3> QED BY <1>1, <1>3, <3>1, GotoKeeps DEF OpenRollup
  <2> QED BY <2>1, <2>2
<1>4. CASE WriteRollup(p)
  BY <1>1, <1>2, <1>4 DEF WriteRollup
<1> QED BY <1>3, <1>4

LEMMA GistNext ==
    ASSUME Overlap = "none", TypeOK, OneJob, GistInv, [Next]_vars
    PROVE  GistInv'
<1>1. ASSUME NEW p \in Proc, Refuse(p) \/ Crash(p) PROVE GistInv'
  <2>1. /\ \A q \in Proc : ~Active(q)'
        /\ crashes' # 0
    <3>1. Active(p) /\ \A q \in Proc \ {p} : job'[q] = job[q]
      BY <1>1, StepsAlone
    <3>2. job'[p] = IdleJob /\ crashes' # 0
      BY <1>1 DEF Refuse, Crash, Return, TypeOK
    <3> QED BY <3>1, <3>2 DEF OneJob, Active, IdleJob
  <2> QED BY <2>1 DEF GistInv
<1>2. ASSUME NEW p \in Proc, NEW s \in Session, NEW a \in BOOLEAN,
             Begin(p, s, a)
      PROVE  GistInv'
  <2>1. Quiet
    BY <1>2 DEF Begin, MayStart, Quiet
  <2>2. /\ UNCHANGED <<ledger, journal, latest, rollup, crashes>>
        /\ job'[p].pc = "parse" /\ \A q \in Proc \ {p} : job'[q] = job[q]
    BY <1>2 DEF Begin, files, TypeOK
  <2>3. \A q \in Proc : Active(q)' <=> q = p
    BY <2>1, <2>2 DEF Quiet, Active
  <2>4. GistStep(p)'
    BY <2>1, <2>2, LatestLiveKept
    DEF GistInv, GistStep, GistWritten, Merging
  <2> QED BY <2>3, <2>4 DEF GistInv, Quiet
<1>3. ASSUME NEW p \in Proc,
             \/ ParseTranscript(p) \/ ReadJournal(p) \/ OpenLedger(p)
             \/ WriteLedger(p) \/ Lint(p) \/ ReadEvents(p) \/ OpenEvents(p)
             \/ WriteEvents(p) \/ WriteGist(p)
      PROVE  GistInv'
  <2>1. Active(p) /\ job[p] \in Job /\ \A q \in Proc \ {p} : job'[q] = job[q]
    BY <1>3, StepsAlone DEF Step
  <2>2. /\ UNCHANGED <<journal, latest, crashes>>
        /\ job'[p].s = job[p].s /\ job'[p].archive = job[p].archive
        /\ job[p].pc \notin Moving
        /\ job'[p].pc \notin {"idle", "write_latest"} \cup Merging
        /\ job'[p].pc = "open_latest" => ~job[p].archive
        /\ job'[p].pc \in GistWritten => job[p].archive
    BY <1>3, <2>1 DEF ParseTranscript, ReadJournal, OpenLedger, WriteLedger,
       Lint, ReadEvents, OpenEvents, WriteEvents, WriteGist, At, Goto, Job,
       files, TypeOK, Moving, Merging, GistWritten
  <2>3. GistStep(p) => GistStep(p)'
    BY <2>2, LatestLiveKept DEF GistStep
  <2> QED BY <2>1, <2>2, <2>3, GistOnly DEF Active
<1>4. ASSUME NEW p \in Proc, OpenLatest(p) \/ WriteLatest(p) PROVE GistInv'
  <2>1. Active(p) /\ job[p] \in Job /\ \A q \in Proc \ {p} : job'[q] = job[q]
    BY <1>4, StepsAlone DEF Step
  <2>2. /\ job[p].pc \in {"open_latest", "write_latest"}
        /\ job'[p].archive = job[p].archive /\ job'[p].s = job[p].s
        /\ \/ job'[p].pc = "write_latest"
           \/ job'[p].pc = "append_journal" /\ latest'.s = job[p].s
    BY <1>4, <2>1 DEF OpenLatest, WriteLatest, At, Goto, Job, TypeOK
  <2>3. GistStep(p) => GistStep(p)'
    BY <2>2 DEF GistStep, GistWritten, Merging, Moving
  <2> QED BY <2>1, <2>2, <2>3, GistOnly DEF Active
<1>5. ASSUME NEW p \in Proc, AppendJournal(p) PROVE GistInv'
  <2>1. Active(p) /\ job[p] \in Job /\ \A q \in Proc \ {p} : job'[q] = job[q]
    BY <1>5, StepsAlone DEF Step
  <2>2. /\ UNCHANGED <<latest, crashes>>
        /\ job[p].pc = "append_journal" /\ job'[p].pc = "read_ledgers"
        /\ job'[p].archive = job[p].archive /\ job'[p].s = job[p].s
    BY <1>5, <2>1 DEF AppendJournal, At, Goto, Job, TypeOK
  <2>3. LatestLive' = IF job[p].archive THEN LatestLive ELSE job[p].s
    BY <1>5, RowAppended, LatestLiveAfterAppend
  <2>4. GistStep(p) => GistStep(p)'
    BY <2>2, <2>3 DEF GistStep, GistWritten, Merging, Moving
  <2> QED BY <2>1, <2>2, <2>4, GistOnly DEF Active
<1>6. ASSUME NEW p \in Proc, ReadLedgers(p) PROVE GistInv'
  <2>1. Active(p) /\ job[p] \in Job /\ \A q \in Proc \ {p} : job'[q] = job[q]
    BY <1>6, StepsAlone DEF Step
  <2>2. /\ UNCHANGED <<ledger, journal, latest, crashes>>
        /\ job[p].pc = "read_ledgers" /\ job'[p].pc = "open_rollup"
        /\ job'[p].archive = job[p].archive /\ job'[p].s = job[p].s
        /\ job'[p].text = Merge(LeftOut(p))
    BY <1>6, <2>1 DEF ReadLedgers, LeftOut, At, Job, files, TypeOK
  <2>3. LeftOut(p)' = LeftOut(p)
    BY <2>2, LatestLiveKept DEF LeftOut
  <2>4. GistStep(p) => GistStep(p)'
    BY <2>2, <2>3, LatestLiveKept, MergeKept
    DEF GistStep, GistWritten, Merging, Moving
  <2> QED BY <2>1, <2>2, <2>4, GistOnly DEF Active
<1>7. ASSUME NEW p \in Proc, OpenRollup(p) \/ WriteRollup(p) PROVE GistInv'
  <2>1. Active(p) /\ job[p] \in Job /\ \A q \in Proc \ {p} : job'[q] = job[q]
    BY <1>7, StepsAlone DEF Step
  <2>2. /\ UNCHANGED <<ledger, journal, latest, crashes>>
        /\ job[p].pc \in Merging
        /\ \/ /\ job'[p].pc = "write_rollup" /\ job'[p].s = job[p].s
              /\ job'[p].archive = job[p].archive
              /\ job'[p].text = job[p].text
           \/ job'[p].pc = "idle" /\ rollup' = job[p].text
    BY <1>7, RollupWritten
  <2>3. LeftOut(p)' = IF job'[p].archive THEN LatestLive ELSE job'[p].s
    BY <2>2, LatestLiveKept DEF LeftOut
  <2>4. CASE job'[p].pc = "write_rollup"
    <3>1. GistStep(p) => GistStep(p)'
      BY <2>2, <2>3, <2>4, LatestLiveKept, MergeKept
      DEF GistStep, LeftOut, GistWritten, Merging, Moving
    <3> QED BY <2>1, <2>4, <3>1, GistOnly DEF Active
  <2>5. CASE job'[p].pc = "idle" /\ rollup' = job[p].text
    <3>1. \A q \in Proc : ~Active(q)'
      BY <2>1, <2>5 DEF OneJob, Active
    <3>2. job[p].text = Merge(LeftOut(p))
      BY <2>1, <2>2 DEF GistInv, GistStep
    <3>3. crashes = 0 => latest.s = LatestLive /\ LeftOut(p) = latest.s
      BY <2>1, <2>2
      DEF GistInv, GistStep, LeftOut, GistWritten, Merging, Moving
    <3> QED BY <2>2, <2>5, <3>1, <3>2, <3>3, LatestLiveKept, MergeKept
            DEF GistInv
  <2> QED BY <2>2, <2>4, <2>5
<1>8. CASE UNCHANGED <<ledger, journal, latest, rollup, job, crashes>>
  BY <1>8, LatestLiveKept, MergeKept
  DEF GistInv, GistStep, LeftOut, Quiet, Active
<1> QED
  BY <1>1, <1>2, <1>3, <1>4, <1>5, <1>6, <1>7, <1>8
  DEF Next, Step, PackHook, StopHook, Backfill, Grow, files, vars

(***************************************************************************)
(* The invariant holds, and between runs it is what startup needs.         *)
(***************************************************************************)
LEMMA SerialInit == Init => SerialInv
<1> SUFFICES ASSUME Init PROVE SerialInv
  OBVIOUS
<1>1. \A p \in Proc : ~Active(p)
  BY DEF Init, Active, IdleJob
<1>2. Mirrors(events, Journaled, {})
  BY DEF Init, Mirrors, Journaled
<1>3. latest.s = NoSession /\ LatestLive = NoSession
  BY DEF Init, Nowhere, LatestLive, LiveRows
<1>4. Merge(NoSession) = {}
  BY BoundAssumption DEF Init, Merge
<1>5. rollup = Merge(latest.s)
  BY <1>3, <1>4 DEF Init
<1> QED BY <1>1, <1>2, <1>3, <1>5
        DEF SerialInv, OneJob, EventsInv, GistInv

LEMMA SerialInvariant ==
    ASSUME Overlap = "none"
    PROVE  Spec => [](TypeOK /\ JournalInv /\ SerialInv)
<1>1. Init => SerialInv
  BY SerialInit
<1>2. TypeOK /\ JournalInv /\ SerialInv /\ [Next]_vars => SerialInv'
  BY OneJobNext, EventsNext, GistNext DEF SerialInv
<1>3. Spec => [](TypeOK /\ JournalInv)
  BY JournalInvariant
<1> QED BY <1>1, <1>2, <1>3, PTL DEF Spec

\* A rollup that is the merge of every ledger but the latest gist's holds
\* every session with stakes once, with the latest gist.
LEMMA MergeHoldsOnce ==
    ASSUME NEW led, NEW lat, NEW roll,
           roll = {[s |-> x, t |-> led[x]] :
                     x \in {y \in Session \ {lat} : led[y] >= StakesFrom}},
           NEW s \in Session, led[s] >= StakesFrom
    PROVE  (\E v \in roll : v.s = s) <=> lat # s
<1>1. CASE s = lat
  <2>1. ASSUME NEW v \in roll PROVE v.s # s
    <3>1. PICK x \in Session \ {lat} : v = [s |-> x, t |-> led[x]]
      OBVIOUS
    <3> QED BY <1>1, <3>1
  <2> QED BY <1>1, <2>1
<1>2. CASE s # lat
  <2>1. [s |-> s, t |-> led[s]] \in roll
    BY <1>2
  <2>2. [s |-> s, t |-> led[s]].s = s
    OBVIOUS
  <2>3. \E v \in roll : v.s = s
    BY <2>1, <2>2
  <2> QED BY <1>2, <2>3
<1> QED BY <1>1, <1>2

LEMMA RollupHoldsOnce ==
    rollup = Merge(latest.s)
      => StartupHoldsOnce /\ \A v \in rollup : v.t = ledger[v.s]
<1> SUFFICES ASSUME rollup = Merge(latest.s)
             PROVE  StartupHoldsOnce /\ \A v \in rollup : v.t = ledger[v.s]
  OBVIOUS
<1>1. ASSUME NEW s \in Session, ledger[s] >= StakesFrom
      PROVE  Represented(s) # Merged(s)
  <2>1. rollup = {[s |-> x, t |-> ledger[x]] :
                    x \in {y \in Session \ {latest.s} : ledger[y] >= StakesFrom}}
    BY DEF Merge
  <2>2. (\E v \in rollup : v.s = s) <=> latest.s # s
    BY <1>1, <2>1, MergeHoldsOnce
  <2>3. (Merged(s) <=> ~Represented(s)) /\ Represented(s) \in BOOLEAN
    BY <2>2 DEF Represented, Merged
  <2> QED BY <2>3
<1>2. \A v \in rollup : v.t = ledger[v.s]
  BY DEF Merge
<1> QED BY <1>1, <1>2 DEF StartupHoldsOnce

\* A live run that completes leaves the merge of every ledger but its own,
\* and its own gist beside it, whatever an earlier run that died half way
\* left behind.
LiveRunEnds(p) ==
    /\ Completes(p) /\ ~job[p].archive
    /\ job'[p] = IdleJob /\ crashes' = crashes

LEMMA CompletionRestores ==
    ASSUME TypeOK, SerialInv, [Next]_vars, NEW p \in Proc,
           LiveRunEnds(p)
    PROVE  rollup' = Merge(latest.s)'
<1> USE DEF LiveRunEnds
<1>1. Active(p) /\ job[p].pc \in Merging
  BY DEF Completes, At, Active, Merging
<1>2. PICK q \in Proc : Step(q)
  <2>1. Active(p) /\ ~Active(p)'
    BY <1>1 DEF Active, IdleJob
  <2>2. job' # job
    BY <2>1 DEF Active
  <2>3. \A q \in Proc : ~Refuse(q) /\ ~Crash(q)
    BY DEF Refuse, Crash, TypeOK
  <2>4. \A q \in Proc, s \in Session, a \in BOOLEAN : ~Begin(q, s, a)
    <3> SUFFICES ASSUME NEW q \in Proc, NEW s \in Session, NEW a \in BOOLEAN,
                        Begin(q, s, a)
                 PROVE  FALSE
      OBVIOUS
    <3>1. ~Active(q) /\ job'[p] = job[p]
      BY <1>1 DEF Begin, TypeOK
    <3> QED BY <2>1, <3>1 DEF Active
  <2> QED BY <2>2, <2>3, <2>4
          DEF Next, PackHook, StopHook, Backfill, Grow, vars
<1>3. q = p
  <2>1. Active(q)
    BY <1>2, StepsAlone
  <2> QED BY <1>1, <2>1 DEF SerialInv, OneJob
<1>4. /\ rollup' = job[p].text
      /\ UNCHANGED <<ledger, latest>>
  <2>1. OpenRollup(p) \/ WriteRollup(p)
    BY <1>1, <1>2, <1>3 DEF Step, ParseTranscript, ReadJournal, ReadLedgers,
       OpenLedger, WriteLedger, Lint, ReadEvents, OpenEvents, WriteEvents,
       WriteGist, OpenLatest, WriteLatest, AppendJournal, At, Merging
  <2> QED BY <2>1, RollupWritten DEF IdleJob
<1>5. job[p].text = Merge(latest.s)
  BY <1>1 DEF SerialInv, GistInv, GistStep, LeftOut, GistWritten, Merging
<1> QED BY <1>4, <1>5 DEF Merge

\* With one writer at a time, and as long as no run dies, after every run
\* the events log mirrors the ledgers and startup is told of every session
\* with stakes once, at its ledger's version; and a live run that completes
\* restores the startup context whatever an earlier one left half done.
THEOREM StartupStaysWhole ==
    ASSUME Overlap = "none" PROVE Spec => StartupIsWhole
<1>1. SerialInv => EventsMirrorLedgers
  BY DEF SerialInv, EventsInv, Mirrors, EventsMirrorLedgers
<1>2. SerialInv => StartupComplete /\ RollupCurrent
  BY RollupHoldsOnce DEF SerialInv, GistInv, StartupComplete, RollupCurrent
<1>3. TypeOK /\ SerialInv /\ [Next]_vars =>
        ((\E p \in Proc : LiveRunEnds(p)) => (rollup = Merge(latest.s))')
  BY CompletionRestores
<1>4. [(\E p \in Proc : LiveRunEnds(p)) => StartupHoldsOnce']_vars =>
        [\A p \in Proc :
           Completes(p) /\ ~job[p].archive /\ job'[p] = IdleJob
             /\ crashes' = crashes
           => StartupHoldsOnce']_vars
  BY DEF LiveRunEnds
<1>5. Spec => [](TypeOK /\ JournalInv /\ SerialInv)
  BY SerialInvariant
<1>6. rollup = Merge(latest.s) => StartupHoldsOnce
  BY RollupHoldsOnce
<1> QED BY <1>1, <1>2, <1>3, <1>4, <1>5, <1>6, PTL
        DEF Spec, StartupIsWhole, LiveRunRestoresStartup

-----------------------------------------------------------------------------
(***************************************************************************)
(* What the extractors are handed (TranscriptText).                        *)
(*                                                                         *)
(* The three passes over a message are recursive functions, so each is     *)
(* unrolled once (RecursionExists) and followed line by line               *)
(* (UpToInduction).  What the first k lines leave is LeftOf: unquoted      *)
(* lines in their order, next to each other when they were, and a blank    *)
(* where a quotation ended.  What m kept lines are joined into is          *)
(* BlocksOf; what m ranked candidates leave is TakenOf.                    *)
(***************************************************************************)
TextSpec == TextInit /\ [][TextNext]_textVars

Fences == [c : {"none", "tick", "tilde"}, n : Nat]
DropStates == [fence : Fences, cut : BOOLEAN, out : Seq(Nat)]

\* What a line of a message is made of.
LEMMA LinesAreTyped ==
    ASSUME NEW ls \in Seq(MessageLine), NEW i \in 1..Len(ls)
    PROVE  /\ ls[i].c \in {"none", "tick", "tilde"} /\ ls[i].n \in Nat
           /\ ls[i].k \in {"blank", "prose", "head", "item", "fence"}
           /\ ls[i].mark \in {"none", "decision", "constraint", "supersedes"}
<1>1. ls[i] \in MessageLine
  BY ElementOfSeq
<1> QED BY <1>1, LineAssumption

\* A line after a typed state leaves a typed state.
LEMMA DropTyped ==
    ASSUME NEW ls \in Seq(MessageLine), NEW acc \in DropStates, NEW i \in 1..Len(ls)
    PROVE  DropLine(ls, acc, i) \in DropStates
<1>1. Feed(acc.fence, ls[i]) \in Fences
  BY LinesAreTyped DEF Feed, Fences, DropStates, NoFence
<1>2. IsQuoted(acc.fence, ls[i]) \in BOOLEAN
  BY DEF IsQuoted
<1>3. acc.out \in Seq(Nat) /\ <<0, i>> \in Seq(Nat) /\ <<i>> \in Seq(Nat)
  BY DEF DropStates
<1> QED BY <1>1, <1>2, <1>3 DEF DropLine, DropStates

\* Dropping is the fold it describes.
LEMMA DroppingUnrolls ==
    ASSUME NEW ls \in Seq(MessageLine)
    PROVE  LET D == Dropping(ls) IN
           /\ D \in [0..Len(ls) -> DropStates]
           /\ D[0] = [fence |-> NoFence, cut |-> FALSE, out |-> <<>>]
           /\ \A i \in 1..Len(ls) : D[i] = DropLine(ls, D[i - 1], i)
<1> DEFINE n == Len(ls)
           base == [fence |-> NoFence, cut |-> FALSE, out |-> <<>>]
           step == [p \in DropStates \X (1..n) |-> DropLine(ls, p[1], p[2])]
           Solves(f) == f = [i \in 0..n |-> IF i = 0 THEN base ELSE DropLine(ls, f[i - 1], i)]
<1>1. base \in DropStates
  BY DEF DropStates, Fences, NoFence
<1>2. step \in [DropStates \X (1..n) -> DropStates]
  BY DropTyped
<1>3. n \in Nat
  OBVIOUS
<1>4. \A p \in DropStates \X (1..n) : step[p] = DropLine(ls, p[1], p[2])
  OBVIOUS
<1>5. Dropping(ls) = CHOOSE f : Solves(f)
  BY DEF Dropping
<1> HIDE DEF base, step, n
<1>6. PICK f \in [0..n -> DropStates] : Recurs(f, n, base, step)
  BY <1>1, <1>2, <1>3, RecursionExists
<1>7. \A k \in 1..n : f[k] = DropLine(ls, f[k - 1], k)
  <2> TAKE k \in 1..n
  <2>1. <<f[k - 1], k>> \in DropStates \X (1..n)
    BY <1>3
  <2> QED BY <1>4, <1>6, <2>1 DEF Recurs
<1>8. Solves(f)
  BY <1>3, <1>6, <1>7 DEF Recurs
<1>9. Solves(Dropping(ls))
  <2> HIDE DEF Solves
  <2> QED BY <1>5, <1>8
<1> DEFINE D == Dropping(ls)
<1>10. DOMAIN D = 0..n /\ D[0] = base /\ \A i \in 1..n : D[i] = DropLine(ls, D[i - 1], i)
  BY <1>3, <1>9
<1>11. D \in [0..n -> DropStates]
  <2> DEFINE S == {i \in 0..n : D[i] \in DropStates}
  <2> HIDE DEF D
  <2>1. S \in SUBSET Nat /\ 0 \in S
    BY <1>1, <1>3, <1>10
  <2>2. ASSUME NEW k \in S, k < n PROVE k + 1 \in S
    <3>1. k + 1 \in 1..n /\ D[k] \in DropStates /\ (k + 1) - 1 = k
      BY <1>3, <2>2
    <3>2. D[k + 1] = DropLine(ls, D[k], k + 1)
      BY <1>10, <3>1
    <3> QED BY <3>1, <3>2, DropTyped DEF n
  <2>3. 0..n \subseteq S
    <3> HIDE DEF S
    <3> QED BY <1>3, <2>1, <2>2, UpToInduction
  <2>4. D = [i \in 0..n |-> D[i]]
    BY <1>9 DEF D
  <2> QED BY <2>3, <2>4
<1> QED BY <1>3, <1>10, <1>11 DEF n, base

\* Line i is inside a fence or is one of its marker lines.
Quoted(ls, i) == IsQuoted(Dropping(ls)[i - 1].fence, ls[i])
\* what the first k lines leave: unquoted lines in their order, next to each
\* other when they were, with a blank where a quotation ended
LeftOf(ls, k, out) ==
    /\ out \in Seq(0..k)
    /\ \A p \in DOMAIN out : out[p] # 0 => ~Quoted(ls, out[p])
    /\ \A p, q \in DOMAIN out : p < q /\ out[p] # 0 /\ out[q] # 0 => out[p] < out[q]
    /\ \A p \in DOMAIN out : p + 1 \in DOMAIN out /\ out[p] # 0 /\ out[p + 1] # 0 =>
           out[p + 1] = out[p] + 1
    /\ \A p \in DOMAIN out : out[p] = 0 =>
           p + 1 \in DOMAIN out /\ out[p + 1] > 1 /\ Quoted(ls, out[p + 1] - 1)

LEMMA LeavingOneMore ==
    ASSUME NEW ls, NEW k \in Nat, NEW out, LeftOf(ls, k, out), ~Quoted(ls, k + 1),
           k > 0 => Len(out) > 0 /\ out[Len(out)] = k
    PROVE  /\ LeftOf(ls, k + 1, out \o <<k + 1>>)
           /\ Len(out \o <<k + 1>>) > 0 /\ (out \o <<k + 1>>)[Len(out \o <<k + 1>>)] = k + 1
<1> DEFINE new == out \o <<k + 1>>
           m == Len(out)
<1>1. out \in Seq(0..k) /\ m \in Nat /\ DOMAIN out = 1..m /\ \A p \in 1..m : out[p] \in 0..k
  BY DEF LeftOf
<1>2. /\ new \in Seq(0..(k + 1)) /\ Len(new) = m + 1 /\ DOMAIN new = 1..(m + 1)
      /\ \A p \in 1..m : new[p] = out[p]
      /\ new[m + 1] = k + 1
  <2>1. out \in Seq(0..(k + 1)) /\ <<k + 1>> \in Seq(0..(k + 1))
    BY <1>1
  <2> QED BY <1>1, <2>1
<1> HIDE DEF new, m
<1>3. ASSUME NEW p \in DOMAIN new, new[p] # 0 PROVE ~Quoted(ls, new[p])
  BY <1>1, <1>2, <1>3 DEF LeftOf
<1>4. ASSUME NEW p \in DOMAIN new, NEW q \in DOMAIN new, p < q, new[p] # 0, new[q] # 0
      PROVE  new[p] < new[q]
  <2>1. p \in 1..m
    BY <1>1, <1>2, <1>4
  <2>2. CASE q = m + 1
    BY <1>1, <1>2, <2>1, <2>2
  <2>3. CASE q \in 1..m
    BY <1>1, <1>2, <1>4, <2>1, <2>3 DEF LeftOf
  <2> QED BY <1>1, <1>2, <2>2, <2>3
<1>5. ASSUME NEW p \in DOMAIN new, p + 1 \in DOMAIN new, new[p] # 0, new[p + 1] # 0
      PROVE  new[p + 1] = new[p] + 1
  <2>1. p \in 1..m
    BY <1>1, <1>2, <1>5
  <2>2. CASE p = m
    <3>1. m > 0 /\ new[p] = out[m] /\ out[m] \in 0..k /\ new[p + 1] = k + 1
      BY <1>1, <1>2, <2>1, <2>2
    <3>2. k > 0
      BY <1>5, <3>1
    <3> QED BY <3>1, <3>2 DEF m
  <2>3. CASE p # m
    <3>1. p + 1 \in 1..m
      BY <1>1, <2>1, <2>3
    <3> QED BY <1>1, <1>2, <1>5, <2>1, <3>1 DEF LeftOf
  <2> QED BY <2>2, <2>3
<1>6. ASSUME NEW p \in DOMAIN new, new[p] = 0
      PROVE  p + 1 \in DOMAIN new /\ new[p + 1] > 1 /\ Quoted(ls, new[p + 1] - 1)
  <2>1. p \in 1..m
    BY <1>1, <1>2, <1>6
  <2>2. p + 1 \in 1..m /\ out[p + 1] > 1 /\ Quoted(ls, out[p + 1] - 1)
    BY <1>1, <1>2, <1>6, <2>1 DEF LeftOf
  <2> QED BY <1>1, <1>2, <2>2
<1>7. LeftOf(ls, k + 1, new)
  BY <1>2, <1>3, <1>4, <1>5, <1>6 DEF LeftOf
<1> QED BY <1>1, <1>2, <1>7 DEF new

\* ... and one after a quotation, with the blank between
LEMMA LeavingAGap ==
    ASSUME NEW ls, NEW k \in Nat, NEW out, LeftOf(ls, k, out), ~Quoted(ls, k + 1),
           k > 0, Quoted(ls, k)
    PROVE  /\ LeftOf(ls, k + 1, out \o <<0, k + 1>>)
           /\ Len(out \o <<0, k + 1>>) > 0
           /\ (out \o <<0, k + 1>>)[Len(out \o <<0, k + 1>>)] = k + 1
<1> DEFINE new == out \o <<0, k + 1>>
           m == Len(out)
<1>1. out \in Seq(0..k) /\ m \in Nat /\ DOMAIN out = 1..m /\ \A p \in 1..m : out[p] \in 0..k
  BY DEF LeftOf
<1>2. /\ new \in Seq(0..(k + 1)) /\ Len(new) = m + 2 /\ DOMAIN new = 1..(m + 2)
      /\ \A p \in 1..m : new[p] = out[p]
      /\ new[m + 1] = 0 /\ new[m + 2] = k + 1
  <2>1. out \in Seq(0..(k + 1)) /\ <<0, k + 1>> \in Seq(0..(k + 1))
    BY <1>1
  <2> QED BY <1>1, <2>1
<1> HIDE DEF new, m
<1>3. ASSUME NEW p \in DOMAIN new, new[p] # 0 PROVE ~Quoted(ls, new[p])
  <2>1. p \in 1..m \/ p = m + 2
    BY <1>1, <1>2, <1>3
  <2> QED BY <1>1, <1>2, <1>3, <2>1 DEF LeftOf
<1>4. ASSUME NEW p \in DOMAIN new, NEW q \in DOMAIN new, p < q, new[p] # 0, new[q] # 0
      PROVE  new[p] < new[q]
  <2>1. p \in 1..m /\ (q \in 1..m \/ q = m + 2)
    <3>1. p # m + 1 /\ q # m + 1 /\ p \in 1..(m + 2) /\ q \in 1..(m + 2)
      BY <1>2, <1>4
    <3>2. p \in Nat /\ q \in Nat /\ p < q /\ m \in Nat
      BY <1>1, <1>4, <3>1
    <3> QED BY <3>1, <3>2
  <2>2. CASE q = m + 2
    BY <1>1, <1>2, <2>1, <2>2
  <2>3. CASE q \in 1..m
    BY <1>1, <1>2, <1>4, <2>1, <2>3 DEF LeftOf
  <2> QED BY <2>1, <2>2, <2>3
<1>5. ASSUME NEW p \in DOMAIN new, p + 1 \in DOMAIN new, new[p] # 0, new[p + 1] # 0
      PROVE  new[p + 1] = new[p] + 1
  <2>1. p \in 1..m /\ p + 1 \in 1..m
    BY <1>1, <1>2, <1>5
  <2> QED BY <1>1, <1>2, <1>5, <2>1 DEF LeftOf
<1>6. ASSUME NEW p \in DOMAIN new, new[p] = 0
      PROVE  p + 1 \in DOMAIN new /\ new[p + 1] > 1 /\ Quoted(ls, new[p + 1] - 1)
  <2>1. p \in 1..m \/ p = m + 1
    BY <1>1, <1>2, <1>6
  <2>2. CASE p \in 1..m
    <3>1. p + 1 \in 1..m /\ out[p + 1] > 1 /\ Quoted(ls, out[p + 1] - 1)
      BY <1>1, <1>2, <1>6, <2>2 DEF LeftOf
    <3> QED BY <1>1, <1>2, <3>1
  <2>3. CASE p = m + 1
    <3>1. p + 1 = m + 2 /\ new[p + 1] = k + 1 /\ (k + 1) - 1 = k
      BY <1>1, <1>2, <2>3
    <3> QED BY <1>1, <1>2, <3>1
  <2> QED BY <2>1, <2>2, <2>3
<1>7. LeftOf(ls, k + 1, new)
  BY <1>2, <1>3, <1>4, <1>5, <1>6 DEF LeftOf
<1> QED BY <1>1, <1>2, <1>7 DEF new

LEMMA LeavingNone ==
    ASSUME NEW ls, NEW k \in Nat, NEW out, LeftOf(ls, k, out)
    PROVE  LeftOf(ls, k + 1, out)
<1>1. out \in Seq(0..(k + 1))
  BY DEF LeftOf
<1> QED BY <1>1 DEF LeftOf

\* What is left after any number of lines.
LEMMA DroppingLeaves ==
    ASSUME NEW ls \in Seq(MessageLine)
    PROVE  \A k \in 0..Len(ls) : LeftOf(ls, k, Dropping(ls)[k].out)
<1> DEFINE n == Len(ls)
           D == Dropping(ls)
           Fine(k) == /\ LeftOf(ls, k, D[k].out)
                      /\ D[k].cut <=> k > 0 /\ Quoted(ls, k)
                      /\ ~D[k].cut /\ k > 0 => Len(D[k].out) > 0 /\ D[k].out[Len(D[k].out)] = k
           S == {k \in 0..n : Fine(k)}
<1>1. n \in Nat
  OBVIOUS
<1>2. /\ D \in [0..n -> DropStates]
      /\ D[0] = [fence |-> NoFence, cut |-> FALSE, out |-> <<>>]
      /\ \A i \in 1..n : D[i] = DropLine(ls, D[i - 1], i)
  BY DroppingUnrolls
<1>3. 0 \in S
  <2>1. D[0].out = <<>> /\ D[0].cut = FALSE
    BY <1>2
  <2>2. LeftOf(ls, 0, <<>>)
    BY DEF LeftOf
  <2> HIDE DEF D
  <2> QED BY <1>1, <2>1, <2>2
<1>4. ASSUME NEW k \in S, k < n PROVE k + 1 \in S
  <2>1. k \in Nat /\ k + 1 \in 1..n /\ k + 1 \in 0..n /\ (k + 1) - 1 = k /\ Fine(k)
    <3> HIDE DEF Fine
    <3> QED BY <1>1, <1>4
  <2>2. D[k + 1] = DropLine(ls, D[k], k + 1)
    BY <1>2, <2>1
  <2>3. IsQuoted(D[k].fence, ls[k + 1]) <=> Quoted(ls, k + 1)
    BY <2>1 DEF Quoted
  <2> HIDE DEF D, n
  <2>4. D[k + 1].cut <=> Quoted(ls, k + 1)
    BY <2>2, <2>3 DEF DropLine
  <2>5. CASE Quoted(ls, k + 1)
    <3>1. D[k + 1].out = D[k].out
      BY <2>2, <2>3, <2>5 DEF DropLine
    <3>2. LeftOf(ls, k + 1, D[k + 1].out)
      BY <2>1, <3>1, LeavingNone
    <3> QED BY <2>1, <2>4, <2>5, <3>2
  <2>6. CASE ~Quoted(ls, k + 1) /\ ~D[k].cut
    <3>1. D[k + 1].out = D[k].out \o <<k + 1>>
      BY <2>2, <2>3, <2>6 DEF DropLine
    <3>2. /\ LeftOf(ls, k + 1, D[k + 1].out)
          /\ Len(D[k + 1].out) > 0 /\ D[k + 1].out[Len(D[k + 1].out)] = k + 1
      BY <2>1, <2>6, <3>1, LeavingOneMore
    <3> QED BY <2>1, <2>4, <2>6, <3>2
  <2>7. CASE ~Quoted(ls, k + 1) /\ D[k].cut
    <3>1. D[k + 1].out = D[k].out \o <<0, k + 1>>
      BY <2>2, <2>3, <2>7 DEF DropLine
    <3>2. /\ LeftOf(ls, k + 1, D[k + 1].out)
          /\ Len(D[k + 1].out) > 0 /\ D[k + 1].out[Len(D[k + 1].out)] = k + 1
      BY <2>1, <2>7, <3>1, LeavingAGap
    <3> QED BY <2>1, <2>4, <2>7, <3>2
  <2> QED BY <2>5, <2>6, <2>7
<1>5. 0..n \subseteq S
  <2> HIDE DEF Fine
  <2>1. S \in SUBSET Nat
    OBVIOUS
  <2> HIDE DEF S
  <2> QED BY <1>1, <1>3, <1>4, <2>1, UpToInduction
<1> QED BY <1>5

-----------------------------------------------------------------------------
\* the blocks after m lines: of unquoted lines that follow each other, no
\* marker but in front, and the last line in the last block
BlocksOf(ls, kept, m, out) ==
    /\ out \in Seq(Seq(Nat))
    /\ \A b \in DOMAIN out : \A j \in DOMAIN out[b] :
           out[b][j] # 0 /\ \E p \in 1..m : kept[p] = out[b][j]
    /\ \A b \in DOMAIN out : \A j \in 1..(Len(out[b]) - 1) : out[b][j + 1] = out[b][j] + 1
    /\ \A b \in DOMAIN out : \A j \in 2..Len(out[b]) : ls[out[b][j]].mark = "none"
    /\ out # <<>> /\ out[Len(out)] # <<>> =>
           m > 0 /\ out[Len(out)][Len(out[Len(out)])] = kept[m]

\* a line begins a block, an empty one perhaps, or goes on with the last one
GoesOn(ls, out, i) ==
    /\ i # 0 /\ ls[i].k # "blank" /\ out # <<>>
    /\ ~StartsBlock(ls[i]) /\ ~EndsBlock(ls, out[Len(out)], ls[i])
\* The two ways to join a line.
LEMMA JoinCases ==
    ASSUME NEW ls, NEW out, NEW i
    PROVE  JoinLine(ls, out, i) =
               IF GoesOn(ls, out, i) THEN [out EXCEPT ![Len(out)] = Append(@, i)]
               ELSE Append(out, IF i = 0 \/ ls[i].k = "blank" THEN <<>> ELSE <<i>>)
  BY DEF JoinLine, GoesOn

\* Blocks are lists of lines.
LEMMA JoinTyped ==
    ASSUME NEW ls, NEW out \in Seq(Seq(Nat)), NEW i \in Nat
    PROVE  JoinLine(ls, out, i) \in Seq(Seq(Nat))
<1>1. CASE GoesOn(ls, out, i)
  <2>1. out # <<>> /\ Len(out) \in DOMAIN out /\ out[Len(out)] \in Seq(Nat)
    BY <1>1 DEF GoesOn
  <2>2. Append(out[Len(out)], i) \in Seq(Nat)
    BY <2>1
  <2>3. [out EXCEPT ![Len(out)] = Append(@, i)] \in Seq(Seq(Nat))
    BY <2>1, <2>2
  <2> QED BY <1>1, <2>3, JoinCases
<1>2. CASE ~GoesOn(ls, out, i)
  <2>1. <<>> \in Seq(Nat) /\ <<i>> \in Seq(Nat)
    OBVIOUS
  <2>2. Append(out, <<>>) \in Seq(Seq(Nat)) /\ Append(out, <<i>>) \in Seq(Seq(Nat))
    BY <2>1
  <2> QED BY <1>2, <2>2, JoinCases
<1> QED BY <1>1, <1>2

\* Joining is the fold it describes.
LEMMA JoiningUnrolls ==
    ASSUME NEW ls, NEW kept \in Seq(Nat)
    PROVE  LET J == Joining(ls, kept) IN
           /\ J \in [0..Len(kept) -> Seq(Seq(Nat))]
           /\ J[0] = <<>>
           /\ \A m \in 1..Len(kept) : J[m] = JoinLine(ls, J[m - 1], kept[m])
<1> DEFINE n == Len(kept)
           V == Seq(Seq(Nat))
           base == <<>>
           step == [p \in V \X (1..n) |-> JoinLine(ls, p[1], kept[p[2]])]
           Solves(f) == f = [m \in 0..n |-> IF m = 0 THEN <<>>
                                            ELSE JoinLine(ls, f[m - 1], kept[m])]
<1>1. base \in V
  OBVIOUS
<1>2. n \in Nat /\ \A i \in 1..n : kept[i] \in Nat
  OBVIOUS
<1>3. step \in [V \X (1..n) -> V]
  BY <1>2, JoinTyped
<1>4. \A p \in V \X (1..n) : step[p] = JoinLine(ls, p[1], kept[p[2]])
  OBVIOUS
<1>5. Joining(ls, kept) = CHOOSE f : Solves(f)
  BY DEF Joining
<1> HIDE DEF base, step, n, V
<1>6. PICK f \in [0..n -> V] : Recurs(f, n, base, step)
  BY <1>1, <1>2, <1>3, RecursionExists
<1>7. \A m \in 1..n : f[m] = JoinLine(ls, f[m - 1], kept[m])
  <2> TAKE m \in 1..n
  <2>1. <<f[m - 1], m>> \in V \X (1..n)
    BY <1>2
  <2> QED BY <1>4, <1>6, <2>1 DEF Recurs
<1>8. Solves(f)
  BY <1>2, <1>6, <1>7 DEF Recurs, base
<1>9. Solves(Joining(ls, kept))
  <2> HIDE DEF Solves
  <2> QED BY <1>5, <1>8
<1> DEFINE J == Joining(ls, kept)
<1>10. DOMAIN J = 0..n /\ J[0] = base /\ \A m \in 1..n : J[m] = JoinLine(ls, J[m - 1], kept[m])
  BY <1>2, <1>9 DEF base
<1>11. J \in [0..n -> V]
  <2> DEFINE S == {m \in 0..n : J[m] \in V}
  <2> HIDE DEF J
  <2>1. S \in SUBSET Nat /\ 0 \in S
    BY <1>1, <1>2, <1>10
  <2>2. ASSUME NEW m \in S, m < n PROVE m + 1 \in S
    <3>1. m + 1 \in 1..n /\ J[m] \in V /\ (m + 1) - 1 = m
      BY <1>2, <2>2
    <3>2. J[m + 1] = JoinLine(ls, J[m], kept[m + 1])
      BY <1>10, <3>1
    <3> QED BY <1>2, <3>1, <3>2, JoinTyped DEF V
  <2>3. 0..n \subseteq S
    <3> HIDE DEF S
    <3> QED BY <1>2, <2>1, <2>2, UpToInduction
  <2>4. J = [m \in 0..n |-> J[m]]
    BY <1>9 DEF J
  <2> QED BY <2>3, <2>4
<1> QED BY <1>2, <1>10, <1>11 DEF n, base, V

\* The last block goes on with one more line ...
LEMMA JoiningGoesOn ==
    ASSUME NEW ls, NEW kept \in Seq(Nat), NEW m \in Nat, m + 1 \in 1..Len(kept), NEW out,
           BlocksOf(ls, kept, m, out), GoesOn(ls, out, kept[m + 1]),
           m > 0 /\ kept[m] # 0 => kept[m + 1] = kept[m] + 1
    PROVE  BlocksOf(ls, kept, m + 1, [out EXCEPT ![Len(out)] = Append(@, kept[m + 1])])
<1> DEFINE i == kept[m + 1]
           l == Len(out)
           last == out[l]
           grown == Append(last, i)
           new == [out EXCEPT ![l] = grown]
<1>1. i \in Nat /\ i # 0 /\ out \in Seq(Seq(Nat)) /\ l \in Nat /\ l \in DOMAIN out
      /\ last \in Seq(Nat) /\ Len(last) \in Nat /\ last # <<>> /\ DOMAIN out = 1..l
      /\ \A b \in 1..l : out[b] \in Seq(Nat)
  <2>1. out \in Seq(Seq(Nat)) /\ out # <<>>
    BY DEF BlocksOf, GoesOn
  <2>2. last # <<>> /\ i # 0
    BY DEF GoesOn, EndsBlock
  <2> QED BY <2>1, <2>2
<1>2. /\ grown \in Seq(Nat) /\ Len(grown) = Len(last) + 1 /\ DOMAIN grown = 1..(Len(last) + 1)
      /\ \A j \in 1..Len(last) : grown[j] = last[j]
      /\ grown[Len(last) + 1] = i /\ DOMAIN last = 1..Len(last)
  BY <1>1
<1>3. /\ new \in Seq(Seq(Nat)) /\ DOMAIN new = 1..l /\ Len(new) = l /\ new[l] = grown
      /\ \A b \in 1..l : b # l => new[b] = out[b]
  <2> HIDE DEF grown, last
  <2>1. Len(new) = l /\ DOMAIN new = 1..l
    BY <1>1
  <2>2. new[l] = grown /\ \A b \in 1..l : b # l => new[b] = out[b]
    BY <1>1
  <2>3. new \in Seq(Seq(Nat))
    BY <1>1, <1>2
  <2> HIDE DEF new, l
  <2> QED BY <2>1, <2>2, <2>3
<1>4. m > 0 /\ last[Len(last)] = kept[m] /\ last[Len(last)] # 0 /\ Len(last) \in 1..Len(last)
  <2>1. m > 0 /\ last[Len(last)] = kept[m]
    BY <1>1 DEF BlocksOf
  <2>2. Len(last) \in DOMAIN last
    BY <1>1
  <2>3. last[Len(last)] # 0
    BY <1>1, <2>2 DEF BlocksOf
  <2> QED BY <2>1, <2>2, <2>3, <1>2
<1>5. i = last[Len(last)] + 1
  BY <1>4
<1>6. ls[i].mark = "none"
  BY DEF GoesOn, StartsBlock
<1> HIDE DEF new, grown, last, l, i
<1>7. ASSUME NEW b \in DOMAIN new, NEW j \in DOMAIN new[b]
      PROVE  new[b][j] # 0 /\ \E p \in 1..(m + 1) : kept[p] = new[b][j]
  <2>1. CASE b # l
    <3>1. new[b] = out[b] /\ b \in DOMAIN out
      BY <1>1, <1>3, <2>1
    <3>2. out[b][j] # 0 /\ \E p \in 1..m : kept[p] = out[b][j]
      BY <3>1 DEF BlocksOf
    <3> QED BY <3>1, <3>2
  <2>2. CASE b = l /\ j \in 1..Len(last)
    <3>1. new[b][j] = last[j] /\ j \in DOMAIN last
      BY <1>2, <1>3, <2>2
    <3>2. last[j] # 0 /\ \E p \in 1..m : kept[p] = last[j]
      BY <1>1, <3>1 DEF BlocksOf, last
    <3> QED BY <3>1, <3>2
  <2>3. CASE b = l /\ j = Len(last) + 1
    BY <1>1, <1>2, <1>3, <2>3 DEF i
  <2>4. b = l => j \in 1..(Len(last) + 1)
    BY <1>2, <1>3
  <2>5. b = l => j \in 1..Len(last) \/ j = Len(last) + 1
    BY <1>1, <2>4
  <2> QED BY <2>1, <2>2, <2>3, <2>5
<1>8. ASSUME NEW b \in DOMAIN new, NEW j \in 1..(Len(new[b]) - 1)
      PROVE  new[b][j + 1] = new[b][j] + 1
  <2>1. CASE b # l
    <3>1. new[b] = out[b] /\ b \in DOMAIN out /\ j \in 1..(Len(out[b]) - 1)
      BY <1>1, <1>3, <2>1
    <3>2. out[b][j + 1] = out[b][j] + 1
      BY <3>1 DEF BlocksOf
    <3> QED BY <3>1, <3>2
  <2>2. CASE b = l /\ j # Len(last)
    <3>1. j \in 1..(Len(last) - 1) /\ j \in 1..Len(last) /\ j + 1 \in 1..Len(last)
      <4>1. Len(new[b]) - 1 = Len(last)
        <5>1. Len(new[b]) = Len(last) + 1
          BY <1>2, <1>3, <2>2
        <5> QED BY <1>1, <5>1
      <4>2. j \in 1..Len(last)
        BY <4>1
      <4> QED BY <1>1, <2>2, <4>2
    <3>2. last[j + 1] = last[j] + 1
      BY <1>1, <3>1 DEF BlocksOf, last
    <3> QED BY <1>2, <1>3, <2>2, <3>1, <3>2
  <2>3. CASE b = l /\ j = Len(last)
    BY <1>2, <1>3, <1>4, <1>5, <2>3
  <2> QED BY <2>1, <2>2, <2>3
<1>9. ASSUME NEW b \in DOMAIN new, NEW j \in 2..Len(new[b])
      PROVE  ls[new[b][j]].mark = "none"
  <2>1. CASE b # l
    <3>1. new[b] = out[b] /\ b \in DOMAIN out /\ j \in 2..Len(out[b])
      BY <1>1, <1>3, <2>1
    <3>2. ls[out[b][j]].mark = "none"
      BY <3>1 DEF BlocksOf
    <3> QED BY <3>1, <3>2
  <2>2. CASE b = l /\ j \in 2..Len(last)
    <3>1. new[b][j] = last[j]
      BY <1>1, <1>2, <1>3, <2>2
    <3>2. ls[last[j]].mark = "none"
      BY <1>1, <2>2 DEF BlocksOf, last
    <3> QED BY <3>1, <3>2
  <2>3. CASE b = l /\ j = Len(last) + 1
    BY <1>2, <1>3, <1>6, <2>3
  <2>4. b = l => j \in 2..(Len(last) + 1)
    BY <1>2, <1>3
  <2>5. b = l => j \in 2..Len(last) \/ j = Len(last) + 1
    BY <1>1, <2>4
  <2> QED BY <2>1, <2>2, <2>3, <2>5
<1>10. m + 1 > 0 /\ new[Len(new)][Len(new[Len(new)])] = kept[m + 1]
  BY <1>1, <1>2, <1>3 DEF i
<1>11. BlocksOf(ls, kept, m + 1, new)
  BY <1>3, <1>7, <1>8, <1>9, <1>10 DEF BlocksOf
<1> QED BY <1>11 DEF new, grown, last, l, i

\* ... or another one begins.
LEMMA JoiningBegins ==
    ASSUME NEW ls, NEW kept \in Seq(Nat), NEW m \in Nat, m + 1 \in 1..Len(kept), NEW out,
           BlocksOf(ls, kept, m, out), NEW more,
           more = <<>> \/ (more = <<kept[m + 1]>> /\ kept[m + 1] # 0)
    PROVE  BlocksOf(ls, kept, m + 1, Append(out, more))
<1> DEFINE new == Append(out, more)
           l == Len(out)
<1>1. out \in Seq(Seq(Nat)) /\ more \in Seq(Nat) /\ l \in Nat /\ DOMAIN out = 1..l
      /\ \A b \in 1..l : out[b] \in Seq(Nat)
  <2>1. out \in Seq(Seq(Nat)) /\ kept[m + 1] \in Nat
    BY DEF BlocksOf
  <2>2. <<kept[m + 1]>> \in Seq(Nat) /\ <<>> \in Seq(Nat)
    BY <2>1
  <2>3. more \in Seq(Nat)
    BY <2>2
  <2> QED BY <2>1, <2>3
<1>2. /\ new \in Seq(Seq(Nat)) /\ DOMAIN new = 1..(l + 1) /\ Len(new) = l + 1
      /\ \A b \in 1..l : new[b] = out[b]
      /\ new[l + 1] = more
  BY <1>1
<1> HIDE DEF new, l
<1>3. Len(more) \in {0, 1} /\ (more # <<>> => more[Len(more)] = kept[m + 1])
      /\ \A j \in DOMAIN more : j = 1 /\ more[j] = kept[m + 1] /\ kept[m + 1] # 0
  OBVIOUS
<1>4. ASSUME NEW b \in DOMAIN new, NEW j \in DOMAIN new[b]
      PROVE  new[b][j] # 0 /\ \E p \in 1..(m + 1) : kept[p] = new[b][j]
  <2>1. CASE b \in 1..l
    <3>1. out[b][j] # 0 /\ \E p \in 1..m : kept[p] = out[b][j]
      BY <1>1, <1>2, <2>1 DEF BlocksOf
    <3>2. new[b] = out[b] /\ 1..m \subseteq 1..(m + 1)
      BY <1>2, <2>1
    <3> QED BY <3>1, <3>2
  <2>2. CASE b = l + 1
    <3>1. new[b][j] = kept[m + 1] /\ kept[m + 1] # 0
      BY <1>2, <1>3, <2>2
    <3> QED BY <3>1
  <2> QED BY <1>1, <1>2, <2>1, <2>2
<1>5. ASSUME NEW b \in DOMAIN new, NEW j \in 1..(Len(new[b]) - 1)
      PROVE  new[b][j + 1] = new[b][j] + 1
  <2>1. b \in 1..l
    BY <1>1, <1>2, <1>3
  <2> QED BY <1>1, <1>2, <2>1 DEF BlocksOf
<1>6. ASSUME NEW b \in DOMAIN new, NEW j \in 2..Len(new[b])
      PROVE  ls[new[b][j]].mark = "none"
  <2>1. b \in 1..l
    BY <1>1, <1>2, <1>3
  <2>2. new[b] = out[b] /\ b \in DOMAIN out /\ j \in 2..Len(out[b])
    BY <1>1, <1>2, <2>1
  <2>3. ls[out[b][j]].mark = "none"
    BY <2>2 DEF BlocksOf
  <2> QED BY <2>2, <2>3
<1>7. new[Len(new)] # <<>> => m + 1 > 0 /\ new[Len(new)][Len(new[Len(new)])] = kept[m + 1]
  BY <1>1, <1>2, <1>3
<1>8. BlocksOf(ls, kept, m + 1, new)
  BY <1>2, <1>4, <1>5, <1>6, <1>7 DEF BlocksOf
<1> QED BY <1>8 DEF new

\* One more line keeps the blocks what they are.
LEMMA JoiningKeeps ==
    ASSUME NEW ls, NEW kept \in Seq(Nat), NEW m \in Nat, m + 1 \in 1..Len(kept), NEW out,
           BlocksOf(ls, kept, m, out),
           m > 0 /\ kept[m] # 0 /\ kept[m + 1] # 0 => kept[m + 1] = kept[m] + 1
    PROVE  BlocksOf(ls, kept, m + 1, JoinLine(ls, out, kept[m + 1]))
<1>1. CASE GoesOn(ls, out, kept[m + 1])
  <2>1. kept[m + 1] # 0
    BY <1>1 DEF GoesOn
  <2>2. BlocksOf(ls, kept, m + 1, [out EXCEPT ![Len(out)] = Append(@, kept[m + 1])])
    BY <1>1, <2>1, JoiningGoesOn
  <2> QED BY <1>1, <2>2, JoinCases
<1>2. CASE ~GoesOn(ls, out, kept[m + 1])
  <2> DEFINE more == IF kept[m + 1] = 0 \/ ls[kept[m + 1]].k = "blank" THEN <<>> ELSE <<kept[m + 1]>>
  <2>1. JoinLine(ls, out, kept[m + 1]) = Append(out, more)
    BY <1>2, JoinCases
  <2>2. more = <<>> \/ (more = <<kept[m + 1]>> /\ kept[m + 1] # 0)
    OBVIOUS
  <2> HIDE DEF more
  <2> QED BY <2>1, <2>2, JoiningBegins
<1> QED BY <1>1, <1>2

\* The blocks after any number of lines.
LEMMA JoiningJoins ==
    ASSUME NEW ls, NEW kept \in Seq(Nat),
           \A p \in DOMAIN kept : p + 1 \in DOMAIN kept /\ kept[p] # 0 /\ kept[p + 1] # 0 =>
               kept[p + 1] = kept[p] + 1
    PROVE  \A m \in 0..Len(kept) : BlocksOf(ls, kept, m, Joining(ls, kept)[m])
<1> DEFINE n == Len(kept)
           J == Joining(ls, kept)
           S == {m \in 0..n : BlocksOf(ls, kept, m, J[m])}
<1>1. n \in Nat /\ DOMAIN kept = 1..n
  OBVIOUS
<1>2. J[0] = <<>> /\ \A m \in 1..n : J[m] = JoinLine(ls, J[m - 1], kept[m])
  BY JoiningUnrolls
<1>3. 0 \in S
  <2>1. BlocksOf(ls, kept, 0, <<>>)
    BY DEF BlocksOf
  <2> QED BY <1>1, <1>2, <2>1
<1>4. ASSUME NEW m \in S, m < n PROVE m + 1 \in S
  <2>1. m \in Nat /\ m + 1 \in 1..n /\ (m + 1) - 1 = m
    BY <1>1, <1>4
  <2>2. BlocksOf(ls, kept, m, J[m])
    <3> HIDE DEF J, n, BlocksOf
    <3> QED BY <1>4
  <2>3. m > 0 /\ kept[m] # 0 /\ kept[m + 1] # 0 => kept[m + 1] = kept[m] + 1
    <3>1. m > 0 => m \in DOMAIN kept /\ m + 1 \in DOMAIN kept
      BY <1>1, <2>1
    <3> QED BY <3>1
  <2> HIDE DEF J
  <2>4. BlocksOf(ls, kept, m + 1, JoinLine(ls, J[m], kept[m + 1]))
    BY <2>1, <2>2, <2>3, JoiningKeeps
  <2> QED BY <1>2, <2>1, <2>4
<1>5. 0..n \subseteq S
  <2>1. S \in SUBSET Nat
    OBVIOUS
  <2> HIDE DEF S, n
  <2> QED BY <1>1, <1>3, <1>4, <2>1, UpToInduction
<1> QED BY <1>5
\* lines i and i + 1 are at p and p + 1 and nowhere else
OnceTogether(kept, p, i) ==
    /\ p + 1 \in DOMAIN kept /\ kept[p + 1] = i + 1
    /\ \A r \in DOMAIN kept : kept[r] = i => r = p
    /\ \A r \in DOMAIN kept : kept[r] = i + 1 => r = p + 1
    /\ p > 1 => kept[p - 1] = 0 \/ kept[p - 1] = i - 1

\* two lines next to each other that are both left stay next to each other
LEMMA NeighboursStay ==
    ASSUME NEW ls, NEW n \in Nat, NEW kept, LeftOf(ls, n, kept), NEW i \in Nat, i # 0,
           NEW p \in DOMAIN kept, NEW q \in DOMAIN kept, kept[p] = i, kept[q] = i + 1
    PROVE  OnceTogether(kept, p, i)
<1>1. DOMAIN kept = 1..Len(kept) /\ Len(kept) \in Nat /\ p \in Nat /\ q \in Nat
      /\ \A r \in DOMAIN kept : kept[r] \in Nat
  BY DEF LeftOf
<1>2. \A r, t \in DOMAIN kept : r < t /\ kept[r] # 0 /\ kept[t] # 0 => kept[r] < kept[t]
  BY DEF LeftOf
<1>3. \A r, t \in DOMAIN kept : kept[r] = kept[t] /\ kept[r] # 0 => r = t
  <2> SUFFICES ASSUME NEW r \in DOMAIN kept, NEW t \in DOMAIN kept, kept[r] = kept[t], kept[r] # 0,
                      r # t
               PROVE  FALSE
    OBVIOUS
  <2>1. r < t \/ t < r
    BY <1>1
  <2> QED BY <1>1, <1>2, <2>1
<1>4. p < q
  <2>1. i # i + 1 /\ ~(i + 1 < i) /\ i + 1 # 0
    OBVIOUS
  <2>2. p # q /\ ~(q < p)
    BY <1>2, <2>1
  <2> QED BY <1>1, <2>2
<1>5. p + 1 \in DOMAIN kept
  BY <1>1, <1>4
<1>6. kept[p + 1] # 0
  <2> SUFFICES ASSUME kept[p + 1] = 0 PROVE FALSE
    OBVIOUS
  <2>1. /\ (p + 1) + 1 \in DOMAIN kept /\ kept[(p + 1) + 1] > 1
        /\ Quoted(ls, kept[(p + 1) + 1] - 1)
    BY <1>5 DEF LeftOf
  <2>2. kept[(p + 1) + 1] > i
    BY <1>1, <1>2, <2>1
  <2>3. q # p + 1
    BY <1>1
  <2>4. kept[(p + 1) + 1] <= i + 1
    <3>1. CASE q = (p + 1) + 1
      BY <1>1, <3>1
    <3>2. CASE q # (p + 1) + 1
      <4>1. (p + 1) + 1 < q
        BY <1>1, <1>4, <2>3, <3>2
      <4> QED BY <1>1, <1>2, <2>1, <4>1
    <3> QED BY <3>1, <3>2
  <2>5. kept[(p + 1) + 1] - 1 = i
    BY <1>1, <2>1, <2>2, <2>4
  <2> QED BY <2>1, <2>5 DEF LeftOf
<1>7. kept[p + 1] = i + 1
  BY <1>5, <1>6 DEF LeftOf
<1>8. \A r \in DOMAIN kept : kept[r] = i + 1 => r = p + 1
  BY <1>3, <1>5, <1>6, <1>7
<1>9. p > 1 => kept[p - 1] = 0 \/ kept[p - 1] = i - 1
  <2> SUFFICES ASSUME p > 1, kept[p - 1] # 0 PROVE kept[p - 1] = i - 1
    OBVIOUS
  <2>1. p - 1 \in DOMAIN kept /\ (p - 1) + 1 = p
    BY <1>1
  <2>2. kept[p] = kept[p - 1] + 1
    BY <2>1 DEF LeftOf
  <2> QED BY <1>1, <2>1, <2>2
<1> QED BY <1>3, <1>5, <1>7, <1>8, <1>9 DEF OnceTogether

\* One more element.
LEMMA AppendedSet ==
    ASSUME NEW V, NEW s \in Seq(V), NEW x
    PROVE  /\ ToSet(Append(s, x)) = ToSet(s) \cup {x}
           /\ DOMAIN s = 1..Len(s) /\ Len(s) \in Nat
           /\ Append(s, x) # <<>> /\ Len(Append(s, x)) = Len(s) + 1
           /\ DOMAIN Append(s, x) = 1..(Len(s) + 1)
           /\ \A j \in 1..Len(s) : Append(s, x)[j] = s[j]
           /\ Append(s, x)[Len(s) + 1] = x
<1>1. /\ DOMAIN s = 1..Len(s) /\ Len(s) \in Nat /\ DOMAIN Append(s, x) = 1..(Len(s) + 1)
      /\ \A j \in 1..Len(s) : Append(s, x)[j] = s[j]
      /\ Append(s, x)[Len(s) + 1] = x
  OBVIOUS
<1>2. ToSet(Append(s, x)) \subseteq ToSet(s) \cup {x}
  <2> SUFFICES ASSUME NEW j \in DOMAIN Append(s, x)
               PROVE  Append(s, x)[j] \in ToSet(s) \cup {x}
    BY DEF ToSet
  <2>1. j \in 1..Len(s) \/ j = Len(s) + 1
    BY <1>1
  <2> QED BY <1>1, <2>1 DEF ToSet
<1>3. ToSet(s) \cup {x} \subseteq ToSet(Append(s, x))
  <2>1. x \in ToSet(Append(s, x))
    BY <1>1 DEF ToSet
  <2>2. ASSUME NEW j \in DOMAIN s PROVE s[j] \in ToSet(Append(s, x))
    <3>1. j \in DOMAIN Append(s, x) /\ Append(s, x)[j] = s[j]
      BY <1>1
    <3> QED BY <3>1 DEF ToSet
  <2> QED BY <2>1, <2>2 DEF ToSet
<1> QED BY <1>1, <1>2, <1>3

\* An empty block, and a block of two lines.
LEMMA AppendedLast ==
    /\ \A s \in Seq(Seq(Nat)) :
           Append(s, <<>>) # <<>> /\ Append(s, <<>>)[Len(Append(s, <<>>))] = <<>>
    /\ \A i \in Nat : Append(<<i>>, i + 1) = <<i, i + 1>>
<1>1. ASSUME NEW s \in Seq(Seq(Nat))
      PROVE  Append(s, <<>>) # <<>> /\ Append(s, <<>>)[Len(Append(s, <<>>))] = <<>>
  <2> DEFINE e == <<>>
  <2>1. e \in Seq(Nat)
    OBVIOUS
  <2> HIDE DEF e
  <2>2. /\ Append(s, e) # <<>> /\ Len(Append(s, e)) = Len(s) + 1
        /\ Append(s, e)[Len(s) + 1] = e
    BY <2>1, AppendProperties
  <2>3. Append(s, e) # <<>> /\ Append(s, e)[Len(Append(s, e))] = e
    BY <2>2
  <2> QED BY <2>3 DEF e
<1>2. ASSUME NEW i \in Nat PROVE Append(<<i>>, i + 1) = <<i, i + 1>>
  <2>1. <<i>> \in Seq(Nat) /\ Len(<<i>>) = 1 /\ <<i>>[1] = i
    OBVIOUS
  <2>2. /\ Append(<<i>>, i + 1) \in Seq(Nat) /\ Len(Append(<<i>>, i + 1)) = 2
        /\ Append(<<i>>, i + 1)[1] = i /\ Append(<<i>>, i + 1)[2] = i + 1
    OBVIOUS
  <2>3. /\ <<i, i + 1>> \in Seq(Nat) /\ Len(<<i, i + 1>>) = 2
        /\ <<i, i + 1>>[1] = i /\ <<i, i + 1>>[2] = i + 1
    OBVIOUS
  <2>4. \A j \in 1..2 : Append(<<i>>, i + 1)[j] = <<i, i + 1>>[j]
    <3> SUFFICES ASSUME NEW j \in 1..2 PROVE Append(<<i>>, i + 1)[j] = <<i, i + 1>>[j]
      OBVIOUS
    <3>1. j = 1 \/ j = 2
      OBVIOUS
    <3> QED BY <2>2, <2>3, <3>1
  <2> DEFINE u == Append(<<i>>, i + 1)
             w == <<i, i + 1>>
  <2> HIDE DEF u, w
  <2>5. u = w
    BY <2>2, <2>3, <2>4, SeqEqual DEF u, w
  <2> QED BY <2>5 DEF u, w
<1> QED BY <1>1, <1>2

\* an unfinished line, with nothing or a blank above it, begins a block, and
\* the plain line below it goes on with it
LEMMA WrapIsJoined ==
    ASSUME NEW ls, NEW kept \in Seq(Nat), NEW n \in Nat, LeftOf(ls, n, kept), NEW i \in Nat, i # 0,
           NEW p \in DOMAIN kept, NEW q \in DOMAIN kept, kept[p] = i, kept[q] = i + 1,
           ls[i].k \in {"prose", "fence"}, ~ls[i].ends,
           ls[i + 1].k = "prose", ls[i + 1].mark = "none", i > 1 => ls[i - 1].k = "blank",
           NEW b \in DOMAIN JoinSoftWraps(ls, kept)
    PROVE  LET block == JoinSoftWraps(ls, kept)[b] IN i \in ToSet(block) <=> i + 1 \in ToSet(block)
<1> DEFINE N == Len(kept)
           J == Joining(ls, kept)
           Whole(m) == \A c \in DOMAIN J[m] : i \in ToSet(J[m][c]) <=> i + 1 \in ToSet(J[m][c])
           S == {m \in 0..N : m > p => Whole(m)}
<1>1. /\ N \in Nat /\ DOMAIN kept = 1..N /\ p \in Nat /\ p + 1 \in 1..N /\ p \in 1..N
      /\ kept[p + 1] = i + 1
      /\ \A r \in 1..N : (kept[r] = i => r = p) /\ (kept[r] = i + 1 => r = p + 1)
      /\ p > 1 => kept[p - 1] = 0 \/ kept[p - 1] = i - 1
  <2>1. N \in Nat /\ DOMAIN kept = 1..N
    OBVIOUS
  <2>2. OnceTogether(kept, p, i)
    BY NeighboursStay
  <2> HIDE DEF N
  <2> QED BY <2>1, <2>2 DEF OnceTogether
<1>2. /\ J \in [0..N -> Seq(Seq(Nat))]
      /\ J[0] = <<>> /\ \A m \in 1..N : J[m] = JoinLine(ls, J[m - 1], kept[m])
  BY JoiningUnrolls
<1>3. \A m \in 0..N : BlocksOf(ls, kept, m, J[m])
  BY JoiningJoins DEF LeftOf
<1> HIDE DEF J, N
<1>4. p > 1 => J[p - 1] # <<>> /\ J[p - 1][Len(J[p - 1])] = <<>>
  <2> SUFFICES ASSUME p > 1 PROVE J[p - 1] # <<>> /\ J[p - 1][Len(J[p - 1])] = <<>>
    OBVIOUS
  <2>1. p - 1 \in 1..N /\ (p - 1) - 1 \in 0..N
    <3>1. N \in Nat /\ p \in 1..N
      BY <1>1
    <3> QED BY <3>1
  <2>2. kept[p - 1] = 0 \/ ls[kept[p - 1]].k = "blank"
    <3>1. i > 1 \/ i - 1 = 0
      OBVIOUS
    <3> QED BY <1>1, <3>1
  <2>3. J[p - 1] = Append(J[(p - 1) - 1], <<>>)
    BY <1>2, <2>1, <2>2 DEF JoinLine
  <2>4. J[(p - 1) - 1] \in Seq(Seq(Nat))
    BY <1>2, <2>1
  <2> QED BY <2>3, <2>4, AppendedLast
<1>5. /\ J[p - 1] \in Seq(Seq(Nat)) /\ J[p] = Append(J[p - 1], <<i>>)
  <2>1. p - 1 \in 0..N
    BY <1>1
  <2>2. J[p] = JoinLine(ls, J[p - 1], i)
    BY <1>1, <1>2
  <2>3. p = 1 => J[p - 1] = <<>>
    BY <1>2
  <2>4. ~GoesOn(ls, J[p - 1], i)
    BY <1>1, <1>4, <2>3 DEF GoesOn, EndsBlock
  <2> QED BY <1>2, <2>1, <2>2, <2>4, JoinCases
<1> DEFINE l == Len(J[p - 1])
<1>6. /\ l \in Nat /\ J[p] \in Seq(Seq(Nat)) /\ Len(J[p]) = l + 1 /\ J[p][l + 1] = <<i>>
      /\ \A c \in 1..l : J[p][c] = J[p - 1][c]
      /\ DOMAIN J[p - 1] = 1..l /\ DOMAIN J[p] = 1..(l + 1)
  BY <1>5
<1>7. J[p + 1] = [J[p] EXCEPT ![Len(J[p])] = Append(@, i + 1)]
  <2>1. J[p + 1] = JoinLine(ls, J[p], i + 1)
    BY <1>1, <1>2
  <2>2. J[p] # <<>> /\ J[p][Len(J[p])] = <<i>>
    BY <1>6
  <2>3. ~EndsBlock(ls, <<i>>, ls[i + 1])
    BY DEF EndsBlock
  <2>4. ~StartsBlock(ls[i + 1])
    BY DEF StartsBlock
  <2>5. GoesOn(ls, J[p], i + 1)
    BY <2>2, <2>3, <2>4 DEF GoesOn
  <2> QED BY <2>1, <2>5, JoinCases
<1> HIDE DEF l
<1>8. /\ DOMAIN J[p + 1] = 1..(l + 1) /\ J[p + 1][l + 1] = <<i, i + 1>>
      /\ \A c \in 1..l : J[p + 1][c] = J[p - 1][c]
  <2>1. J[p + 1] = [J[p] EXCEPT ![l + 1] = Append(J[p][l + 1], i + 1)]
    BY <1>6, <1>7
  <2>2. Append(J[p][l + 1], i + 1) = <<i, i + 1>>
    BY <1>6, AppendedLast
  <2>3. \A c \in 1..l : c # l + 1 /\ c \in DOMAIN J[p]
    BY <1>6
  <2>4. l + 1 \in DOMAIN J[p]
    BY <1>6
  <2> QED BY <1>6, <2>1, <2>2, <2>3, <2>4, Zenon
<1>9. Whole(p + 1)
  <2> SUFFICES ASSUME NEW c \in DOMAIN J[p + 1]
               PROVE  i \in ToSet(J[p + 1][c]) <=> i + 1 \in ToSet(J[p + 1][c])
    OBVIOUS
  <2>1. CASE c = l + 1
    <3>1. ToSet(<<i, i + 1>>) = {i, i + 1}
      BY DEF ToSet
    <3> QED BY <1>8, <2>1, <3>1
  <2>2. CASE c \in 1..l
    <3>1. p - 1 \in 0..N /\ J[p + 1][c] = J[p - 1][c] /\ c \in DOMAIN J[p - 1]
      <4>1. N \in Nat /\ p \in 1..N
        BY <1>1
      <4>2. p - 1 \in 0..N
        BY <4>1
      <4>3. J[p + 1][c] = J[p - 1][c]
        BY <1>8, <2>2, Zenon
      <4> QED BY <1>6, <2>2, <4>2, <4>3, Zenon
    <3>2. ASSUME NEW j \in DOMAIN J[p - 1][c] PROVE J[p - 1][c][j] # i /\ J[p - 1][c][j] # i + 1
      <4>1. PICK r \in 1..(p - 1) : kept[r] = J[p - 1][c][j]
        BY <1>3, <3>1, <3>2 DEF BlocksOf
      <4>2. r \in 1..N /\ r # p /\ r # p + 1
        BY <1>1, <4>1
      <4> QED BY <1>1, <4>1, <4>2
    <3> QED BY <3>1, <3>2 DEF ToSet
  <2> QED BY <1>6, <1>8, <2>1, <2>2
<1>10. 0 \in S
  BY <1>1
<1>11. ASSUME NEW m \in S, m < N PROVE m + 1 \in S
  <2>1. m \in Nat /\ m + 1 \in 1..N /\ (m + 1) - 1 = m /\ m \in 0..N
    BY <1>1, <1>11
  <2>2. m > p => Whole(m)
    <3> HIDE DEF Whole
    <3> QED BY <1>11
  <2>3. CASE m < p
    BY <1>1, <2>1, <2>3
  <2>4. CASE m = p
    BY <1>9, <2>1, <2>4
  <2>5. CASE m > p
    <3> DEFINE x == kept[m + 1]
    <3>1. J[m + 1] = JoinLine(ls, J[m], x) /\ J[m] \in Seq(Seq(Nat)) /\ x \in Nat
      <4>1. x \in Nat
        BY <1>1, <2>1
      <4>2. J[m + 1] = JoinLine(ls, J[(m + 1) - 1], x)
        BY <1>2, <2>1, Zenon
      <4> QED BY <1>2, <2>1, <4>1, <4>2
    <3>2. x # i /\ x # i + 1
      <4>1. m + 1 # p /\ m + 1 # p + 1
        BY <1>1, <2>1, <2>5
      <4> QED BY <1>1, <2>1, <4>1
    <3> HIDE DEF x
    <3>3. Whole(m)
      BY <2>2, <2>5
    <3>4. ASSUME NEW c \in DOMAIN J[m + 1]
          PROVE  i \in ToSet(J[m + 1][c]) <=> i + 1 \in ToSet(J[m + 1][c])
      <4>1. CASE GoesOn(ls, J[m], x)
        <5> DEFINE z == Len(J[m])
        <5>1. /\ J[m + 1] = [J[m] EXCEPT ![z] = Append(@, x)] /\ J[m] # <<>>
              /\ z \in DOMAIN J[m] /\ J[m][z] \in Seq(Nat)
          <6>1. J[m] # <<>>
            BY <4>1 DEF GoesOn
          <6>2. z \in DOMAIN J[m] /\ J[m][z] \in Seq(Nat)
            BY <3>1, <6>1
          <6> QED BY <3>1, <4>1, <6>1, <6>2, JoinCases
        <5>2. c \in DOMAIN J[m] /\ (c # z => J[m + 1][c] = J[m][c])
              /\ J[m + 1][z] = Append(J[m][z], x)
          BY <5>1
        <5>3. ToSet(Append(J[m][z], x)) = ToSet(J[m][z]) \cup {x}
          BY <3>1, <5>1, AppendedSet
        <5> HIDE DEF z
        <5> QED BY <3>2, <3>3, <5>1, <5>2, <5>3
      <4>2. CASE ~GoesOn(ls, J[m], x)
        <5>1. PICK more : J[m + 1] = Append(J[m], more) /\ (more = <<>> \/ more = <<x>>)
          BY <3>1, <4>2, JoinCases
        <5>2. i \notin ToSet(more) /\ i + 1 \notin ToSet(more)
          BY <3>2, <5>1 DEF ToSet
        <5>3. J[m + 1][c] = more \/ (c \in DOMAIN J[m] /\ J[m + 1][c] = J[m][c])
          BY <3>1, <5>1
        <5> QED BY <3>3, <5>2, <5>3
      <4> QED BY <4>1, <4>2
    <3>5. Whole(m + 1)
      BY <3>4
    <3> HIDE DEF Whole
    <3> QED BY <2>1, <3>5
  <2> HIDE DEF S
  <2> QED BY <1>1, <2>1, <2>3, <2>4, <2>5
<1>12. N \in S
  <2> HIDE DEF Whole
  <2>1. S \in SUBSET Nat
    BY <1>1
  <2> HIDE DEF S
  <2>2. 0..N \subseteq S
    BY <1>1, <1>10, <1>11, <2>1, UpToInduction
  <2> QED BY <1>1, <2>2
<1>13. Whole(N) /\ JoinSoftWraps(ls, kept) = J[N]
  <2>1. N > p
    BY <1>1
  <2>2. JoinSoftWraps(ls, kept) = J[N]
    BY DEF JoinSoftWraps, J, N
  <2> HIDE DEF Whole
  <2> QED BY <1>12, <2>1, <2>2
<1> QED BY <1>13
\* what is unquoted, and where its blocks come from
LEMMA UnquotedIsLeft ==
    ASSUME NEW ls \in Seq(MessageLine)
    PROVE  LET kept == DropFenced(ls) IN
           /\ LeftOf(ls, Len(ls), kept) /\ kept \in Seq(Nat)
           /\ BlocksOf(ls, kept, Len(kept), JoinSoftWraps(ls, kept))
<1> DEFINE kept == DropFenced(ls)
<1>1. LeftOf(ls, Len(ls), kept)
  <2>1. Len(ls) \in 0..Len(ls)
    OBVIOUS
  <2> QED BY <2>1, DroppingLeaves DEF DropFenced
<1>2. kept \in Seq(Nat)
  <2>1. kept \in Seq(0..Len(ls)) /\ 0..Len(ls) \subseteq Nat
    BY <1>1 DEF LeftOf
  <2> HIDE DEF kept
  <2> QED BY <2>1
<1>3. \A p \in DOMAIN kept : p + 1 \in DOMAIN kept /\ kept[p] # 0 /\ kept[p + 1] # 0 =>
          kept[p + 1] = kept[p] + 1
  BY <1>1 DEF LeftOf
<1> HIDE DEF kept
<1>4. BlocksOf(ls, kept, Len(kept), Joining(ls, kept)[Len(kept)])
  <2>1. Len(kept) \in 0..Len(kept)
    BY <1>2
  <2> QED BY <1>2, <1>3, <2>1, JoiningJoins
<1> QED BY <1>1, <1>2, <1>4 DEF kept, JoinSoftWraps

\* a line of a block is a line of the text, and not quoted
LEMMA BlocksAreUnquoted ==
    ASSUME NEW ls \in Seq(MessageLine), NEW s \in ToSet(JoinSoftWraps(ls, DropFenced(ls))),
           NEW i \in ToSet(s)
    PROVE  i \in 1..Len(ls) /\ ~Quoted(ls, i)
<1> DEFINE kept == DropFenced(ls)
           out == JoinSoftWraps(ls, kept)
<1>1. LeftOf(ls, Len(ls), kept) /\ BlocksOf(ls, kept, Len(kept), out)
  BY UnquotedIsLeft
<1> HIDE DEF kept, out
<1>2. PICK b \in DOMAIN out : s = out[b]
  BY DEF ToSet, out, kept
<1>3. PICK j \in DOMAIN out[b] : i = out[b][j]
  BY <1>2 DEF ToSet
<1>4. i # 0 /\ \E p \in 1..Len(kept) : kept[p] = i
  BY <1>1, <1>3 DEF BlocksOf
<1>5. PICK p \in 1..Len(kept) : kept[p] = i
  BY <1>4
<1>6. p \in DOMAIN kept /\ kept[p] \in 0..Len(ls)
  BY <1>1, <1>5 DEF LeftOf
<1>7. ~Quoted(ls, i)
  BY <1>1, <1>4, <1>5, <1>6 DEF LeftOf
<1> QED BY <1>4, <1>5, <1>6, <1>7

\* an opened fence stays open until a line closes it
LEMMA FenceHolds ==
    ASSUME NEW ls \in Seq(MessageLine), NEW o \in 1..Len(ls), NEW i \in 1..Len(ls), o < i,
           Dropping(ls)[o - 1].fence = NoFence, IsQuoted(NoFence, ls[o]), ~Quoted(ls, i)
    PROVE  \E e \in (o + 1)..(i - 1) :
               /\ ls[e].k = "fence" /\ ls[e].c = ls[o].c
               /\ ls[e].n >= ls[o].n /\ ls[e].info = "none"
<1> DEFINE D == Dropping(ls)
           open == [c |-> ls[o].c, n |-> ls[o].n]
           S == {k \in 0..(i - 1 - o) : D[o + k].fence = open}
<1> SUFFICES ASSUME ~\E e \in (o + 1)..(i - 1) :
                        /\ ls[e].k = "fence" /\ ls[e].c = ls[o].c
                        /\ ls[e].n >= ls[o].n /\ ls[e].info = "none"
             PROVE  FALSE
  OBVIOUS
<1>1. o \in Nat /\ i \in Nat /\ o # 0 /\ i - 1 - o \in Nat /\ Len(ls) \in Nat
  OBVIOUS
<1>2. /\ D \in [0..Len(ls) -> DropStates]
      /\ \A k \in 1..Len(ls) : D[k] = DropLine(ls, D[k - 1], k)
  BY DroppingUnrolls
<1>3. \A k \in 1..Len(ls) : D[k].fence = Feed(D[k - 1].fence, ls[k])
  <2> HIDE DEF D
  <2> SUFFICES ASSUME NEW k \in 1..Len(ls) PROVE D[k].fence = Feed(D[k - 1].fence, ls[k])
    OBVIOUS
  <2>1. D[k] = DropLine(ls, D[k - 1], k)
    BY <1>2
  <2> QED BY <2>1 DEF DropLine
<1>4. Feed(NoFence, ls[o]) = open /\ open # NoFence
  <2>1. Feed(NoFence, ls[o]) # NoFence
    BY DEF IsQuoted
  <2>2. Feed(NoFence, ls[o]) = NoFence \/ Feed(NoFence, ls[o]) = open
    BY DEF Feed
  <2> QED BY <2>1, <2>2
<1>5. D[i - 1].fence = NoFence
  BY DEF Quoted, IsQuoted
<1> HIDE DEF D, open
<1>6. 0 \in S
  <2>1. D[o].fence = open
    BY <1>3, <1>4 DEF D
  <2>2. o + 0 = o /\ 0 \in 0..(i - 1 - o)
    BY <1>1
  <2> QED BY <2>1, <2>2
<1>7. ASSUME NEW k \in S, k < i - 1 - o PROVE k + 1 \in S
  <2> DEFINE e == (o + k) + 1
  <2>1. k \in Nat /\ k + 1 \in 0..(i - 1 - o) /\ D[o + k].fence = open
    BY <1>1, <1>7
  <2>2. e \in (o + 1)..(i - 1) /\ e \in 1..Len(ls) /\ e - 1 = o + k /\ e = o + (k + 1)
    BY <1>1, <1>7, <2>1
  <2> HIDE DEF e
  <2>3. D[e].fence = Feed(open, ls[e])
    BY <1>3, <2>1, <2>2
  <2>4. ~(ls[e].k = "fence" /\ ls[e].c = ls[o].c /\ ls[e].n >= ls[o].n /\ ls[e].info = "none")
    BY <2>2
  <2>5. open.c = ls[o].c /\ open.n = ls[o].n
    BY DEF open
  <2>6. Feed(open, ls[e]) = open
    BY <1>4, <2>4, <2>5 DEF Feed
  <2> QED BY <2>1, <2>2, <2>3, <2>6
<1>8. i - 1 - o \in S
  <2>1. S \in SUBSET Nat
    BY <1>1
  <2> HIDE DEF S
  <2>2. 0..(i - 1 - o) \subseteq S
    BY <1>1, <1>6, <1>7, <2>1, UpToInduction
  <2> QED BY <1>1, <2>2
<1>9. D[i - 1].fence = open
  <2>1. o + (i - 1 - o) = i - 1
    BY <1>1
  <2> QED BY <1>8, <2>1
<1> QED BY <1>4, <1>5, <1>9

-----------------------------------------------------------------------------
StartsBefore(cands) == [c \in cands |-> {d \in cands : Precedes(d, c)}]

\* the candidates are ranked by where they start
LEMMA StartsAreRanked ==
    ASSUME NEW cands \in SUBSET Candidate, IsFiniteSet(cands)
    PROVE  LET order == ByStart(cands) IN
           /\ order \in Seq(cands) /\ Len(order) = Cardinality(cands) /\ Len(order) \in Nat
           /\ DOMAIN order = 1..Len(order)
           /\ \A c \in cands : \E r \in DOMAIN order : order[r] = c
           /\ \A q, r \in DOMAIN order : q < r => Precedes(order[q], order[r])
<1> DEFINE before == StartsBefore(cands)
           order == ByStart(cands)
           n == Cardinality(cands)
<1>1. \A c \in cands : c \in [at : Nat, len : Nat \ {0}, prio : Nat]
  BY CandidateAssumption
<1>2. before \in [cands -> SUBSET cands]
  BY DEF StartsBefore
<1>3. \A c, d \in cands : c \in before[d] <=> Precedes(c, d)
  BY DEF StartsBefore
<1>4. \A c \in cands : ~Precedes(c, c)
  BY <1>1 DEF Precedes
<1>5. \A c, d, e \in cands : Precedes(c, d) /\ Precedes(d, e) => Precedes(c, e)
  BY <1>1 DEF Precedes
<1>6. \A c, d \in cands : c # d => Precedes(c, d) \/ Precedes(d, c)
  BY <1>1 DEF Precedes
<1> HIDE DEF before
<1>7. /\ \A c \in cands : Cardinality(before[c]) \in 0..n - 1
      /\ \A c, d \in cands : c \in before[d] <=> Cardinality(before[c]) < Cardinality(before[d])
      /\ \A r \in 1..n : \E c \in cands : Cardinality(before[c]) = r - 1
  <2>1. \A c \in cands : c \notin before[c]
    BY <1>3, <1>4
  <2>2. \A c, d \in cands : c \in before[d] => before[c] \subseteq before[d]
    BY <1>2, <1>3, <1>5
  <2>3. \A c, d \in cands : c # d => c \in before[d] \/ d \in before[c]
    BY <1>3, <1>6
  <2> QED BY <1>2, <2>1, <2>2, <2>3, RanksAreTaken
<1>8. /\ order \in [1..n -> cands]
      /\ \A r \in 1..n : Cardinality(before[order[r]]) = r - 1
  <2>1. \A c \in cands : before[c] = {d \in cands : Precedes(d, c)}
    BY DEF before, StartsBefore
  <2> DEFINE G(r) == CHOOSE c \in cands : Cardinality({d \in cands : Precedes(d, c)}) = r - 1
  <2>2. order = [r \in 1..n |-> G(r)]
    BY DEF ByStart
  <2>3. ASSUME NEW r \in 1..n
        PROVE  G(r) \in cands /\ Cardinality(before[G(r)]) = r - 1
    <3> DEFINE Ranked(c) == Cardinality({d \in cands : Precedes(d, c)}) = r - 1
    <3>1. G(r) = CHOOSE c \in cands : Ranked(c)
      OBVIOUS
    <3>2. PICK c \in cands : Cardinality(before[c]) = r - 1
      BY <1>7
    <3>3. Ranked(c)
      BY <2>1, <3>2
    <3> HIDE DEF Ranked, G
    <3>4. G(r) \in cands /\ Ranked(G(r))
      BY <3>1, <3>3
    <3> QED BY <2>1, <3>4 DEF Ranked
  <2> HIDE DEF order, n, G
  <2> QED BY <2>2, <2>3
<1> HIDE DEF order, n
<1>9. \A c, d \in cands : c # d => c \in before[d] \/ d \in before[c]
  BY <1>3, <1>6
<1>10. /\ order \in Seq(cands) /\ Len(order) = n /\ DOMAIN order = 1..Len(order) /\ Len(order) \in Nat
       /\ \A c \in cands : \E r \in DOMAIN order : order[r] = c
       /\ \A q, r \in DOMAIN order : q < r => order[q] \in before[order[r]]
  BY <1>2, <1>7, <1>8, <1>9, RankingLists DEF n
<1>11. \A q, r \in DOMAIN order : q < r => Precedes(order[q], order[r])
  <2>1. \A r \in DOMAIN order : order[r] \in cands
    BY <1>8, <1>10
  <2> QED BY <1>3, <1>10, <2>1
<1> QED BY <1>10, <1>11 DEF order, n

\* Taking is the fold it describes.
LEMMA TakingUnrolls ==
    ASSUME NEW order \in Seq(Candidate)
    PROVE  LET T == Taking(order) IN
           /\ T \in [0..Len(order) -> Seq(Candidate)]
           /\ T[0] = <<>>
           /\ \A m \in 1..Len(order) : T[m] = TakeSpan(T[m - 1], order[m])
<1> DEFINE n == Len(order)
           V == Seq(Candidate)
           base == <<>>
           step == [p \in V \X (1..n) |-> TakeSpan(p[1], order[p[2]])]
           Solves(f) == f = [m \in 0..n |-> IF m = 0 THEN <<>> ELSE TakeSpan(f[m - 1], order[m])]
<1>1. base \in V
  OBVIOUS
<1>2. n \in Nat /\ \A m \in 1..n : order[m] \in Candidate
  OBVIOUS
<1> HIDE DEF n
<1>3. \A out \in V : \A m \in 1..n : TakeSpan(out, order[m]) \in V
  BY <1>2 DEF TakeSpan
<1>4. step \in [V \X (1..n) -> V]
  BY <1>3
<1>5. \A p \in V \X (1..n) : step[p] = TakeSpan(p[1], order[p[2]])
  OBVIOUS
<1>6. Taking(order) = CHOOSE f : Solves(f)
  BY DEF Taking, n
<1> HIDE DEF base, step, V
<1>7. PICK f \in [0..n -> V] : Recurs(f, n, base, step)
  BY <1>1, <1>2, <1>4, RecursionExists
<1>8. \A m \in 1..n : f[m] = TakeSpan(f[m - 1], order[m])
  <2> TAKE m \in 1..n
  <2>1. <<f[m - 1], m>> \in V \X (1..n)
    BY <1>2
  <2> QED BY <1>5, <1>7, <2>1 DEF Recurs
<1>9. Solves(f)
  BY <1>2, <1>7, <1>8 DEF Recurs, base
<1>10. Solves(Taking(order))
  <2> HIDE DEF Solves
  <2> QED BY <1>6, <1>9
<1> DEFINE T == Taking(order)
<1>11. DOMAIN T = 0..n /\ T[0] = base /\ \A m \in 1..n : T[m] = TakeSpan(T[m - 1], order[m])
  BY <1>2, <1>10 DEF base
<1>12. T \in [0..n -> V]
  <2> DEFINE S == {m \in 0..n : T[m] \in V}
  <2> HIDE DEF T
  <2>1. S \in SUBSET Nat /\ 0 \in S
    BY <1>1, <1>2, <1>11
  <2>2. ASSUME NEW m \in S, m < n PROVE m + 1 \in S
    <3>1. m + 1 \in 1..n /\ T[m] \in V /\ (m + 1) - 1 = m
      BY <1>2, <2>2
    <3>2. T[m + 1] = TakeSpan(T[m], order[m + 1])
      BY <1>11, <3>1
    <3> QED BY <1>2, <1>3, <3>1, <3>2
  <2>3. 0..n \subseteq S
    <3> HIDE DEF S
    <3> QED BY <1>2, <2>1, <2>2, UpToInduction
  <2>4. T = [m \in 0..n |-> T[m]]
    BY <1>10 DEF T
  <2> QED BY <2>3, <2>4
<1> QED BY <1>2, <1>11, <1>12 DEF n, base, V

\* the spans taken from the first m of an order: they follow each other, and
\* what was not taken begins in one that was
TakenOf(order, m, out) ==
    /\ out \in Seq(Candidate)
    /\ \A j \in DOMAIN out : \E q \in 1..m : order[q] = out[j]
    /\ \A j, k \in DOMAIN out : j < k => out[j].at + out[j].len <= out[k].at
    /\ \A q \in 1..m : order[q] \in ToSet(out) \/
           \E d \in ToSet(out) : /\ Meet(order[q], d)
                                 /\ d.at < order[q].at \/ (d.at = order[q].at /\ d.len >= order[q].len)

\* One more candidate.
LEMMA TakingOne ==
    ASSUME NEW order \in Seq(Candidate), NEW m \in Nat, m + 1 \in 1..Len(order), NEW out,
           TakenOf(order, m, out),
           \A q, r \in 1..Len(order) : q < r => Precedes(order[q], order[r])
    PROVE  TakenOf(order, m + 1, TakeSpan(out, order[m + 1]))
<1> DEFINE c == order[m + 1]
           l == Len(out)
<1>1. /\ out \in Seq(Candidate) /\ l \in Nat /\ DOMAIN out = 1..l /\ Len(order) \in Nat
      /\ \A q \in 1..Len(order) : order[q] \in Candidate
      /\ c \in Candidate
      /\ \A j \in 1..l : out[j] \in Candidate
  BY DEF TakenOf
<1>2. \A x \in Candidate : x \in [at : Nat, len : Nat \ {0}, prio : Nat]
  BY CandidateAssumption
<1>3. CASE out # <<>> /\ c.at < out[l].at + out[l].len
  <2>1. TakeSpan(out, c) = out
    BY <1>3 DEF TakeSpan
  <2>2. l \in DOMAIN out
    BY <1>1, <1>3
  <2>3. PICK q \in 1..m : order[q] = out[l]
    BY <2>2 DEF TakenOf
  <2>4. Precedes(out[l], c)
    BY <1>1, <2>3
  <2>5. out[l] \in [at : Nat, len : Nat \ {0}, prio : Nat] /\ c \in [at : Nat, len : Nat \ {0}, prio : Nat]
    BY <1>1, <1>2, <2>2
  <2>6. Meet(c, out[l]) /\ (out[l].at < c.at \/ (out[l].at = c.at /\ out[l].len >= c.len))
    BY <1>3, <2>4, <2>5 DEF Meet, Precedes
  <2>7. out[l] \in ToSet(out)
    BY <2>2 DEF ToSet
  <2> HIDE DEF l
  <2>8. \A r \in 1..(m + 1) : r \in 1..m \/ r = m + 1
    OBVIOUS
  <2>9. \A r \in 1..(m + 1) : order[r] \in ToSet(out) \/
            \E d \in ToSet(out) : /\ Meet(order[r], d)
                                  /\ d.at < order[r].at \/ (d.at = order[r].at /\ d.len >= order[r].len)
    BY <2>6, <2>7, <2>8 DEF TakenOf
  <2>10. \A j \in DOMAIN out : \E r \in 1..(m + 1) : order[r] = out[j]
    <3>1. 1..m \subseteq 1..(m + 1)
      OBVIOUS
    <3> QED BY <3>1 DEF TakenOf
  <2>11. TakenOf(order, m + 1, out)
    BY <2>9, <2>10 DEF TakenOf
  <2> QED BY <2>1, <2>11
<1>4. CASE ~(out # <<>> /\ c.at < out[l].at + out[l].len)
  <2> DEFINE new == Append(out, c)
  <2>1. TakeSpan(out, c) = new
    BY <1>4 DEF TakeSpan
  <2>2. /\ new \in Seq(Candidate) /\ DOMAIN new = 1..(l + 1)
        /\ \A j \in 1..l : new[j] = out[j]
        /\ new[l + 1] = c
    BY <1>1
  <2>3. ToSet(new) = ToSet(out) \cup {c}
    BY <1>1, AppendedSet
  <2> HIDE DEF new, l
  <2>4. ASSUME NEW j \in DOMAIN new PROVE \E r \in 1..(m + 1) : order[r] = new[j]
    <3>1. CASE j = l + 1
      BY <2>2, <3>1
    <3>2. CASE j \in 1..l
      <4>1. PICK q \in 1..m : order[q] = out[j]
        BY <1>1, <3>2 DEF TakenOf
      <4> QED BY <2>2, <3>2, <4>1
    <3> QED BY <1>1, <2>2, <3>1, <3>2
  <2>5. ASSUME NEW j \in DOMAIN new, NEW k \in DOMAIN new, j < k
        PROVE  new[j].at + new[j].len <= new[k].at
    <3>1. j \in 1..l /\ (k \in 1..l \/ k = l + 1)
      BY <1>1, <2>2, <2>5
    <3>2. CASE k \in 1..l
      BY <1>1, <2>2, <2>5, <3>1, <3>2 DEF TakenOf
    <3>3. CASE k = l + 1
      <4>1. l \in DOMAIN out /\ j \in DOMAIN out /\ out # <<>> /\ j <= l
        BY <1>1, <3>1
      <4>2. /\ out[l] \in [at : Nat, len : Nat \ {0}, prio : Nat]
            /\ out[j] \in [at : Nat, len : Nat \ {0}, prio : Nat]
            /\ c \in [at : Nat, len : Nat \ {0}, prio : Nat]
        BY <1>1, <1>2, <4>1
      <4>3. out[l].at + out[l].len <= c.at
        BY <1>4, <4>1, <4>2
      <4>4. j < l => out[j].at + out[j].len <= out[l].at
        BY <4>1 DEF TakenOf
      <4>5. out[j].at + out[j].len <= c.at
        <5>1. CASE j = l
          BY <4>3, <5>1
        <5>2. CASE j < l
          BY <4>2, <4>3, <4>4, <5>2
        <5> QED BY <1>1, <3>1, <5>1, <5>2
      <4> QED BY <2>2, <3>1, <3>3, <4>5
    <3> QED BY <3>1, <3>2, <3>3
  <2>6. ASSUME NEW r \in 1..(m + 1)
        PROVE  order[r] \in ToSet(new) \/
               \E d \in ToSet(new) : /\ Meet(order[r], d)
                                     /\ d.at < order[r].at \/ (d.at = order[r].at /\ d.len >= order[r].len)
    <3>1. r \in 1..m \/ r = m + 1
      OBVIOUS
    <3>2. CASE r = m + 1
      BY <2>3, <3>2
    <3>3. CASE r \in 1..m
      BY <2>3, <3>3 DEF TakenOf
    <3> QED BY <3>1, <3>2, <3>3
  <2>7. TakenOf(order, m + 1, new)
    BY <2>2, <2>4, <2>5, <2>6 DEF TakenOf
  <2> QED BY <2>1, <2>7
<1> QED BY <1>3, <1>4

\* Every candidate is taken or begins in one that is.
LEMMA LiteralsAreTakenOnce ==
    ASSUME NEW cands \in SUBSET Candidate, IsFiniteSet(cands)
    PROVE  LET out == ExtractLiterals(cands) IN
           /\ out \in Seq(Candidate)
           /\ \A i, j \in DOMAIN out : i < j => out[i].at + out[i].len <= out[j].at
           /\ \A c \in cands \ ToSet(out) : \E d \in ToSet(out) :
                 Meet(c, d) /\ (d.at < c.at \/ (d.at = c.at /\ d.len >= c.len))
<1> DEFINE order == ByStart(cands)
           n == Len(order)
           T == Taking(order)
           S == {m \in 0..n : TakenOf(order, m, T[m])}
<1>1. /\ order \in Seq(cands) /\ n = Cardinality(cands) /\ n \in Nat /\ DOMAIN order = 1..n
      /\ \A c \in cands : \E r \in 1..n : order[r] = c
      /\ \A q, r \in 1..n : q < r => Precedes(order[q], order[r])
  BY StartsAreRanked
<1> HIDE DEF order
<1>2. order \in Seq(Candidate)
  BY <1>1
<1>3. T[0] = <<>> /\ \A m \in 1..n : T[m] = TakeSpan(T[m - 1], order[m])
  BY <1>2, TakingUnrolls
<1>4. 0 \in S
  <2>1. TakenOf(order, 0, <<>>)
    BY DEF TakenOf
  <2> HIDE DEF T, n
  <2> QED BY <1>1, <1>3, <2>1
<1>5. ASSUME NEW m \in S, m < n PROVE m + 1 \in S
  <2>1. m \in Nat /\ m + 1 \in 1..n /\ (m + 1) - 1 = m /\ m + 1 \in 0..n
    BY <1>1, <1>5
  <2>2. TakenOf(order, m, T[m])
    <3> HIDE DEF T, n
    <3> QED BY <1>5
  <2> HIDE DEF T
  <2>3. TakenOf(order, m + 1, TakeSpan(T[m], order[m + 1]))
    BY <1>1, <1>2, <2>1, <2>2, TakingOne
  <2> QED BY <1>3, <2>1, <2>3
<1>6. n \in S
  <2>1. S \in SUBSET Nat
    BY <1>1
  <2> HIDE DEF S, n
  <2>2. 0..n \subseteq S
    BY <1>1, <1>4, <1>5, <2>1, UpToInduction
  <2> QED BY <1>1, <2>2
<1> DEFINE out == ExtractLiterals(cands)
<1>7. TakenOf(order, n, out)
  <2>1. out = T[n]
    BY <1>1 DEF ExtractLiterals, order
  <2> HIDE DEF T, n, out
  <2> QED BY <1>6, <2>1
<1> HIDE DEF out, n
<1>8. ASSUME NEW c \in cands \ ToSet(out)
      PROVE  \E d \in ToSet(out) : Meet(c, d) /\ (d.at < c.at \/ (d.at = c.at /\ d.len >= c.len))
  <2>1. PICK r \in 1..n : order[r] = c
    BY <1>1
  <2> QED BY <1>7, <1>8, <2>1 DEF TakenOf
<1> QED BY <1>7, <1>8 DEF TakenOf, out

-----------------------------------------------------------------------------
\* The inputs: a message's lines, and its candidates.
TextInv ==
    /\ message \in Seq(MessageLine)
    /\ spans \in SUBSET Candidate /\ IsFiniteSet(spans)

\* The inputs are of their types.
LEMMA TextInvHolds == TextSpec => []TextInv
<1>1. TextInit => TextInv
  BY FS_EmptySet DEF TextInit, TextInv
<1>2. TextInv /\ [TextNext]_textVars => TextInv'
  <2> SUFFICES ASSUME TextInv, [TextNext]_textVars PROVE TextInv'
    OBVIOUS
  <2>1. CASE \E l \in MessageLine : AddLine(l)
    BY <2>1 DEF AddLine, TextInv
  <2>2. CASE \E c \in Candidate : AddCandidate(c)
    BY <2>2, FS_AddElement DEF AddCandidate, TextInv
  <2>3. CASE UNCHANGED textVars
    BY <2>3 DEF textVars, TextInv
  <2> QED BY <2>1, <2>2, <2>3 DEF TextNext
<1> QED BY <1>1, <1>2, PTL DEF TextSpec

\* The four properties of the sentences, for one message.
LEMMA StatedIsWhole ==
    ASSUME message \in Seq(MessageLine)
    PROVE  NothingStitched /\ MarkersLead /\ FenceFailsClosed /\ WrapsAreWhole
<1> DEFINE out == JoinSoftWraps(message, Unquoted)
<1>1. /\ LeftOf(message, Len(message), Unquoted) /\ Unquoted \in Seq(Nat)
      /\ BlocksOf(message, Unquoted, Len(Unquoted), out)
  BY UnquotedIsLeft DEF Unquoted
<1>2. \A s \in Stated : s \in ToSet(out)
  BY DEF Stated, Sentences
<1> HIDE DEF out
<1>3. \A s \in Stated : \E b \in DOMAIN out : s = out[b]
  BY <1>2 DEF ToSet
<1>4. NothingStitched
  <2> SUFFICES ASSUME NEW s \in Stated, NEW j \in 1..(Len(s) - 1) PROVE s[j + 1] = s[j] + 1
    BY DEF NothingStitched
  <2>1. PICK b \in DOMAIN out : s = out[b]
    BY <1>3
  <2> QED BY <1>1, <2>1 DEF BlocksOf
<1>5. MarkersLead
  <2> SUFFICES ASSUME NEW s \in Stated, NEW j \in 2..Len(s) PROVE message[s[j]].mark = "none"
    BY DEF MarkersLead
  <2>1. PICK b \in DOMAIN out : s = out[b]
    BY <1>3
  <2> QED BY <1>1, <2>1 DEF BlocksOf
<1>6. FenceFailsClosed
  <2> SUFFICES ASSUME NEW o \in DOMAIN message, NEW i \in DOMAIN message, o < i,
                      Dropping(message)[o - 1].fence = NoFence, IsQuoted(NoFence, message[o]),
                      NEW s \in Stated, i \in ToSet(s)
               PROVE  \E e \in (o + 1)..(i - 1) :
                        /\ message[e].k = "fence" /\ message[e].c = message[o].c
                        /\ message[e].n >= message[o].n /\ message[e].info = "none"
    BY DEF FenceFailsClosed
  <2>1. DOMAIN message = 1..Len(message)
    OBVIOUS
  <2>2. ~Quoted(message, i)
    BY <1>2, BlocksAreUnquoted DEF out, Unquoted
  <2> QED BY <2>1, <2>2, FenceHolds
<1>7. WrapsAreWhole
  <2> SUFFICES ASSUME NEW i \in 1..(Len(message) - 1),
                      {i, i + 1} \subseteq ToSet(Unquoted),
                      message[i].k \in {"prose", "fence"}, ~message[i].ends,
                      message[i + 1].k = "prose", message[i + 1].mark = "none",
                      i > 1 => message[i - 1].k = "blank",
                      NEW s \in Stated
               PROVE  i \in ToSet(s) <=> i + 1 \in ToSet(s)
    BY DEF WrapsAreWhole
  <2>1. i \in Nat /\ i # 0 /\ Len(message) \in Nat
    OBVIOUS
  <2>2. PICK p \in DOMAIN Unquoted : Unquoted[p] = i
    BY DEF ToSet
  <2>3. PICK q \in DOMAIN Unquoted : Unquoted[q] = i + 1
    BY DEF ToSet
  <2>4. PICK b \in DOMAIN out : s = out[b]
    BY <1>3
  <2> QED BY <1>1, <2>1, <2>2, <2>3, <2>4, WrapIsJoined DEF out
<1> QED BY <1>4, <1>5, <1>6, <1>7

\* Whatever the lines of a message and the candidates found in it: no sentence
\* joins lines across a quotation or buries a marker, nothing behind an open
\* fence is stated, no wrap is severed, and identifiers are taken once
\* (_drop_fenced, _join_soft_wraps, _sentences, _extract_literals).
THEOREM RecordsStayWhole == TextSpec => []RecordsReadWhole
<1>1. TextInv => RecordsReadWhole
  <2> SUFFICES ASSUME TextInv PROVE RecordsReadWhole
    OBVIOUS
  <2>1. LiteralsTakeOnce
    BY LiteralsAreTakenOnce DEF TextInv, LiteralsTakeOnce, Mined
  <2>2. NothingStitched /\ MarkersLead /\ FenceFailsClosed /\ WrapsAreWhole
    BY StatedIsWhole DEF TextInv
  <2> QED BY <2>1, <2>2 DEF RecordsReadWhole
<1> QED BY <1>1, TextInvHolds, PTL

=============================================================================
