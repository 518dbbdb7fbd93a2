-------------------------------- MODULE Rank --------------------------------
(***************************************************************************)
(* rank/v1 of ctxpack/core/rank.py: the salience of every fact as a fold   *)
(* of the event log.  Scores are in hundredths, a final score in           *)
(* millionths (the code rounds to six places).                             *)
(*                                                                         *)
(* A row is [ev, fact, kind, basis, marker, lit, session, foreign, id,     *)
(* type]: id and type are an incident's, foreign says its cwd is not the   *)
(* project's.                                                              *)
(***************************************************************************)
EXTENDS Integers, Sequences, FiniteSets

CONSTANTS RowKind,      \* the event rows that occur
          MaxEvents     \* bound: rows of the log

VARIABLE events         \* events.jsonl, in file order

KindPrior == [CONSTRAINT |-> 300, DECISION |-> 240, FAILED |-> 220, INCIDENT |-> 200,
              LITERAL |-> 180, REQUEST |-> 120, TASK |-> 120, ERROR |-> 100, FILE |-> 100]
MarkerMult(m) == IF m \in {"verdict", "conclusion", "confirmed"} THEN 70 ELSE 100
LiteralMult(k) == IF k = "path" THEN 90 ELSE IF k = "number_unit" THEN 70 ELSE 100

\* prior_for: inferred halves a decision, and only a decision
PriorFor(r) ==
    LET p == IF r.kind \in DOMAIN KindPrior THEN KindPrior[r.kind] ELSE 100 IN
    CASE r.kind = "DECISION" ->
            (p * (IF r.basis = "inferred" THEN 50 ELSE 100) * MarkerMult(r.marker)) \div 10000
      [] r.kind = "LITERAL" -> (p * LiteralMult(r.lit)) \div 100
      [] OTHER -> p

\* fold_events: the rows that count, and what each says of a fact
Kept(log) == {i \in DOMAIN log : ~log[i].foreign}
RowsOf(log, ev, f) == {i \in Kept(log) : log[i].ev = ev /\ log[i].fact = f}
Ranked(log) == {log[i].fact : i \in {j \in Kept(log) : log[j].ev = "fact_asserted"}}
First(I) == CHOOSE i \in I : \A j \in I : i <= j
Latest(I) == CHOOSE i \in I : \A j \in I : j <= i
Clamp(x, lo, hi) == IF x < lo THEN lo ELSE IF x > hi THEN hi ELSE x

\* incidents are re-emitted by every checkpoint: one identity counts once, as
\* what it was first
CountedIncidents(log, f, type) ==
    Cardinality({log[i].id : i \in {j \in RowsOf(log, "incident", f) :
        log[j].type = type
          /\ \A k \in RowsOf(log, "incident", f) : k < j => log[k].id # log[j].id}})
Delta(log, f) ==
    LET n(type) == CountedIncidents(log, f, type) IN
    Clamp(50 * (n("saved") + n("missed")) - 100 * (n("corrected") + n("stale"))
            - 150 * n("wrong") - 50 * n("conflicting") - 25 * n("native"), -200, 100)

\* (mutant) every assertion counts
BoostByRows(log, f) == Clamp(20 * (Cardinality(RowsOf(log, "fact_asserted", f)) - 1), 0, 100)
Boost(log, f) ==
    LET n == Cardinality({log[i].session : i \in RowsOf(log, "fact_asserted", f)})
    IN Clamp(20 * (n - 1), 0, 100)

\* everything but recency
Weight(log, f) ==
    PriorFor(log[First(RowsOf(log, "fact_asserted", f))]) + Boost(log, f) + Delta(log, f)
        + (IF RowsOf(log, "fact_superseded", f) # {} THEN -100 ELSE 0)

Recency(log, f) ==
    LET last == Latest(RowsOf(log, "fact_asserted", f))
        before == Cardinality({i \in Kept(log) : i < last})
        span == Cardinality(Kept(log)) - 1
    IN IF span = 0 THEN 0 ELSE (2 * 10000 * before + span) \div (2 * span)

FloorOf(log, f) ==
    IF log[First(RowsOf(log, "fact_asserted", f))].kind = "CONSTRAINT" THEN 250 ELSE -1000

Score(log, f) ==
    LET s == 10000 * Weight(log, f) + Recency(log, f)
        floor == 10000 * FloorOf(log, f)
    IN IF s < floor THEN floor ELSE s

FoldEvents(log) == [f \in Ranked(log) |-> Score(log, f)]

-----------------------------------------------------------------------------
RankInit == events = <<>>
Emit(r) == Len(events) < MaxEvents /\ events' = Append(events, r)
RankNext == \E r \in RowKind : Emit(r)
RankSpec == RankInit /\ [][RankNext]_events

Standing(log, f) ==
    LET w == Weight(log, f) IN IF w < FloorOf(log, f) THEN FloorOf(log, f) ELSE w

(* Recency is a strict tie-breaker: whatever was asserted last, a fact of  *)
(* less standing never overtakes one of more (RECENCY_EPSILON is smaller   *)
(* than any gap the priors, boosts, incidents and floors can leave).       *)
RecencyOnlyBreaksTies ==
    LET score == FoldEvents(events) IN
    \A f, g \in DOMAIN score :
        Standing(events, f) > Standing(events, g) => score[f] >= score[g]

(* A block of rows that a later checkpoint or a rebuild emits again moves  *)
(* nothing but recency: the same session asserting, the same incident and  *)
(* the same override count once.                                           *)
ReplayIsNeutral ==
    \A i \in DOMAIN events : \A f \in Ranked(events) :
        Standing(events \o SubSeq(events, i, Len(events)), f) = Standing(events, f)

(* Rows of a foreign workspace (a benchmark harness) have no effect at     *)
(* all, wherever in the log they stand.                                    *)
ForeignRowsInert ==
    \A i \in DOMAIN events : events[i].foreign =>
        FoldEvents(SubSeq(events, 1, i - 1) \o SubSeq(events, i + 1, Len(events))) = FoldEvents(events)

(* A rank depends on what was asserted, not on how often or where it was   *)
(* logged.                                                                 *)
RankIsReplayStable ==
    /\ RecencyOnlyBreaksTies
    /\ ReplayIsNeutral
    /\ ForeignRowsInert

=============================================================================
