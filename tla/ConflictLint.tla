---------------------------- MODULE ConflictLint ----------------------------
(***************************************************************************)
(* lint_decisions of ctxpack/agent/conflict_lint.py over the ledger of     *)
(* TranscriptParser: the canonical decisions of the session against the    *)
(* constraints banked before them.  The shared-phrase and protected-phrase *)
(* matches are relations on sentences: Means[d].clash holds the constraint *)
(* texts a decision shares a phrase with, Means[d].prot the protected      *)
(* subjects it contains.                                                   *)
(***************************************************************************)
EXTENDS TranscriptParser

CONSTANTS
    Banked,     \* constraints of earlier sessions, in journal order
    Subjects,   \* protected.json, in the file's order
    LintCap     \* MAX_ROWS: rows after which no further decision is examined

ASSUME LintAssumption ==
    LintCap \in Nat /\ Banked \in Seq(ToSet(Banked)) /\ Subjects \in Seq(ToSet(Subjects))

\* only Decision:-marked facts; aliases and verb patterns would cry wolf
IsDecision(e) ==
    e.name[1] = "DECISION" /\ e.basis = "marker_stated" /\ Is(e.name[2], "mark")
Decisions(led) == Picked(led, {i \in DOMAIN led : IsDecision(led[i])})

\* turn NoTurn: durable memory, which applies to every turn
NoTurn == -1
Constraints(led) ==
    LET own == Picked(led, {i \in DOMAIN led : led[i].name[1] = "CONSTRAINT"}) IN
    [i \in DOMAIN Banked |-> [fact |-> Banked[i], turn |-> NoTurn]]
        \o [i \in DOMAIN own |-> [fact |-> own[i].name, turn |-> own[i].turn]]

InScope(c, d) == c.turn = NoTurn \/ c.turn < d.turn
\* (mutant) any override resolves
RowByAnyOverride(case, d, against, resolved) ==
    [case |-> case, fact |-> d.name, turn |-> d.turn, against |-> against,
     resolved |-> d.sup # NoFact]
LintRow(case, d, against, resolved) ==
    [case |-> case, fact |-> d.name, turn |-> d.turn, against |-> against,
     resolved |-> resolved]
Key(r) == <<r.fact, r.case, r.against>>

RulesInScope(cs, d) == {i \in DOMAIN cs : InScope(cs[i], d)}
Compared(led, d) == RulesInScope(Constraints(led), d)

\* what one decision is charged with: every constraint in scope whose phrase
\* it shares, then every protected subject it contains
Opposing(cs, d) ==
    Picked(cs, {i \in RulesInScope(cs, d) : cs[i].fact[2] \in Means[d.name[2]].clash})
Guarding(d) ==
    Picked(Subjects, {i \in DOMAIN Subjects : Subjects[i] \in Means[d.name[2]].prot})
Charged(d, against, shielded) ==
    [i \in DOMAIN against |->
        LintRow("constraint_collision", d, against[i].fact,
                d.why # NoReason /\ d.sup = against[i].fact)]
    \o [i \in DOMAIN shielded |->
        LintRow("protected_subject", d, <<"SUBJECT", shielded[i]>>, d.why # NoReason)]
Charges(led, d) == Charged(d, Opposing(Constraints(led), d), Guarding(d))

\* a row for each charge whose key was not seen before
Note(rows, r) == IF \A i \in DOMAIN rows : Key(rows[i]) # Key(r) THEN Append(rows, r) ELSE rows
NoteAll(rows, rs) ==
    LET after[i \in 0..Len(rs)] == IF i = 0 THEN rows ELSE Note(after[i - 1], rs[i])
    IN after[Len(rs)]

Counted(acc, rows, compared, inScope) ==
    [rows |-> rows,
     linted |-> acc.linted + 1,
     compared |-> acc.compared + compared,
     gated |-> acc.gated + inScope - compared,
     protected |-> acc.protected + Len(Subjects),
     truncated |-> Len(rows) >= LintCap]
Examine(acc, d, led) ==
    IF acc.truncated THEN acc
    ELSE Counted(acc, NoteAll(acc.rows, Charges(led, d)), Cardinality(Compared(led, d)),
                 Len(Constraints(led)))

Unexamined ==
    [rows |-> <<>>, linted |-> 0, compared |-> 0, gated |-> 0, protected |-> 0,
     truncated |-> FALSE]
Examined(led) ==
    LET ds == Decisions(led)
        after[i \in 0..Len(ds)] == IF i = 0 THEN Unexamined ELSE Examine(after[i - 1], ds[i], led)
    IN after[Len(ds)]
AtMost(s, n) == SubSeq(s, 1, IF Len(s) < n THEN Len(s) ELSE n)
LintRows(led) == AtMost(Examined(led).rows, LintCap)

-----------------------------------------------------------------------------
\* the pairs the lint owes a row, whatever order it looks in
Collisions(led) ==
    {<<p[1].name, "constraint_collision", p[2].fact>> : p \in
        {q \in ToSet(Decisions(led)) \X ToSet(Constraints(led)) :
            InScope(q[2], q[1]) /\ q[2].fact[2] \in Means[q[1].name[2]].clash}}
    \cup {<<p[1].name, "protected_subject", <<"SUBJECT", p[2]>>>> : p \in
        {q \in ToSet(Decisions(led)) \X ToSet(Subjects) : q[2] \in Means[q[1].name[2]].prot}}

(* A lint that does not say it stopped early has reported every collision, *)
(* and each once; one that says so has filled its rows.                    *)
SilenceMeansClean ==
    LET found == LintRows(ents)  keys == {Key(found[i]) : i \in DOMAIN found} IN
    /\ keys \subseteq Collisions(ents) /\ Cardinality(keys) = Len(found)
    /\ Examined(ents).truncated => Len(found) = LintCap
    /\ ~Examined(ents).truncated => keys = Collisions(ents)

(* The coverage counters are marginals of the work done: the comparisons   *)
(* and the turn-gated pairs add up to the examined decisions times the     *)
(* constraints, and decisions are left out only behind truncated.          *)
CountersAddUp ==
    LET x == Examined(ents) IN
    /\ x.compared + x.gated = x.linted * Len(Constraints(ents))
    /\ x.protected = x.linted * Len(Subjects)
    /\ ~x.truncated => x.linted = Len(Decisions(ents))

(* No decision is ever convicted by text of its own or a later turn: as    *)
(* the session goes on its rows stay, in their order, and every new row is *)
(* about a decision made in the new entry, whenever the events block is    *)
(* materialised.                                                           *)
NoRetroactiveConflict ==
    [][LET old == LintRows(ents)  new == LintRows(ents') IN
       /\ Len(new) >= Len(old)
       /\ \A i \in DOMAIN old : Key(new[i]) = Key(old[i])
       /\ \A i \in (Len(old) + 1)..Len(new) : i <= LintCap =>
            (Len(old) < LintCap /\ ~Examined(ents).truncated => new[i].turn = Turn)]_parserVars

(* A conflict leaves the UNRESOLVED list only by an override that names it *)
(* and gives a reason; once resolved it stays resolved.                    *)
ResolutionIsExplicit ==
    [][\A i \in DOMAIN LintRows(ents) :
        LET old == LintRows(ents)[i]  new == LintRows(ents')[i] IN
        /\ old.resolved => new.resolved
        /\ (new.resolved /\ ~old.resolved) =>
            \E s \in ToSet(log'[Len(log')].txt) \cap Sentence :
                Is(s, "sup") /\ Means[s].why # NoReason]_parserVars

(* A lint misses nothing it does not admit to, convicts nobody by later    *)
(* text, and forgets a conflict only when it is resolved in words.         *)
LintIsHonest ==
    /\ [](SilenceMeansClean /\ CountersAddUp)
    /\ NoRetroactiveConflict
    /\ ResolutionIsExplicit

=============================================================================
