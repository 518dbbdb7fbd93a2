-------------------------------- MODULE Gist --------------------------------
(***************************************************************************)
(* build_gist of ctxpack/agent/checkpoint.py: the ledger and the lint rows *)
(* rendered under a token budget.  rank/v0 cuts whole lines from the end,  *)
(* rank/v1 evicts the fact of lowest rank, wherever it stands.             *)
(*                                                                         *)
(* Every line costs one unit of the budget.  A line is <<"head", i>>,      *)
(* <<"conflict", key>>, <<"title", kind>> or a fact's name.                *)
(***************************************************************************)
EXTENDS ConflictLint

CONSTANTS
    GistBudget,     \* GIST_BPE_BUDGET, in lines
    LiteralCap,     \* _GIST_LITERAL_CAP
    ConflictCap,    \* _GIST_CONFLICT_CAP
    RankOf(_)       \* _entity_rank of an entity's name under the active fold

ASSUME GistAssumption ==
    /\ {GistBudget, LiteralCap, ConflictCap} \subseteq Nat
    /\ \A n \in EntityNames : RankOf(n) \in Int

GistKinds == <<"CONSTRAINT", "DECISION", "LITERAL", "FAILED-APPROACH", "INCIDENT",
               "USER-REQUEST", "TASK", "ERROR", "FILE">>
Sectioned == ToSet(GistKinds)

LastOf(s, n) == SubSeq(s, IF Len(s) < n THEN 1 ELSE Len(s) - n + 1, Len(s))

Unresolved(led) ==
    LET rows == LintRows(led) IN Picked(rows, {i \in DOMAIN rows : ~rows[i].resolved})

\* the header, the conflicts and the lint's own coverage line come first
Header(open) ==
    LET shown == AtMost(open, ConflictCap)
    IN <<<<"head", 1>>, <<"head", 2>>, <<"head", 3>>>>
       \o (IF open = <<>> THEN <<>> ELSE <<<<"head", 4>>, <<"head", 5>>>>)
       \o [i \in DOMAIN shown |-> <<"conflict", Key(shown[i])>>]
       \o (IF Len(open) > Len(shown) THEN <<<<"more", Len(open) - Len(shown)>>>> ELSE <<>>)
       \o <<<<"head", 6>>, <<"head", 7>>>>

OfKind(led, kind) == Picked(led, {i \in DOMAIN led : led[i].name[1] = kind})
Section(kind, es) ==
    IF es = <<>> THEN <<>>
    ELSE <<<<"blank", kind>>, <<"title", kind>>>> \o [i \in DOMAIN es |-> es[i].name]

\* the header, then a section for each kind that has facts
NextSection(lines, k, facts) == lines \o Section(GistKinds[k], facts[GistKinds[k]])
Render(open, facts) ==
    LET upto[k \in 0..Len(GistKinds)] ==
            IF k = 0 THEN Header(open) ELSE NextSection(upto[k - 1], k, facts)
    IN upto[Len(GistKinds)]

\* without ranks: most-recent identifiers, and the last lines go first
StaticGist(led, open) ==
    LET capped == [kind \in Sectioned |->
                      IF kind = "LITERAL" THEN LastOf(OfKind(led, kind), LiteralCap)
                      ELSE OfKind(led, kind)]
        room == IF GistBudget < 4 THEN 4 ELSE GistBudget
    IN AtMost(Render(open, capped), room)

\* (mutant) the newest goes first, whatever it ranks
BelowByAge(a, b) == a.turn > b.turn
\* with ranks: the oldest of the lowest rank is evicted until the text fits
Below(a, b) ==
    \/ RankOf(a.name) < RankOf(b.name)
    \/ RankOf(a.name) = RankOf(b.name) /\ a.turn < b.turn

RankedLines(open, es) == Render(open, [kind \in Sectioned |-> OfKind(es, kind)])

\* the identifiers kept are those that fewer than the cap stand above; of two
\* that stand alike the first does
TopLiterals(led) ==
    LET lits == {i \in DOMAIN led : led[i].name[1] = "LITERAL"}
        above(i) == {j \in lits : Below(led[i], led[j]) \/ (~Below(led[j], led[i]) /\ j < i)}
    IN Picked(led, {i \in DOMAIN led :
                        led[i].name[1] \in Sectioned
                            /\ (i \in lits => Cardinality(above(i)) < LiteralCap)})

Evict(open, es) ==
    IF Len(RankedLines(open, es)) <= GistBudget \/ es = <<>> THEN es
    ELSE LET victim == CHOOSE v \in DOMAIN es : \A i \in DOMAIN es : ~Below(es[i], es[v])
         IN Picked(es, DOMAIN es \ {victim})

Evicted(open, es) ==
    LET after[i \in 0..Len(es)] == IF i = 0 THEN es ELSE Evict(open, after[i - 1])
    IN after[Len(es)]
RankedGist(led, open) == RankedLines(open, Evicted(open, TopLiterals(led)))

-----------------------------------------------------------------------------
\* what the gist is rendered from
Ledger == WithFiles(ents)
ConflictLines(open) == {<<"conflict", Key(row)>> : row \in ToSet(AtMost(open, ConflictCap))}
FactsIn(lines) == {n \in ToSet(lines) : n[1] \in Sectioned}

(* Unresolved conflicts are never budget-evicted, however many facts press *)
(* on the budget and however low they rank: each is on a line of its own   *)
(* or in the count of those that are not shown.                            *)
ConflictsSurviveBudget(open, gist) ==
    LET hidden == Len(open) - ConflictCap IN
    /\ ConflictLines(open) \subseteq ToSet(gist)
    /\ hidden > 0 => <<"more", hidden>> \in ToSet(gist)

(* The static render cuts from the end and so may reach the header: the    *)
(* conflicts survive it as long as the header alone is within the budget.  *)
StaticKeepsConflicts(led, open) ==
    Len(Header(open)) <= GistBudget => ConflictLines(open) \subseteq ToSet(StaticGist(led, open))

(* Eviction goes by stakes: a fact is left out of the ranked gist only if  *)
(* every fact that is in ranks at least as high (identifiers beyond their  *)
(* cap compete with identifiers alone), and none is cut while all fit.     *)
EvictionFollowsRank(led, gist) ==
    LET shown == FactsIn(gist)
        known == {e \in ToSet(led) : e.name[1] \in Sectioned}
        out == {e \in known : e.name \notin shown}
    IN /\ \A e \in out, s \in known :
            (s.name \in shown /\ (e.name[1] = "LITERAL" => s.name[1] = "LITERAL"))
                => RankOf(s.name) >= RankOf(e.name)
       /\ Len(gist) > GistBudget => shown = {}

(* A budget takes the facts of least standing and no unresolved conflict.  *)
BudgetCutsTheLeast ==
    LET open == Unresolved(Ledger)
        gist == RankedGist(Ledger, open)
    IN /\ ConflictsSurviveBudget(open, gist)
       /\ StaticKeepsConflicts(Ledger, open)
       /\ EvictionFollowsRank(Ledger, gist)
=============================================================================
