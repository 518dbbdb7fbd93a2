------------------------------ MODULE Overview ------------------------------
(***************************************************************************)
(* The layer above a packed document (ctxpack/core/packer/l3_generator.py):*)
(* its entities with the part each plays in the graph, the patterns and    *)
(* the constraints found in their fields, and the warnings, cut to a       *)
(* budget of tokens.                                                       *)
(*                                                                         *)
(* A section of the document is [name, refs, patterns, marks]: the         *)
(* entities its values mention, one by one; its pattern lines; the         *)
(* severity of each constraint (0 for PII to 3 for a warning sign).  A     *)
(* line counts one token.                                                  *)
(***************************************************************************)
EXTENDS Integers, Sequences, FiniteSets

CONSTANTS
    L2Section,      \* the sections a document may hold
    HubThreshold,   \* HUB_THRESHOLD
    L3Budget,       \* _L3_TOKEN_BUDGET
    MaxSections,    \* bound: sections of a document
    MaxAlerts       \* bound: warnings of a document

ASSUME OverviewBounds ==
    {HubThreshold, L3Budget, MaxSections, MaxAlerts} \subseteq Nat
ASSUME SectionAssumption ==
    \A s \in L2Section : s.marks \in Seq(0..3) /\ s.patterns \in Nat

VARIABLES
    l2,      \* the entity sections, in order
    alerts   \* how many lines its WARNINGS section has

overviewVars == <<l2, alerts>>

Entities == {l2[i].name : i \in DOMAIN l2}
\* _compute_entity_roles: mentions of itself do not make an entity a hub
Inbound(name) ==
    Cardinality({p \in UNION {{i} \X DOMAIN l2[i].refs : i \in DOMAIN l2} :
                   l2[p[1]].refs[p[2]] = name /\ l2[p[1]].name # name})
Role(name) ==
    IF Inbound(name) >= HubThreshold THEN "hub"
    ELSE IF Inbound(name) = 0 THEN "leaf" ELSE "bridge"
\* _extract_topology: a line per part that some entity plays, and a summary
TopologyLines == Cardinality({Role(n) : n \in Entities}) + 1

\* the constraints, by section and place in it
Marks == UNION {{i} \X DOMAIN l2[i].marks : i \in DOMAIN l2}
Severity(m) == l2[m[1]].marks[m[2]]
FoundBefore(a, b) == a[1] < b[1] \/ (a[1] = b[1] /\ a[2] < b[2])
\* (mutant) as the fields come
AsFound(a, b) == FoundBefore(a, b)
\* _extract_constraints: the severest first, else as they come ...
BySeverity(a, b) ==
    Severity(a) < Severity(b) \/ (Severity(a) = Severity(b) /\ FoundBefore(a, b))
Severer(m) == {a \in Marks : BySeverity(a, m)}
\* ... and the density last, or a line that says there is nothing
Density == 9
RuleLines ==
    [r \in 1..(Cardinality(Marks) + 1) |->
        IF r > Cardinality(Marks) THEN Density
        ELSE Severity(CHOOSE m \in Marks : Cardinality(Severer(m)) = r - 1)]
\* _extract_patterns: "(none detected)" where there is none
PatternLines == UNION {{i} \X (1..l2[i].patterns) : i \in DOMAIN l2}
Patterns == IF PatternLines = {} THEN 1 ELSE Cardinality(PatternLines)
Alerts == IF alerts = 0 THEN 1 ELSE alerts

\* count_tokens: a section counts its name
Whole == [entities |-> Len(l2), topology |-> TopologyLines, patterns |-> Patterns,
          constraints |-> RuleLines, alerts |-> Alerts]
Size(body) == 5 + body.entities + body.topology + body.patterns
                + Len(body.constraints) + body.alerts

Excess(body) == IF Size(body) > L3Budget THEN Size(body) - L3Budget ELSE 0
Least(a, b) == IF a < b THEN a ELSE b
\* _trim_to_budget: lines go from the end of the constraints, then from the
\* end of the patterns; an emptied section says "(trimmed)", which the count
\* leaves out
CutConstraints(body) ==
    [body EXCEPT !.constraints = SubSeq(@, 1, Len(@) - Least(Excess(body), Len(@)))]
CutPatterns(body) == [body EXCEPT !.patterns = @ - Least(Excess(body), @)]
Trimmed == CutPatterns(CutConstraints(Whole))
Marked(body) ==
    Size(body) + (IF body.constraints = <<>> THEN 1 ELSE 0) + (IF body.patterns = 0 THEN 1 ELSE 0)

-----------------------------------------------------------------------------
OverviewInit == l2 = <<>> /\ alerts = 0
AddSection(s) ==
    /\ Len(l2) < MaxSections
    /\ s.name \notin Entities
    /\ l2' = Append(l2, s)
    /\ UNCHANGED alerts
AddAlert ==
    /\ alerts < MaxAlerts
    /\ alerts' = alerts + 1
    /\ UNCHANGED l2
OverviewNext == (\E s \in L2Section : AddSection(s)) \/ AddAlert
OverviewSpec == OverviewInit /\ [][OverviewNext]_overviewVars

-----------------------------------------------------------------------------
(***************************************************************************)
(* Properties.                                                             *)
(***************************************************************************)
\* However small the budget, the overview names every entity and repeats
\* every warning of the document (l3_generator.py, "ENTITIES, TOPOLOGY, and
\* WARNINGS are preserved").
WarningsSurviveTheTrim ==
    Trimmed.alerts = Alerts /\ Trimmed.entities = Len(l2)
\* What the trim leaves of the constraints are the severest of the document:
\* no PII rule goes while a lesser one stays, and no pattern goes while a
\* constraint could (l3_generator.py, _extract_constraints, "severity sorted").
SeverestStayLongest ==
    /\ LET left == Trimmed.constraints IN
       \A i \in DOMAIN left : \A j \in (Len(left) + 1)..Len(RuleLines) :
           left[i] <= RuleLines[j]
    /\ \A i, j \in DOMAIN RuleLines : i < j => RuleLines[i] <= RuleLines[j]
    /\ Trimmed.patterns < Patterns => Trimmed.constraints = <<>>
\* A trimmed overview is over its budget by the words "(trimmed)" at most,
\* unless the lines that are never trimmed alone exceed it
\* (l3_generator.py, _trim_to_budget).
TrimReachesItsBudget ==
    \/ Marked(Trimmed) <= L3Budget + 2
    \/ Trimmed.constraints = <<>> /\ Trimmed.patterns = 0

\* A trimmed overview keeps its warnings, then its severest rules, and is
\* trimmed enough.
TrimTakesTheLeast ==
    /\ WarningsSurviveTheTrim
    /\ SeverestStayLongest
    /\ TrimReachesItsBudget

=============================================================================
