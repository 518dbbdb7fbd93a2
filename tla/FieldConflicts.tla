--------------------------- MODULE FieldConflicts ---------------------------
(***************************************************************************)
(* The contradictions a pack reports between the fields of its entities    *)
(* (ctxpack/core/packer/conflict.py), as fields are added in any order.    *)
(* Left out: the type of a foreign key against its target's identifier.    *)
(*                                                                         *)
(* A field is [entity, kind, name, value, version]: kind is the check that *)
(* reads it, name what the value is about (an identifier, a classified     *)
(* field, a guarded key), version that of its source.  The policies of     *)
(* NULL-POLICY have their field's identity as value.                       *)
(***************************************************************************)
EXTENDS Naturals, Sequences

CONSTANTS
    NoSource,       \* the version of a source without one
    RuleField,      \* the fields of the corpus
    Months(_),      \* _extract_months of a retention value; 0 for none
    Opposite(_, _), \* _are_opposing_conditions
    MaxFields       \* bound: fields indexed

ASSUME ConflictBounds == MaxFields \in Nat
ASSUME OppositesAreMutual ==
    \A f, g \in RuleField :
        Opposite(f.value, g.value) => Opposite(g.value, f.value) /\ f.value # g.value

VARIABLE index      \* the corpus's fields, in order

\* a warning is about two places; each names its entity and what it says
Warning(kind, f, g) == [kind |-> kind, one |-> f, other |-> g]
Of(kind) == {i \in DOMAIN index : index[i].kind = kind}
PairsOf(I) == {p \in I \X I : p[1] < p[2]}
Warnings(kind, pairs) == {Warning(kind, index[p[1]], index[p[2]]) : p \in pairs}
Indexed(I) == {index[i] : i \in I}

\* _check_retention_conflicts compares every two retention fields
ComparedPairs(I) == PairsOf(I)
RetentionsDiffer(f, g) ==
    Months(f.value) # 0 /\ Months(g.value) # 0 /\ Months(f.value) # Months(g.value)
RetentionWarnings ==
    Warnings("retention", {p \in ComparedPairs(Of("retention")) :
                             RetentionsDiffer(index[p[1]], index[p[2]])})

\* _check_type_conflicts and _check_pii_conflicts: the first field to give a
\* name a value stands for that value, and each value is compared with those
\* seen before it
FirstOf(I, i) ==
    \A j \in I : j < i /\ index[j].name = index[i].name => index[j].value # index[i].value
\* (mutant) only the first value of all is compared with
OpensName(I, i) == \A j \in I : j < i => index[j].name # index[i].name
Stands(I, i) == FirstOf(I, i)
ValueWarnings(kind) ==
    Warnings(kind, {p \in PairsOf(Of(kind)) :
                      /\ index[p[1]].name = index[p[2]].name
                      /\ Stands(Of(kind), p[1]) /\ FirstOf(Of(kind), p[2])})

\* _check_conditional_conflicts: opposing guards on one key of one entity
SameKeyOfEntity(f, g) == f.entity = g.entity /\ f.name = g.name
GuardWarnings ==
    Warnings("guard", {p \in PairsOf(Of("guard")) :
                         /\ SameKeyOfEntity(index[p[1]], index[p[2]])
                         /\ Opposite(index[p[1]].value, index[p[2]].value)})

\* _check_version_conflicts: the first value of each version stands for it
Versioned == {i \in DOMAIN index : index[i].version # NoSource}
SamePlace(f, g) ==
    f.entity = g.entity /\ f.kind = g.kind /\ (f.kind = "guard" => f.name = g.name)
Statement(f) == <<f.name, f.value>>
FirstInVersion(i) ==
    \A j \in Versioned : j < i /\ SamePlace(index[j], index[i]) => index[j].version # index[i].version
StandsForVersion(i) == FirstInVersion(i)
VersionWarnings ==
    Warnings("version", {p \in PairsOf(Versioned) :
                /\ SamePlace(index[p[1]], index[p[2]])
                /\ index[p[1]].version # index[p[2]].version
                /\ StandsForVersion(p[1]) /\ StandsForVersion(p[2])
                /\ Statement(index[p[1]]) # Statement(index[p[2]])})

\* _check_null_conflicts: one entity requires what its policy lets be null, or
\* one policy says both never-null and nullable of a name
PolicyOf(f, g) == f.entity = g.entity /\ f.name = g.name
NullWarnings ==
    {Warning("null", p[1], p[2]) :
       p \in {q \in Indexed(Of("required") \cup Of("never")) \X Indexed(Of("nullable")) :
                /\ PolicyOf(q[1], q[2])
                /\ q[1].kind = "never" => q[1].value = q[2].value}}

\* detect_conflicts, every check
DetectConflicts ==
    RetentionWarnings \cup NullWarnings \cup ValueWarnings("type") \cup ValueWarnings("pii")
        \cup GuardWarnings \cup VersionWarnings

-----------------------------------------------------------------------------
ConflictInit == index = <<>>
AddField(f) ==
    /\ Len(index) < MaxFields
    /\ f \notin Indexed(DOMAIN index)
    /\ index' = Append(index, f)
ConflictNext == \E f \in RuleField : AddField(f)
ConflictSpec == ConflictInit /\ [][ConflictNext]_index

-----------------------------------------------------------------------------
(***************************************************************************)
(* Properties.                                                             *)
(***************************************************************************)
Disagree(f, g) ==
    /\ f.kind = g.kind
    /\ f.kind \in {"retention", "type", "pii", "guard"}
    /\ CASE f.kind = "retention" -> RetentionsDiffer(f, g)
         [] f.kind = "guard" -> f.entity = g.entity /\ f.name = g.name /\ Opposite(f.value, g.value)
         [] OTHER -> f.name = g.name /\ f.value # g.value
Said(w) == {w.one.value, w.other.value}

\* Whatever the order of the files, every two values of one thing that
\* disagree are reported, between the first entities that gave them.  Only the
\* pair of values is sure to be named, not every entity (conflict.py, the
\* types_seen and levels_seen loops).
EveryDisagreementReported ==
    \A f, g \in Indexed(DOMAIN index) : Disagree(f, g) =>
        \E w \in DetectConflicts : /\ w.kind = f.kind /\ w.one.name \in {f.name, g.name}
                                   /\ Said(w) = {f.value, g.value}
\* Two values of one name are reported once, however many entities gave them
\* (conflict.py, "same type is fine").
ValuesReportedOnce ==
    \A v, w \in ValueWarnings("type") \cup ValueWarnings("pii") :
        v.kind = w.kind /\ v.one.name = w.one.name /\ Said(v) = Said(w) => v = w
\* Two entities that keep the same data for different times are both named,
\* in every pair (conflict.py, _check_retention_conflicts).
EveryRetentionPairNamed ==
    \A f, g \in Indexed(DOMAIN index) : f.kind = "retention" /\ Disagree(f, g) =>
        \E w \in RetentionWarnings : {w.one, w.other} = {f, g}
\* A warning is never raised between two fields that agree, nor between the
\* guards of different entities (conflict.py, every check).
NoConflictWithoutDisagreement ==
    \A w \in DetectConflicts :
        CASE w.kind = "null" -> w.one.entity = w.other.entity /\ w.one.name = w.other.name
          [] w.kind = "version" -> w.one.version # w.other.version
          [] OTHER -> Disagree(w.one, w.other)
\* A difference between versions is a difference between what the versions
\* said first: no version is ever reported twice with different values
\* (conflict.py, _check_version_conflicts).
OneValuePerVersion ==
    \A v, w \in VersionWarnings : \A f \in {v.one, v.other} : \A g \in {w.one, w.other} :
        SamePlace(f, g) /\ f.version = g.version => Statement(f) = Statement(g)

\* The conflict checks name every disagreement and nothing else, in whatever
\* order the files were read.
DisagreementsAreReported ==
    /\ EveryDisagreementReported
    /\ ValuesReportedOnce
    /\ EveryRetentionPairNamed
    /\ NoConflictWithoutDisagreement
    /\ OneValuePerVersion

=============================================================================
