-------------------------------- MODULE Yaml --------------------------------
(***************************************************************************)
(* The subset parser that reads a corpus written in YAML and the entities  *)
(* taken from it (core/packer/yaml_parser.py).  A document is a sequence   *)
(* of lines; blank and comment lines are left out, for every step skips    *)
(* them.  A line [k, ind, key] is indented by ind, and k says what stands  *)
(* on it:                                                                  *)
(*    "kv" key: scalar      "key" key:           "bad" key: &anchor        *)
(*    "flow" key: [x]       "open" key: [x,      "more" y]                 *)
(*    "item" - scalar       "dashkv" - key: scalar      "dash" -           *)
(*    "bare" a scalar                                                      *)
(* A value is a record [t, kids]: "map" with pairs <<key, value>>, "seq"   *)
(* with values, and the leaves "scalar", "null" and "error".               *)
(***************************************************************************)
EXTENDS Sequences, Naturals, FiniteSetsExt, SequencesExt

CONSTANTS EntityKeys,   \* the keys that make a mapping an entity
          RelationKeys  \* the keys that name another entity

Leaf(t) == [t |-> t, kids |-> <<>>]
DictOf(pairs) == [t |-> "map", kids |-> pairs]
ListOf(values) == [t |-> "seq", kids |-> values]

IsDash(line) == line.k \in {"item", "dashkv", "dash"}
HasColon(line) == line.k \in {"kv", "key", "bad", "flow", "open"}

\* a dictionary keeps one value for a key, at the place it was first put
Put(pairs, key, value) ==
    IF \E i \in DOMAIN pairs : pairs[i][1] = key
    THEN [i \in DOMAIN pairs |-> IF pairs[i][1] = key THEN <<key, value>> ELSE pairs[i]]
    ELSE Append(pairs, <<key, value>>)
PutAll(pairs, more) == FoldLeft(LAMBDA acc, p : Put(acc, p[1], p[2]), pairs, more)

-----------------------------------------------------------------------------
(***************************************************************************)
(* The recursive descent.  Each operator takes the document D, the line p  *)
(* it stands at and the indentation above it (0 stands for the code's -1:  *)
(* indentations are counted from 1), and yields <<value, next line>>.      *)
(***************************************************************************)
Fails(p) == <<Leaf("error"), p>>

\* a flow sequence is gathered from the lines that follow until it closes, and
\* leaves the position on the line that closed it; in a document that never
\* closes it, at the end
FlowEnd(D, p) ==
    LET closing == {q \in p..Len(D) : q > p /\ D[q].k = "more"}
    IN IF closing = {} THEN Len(D) + 1 ELSE Min(closing)

RECURSIVE ValueAt(_, _, _), MappingFrom(_, _, _, _), ItemsFrom(_, _, _, _)

ValueAt(D, p, up) ==
    IF p > Len(D) THEN <<Leaf("null"), p>>
    ELSE CASE IsDash(D[p])   -> ItemsFrom(D, p, D[p].ind, <<>>)
           [] ~IsDash(D[p]) /\ HasColon(D[p]) -> MappingFrom(D, p, up, <<>>)
           [] OTHER          -> <<Leaf("scalar"), p + 1>>

\* what stands deeper than a key or a dash with nothing after it
Nested(D, p, ind) ==
    IF p <= Len(D) /\ D[p].ind > ind THEN ValueAt(D, p, ind) ELSE <<Leaf("null"), p>>

\* the value of a key whose line is p
KeyedValue(D, p) ==
    CASE D[p].k = "key"  -> Nested(D, p + 1, D[p].ind)
      [] D[p].k = "flow" -> <<ListOf(<<Leaf("scalar")>>), p + 1>>
      [] D[p].k = "open" -> <<ListOf(<<Leaf("scalar")>>), FlowEnd(D, p + 1)>>
      [] OTHER           -> <<Leaf("scalar"), p + 1>>

\* (mutant) a mapping is not ended by a line that is indented less
MappingStop(D, p, up) == p > Len(D) \/ ~HasColon(D[p])
\* a mapping ends at a line that is not deeper than its parent, at a dash and at
\* anything without a colon
MappingEnds(D, p, up) ==
    p > Len(D) \/ ~HasColon(D[p]) \/ (up > 0 /\ D[p].ind <= up)

MappingFrom(D, p, up, pairs) ==
    IF MappingEnds(D, p, up) THEN <<DictOf(pairs), p>>
    ELSE IF D[p].k = "bad" THEN Fails(p)
    ELSE LET value == KeyedValue(D, p)
         IN IF value[1].t = "error" THEN value
            ELSE MappingFrom(D, value[2], up, Put(pairs, D[p].key, value[1]))

\* the keys under "- key: value" continue its mapping
DashMapping(D, p) ==
    LET first == <<<<D[p].key, Leaf("scalar")>>>>
    IN IF p + 1 <= Len(D) /\ D[p + 1].ind > D[p].ind
       THEN LET more == MappingFrom(D, p + 1, D[p].ind, <<>>)
            IN IF more[1].t = "error" THEN more
               ELSE <<DictOf(PutAll(first, more[1].kids)), more[2]>>
       ELSE <<DictOf(first), p + 1>>

ItemsFrom(D, p, ind, items) ==
    IF p > Len(D) \/ D[p].ind # ind \/ ~IsDash(D[p]) THEN <<ListOf(items), p>>
    ELSE LET value == CASE D[p].k = "dash"   -> Nested(D, p + 1, D[p].ind)
                        [] D[p].k = "dashkv" -> DashMapping(D, p)
                        [] OTHER             -> <<Leaf("scalar"), p + 1>>
         IN IF value[1].t = "error" THEN value
            ELSE ItemsFrom(D, value[2], ind, Append(items, value[1]))

\* what is left after the top value is never looked at
Parse(D) == IF D = <<>> THEN DictOf(<<>>) ELSE ValueAt(D, 1, 0)[1]

-----------------------------------------------------------------------------
(***************************************************************************)
(* Entities and rules taken from a parsed document.                        *)
(***************************************************************************)
KeysUnder(value) == {value.kids[i][1] : i \in DOMAIN value.kids}
At(value, key) == value.kids[CHOOSE i \in DOMAIN value.kids : value.kids[i][1] = key][2]

LooksLikeEntity(value) == value.t = "map" /\ KeysUnder(value) \cap EntityKeys # {}

\* an entity names its fields and whom it relates to
Annotations == {"entity", "aliases", "description"}
EntityFrom(name, value) ==
    [name |-> name,
     fields |-> KeysUnder(value) \ Annotations,
     relates |-> KeysUnder(value) \cap RelationKeys]

\* the entities and the standalone rules of a document
Extracted(value) ==
    IF value.t # "map" THEN [entities |-> {}, rules |-> {}]
    ELSE IF "entity" \in KeysUnder(value)
    THEN [entities |-> {EntityFrom("entity", value)}, rules |-> {}]
    ELSE IF "rules" \in KeysUnder(value)
    THEN [entities |-> {},
          rules |-> LET rules == At(value, "rules")
                    IN CASE rules.t = "map" -> KeysUnder(rules)
                         [] rules.t = "seq" -> UNION {KeysUnder(v) : v \in {w \in ToSet(rules.kids) : w.t = "map"}}
                         [] OTHER -> {}]
    ELSE LET entities == {k \in KeysUnder(value) : LooksLikeEntity(At(value, k))}
         IN [entities |-> {EntityFrom(k, At(value, k)) : k \in entities},
             rules |-> KeysUnder(value) \ entities]

-----------------------------------------------------------------------------
(***************************************************************************)
(* The reference: in a well-formed document a line belongs to the nearest  *)
(* line above it that is indented less, its parent, and the value of a     *)
(* line is made of the lines whose parent it is.                           *)
(***************************************************************************)
ParentOf(D, p) == Max({q \in 1..(p - 1) : D[q].ind < D[p].ind} \cup {0})
LinesUnder(D, p) == SetToSortSeq({q \in DOMAIN D : ParentOf(D, q) = p}, <)

WellFormed(D) ==
    /\ \A p \in DOMAIN D : D[p].k \notin {"open", "more", "bare"}
    \* siblings stand at one indentation and are of one kind
    /\ \A p, q \in DOMAIN D :
         ParentOf(D, p) = ParentOf(D, q) =>
            D[p].ind = D[q].ind /\ (IsDash(D[p]) <=> IsDash(D[q]))
    \* only an empty value holds lines, and under "- key: value" only keys
    /\ \A p \in DOMAIN D :
         LET up == ParentOf(D, p)
         IN /\ up > 0 => D[up].k \in {"key", "dash", "dashkv"}
            /\ up > 0 /\ D[up].k = "dashkv" => ~IsDash(D[p])

RECURSIVE BlockOf(_, _)
LineValue(D, p) ==
    CASE D[p].k = "flow" -> ListOf(<<Leaf("scalar")>>)
      [] D[p].k \in {"key", "dash"} -> IF LinesUnder(D, p) = <<>> THEN Leaf("null") ELSE BlockOf(D, p)
      [] D[p].k = "dashkv" -> DictOf(<<<<D[p].key, Leaf("scalar")>>>> \o BlockOf(D, p).kids)
      [] OTHER -> Leaf("scalar")
BlockOf(D, p) ==
    LET below == LinesUnder(D, p)
    IN IF below # <<>> /\ IsDash(D[below[1]])
       THEN ListOf([i \in DOMAIN below |-> LineValue(D, below[i])])
       ELSE DictOf([i \in DOMAIN below |-> <<D[below[i]].key, LineValue(D, below[i])>>])

\* a document is written at the margin or at most two steps deeper than its last
\* line, and no further once it is not well-formed: nothing is said of those
MayStand(D, line) ==
    /\ line.ind <= (IF D = <<>> THEN 1 ELSE Last(D).ind + 2)
    /\ WellFormed(D)

\* A well-formed document is parsed into the tree its indentation draws, however
\* mappings and sequences are nested and wherever a block ends by several levels
\* at once; and it is refused exactly when one of its lines uses what the parser
\* does not support (yaml_parser.py:4-5, 44).
DocumentIsItsTree(D) ==
    WellFormed(D) =>
        Parse(D) = IF \E p \in DOMAIN D : D[p].k = "bad" THEN Leaf("error") ELSE BlockOf(D, 0)

\* a line at the top tells of an entity if a key an entity may have is right below
TellsOf(D, p) ==
    /\ D[p].k = "key"
    /\ \E q \in ToSet(LinesUnder(D, p)) : HasColon(D[q]) /\ D[q].key \in EntityKeys
KeysBelow(D, p) == {D[q].key : q \in ToSet(LinesUnder(D, p))}

\* Each line at the top of a well-formed file of several things becomes one entity
\* with the keys right below it as its fields, or one rule; a file of one entity
\* becomes that entity, with every key at the top for a field
\* (extract_entities_from_yaml).
EveryKeyIsExtracted(D) ==
    LET value == Parse(D)
        taken == Extracted(value)
        top == ToSet(LinesUnder(D, 0))
        told == {p \in top : TellsOf(D, p)}
    IN (WellFormed(D) /\ value.t = "map") =>
        IF "entity" \in KeysBelow(D, 0) THEN
            {e.fields : e \in taken.entities} = {KeysBelow(D, 0) \ Annotations}
        ELSE "rules" \notin KeysBelow(D, 0) =>
            /\ taken.rules = {D[p].key : p \in top \ told}
            /\ {<<e.name, e.fields>> : e \in taken.entities}
                 = {<<D[p].key, KeysBelow(D, p) \ Annotations>> : p \in told}

\* Stated and fails: nothing of a document is lost without an error.  A sequence
\* whose dashes stand under their key, as YAML allows, a flow sequence over
\* several lines, a bare line or a dash at another indentation ends the parse,
\* and parse() does not ask whether lines are left.
YamlIsNeverLost(D) ==
    (D # <<>> /\ Parse(D).t # "error") => ValueAt(D, 1, 0)[2] > Len(D)
=============================================================================
