------------------------------- MODULE Packer -------------------------------
(***************************************************************************)
(* Packing a corpus (ctxpack/core/packer/__init__.py, pack): the files     *)
(* discovered are read, entities of one name merged and their relations    *)
(* mirrored (entity_resolver.py), a template weighs fields (templates.py), *)
(* a preset decides which fields to keep (budget.py), and the document is  *)
(* written and, when it says too little, hydrated (compressor.py).         *)
(*                                                                         *)
(* A field is [key, value, inferred, prot, raw, salience]: prot when its   *)
(* value is of a protected type, raw when its raw value has structure,     *)
(* salience in tenths.  A relation is [type, to, via].                     *)
(***************************************************************************)
EXTENDS Integers, Sequences, SequencesExt, FiniteSets

CONSTANTS
    Word,          \* what names, keys and values are told apart as
    CorpusFile,    \* a file is a sequence of entities [name, fields, rels]
    ConfigFile,    \* the files that configure the pack
    Excluded, Included,   \* what the patterns of the configuration match;
                          \* Included is empty when there is no pattern
    Contents(_),   \* the entities of a file
    Weights,       \* the template: weights of keys, in tenths
    Expected(_)    \* the fields the template requires of an entity; none
                   \* when it has no schema for it

IRField == [key : Word, value : Word, inferred : BOOLEAN, prot : BOOLEAN, raw : BOOLEAN,
            salience : Nat]
IRRelationship == [type : Word, to : Word, via : Word]
IREntity == [name : Word, fields : Seq(IRField), rels : SUBSET IRRelationship]
Links == {"belongs-to", "has-many"}
\* only resolving infers a link; a parser infers scopes of identifiers alone
NoInferredLink(f) == ~(f.inferred /\ f.key \in Links)

ASSUME LinksAreWords == Links \subseteq Word
ASSUME SourceAssumption ==
    \A f \in CorpusFile :
        /\ Contents(f) \in Seq(IREntity)
        /\ \A i \in DOMAIN Contents(f) : \A p \in DOMAIN Contents(f)[i].fields :
               NoInferredLink(Contents(f)[i].fields[p])
ASSUME WeightAssumption == \A k \in DOMAIN Weights : Weights[k] \in Nat

VARIABLES
    packing,    \* the stage of the pack, its options and, while it mirrors,
                \* the entity in hand and which of its relations are left
    corpus,     \* the entities read or merged
    notes,      \* the warnings
    document    \* the sections written

packVars == <<packing, corpus, notes, document>>

\* discover
Discovered(f) ==
    /\ f \notin ConfigFile
    /\ f \notin Excluded
    /\ Included # {} => f \in Included

(***************************************************************************)
(* Merging and mirroring.                                                  *)
(***************************************************************************)
\* what a finite set holds, in the order that before[x] comes before x
Listing(before) ==
    [r \in 1..Cardinality(DOMAIN before) |->
        CHOOSE x \in DOMAIN before : Cardinality(before[x]) = r - 1]
InPlace(places) == Listing([p \in places |-> {q \in places : q < p}])

\* a field's place: its entity's, and its own in there
PlacesOf(list, group) == UNION {{i} \X DOMAIN list[i].fields : i \in group}
FieldAt(list, a) == list[a[1]].fields[a[2]]
PlacedBefore(a, b) == a[1] < b[1] \/ (a[1] = b[1] /\ a[2] < b[2])
Restates(list, a, b) ==
    LET f == FieldAt(list, a)  g == FieldAt(list, b) IN f.key = g.key /\ f.value = g.value
\* _dedup_fields: one field per statement, with the highest salience
FirstStatements(list, places) ==
    {a \in places : \A b \in places : Restates(list, a, b) => ~PlacedBefore(b, a)}
Highest(list, places, a) ==
    CHOOSE s \in {FieldAt(list, b).salience : b \in {c \in places : Restates(list, a, c)}} :
        \A b \in places : Restates(list, a, b) => FieldAt(list, b).salience <= s
MergeFields(list, places) ==
    LET firsts == FirstStatements(list, places)
        order == Listing([a \in firsts |-> {b \in firsts : PlacedBefore(b, a)}])
    IN [r \in DOMAIN order |->
           [FieldAt(list, order[r]) EXCEPT !.salience = Highest(list, places, order[r])]]
\* _merge_entities: an entity of one source is kept as it is; one merged of
\* several has no relations
MergeGroup(list, name) ==
    LET group == {i \in DOMAIN list : list[i].name = name} IN
    IF Cardinality(group) = 1 THEN list[CHOOSE i \in group : TRUE]
    ELSE [name |-> name, rels |-> {}, fields |-> MergeFields(list, PlacesOf(list, group))]
FirstOfName(list) ==
    {i \in DOMAIN list : \A j \in DOMAIN list : list[j].name = list[i].name => i <= j}
MergeAll(list) ==
    LET order == InPlace(FirstOfName(list))
    IN [r \in DOMAIN order |-> MergeGroup(list, list[order[r]].name)]

Mirror(type) == IF type = "belongs-to" THEN "has-many" ELSE "belongs-to"
Related(list, a, type, b) ==
    \E i \in DOMAIN list : list[i].name = a /\ \E r \in list[i].rels : r.type = type /\ r.to = b
InferredField(type, from) ==
    [key |-> type, value |-> from, inferred |-> TRUE, prot |-> FALSE, raw |-> FALSE,
     salience |-> 10]
\* (mutant) what was inferred so far is not looked at
AnyTarget(list, from, r) == r.to \in {list[i].name : i \in DOMAIN list}
Missing(list, from, r) ==
    /\ r.to \in {list[i].name : i \in DOMAIN list}
    /\ ~Related(list, r.to, Mirror(r.type), from)
WithInverse(e, type, from, via) ==
    [e EXCEPT !.rels = @ \cup {[type |-> type, to |-> from, via |-> via]},
              !.fields = Append(@, InferredField(type, from))]
MirrorOne(list, from, r) ==
    IF r.type \notin Links \/ ~Missing(list, from, r) THEN list
    ELSE [i \in DOMAIN list |->
            IF list[i].name # r.to THEN list[i]
            ELSE WithInverse(list[i], Mirror(r.type), from, r.via)]

(***************************************************************************)
(* The document.                                                           *)
(***************************************************************************)
\* PRESETS: what the salience of a field must reach, and whether a field
\* below it may be shortened instead
Presets == [none |-> [drop |-> 0, shorten |-> FALSE],
            conservative |-> [drop |-> 0, shorten |-> FALSE],
            balanced |-> [drop |-> 3, shorten |-> FALSE],
            aggressive |-> [drop |-> 6, shorten |-> TRUE]]
\* _is_must_preserve
MustPreserve(f) == f.prot
\* _classify_fields
Decision(f, preset) ==
    IF MustPreserve(f) \/ f.salience >= Presets[preset].drop THEN "include"
    ELSE IF Presets[preset].shorten /\ 2 * f.salience >= Presets[preset].drop
         THEN "abbreviate" ELSE "drop"
\* compress looks a field's action up by its key: the last field decides
ActionOf(e, f, preset) ==
    LET same == {p \in DOMAIN e.fields : e.fields[p].key = f.key}
        last == CHOOSE p \in same : \A q \in same : q <= p
    IN IF preset = "none" THEN "include" ELSE Decision(e.fields[last], preset)

Saying(f, how) == [key |-> f.key, value |-> f.value, how |-> how, inferred |-> f.inferred]
\* what is said of the fields at such places
Lines(e, order, how) == [r \in DOMAIN order |-> Saying(e.fields[order[r]], how[order[r]])]
Plainly(e, how) == [p \in DOMAIN e.fields |-> how]
Hidden(f, strict) == strict /\ f.inferred
BySalienceDown(e, places) ==
    Listing([p \in places |->
        {q \in places : \/ e.fields[q].salience > e.fields[p].salience
                        \/ e.fields[q].salience = e.fields[p].salience /\ q < p}])
\* _entity_to_section
Shown(e, opt) ==
    {p \in DOMAIN e.fields :
        ~Hidden(e.fields[p], opt.strict) /\ ActionOf(e, e.fields[p], opt.preset) # "drop"}
SectionOf(e, opt) ==
    LET how == [p \in DOMAIN e.fields |->
                  IF ActionOf(e, e.fields[p], opt.preset) = "abbreviate" THEN "short" ELSE "full"]
    IN [name |-> e.name, said |-> Lines(e, BySalienceDown(e, Shown(e, opt)), how)]
Adding(section, more) == [section EXCEPT !.said = @ \o more]
LeftOut(e, section, opt) ==
    {p \in DOMAIN e.fields :
        /\ ~Hidden(e.fields[p], opt.strict)
        /\ e.fields[p].key \notin {l.key : l \in ToSet(section.said)}}
\* _hydrate_sections: the keys the first pass left out, then, when that is
\* still too short, the structure of every raw value (_expand_raw_values)
HydratedSection(e, section, opt) ==
    Adding(section, Lines(e, InPlace(LeftOut(e, section, opt)), Plainly(e, "full")))
ExpandedSection(e, section, opt) ==
    LET raw == {p \in DOMAIN e.fields : e.fields[p].raw /\ ~Hidden(e.fields[p], opt.strict)}
    IN Adding(section, Lines(e, InPlace(raw), Plainly(e, "raw")))

-----------------------------------------------------------------------------
PackInit ==
    /\ packing \in [stage : {"read"}, strict : BOOLEAN, read : {{}}, from : {<<>>},
                    preset : DOMAIN Presets, at : {0}, left : {{}}]
    /\ corpus = <<>>
    /\ notes = {}
    /\ document = <<>>

Stage(s) == packing.stage = s
Advance(s) == packing' = [packing EXCEPT !.stage = s]

\* the files of each kind are read in order of name
ReadFile(f) ==
    /\ Stage("read")
    /\ f \notin packing.read
    /\ Discovered(f)
    /\ packing' = [packing EXCEPT !.read = @ \cup {f}]
    /\ corpus' = corpus \o Contents(f)
    /\ UNCHANGED <<notes, document>>

\* resolve_entities: merged first ...
ResolveCorpus ==
    /\ Stage("read")
    /\ packing' = [packing EXCEPT !.stage = "mirror", !.from = MergeAll(corpus)]
    /\ corpus' = MergeAll(corpus)
    /\ UNCHANGED <<notes, document>>
\* ... then _infer_bidirectional_relationships: an entity after another, with
\* the relations it has when its turn comes, ...
NextEntity ==
    /\ Stage("mirror")
    /\ packing.left = {}
    /\ packing.at < Len(corpus)
    /\ packing' = [packing EXCEPT !.at = @ + 1, !.left = corpus[packing.at + 1].rels]
    /\ UNCHANGED <<corpus, notes, document>>
\* ... each against those stated and those inferred before it
InferInverse(r) ==
    /\ Stage("mirror")
    /\ r \in packing.left
    /\ packing' = [packing EXCEPT !.left = @ \ {r}]
    /\ corpus' = MirrorOne(corpus, corpus[packing.at].name, r)
    /\ UNCHANGED <<notes, document>>
ResolvingEnds ==
    /\ Stage("mirror")
    /\ packing.left = {}
    /\ packing.at = Len(corpus)
    /\ Advance("resolved")
    /\ UNCHANGED <<corpus, notes, document>>

Weighed(f) ==
    IF f.key \in DOMAIN Weights
    THEN [f EXCEPT !.salience = (@ * Weights[f.key]) \div 10] ELSE f
\* validate_corpus: of every entity that has a schema
ApplyTemplate ==
    /\ Stage("resolved")
    /\ corpus' = [i \in DOMAIN corpus |->
         IF Expected(corpus[i].name) = {} THEN corpus[i]
         ELSE [corpus[i] EXCEPT !.fields = [j \in DOMAIN corpus[i].fields |->
                 Weighed(corpus[i].fields[j])]]]
    /\ notes' = UNION {{[entity |-> e.name, key |-> k] :
                    k \in Expected(e.name) \ {f.key : f \in ToSet(e.fields)}} : e \in ToSet(corpus)}
    /\ Advance("valid")
    /\ UNCHANGED document

\* compress: the sections of the first pass ...
Write ==
    /\ Stage("resolved") \/ Stage("valid")
    /\ document' = [i \in DOMAIN corpus |-> SectionOf(corpus[i], packing)]
    /\ Advance("written")
    /\ UNCHANGED <<corpus, notes>>
\* ... and what is added when the floor of tokens of the preset or of the
\* caller asks (how many tokens a document has is left out)
Hydrate ==
    /\ Stage("written")
    /\ document' = [i \in DOMAIN document |->
                      HydratedSection(corpus[i], document[i], packing)]
    /\ Advance("hydrated")
    /\ UNCHANGED <<corpus, notes>>
Expand ==
    /\ Stage("hydrated")
    /\ document' = [i \in DOMAIN document |->
                      ExpandedSection(corpus[i], document[i], packing)]
    /\ Advance("expanded")
    /\ UNCHANGED <<corpus, notes>>

PackNext ==
    \/ \E f \in CorpusFile : ReadFile(f)
    \/ ResolveCorpus \/ NextEntity \/ (\E r \in packing.left : InferInverse(r)) \/ ResolvingEnds
    \/ ApplyTemplate \/ Write \/ Hydrate \/ Expand
PackSpec == PackInit /\ [][PackNext]_packVars

-----------------------------------------------------------------------------
(***************************************************************************)
(* Properties.                                                             *)
(***************************************************************************)
Resolved == ~Stage("read") /\ ~Stage("mirror")
Written == Stage("written") \/ Stage("hydrated") \/ Stage("expanded")
InverseFields(e, type, from) ==
    {p \in DOMAIN e.fields :
        e.fields[p].inferred /\ e.fields[p].key = type /\ e.fields[p].value = from}
FieldsAt(i, key) == {f \in ToSet(corpus[i].fields) : f.key = key}

\* A strict pack says nothing that no source said: neither the first pass,
\* nor the fields hydration brings back, nor the raw values it expands
\* (compressor.py, "Suppress INFERRED fields entirely").
StrictSaysOnlyTheStated ==
    packing.strict /\ Written =>
        \A i \in DOMAIN document : \A l \in ToSet(document[i].said) : ~l.inferred

\* A relation between two entities of the corpus can be read from both ends,
\* and its mirror is stated once, however many relations join them and in
\* whatever order the files were read
\* (entity_resolver.py, _infer_bidirectional_relationships).
RelationsReadBothWays ==
    Resolved =>
      \A i, j \in DOMAIN corpus : \A r \in packing.from[i].rels :
        r.to = corpus[j].name /\ r.type \in Links =>
          /\ \E s \in corpus[j].rels : s.type = Mirror(r.type) /\ s.to = corpus[i].name
          /\ \A p, q \in InverseFields(corpus[j], Mirror(r.type), corpus[i].name) : p = q

\* A preset never drops a field whose type protects it, when its key has no
\* other field (budget.py, "identifiers, enums never dropped").
ProtectedFieldsStay ==
    Written => \A i \in DOMAIN document : \A f \in ToSet(corpus[i].fields) :
        f.prot /\ ~f.inferred /\ FieldsAt(i, f.key) = {f} =>
            f.key \in {l.key : l \in ToSet(document[i].said)}

\* A document that said too little says every key again, whatever the preset
\* dropped (compressor.py, _hydrate_sections, phase 3).
HydrationReturnsTheDropped ==
    Stage("hydrated") => \A i \in DOMAIN document : \A f \in ToSet(corpus[i].fields) :
        Hidden(f, packing.strict) \/ f.key \in {l.key : l \in ToSet(document[i].said)}

\* Nothing of an excluded file and nothing of the configuration is packed
\* (discovery.py, the order of the skip rules).
ExcludedStaysOut == packing.read \cap (ConfigFile \cup Excluded) = {}

\* A pack says what its sources say and keeps what it must, from both ends of
\* each relation.
PackKeepsWhatIsStated ==
    /\ StrictSaysOnlyTheStated
    /\ RelationsReadBothWays
    /\ ProtectedFieldsStay
    /\ HydrationReturnsTheDropped
    /\ ExcludedStaysOut

=============================================================================
