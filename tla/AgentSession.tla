---------------------------- MODULE AgentSession ----------------------------
(***************************************************************************)
(* The rolling state of a running agent (ctxpack/agent/session.py): each   *)
(* step is parsed into entities (agent/state_parser.py), merged into those *)
(* already known (core/packer/entity_resolver.py), and when the compressed *)
(* state outgrows its budget whole entities are evicted.                   *)
(*                                                                         *)
(* A key that repeats with another value is a revision: the latest value   *)
(* is current and a companion SUPERSEDED field records the chain.  Values  *)
(* are single words and no conflict rule reads them, so a measured state   *)
(* has no warnings.                                                        *)
(***************************************************************************)
EXTENDS Naturals, Sequences, SequencesExt, FiniteSets

CONSTANTS
    Name,         \* entity names
    MultiKey,     \* keys that are never superseded (_MULTI_VALUE_KEYS)
    AgentSteps,   \* the steps an agent may report: a sequence of entity
                  \* observations, or a decision
    TokenBudget,
    Refers(_),    \* the entities a value refers to (@ENTITY-X)
    MaxSteps      \* bound: steps of a session

ASSUME AgentBounds == TokenBudget \in Nat /\ MaxSteps \in Nat

VARIABLES
    entities,   \* the entities kept, in order
    decisions,  \* how many decisions: they are standalone rules
    stepCount,
    evicting,   \* the loop of evict()
    told        \* ghost: the observations made of each entity kept

agentVars == <<entities, decisions, stepCount, evicting, told>>

\* an observation is [name, pairs]: a sequence of [key, value]
Plain(pair, step) == [key |-> pair.key, of |-> "value", value |-> pair.value,
                      at |-> step, chain |-> <<>>]
History(key, chain) == [key |-> key, of |-> "chain", value |-> "", at |-> 0,
                        chain |-> chain]
Observed(observation, step) ==
    [name |-> observation.name, sources |-> 1, salience |-> 1,
     fields |-> [i \in DOMAIN observation.pairs |-> Plain(observation.pairs[i], step)]]

(***************************************************************************)
(* Merging the fields of one entity.                                       *)
(***************************************************************************)
SameFact(f, g) == f.key = g.key /\ f.of = g.of /\ f.value = g.value /\ f.chain = g.chain
\* _dedup_fields: the first field that states a value stands for it
Dedup(fields) ==
    FoldLeft(LAMBDA kept, f : IF \E i \in DOMAIN kept : SameFact(kept[i], f)
                              THEN kept ELSE Append(kept, f), <<>>, fields)

\* the revisions are elements VALUE@STEP, ordered by step (the sort is stable)
Element(f) == [value |-> f.value, at |-> f.at]
ByRecency(values) == SortSeq(values, LAMBDA f, g : f.at < g.at)
Fresh(chain, known) == SelectSeq(chain, LAMBDA e : e \notin ToSet(known))
\* (mutant) the earlier history is replaced
OnlyNew(priors, new) == new
\* the elements of the earlier chains that the new one lacks go before it
Absorb(priors, new) ==
    FoldLeft(LAMBDA pre, c : pre \o Fresh(c.chain, pre \o new), <<>>, priors) \o new

ValuesOf(fields, key) == SelectSeq(fields, LAMBDA f : f.key = key /\ f.of = "value")
ChainsOf(fields, key) == SelectSeq(fields, LAMBDA f : f.key = key /\ f.of = "chain")
Revised(fields) ==
    {k \in {f.key : f \in ToSet(fields)} \ MultiKey : Len(ValuesOf(fields, k)) > 1}

\* _supersede_fields: at the place of a revised key's first value stand its
\* current value and its history
Revision(fields, key) ==
    LET ordered == ByRecency(ValuesOf(fields, key)) IN
    <<ordered[Len(ordered)],
      History(key, Absorb(ChainsOf(fields, key),
                          [i \in DOMAIN ordered |-> Element(ordered[i])]))>>
Supersede(fields) ==
    LET place(kept, f) ==
          IF f.key \notin Revised(fields) THEN Append(kept, f)
          ELSE IF f.of = "chain" \/ \E i \in DOMAIN kept : kept[i].key = f.key THEN kept
          ELSE kept \o Revision(fields, f.key)
    IN FoldLeft(place, <<>>, fields)

\* _merge_entities for the observations that name one entity
Merge(group) ==
    [name |-> group[1].name,
     sources |-> FoldLeft(LAMBDA n, e : n + e.sources, 0, group),
     salience |-> 1,
     fields |-> Supersede(Dedup(FlattenSeq([i \in DOMAIN group |-> group[i].fields])))]
\* resolve_entities: one entity per name, in the order the names first occur
Resolve(list) ==
    LET names == FoldLeft(LAMBDA seen, e : IF e.name \in ToSet(seen) THEN seen
                                           ELSE Append(seen, e.name), <<>>, list)
    IN [i \in DOMAIN names |-> Merge(SelectSeq(list, LAMBDA e : e.name = names[i]))]

(***************************************************************************)
(* What compress and count_tokens make of the state.                       *)
(***************************************************************************)
FieldWords(f) == IF f.of = "value" THEN 2 ELSE 2 * Len(f.chain)
EntityTokens(e) ==
    1 + FoldLeft(LAMBDA n, f : n + FieldWords(f), 0, e.fields) + 2 * e.sources
Tokens(list, rules) ==
    FoldLeft(LAMBDA n, e : n + EntityTokens(e), 0, list)
      + (IF rules = 0 THEN 0 ELSE 1 + 2 * rules)

\* a value, or a value of a chain, mentions an entity
Mentions(f, name) ==
    IF f.of = "value" THEN (IF name \in Refers(f.value) THEN 1 ELSE 0)
    ELSE Len(SelectSeq(f.chain, LAMBDA e : name \in Refers(e.value)))
CrossRefs(list, name) ==
    FoldLeft(LAMBDA n, e : n + FoldLeft(LAMBDA k, f : k + Mentions(f, name), 0, e.fields),
             0, list)
\* _score_entities
Scored(list) ==
    [i \in DOMAIN list |->
        [list[i] EXCEPT !.salience = list[i].sources + 2 * CrossRefs(list, list[i].name)]]

-----------------------------------------------------------------------------
AgentInit ==
    /\ entities = <<>>
    /\ decisions = 0
    /\ stepCount = 0
    /\ evicting = [pc |-> "no", gone |-> 0]
    /\ told = [n \in Name |-> <<>>]

Remember(observations) ==
    told' = [n \in Name |-> told[n] \o
                <<SelectSeq(observations, LAMBDA o : o.name = n)>>]
NamesIn(list) == {list[i].name : i \in DOMAIN list}
Forget(list) == [n \in Name |-> IF n \in NamesIn(list) THEN told[n] ELSE <<>>]

\* update: the step is merged, every entity of the state resolved again and
\* the result measured; over budget, evict sorts by salience, least first
BySalience(list) == SortSeq(list, LAMBDA d, e : d.salience < e.salience)
Measured(list, rules) ==
    IF Tokens(list, rules) > TokenBudget /\ list # <<>>
    THEN /\ entities' = BySalience(Scored(list))
         /\ evicting' = [pc |-> "yes", gone |-> 0]
    ELSE /\ entities' = Scored(list)
         /\ UNCHANGED evicting

Update(step) ==
    /\ evicting.pc = "no"
    /\ stepCount < MaxSteps
    /\ stepCount' = stepCount + 1
    /\ IF step.kind = "decision"
       THEN /\ decisions' = decisions + 1
            /\ Measured(Resolve(entities), decisions + 1)
            /\ UNCHANGED told
       ELSE /\ Measured(Resolve(entities \o
                          [i \in DOMAIN step.seen |-> Observed(step.seen[i], stepCount)]),
                        decisions)
            /\ Remember(step.seen)
            /\ UNCHANGED decisions

\* one turn of evict's loop: each trial scores what is left and leaves the
\* order alone; the least salient entity goes until the state fits
Fits == entities = <<>> \/ Tokens(entities, decisions) <= TokenBudget
LeastSalientGoes(list) == Tail(list)
EvictOne ==
    /\ evicting.pc = "yes"
    /\ IF Fits
       THEN /\ evicting' = [pc |-> "no", gone |-> 0]
            /\ UNCHANGED <<entities, told>>
       ELSE /\ entities' = Scored(LeastSalientGoes(entities))
            /\ evicting' = [evicting EXCEPT !.gone = @ + 1]
            /\ told' = Forget(LeastSalientGoes(entities))
    /\ UNCHANGED <<decisions, stepCount>>

AgentNext == (\E step \in AgentSteps : Update(step)) \/ EvictOne
AgentSpec == AgentInit /\ [][AgentNext]_agentVars

-----------------------------------------------------------------------------
(***************************************************************************)
(* Properties.                                                             *)
(***************************************************************************)
KeptAs(name) == SelectSeq(entities, LAMBDA e : e.name = name)
FieldsOf(name) == KeptAs(name)[1].fields
\* the values that one step gives for a key of an entity, in order
StepValues(observations, key) ==
    FlattenSeq([i \in DOMAIN observations |->
        LET hits == SelectSeq(observations[i].pairs, LAMBDA p : p.key = key)
        IN [j \in DOMAIN hits |-> hits[j].value]])
Telling(name, key) ==
    {i \in DOMAIN told[name] : StepValues(told[name][i], key) # <<>>}
EverTold(name, key) ==
    UNION {ToSet(StepValues(told[name][i], key)) : i \in Telling(name, key)}
KeysOf(name) == {f.key : f \in ToSet(FieldsOf(name))}

\* The current value of a key is one that the latest step to speak of it gave,
\* and when that step gave one value, it is that value.  A re-resolve of the
\* whole state never lets an earlier revision win
\* (entity_resolver.py, _supersede_fields after _dedup_fields).
CurrentIsFromLatestStep ==
    \A n \in NamesIn(entities) : \A k \in KeysOf(n) \ MultiKey :
        LET latest == CHOOSE i \in Telling(n, k) : \A j \in Telling(n, k) : j <= i
            now == ValuesOf(FieldsOf(n), k)
        IN Len(now) = 1 /\ now[1].value \in ToSet(StepValues(told[n][latest], k))

\* No value is lost silently: whatever was ever said of an entity that is
\* still kept is current or stands in the history of its key, and a key has
\* one history at most, however often the state was resolved again
\* (entity_resolver.py, "auditable history, not a silent accumulation").
NothingToldIsLost ==
    \A n \in NamesIn(entities) : \A k \in KeysOf(n) \ MultiKey :
        LET chains == ChainsOf(FieldsOf(n), k)
            kept == {f.value : f \in ToSet(ValuesOf(FieldsOf(n), k))}
        IN /\ Len(chains) <= 1
           /\ EverTold(n, k) \subseteq
                kept \cup UNION {{e.value : e \in ToSet(c.chain)} : c \in ToSet(chains)}

\* A history reads forward in time and ends at the current value
\* (entity_resolver.py, the chain "250@step-0 -> 500@step-2 -> 750@step-4").
HistoryReadsForward ==
    \A n \in NamesIn(entities) : \A c \in ToSet(FieldsOf(n)) :
        c.of = "chain" =>
            /\ \A i, j \in DOMAIN c.chain : i < j => c.chain[i].at <= c.chain[j].at
            /\ ValuesOf(FieldsOf(n), c.key)[1].value = c.chain[Len(c.chain)].value

\* Keys of many values accumulate: every value said is still stated, and none
\* was moved into a history (entity_resolver.py, _MULTI_VALUE_KEYS).
ManyValuesAccumulate ==
    \A n \in NamesIn(entities) : \A k \in MultiKey :
        /\ EverTold(n, k) = {f.value : f \in ToSet(ValuesOf(FieldsOf(n), k))}
        /\ ChainsOf(FieldsOf(n), k) = <<>>

\* An update leaves a state that fits its budget, or no entity at all: the
\* decisions are never evicted and may alone exceed it (session.py, evict).
FitsOrEmpty ==
    evicting.pc = "no" => Tokens(entities, decisions) <= TokenBudget \/ entities = <<>>

\* An entity leaves only while the state is over budget, and the first to
\* leave is never more salient than one that stays (session.py, evict).
EvictionIsNeededAndFair ==
    [][\A n \in NamesIn(entities) \ NamesIn(entities') :
          /\ Tokens(entities, decisions) > TokenBudget
          /\ evicting.gone = 0 =>
               \A d \in ToSet(entities') :
                 KeptAs(n)[1].salience <= (CHOOSE e \in ToSet(entities) : e.name = d.name).salience
      ]_agentVars

\* A compressed state is current, loses nothing of what it keeps, and evicts
\* only for its budget and the least salient first.
StateKeepsWhatWasTold ==
    /\ [](CurrentIsFromLatestStep /\ NothingToldIsLost /\ HistoryReadsForward
            /\ ManyValuesAccumulate /\ FitsOrEmpty)
    /\ EvictionIsNeededAndFair

=============================================================================
