-------------------------- MODULE TranscriptParser --------------------------
(***************************************************************************)
(* parse_transcript of ctxpack/agent/transcript_parser.py: a session's     *)
(* transcript folded, entry by entry, into the entities of its ledger.     *)
(* Every checkpoint parses the whole transcript again, so what a longer    *)
(* transcript yields must agree with what a shorter one did.               *)
(*                                                                         *)
(* A sentence is a model value; Means gives what the extractors see of it: *)
(*   f      its features: "inc", "sup", "con" and "mark" for the markers   *)
(*          ctx-incident, Supersedes, Constraint and Decision, "alias" for *)
(*          Verdict and the like, "imp", "failed", "verb" for the patterns *)
(*   ref, why   the fact and the reason of a Supersedes: payload           *)
(*   lits   the identifiers it names, in their order                      *)
(*   about  for an incident, the values its fact= payload matches          *)
(* An entity is named <<kind, value>>, which is also its FACT-ID.          *)
(***************************************************************************)
EXTENDS Integers, Sequences, FiniteSets, SequencesExt

CONSTANTS
    Sentence, Means,
    Text,           \* the texts, each a sequence of sentences, that occur
    Failure, Task,  \* texts of tool errors, subjects of tasks
    Path,           \* files the agent edits
    FileName(_),    \* _file_entity_name: not injective
    NoFact, NoReason,
    MaxEntries      \* bound: entries of a transcript

ASSUME PathAssumption == IsFiniteSet(Path)
\* what entities are about
Identifiers == UNION {ToSet(Means[s].lits) : s \in Sentence}
EntityNames ==
    ({"INCIDENT", "USER-REQUEST", "CONSTRAINT", "FAILED-APPROACH", "DECISION"} \X Sentence)
        \cup ({"LITERAL"} \X Identifiers) \cup ({"ERROR"} \X Failure)
        \cup ({"TASK"} \X Task) \cup ({"FILE"} \X {FileName(p) : p \in Path})

ASSUME TextsAssumption == Text \subseteq Seq(Sentence)
ASSUME MeansAssumption == \A s \in Sentence : Means[s].lits \in Seq(ToSet(Means[s].lits))

VARIABLES
    log,            \* the transcript's entries
    ents,           \* entities banked from them, in order
    edits           \* file_edits: path -> number of edits and last turn

parserVars == <<log, ents, edits>>

Is(s, f) == f \in Means[s].f
Named(led, n) == \E i \in DOMAIN led : led[i].name = n
Pos(led, n) == CHOOSE i \in DOMAIN led : led[i].name = n
Turn == Len(log)    \* the index of the entry being parsed, from 0

Entity(n, role, basis, t) ==
    [name |-> n, turn |-> t, role |-> role, roles |-> {}, basis |-> basis,
     sup |-> NoFact, why |-> NoReason, state |-> "none"]

\* _merge_role_evidence: every later assertion of a fact is evidence
MergeRole(e, role, t) ==
    [e EXCEPT !.roles = @ \cup {<<e.role, e.turn>>, <<role, t>>}]

\* _add: the first assertion makes the entity
Add(led, e) ==
    IF ~Named(led, e.name) THEN Append(led, e)
    ELSE IF e.role = "none" THEN led
    ELSE [led EXCEPT ![Pos(led, e.name)] = MergeRole(@, e.role, e.turn)]

\* _add with update=True: a field the task already has follows the latest list
Refresh(led, e) ==
    IF ~Named(led, e.name) THEN Append(led, e)
    ELSE [led EXCEPT ![Pos(led, e.name)].state = IF @ = "none" THEN @ ELSE e.state]

\* _attach, for both fields of a Supersedes: line, each the first time only
Attach(e, s) ==
    [e EXCEPT !.sup = IF @ = NoFact THEN Means[s].ref ELSE @,
              !.why = IF @ = NoReason THEN Means[s].why ELSE @]
Bind(led, n, s) ==
    IF n = NoFact \/ Means[s].ref = NoFact THEN led
    ELSE [led EXCEPT ![Pos(led, n)] = Attach(@, s)]

\* one entity after another
AddAll(led, es) ==
    LET after[m \in 0..Len(es)] == IF m = 0 THEN led ELSE Add(after[m - 1], es[m])
    IN after[Len(es)]

\* what a sentence yields in the passes that look at one sentence at a time.
\* _extract_incidents banks the marked lines and takes them out of the text;
\* an assistant's Supersedes: line names no identifiers (_add_literals)
Yields(pass, s, role, t) ==
    CASE pass = "incidents" /\ Is(s, "inc") ->
            <<Entity(<<"INCIDENT", s>>, role, "marker_stated", t)>>
      [] pass = "rules" /\ Is(s, "imp") /\ ~Is(s, "inc") ->
            <<Entity(<<"CONSTRAINT", s>>, role, "user_imperative", t)>>
      [] pass = "literals" /\ ~Is(s, "inc") /\ ~(role = "assistant" /\ Is(s, "sup")) ->
            [i \in DOMAIN Means[s].lits |->
                Entity(<<"LITERAL", Means[s].lits[i]>>, role, "literal_extractor", t)]
      [] OTHER -> <<>>
Extract(pass, led, txt, role, t) ==
    LET after[i \in 0..Len(txt)] ==
            IF i = 0 THEN led ELSE AddAll(after[i - 1], Yields(pass, txt[i], role, t))
    IN after[Len(txt)]
Unmarked(txt) == {i \in DOMAIN txt : ~Is(txt[i], "inc")}

\* a user turn: incidents, the request, then constraints and identifiers;
\* pasted text (over 3000 characters) yields the request alone
TakeUser(led, txt, pasted, t) ==
    LET rest == IF pasted THEN DOMAIN txt ELSE Unmarked(txt)
        asked == IF pasted THEN led ELSE Extract("incidents", led, txt, "user", t)
        first == txt[CHOOSE i \in rest : \A j \in rest : i <= j]
        request == Add(asked, Entity(<<"USER-REQUEST", first>>, "user", "structural", t))
    IN IF rest = {} THEN asked
       ELSE IF pasted THEN request
       ELSE Extract("literals", Extract("rules", request, txt, "user", t), txt, "user", t)

\* (mutant) an override binds to the first decision of the block
TakeSentenceFirst(acc, s, t) ==
    LET Bank(kind, basis) == Add(acc.led, Entity(<<kind, s>>, "assistant", basis, t)) IN
    IF Is(s, "inc") THEN acc
    ELSE IF Is(s, "sup") THEN [acc EXCEPT !.led = Bind(@, acc.last, s)]
    ELSE IF Means[s].f \cap {"mark", "alias", "verb"} # {}
         THEN [led |-> Bank("DECISION", "marker_stated"),
               last |-> IF acc.last = NoFact THEN <<"DECISION", s>> ELSE acc.last]
    ELSE acc
\* an assistant text block: the extractors in their order of precedence, and
\* the decision a Supersedes: line would bind to
TakeSentence(acc, s, t) ==
    LET Bank(kind, basis) == Add(acc.led, Entity(<<kind, s>>, "assistant", basis, t)) IN
    IF Is(s, "inc") THEN acc
    ELSE IF Is(s, "sup") THEN [acc EXCEPT !.led = Bind(@, acc.last, s)]
    ELSE IF Is(s, "con") THEN [acc EXCEPT !.led = Bank("CONSTRAINT", "marker_stated")]
    ELSE IF Is(s, "failed") THEN [acc EXCEPT !.led = Bank("FAILED-APPROACH", "inferred")]
    ELSE IF Means[s].f \cap {"mark", "alias", "verb"} # {}
         THEN [led |-> Bank("DECISION", IF Is(s, "mark") \/ Is(s, "alias")
                                        THEN "marker_stated" ELSE "inferred"),
               last |-> <<"DECISION", s>>]
    ELSE acc

TakeSentences(led, txt, t) ==
    LET after[i \in 0..Len(txt)] ==
            IF i = 0 THEN [led |-> led, last |-> NoFact] ELSE TakeSentence(after[i - 1], txt[i], t)
    IN after[Len(txt)].led
TakeAssistant(led, txt, t) ==
    Extract("literals", TakeSentences(Extract("incidents", led, txt, "assistant", t), txt, t),
            txt, "assistant", t)

\* what a sequence has at some of its positions, in its order
Placing(at, i, P) == IF i \in P THEN Append(at, i) ELSE at
Ascending(n, P) ==
    LET upto[i \in 0..n] == IF i = 0 THEN <<>> ELSE Placing(upto[i - 1], i, P) IN upto[n]
Picked(s, P) == LET at == Ascending(Len(s), P) IN [k \in DOMAIN at |-> s[at[k]]]

\* the end of the parse: one entity per edited file, in the order of the paths
WithFiles(led) ==
    LET paths == SetToSeq(Path)
        files == Picked(paths, {i \in DOMAIN paths : edits[paths[i]].n > 0})
    IN AddAll(led, [i \in DOMAIN files |-> Entity(<<"FILE", FileName(files[i])>>, "none",
                                                "structural", edits[files[i]].last)])

\* _link_incidents: exactly one banked fact matches, or no link
LinkKinds == {"DECISION", "CONSTRAINT", "LITERAL", "FAILED-APPROACH"}
LinkedTo(led, i) ==
    LET hits == {n \in {led[j].name : j \in DOMAIN led} :
                    n[1] \in LinkKinds /\ n[2] \in Means[i].about}
    IN IF Cardinality(hits) = 1 THEN CHOOSE n \in hits : TRUE ELSE NoFact

-----------------------------------------------------------------------------
ParserInit ==
    /\ log = <<>>
    /\ ents = <<>>
    /\ edits = [p \in Path |-> [n |-> 0, last |-> 0]]

Entry(kind, txt) == [kind |-> kind, txt |-> txt]
Read(e) == Len(log) < MaxEntries /\ log' = Append(log, e)

UserTurn(txt, pasted) ==
    /\ Read(Entry(IF pasted THEN "pasted" ELSE "user", txt))
    /\ ents' = TakeUser(ents, txt, pasted, Turn)
    /\ UNCHANGED edits

AssistantText(txt) ==
    /\ Read(Entry("assistant", txt))
    /\ ents' = TakeAssistant(ents, txt, Turn)
    /\ UNCHANGED edits

\* a tool result flagged is_error
ToolError(s) ==
    /\ Read(Entry("error", <<s>>))
    /\ ents' = Add(ents, Entity(<<"ERROR", s>>, "tool", "structural", Turn))
    /\ UNCHANGED edits

\* Edit, Write, MultiEdit, NotebookEdit
WriteTool(p) ==
    /\ Read(Entry("write", <<p>>))
    /\ edits' = [edits EXCEPT ![p] = [n |-> @.n + 1, last |-> Turn]]
    /\ UNCHANGED ents

\* TodoWrite replaces a known task's status, TaskCreate does not
TaskTool(s, state, update) ==
    LET e == [Entity(<<"TASK", s>>, "none", "structural", Turn) EXCEPT !.state = state] IN
    /\ Read(Entry(IF update THEN "todo" ELSE "task", <<s, state>>))
    /\ ents' = IF update THEN Refresh(ents, e) ELSE Add(ents, [e EXCEPT !.state = "none"])
    /\ UNCHANGED edits

ParserNext ==
    \/ \E txt \in Text : AssistantText(txt) \/ \E pasted \in BOOLEAN : UserTurn(txt, pasted)
    \/ \E s \in Failure : ToolError(s)
    \/ \E p \in Path : WriteTool(p)
    \/ \E s \in Task, state \in {"pending", "done"}, update \in BOOLEAN :
            TaskTool(s, state, update)
-----------------------------------------------------------------------------
(* A checkpoint never takes back what an earlier one banked: as the        *)
(* transcript grows an entity keeps its place, its first turn, role and    *)
(* basis, evidence only accumulates, and a declared override stays (the    *)
(* first-wins rule of _add and _attach).                                   *)
FirstAssertionStands ==
    [][/\ Len(ents') >= Len(ents)
       /\ \A i \in DOMAIN ents :
            LET e == ents[i]  new == ents'[i] IN
            /\ <<new.name, new.turn, new.role, new.basis>> = <<e.name, e.turn, e.role, e.basis>>
            /\ e.roles \subseteq new.roles
            /\ e.sup # NoFact => new.sup = e.sup
            /\ e.why # NoReason => new.why = e.why]_parserVars

Evidence(e) == e.roles \cup {<<e.role, e.turn>>}

(* Every re-assertion is evidence, not a duplicate to discard: when an     *)
(* entry repeats an earlier one word for word, each fact the first one     *)
(* asserted carries the second as well, and no other fact does.            *)
EveryAssertionCounts ==
    \A i, j \in DOMAIN log :
        (i < j /\ log[i] = log[j] /\ log[i].kind \in {"user", "pasted", "assistant", "error"}) =>
            \A e \in ToSet(ents) : \A r \in {"user", "assistant", "tool"} :
                <<r, i - 1>> \in Evidence(e) <=> <<r, j - 1>> \in Evidence(e)

(* An identifier is banked only from a sentence that states it: the        *)
(* payload of an incident line (a stale value, say), the fact id of an     *)
(* assistant's Supersedes: line and pasted text never mint one.            *)
LiteralsAreStated ==
    \A e \in ToSet(ents) : e.name[1] = "LITERAL" =>
        \E i \in DOMAIN log : \E s \in ToSet(log[i].txt) :
            /\ log[i].kind \in {"user", "assistant"}
            /\ e.name[2] \in ToSet(Means[s].lits) /\ ~Is(s, "inc")
            /\ log[i].kind = "assistant" => ~Is(s, "sup")

IsDecisionSentence(s) ==
    /\ Means[s].f \cap {"inc", "sup", "con", "failed"} = {}
    /\ Means[s].f \cap {"mark", "alias", "verb"} # {}

(* An override binds to the decision it follows in the same text block,    *)
(* never across blocks and never to an earlier decision of the block.      *)
OverrideFollowsItsDecision ==
    \A e \in ToSet(ents) : e.sup # NoFact =>
        \E k \in DOMAIN log : log[k].kind = "assistant" /\
            \E i, j \in DOMAIN log[k].txt :
                LET txt == log[k].txt IN
                /\ i < j /\ <<"DECISION", txt[i]>> = e.name
                /\ Is(txt[j], "sup") /\ Means[txt[j]].ref = e.sup
                /\ \A m \in (i + 1)..(j - 1) : ~IsDecisionSentence(txt[m])

(* An incident's link never moves from one fact to another: a later        *)
(* checkpoint may only withdraw it, when a second fact matches.            *)
LinkNeverMoves ==
    [][\A e \in ToSet(ents) : (e.name[1] = "INCIDENT" /\ LinkedTo(ents, e.name[2]) # NoFact) =>
            LinkedTo(ents', e.name[2]) \in {NoFact, LinkedTo(ents, e.name[2])}]_parserVars

(* A growing transcript only ever adds: first assertions stand, later ones *)
(* are evidence, identifiers are stated ones, and overrides and links stay *)
(* with their fact.                                                        *)
AssertionsAreKept ==
    /\ [](EveryAssertionCounts /\ LiteralsAreStated /\ OverrideFollowsItsDecision)
    /\ FirstAssertionStands
    /\ LinkNeverMoves

=============================================================================
