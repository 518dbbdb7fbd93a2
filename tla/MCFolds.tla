------------------------------ MODULE MCFolds ------------------------------
(***************************************************************************)
(* The folds of the program side by side on small instances: the lines of  *)
(* a message, a transcript with the lint and the gist that follow from it, *)
(* an event log with its ranking, the state of an agent, the fields of a   *)
(* corpus, its pack, the overview of a document, the text of a document    *)
(* and the source files of a corpus.  A behaviour picks a topic and moves  *)
(* the instance of that topic alone.                                       *)
(***************************************************************************)
EXTENDS TranscriptText, Gist, Rank, AgentSession, FieldConflicts, Packer,
        Overview, CtxText, SourceReaders

CONSTANTS noFact, noReason,
          dec, rot, vow, rule, over, plain, note, oops

MCLine(k, mark, ends, ind, len) ==
    [k |-> k, mark |-> mark, ends |-> ends, ind |-> ind, len |-> len,
     c |-> "none", n |-> 0, info |-> "none"]
MCFence(c, n, info) ==
    [MCLine("fence", "none", FALSE, FALSE, 1) EXCEPT !.c = c, !.n = n, !.info = info]
MCLines ==
    {MCLine("blank", "none", FALSE, FALSE, 0), MCLine("prose", "none", FALSE, FALSE, 1),
     MCLine("prose", "none", TRUE, FALSE, 1), MCLine("prose", "none", FALSE, TRUE, 2),
     MCLine("head", "none", FALSE, FALSE, 1), MCLine("item", "none", FALSE, FALSE, 1),
     MCLine("prose", "decision", FALSE, FALSE, 2), MCLine("prose", "supersedes", FALSE, FALSE, 2),
     MCFence("tick", 3, "none"), MCFence("tick", 4, "word"), MCFence("tilde", 3, "none"),
     MCFence("tick", 3, "tick")}

\* spans of a short message
MCCandidates == [at : 0..2, len : 1..3, prio : 0..1]

\* what the extractors see of a sentence
Meaning(f, ref, why, lits, about, clash, prot) ==
    [f |-> f, ref |-> ref, why |-> why, lits |-> lits, about |-> about,
     clash |-> clash, prot |-> prot]
MCMeans ==
    [s \in Sentence |->
        CASE s = dec   -> Meaning({"mark"}, noFact, noReason, <<"sha">>, {}, {rule, vow}, {"core"})
          [] s = rot   -> Meaning({"alias", "verb"}, noFact, noReason, <<>>, {}, {rule}, {})
          [] s = vow   -> Meaning({"con"}, noFact, noReason, <<>>, {}, {}, {})
          [] s = rule  -> Meaning({"imp"}, noFact, noReason, <<"pr">>, {}, {}, {})
          [] s = over  -> Meaning({"sup"}, <<"CONSTRAINT", rule>>, "why", <<"fid">>, {}, {}, {})
          [] s = plain -> Meaning({"sup"}, <<"CONSTRAINT", vow>>, noReason, <<>>, {}, {}, {})
          [] s = note  -> Meaning({"failed", "mark", "imp"}, noFact, noReason, <<>>, {}, {}, {})
          [] s = oops  -> Meaning({"inc"}, noFact, noReason, <<"stale">>, {dec, rule, "sha"}, {}, {})
          [] OTHER     -> Meaning({}, noFact, noReason, <<>>, {}, {}, {})]
MCTexts == {<<dec>>, <<dec, over>>, <<dec, rot, over>>, <<dec, note, plain>>,
            <<over>>, <<oops>>, <<rule, oops>>, <<vow, dec>>}
MCFileName(p) == "FILE"
MCSubjects == <<"core">>
MCBanked == <<<<"CONSTRAINT", vow>>>>
MCRank(n) == CASE n[1] = "CONSTRAINT" -> 300 [] n[1] = "DECISION" -> 120
               [] n[1] = "LITERAL" -> 180 [] n[1] = "INCIDENT" -> 200 [] OTHER -> 100

MCRow(ev, fact, kind, basis, marker, session, id, type) ==
    [ev |-> ev, fact |-> fact, kind |-> kind, basis |-> basis, marker |-> marker,
     lit |-> "path", session |-> session, foreign |-> session = "bench", id |-> id, type |-> type]
Asserts(fact, kind, basis, marker, session) ==
    MCRow("fact_asserted", fact, kind, basis, marker, session, "", "unknown")
MCRows ==
    {Asserts("c", "CONSTRAINT", "user_imperative", "", "s1"),
     Asserts("d", "DECISION", "inferred", "verdict", "s1"),
     Asserts("d", "DECISION", "inferred", "verdict", "s2"),
     Asserts("l", "LITERAL", "literal_extractor", "", "s1"),
     Asserts("l", "LITERAL", "literal_extractor", "", "s2"),
     Asserts("e", "ERROR", "structural", "", "s2"),
     Asserts("d", "DECISION", "marker_stated", "decision", "bench"),
     MCRow("incident", "c", "", "", "", "s2", "i1", "wrong"),
     MCRow("incident", "e", "", "", "", "s1", "i2", "saved"),
     MCRow("incident", "e", "", "", "", "s1", "i3", "native"),
     MCRow("fact_superseded", "c", "", "", "", "s2", "", "unknown")}

\* what an agent may observe at a step
Pair(k, v) == [key |-> k, value |-> v]
Observation(name, pairs) == [name |-> name, pairs |-> pairs]
Observing(seen) == [kind |-> "entities", seen |-> seen]
MCSteps ==
    {[kind |-> "decision", seen |-> <<>>],
     Observing(<<Observation("u", <<Pair("k", "a")>>)>>),
     Observing(<<Observation("u", <<Pair("k", "b")>>)>>),
     Observing(<<Observation("u", <<Pair("k", "c"), Pair("RULE", "a")>>)>>),
     Observing(<<Observation("u", <<Pair("RULE", "b")>>)>>),
     Observing(<<Observation("u", <<Pair("k", "a")>>), Observation("u", <<Pair("k", "b")>>)>>),
     Observing(<<Observation("w", <<Pair("k", "@U")>>)>>),
     Observing(<<Observation("w", <<Pair("k", "b")>>), Observation("u", <<Pair("k", "a")>>)>>)}
MCRefers(v) == IF v = "@U" THEN {"u"} ELSE {}

\* fields whose checks overlap
Rule(entity, kind, name, value, version) ==
    [entity |-> entity, kind |-> kind, name |-> name, value |-> value, version |-> version]
MCRules ==
    {Rule("a", "retention", "keep", "24 months", ""), Rule("b", "retention", "keep", "2 years", ""),
     Rule("c", "retention", "keep", "36 months", "v1"), Rule("d", "retention", "keep", "long", ""),
     Rule("a", "type", "id", "uuid", ""), Rule("b", "type", "id", "int", ""),
     Rule("c", "type", "id", "str", ""), Rule("c", "type", "key", "int", ""),
     Rule("d", "type", "id", "uuid", ""), Rule("a", "type", "id", "int", "v1"),
     Rule("a", "type", "id", "uuid", "v2"), Rule("a", "type", "id", "str", "v1"),
     Rule("a", "type", "id", "bytes", "v3"),
     Rule("a", "guard", "use", "active", ""), Rule("b", "guard", "use", "inactive", ""),
     Rule("a", "guard", "use", "inactive", ""),
     Rule("a", "required", "id", "", ""), Rule("b", "required", "id", "", ""),
     Rule("a", "nullable", "id", "p", ""), Rule("a", "never", "id", "q", ""),
     Rule("b", "never", "id", "r", ""), Rule("b", "nullable", "id", "r", "")}
MCMonths(v) == CASE v \in {"24 months", "2 years"} -> 24 [] v = "36 months" -> 36 [] OTHER -> 0
MCOpposite(v, w) == {v, w} = {"active", "inactive"}

\* five files: an order, two that describe the customer, an excluded one and
\* the configuration
Told(key, value, prot, raw) ==
    [key |-> key, value |-> value, inferred |-> FALSE, prot |-> prot, raw |-> raw,
     salience |-> 10]
Guessed(key, value) == [Told(key, value, FALSE, TRUE) EXCEPT !.inferred = TRUE]
Thing(name, fields, rels) == [name |-> name, fields |-> fields, rels |-> rels]
Relates(type, to, via) == [type |-> type, to |-> to, via |-> via]
MCContents(f) ==
    CASE f = "order" ->
           <<Thing("ORDER", <<Told("id", "x", TRUE, FALSE), Told("note", "long", FALSE, TRUE),
                              Told("belongs-to", "CUST", FALSE, TRUE)>>,
                   {Relates("belongs-to", "CUST", "id"), Relates("belongs-to", "CUST", "payer")})>>
      [] f = "cust" ->
           <<Thing("CUST", <<Guessed("id", "x"), Told("flag", "true", TRUE, FALSE)>>, {})>>
      [] f = "cust2" ->
           <<Thing("CUST", <<Told("flag", "true", TRUE, FALSE), Told("flag", "long", FALSE, FALSE)>>,
                   {Relates("has-many", "ITEM", "id")}),
             Thing("ITEM", <<Told("flag", "no", TRUE, FALSE)>>,
                   {Relates("belongs-to", "ORDER", "id")})>>
      [] OTHER -> <<Thing("JUNK", <<>>, {})>>
MCWeights == [flag |-> 1, note |-> 4]
MCExpected(n) == IF n = "CUST" THEN {"flag", "pii"} ELSE {}

\* sections whose mentions make hubs, with marks of every severity
SectionLine(name, refs, patterns, marks) ==
    [name |-> name, refs |-> refs, patterns |-> patterns, marks |-> marks]
MCSections ==
    {SectionLine("a", <<"b", "b", "a">>, 1, <<2, 0>>), SectionLine("b", <<"c">>, 0, <<3>>),
     SectionLine("c", <<"b", "a">>, 2, <<1, 0, 3>>), SectionLine("d", <<>>, 0, <<>>),
     SectionLine("a", <<>>, 3, <<0, 1, 2, 3>>)}

\* lines of every kind, one that opens a bracket and one that closes it
TextLine(kind, ind, net) == [kind |-> kind, ind |-> ind, net |-> net, id |-> "x"]
MCBody ==
    {TextLine("blank", 0, 0), TextLine("section", 0, 0), TextLine("section", 2, 0),
     TextLine("kv", 0, 0), TextLine("kv", 2, 1), TextLine("plain", 0, -1),
     TextLine("fence", 0, 0), TextLine("inline", 0, 0)}
MCKeys == {<<"required", 1>>, <<"required", 2>>, <<"recommended", 1>>, <<"recommended", 2>>,
           <<"custom", 0>>}

\* headings of every level, pairs of every kind, tables in tables, spellings
HeadingLine(level, about) == [k |-> "head", lvl |-> level, about |-> about]
Passage(k) == [k |-> k, lvl |-> 0, about |-> NoThing]
MCYamlKeys == <<{"entity", "rules", "a"}, {"identifier", "b"}, {"c"}, {"refs"}>>
MCYamlLines(keys) ==
    [k : {"kv", "key", "dashkv"}, ind : 1..3, key : keys]
      \cup [k : {"bad", "flow"}, ind : 1..2, key : keys] \cup [k : {"open"}, ind : {1}, key : keys]
      \cup [k : {"item", "dash"}, ind : 1..3, key : {""}]
      \cup [k : {"bare", "more"}, ind : {1}, key : {""}]
MCRecords(f, p) ==
    CASE f = "yaml" -> MCYamlLines(MCYamlKeys[p])
      [] f = "md" -> {HeadingLine(1, "E"), HeadingLine(2, "E"), HeadingLine(1, NoThing), HeadingLine(2, NoThing),
                      HeadingLine(3, "E"), Passage("bullet"), Passage("prose"), Passage("note"), Passage("warn")}
      [] f = "json" -> {"entity", "rules", "policies", "a", "b"} \X
                       {"scalar", "table", "entity", "objects", "uneven", "group"}
      [] f = "toml" -> [k : {"table", "array"}, path : {<<"t">>, <<"t", "u">>}, key : {""}]
                         \cup [k : {"pair"}, path : {<<>>}, key : {"k", "u"}]
      [] OTHER -> [entity : {"x y", "x_y", "z", NoThing}, field : {"f", NoThing}]
MCMaxRecords(f) == CASE f \in {"md", "toml"} -> 5 [] f = "yaml" -> 4 [] OTHER -> 3
MCNameOf(n) == IF n \in {"x y", "x_y"} THEN "X-Y" ELSE n

-----------------------------------------------------------------------------
VARIABLE topic

ledgerVars == <<textVars, log, ents, edits, events>>
corpusVars == <<agentVars, index, packVars, overviewVars, readerVars>>
mcVars == <<topic, ledgerVars, corpusVars, ctxVars>>

\* the inputs that Init chooses are chosen for their own topic only
MCInit ==
    /\ topic \in {"message", "transcript", "ranks", "agent", "conflicts", "pack", "overview", "ctx",
                 "sources"}
    /\ TextInit /\ ParserInit /\ RankInit
    /\ AgentInit /\ ConflictInit /\ OverviewInit
    /\ PackInit
    /\ topic = "pack" \/ (~packing.strict /\ packing.preset = "none")
    /\ ReadersInit /\ (topic = "sources" \/ format = "md")
    /\ IF topic = "ctx" THEN CtxInit ELSE CtxInit /\ source = <<>>
MCNext ==
    /\ UNCHANGED topic
    /\ \/ topic = "message" /\ TextNext /\ UNCHANGED <<log, ents, edits, events, corpusVars, ctxVars>>
       \/ topic = "transcript" /\ ParserNext /\ UNCHANGED <<textVars, events, corpusVars, ctxVars>>
       \/ topic = "ranks" /\ RankNext /\ UNCHANGED <<textVars, log, ents, edits, corpusVars, ctxVars>>
       \/ topic = "agent" /\ AgentNext
            /\ UNCHANGED <<ledgerVars, index, packVars, overviewVars, readerVars, ctxVars>>
       \/ topic = "conflicts" /\ ConflictNext
            /\ UNCHANGED <<ledgerVars, agentVars, packVars, overviewVars, readerVars, ctxVars>>
       \/ topic = "pack" /\ PackNext
            /\ UNCHANGED <<ledgerVars, agentVars, index, overviewVars, readerVars, ctxVars>>
       \/ topic = "overview" /\ OverviewNext
            /\ UNCHANGED <<ledgerVars, agentVars, index, packVars, readerVars, ctxVars>>
       \/ topic = "ctx" /\ CtxNext /\ UNCHANGED <<ledgerVars, corpusVars>>
       \/ topic = "sources" /\ ReadersNext
            /\ UNCHANGED <<ledgerVars, agentVars, index, packVars, overviewVars, ctxVars>>
MCSpec == MCInit /\ [][MCNext]_mcVars
=============================================================================
