----------------------------- MODULE MCServices -----------------------------
(***************************************************************************)
(* Instances of the components that read the ledger, serve an agent or     *)
(* learn from its calls.  They share no state in the models, so one run    *)
(* checks them side by side: the initial state picks the component that    *)
(* runs, and the others keep their initial state.                          *)
(***************************************************************************)
EXTENDS Startup, CodePack, CodeTelemetry, Backfill, Confidence, Elicited,
        SessionQuery, EntityGraph, McpServer, Onboard, Codebase, Hydration,
        Scorecard, Commands

CONSTANTS s1, s2, s3, p1, p2, none, h1, h2, e1, e2, e3, f1, t1, t2, n1, n2

VARIABLE topic

Topics == {"startup", "pack", "telemetry", "backfill", "confidence", "elicited",
           "query", "graph", "mcp", "onboard", "codebase", "hydration",
           "scorecard", "commands"}

\* s1 and s2 share their prefix
SharedPrefix == [s \in Session |-> IF s = s3 THEN p2 ELSE p1]
HookSymmetry == Permutations(Hook)

\* "a" and "b" are modules; a content defines names and calls by text; "moved"
\* is "run" further down
CodeFiles == {"a", "b"}
CodeDefs == [c \in Source |-> CASE c \in {"run", "moved"} -> {"run"}
                                [] c = "caller" -> {"go", "K.run"}
                                [] OTHER -> {}]
CodeCalls == [c \in Source |-> CASE c = "caller" -> {<<"go", "run">>, <<"go", "K.run">>}
                                 [] c = "moved" -> {<<"run", "go">>, <<"run", "K.run">>}
                                 [] OTHER -> {}]
DottedTail == "K.run" :> "run"
CodePlaces == [c \in Source |-> IF c = "moved" THEN 2 ELSE 1]
CodeSymbols == <<<<"a", "go">>, <<"b", "run">>, <<"a", "run">>, <<"b", "K.run">>, <<"a", "K.run">>, <<"b", "go">>>>
CodeRanks == [n \in ToSet(CodeSymbols) |-> CHOOSE i \in DOMAIN CodeSymbols : CodeSymbols[i] = n]
CodeCosts == "run" :> 2 @@ "go" :> 4 @@ "K.run" :> 2

\* a hydrated symbol is <<file, name>>; "v2" lost the function of b.py
PackSymbols == {<<"a", "f">>, <<"b", "g">>}
InVersions == "v1" :> PackSymbols @@ "v2" :> {<<"a", "f">>}
Wordings == {<<"k", "w1">>, <<"k", "w2">>}

\* s1 and s2 share their prefix, and s2's transcript is hollow
ConvPrefixes == s1 :> p1 @@ s2 :> p1 @@ s3 :> p2
ConvNames == s1 :> 1 @@ s2 :> 2 @@ s3 :> 3
ConvGrades == s1 :> "ok" @@ s2 :> "hollow" @@ s3 :> "ok"

\* f1 is decided in one tier or another, f2 is only mentioned
Sections ==
    {[name |-> 1, fact |-> "f1", tier |-> 0, kind |-> "DECISION", turn |-> 2, roles |-> {"user"}],
     [name |-> 2, fact |-> "f1", tier |-> 3, kind |-> "DECISION", turn |-> 1, roles |-> {"user", "assistant"}],
     [name |-> 3, fact |-> "f2", tier |-> 3, kind |-> "LITERAL", turn |-> 2, roles |-> {}]}

\* sources in nested, skipped and framework directories
CodeFileOf(id, dir, lang) ==
    [id |-> id, dir |-> dir, lang |-> lang, parses |-> TRUE, page |-> FALSE, routes |-> 0,
     models |-> 0, tests |-> 0, comps |-> 0]
MCSources ==
    {CodeFileOf("main", <<>>, "py"), CodeFileOf("view", <<>>, "ts"),
     CodeFileOf("dep", <<"web", "node_modules">>, "ts"),
     [CodeFileOf("page", <<"web", "app", "shop">>, "ts") EXCEPT !.page = TRUE, !.comps = 1],
     [CodeFileOf("home", <<"app">>, "ts") EXCEPT !.page = TRUE],
     CodeFileOf("types", <<"web">>, "d.ts"),
     [CodeFileOf("order", <<"svc", "models", "core", "models">>, "py") EXCEPT !.models = 1],
     [CodeFileOf("get", <<"svc", "api", "v1", "routes">>, "py") EXCEPT !.routes = 1],
     [CodeFileOf("check", <<"svc">>, "py") EXCEPT !.tests = 2],
     [CodeFileOf("bad", <<"svc", "lib">>, "py") EXCEPT !.parses = FALSE]}
MCHook == CodeFileOf("hook", <<".claude", "hooks">>, "py")

\* two sections of one name, one that expires and a long one
Page(name, id, prov, layer, conf, expires, a, b) ==
    [name |-> name, id |-> id, prov |-> prov, layer |-> layer, conf |-> conf, expires |-> expires,
     words |-> [w \in {"a", "b"} |-> IF w = "a" THEN a ELSE b]]
MCPages ==
    {Page("CUST", "c1", FALSE, "", 0, 0, 1, 0), Page("CUST", "c2", TRUE, "rules", 40, 0, 2, 1),
     Page("FLAGS", "", TRUE, "ambient", 90, 1, 0, 1), Page("NOTES", "", FALSE, "", 0, 0, 3, 3)}
\* 100 ln(1 + (n - df + 1/2) / (df + 1/2))
MCIdf == [d \in (0..4) \X (1..4) |->
            IF d[1] = 0 THEN 0
            ELSE <<<<29>>, <<69, 18>>, <<98, 47, 13>>, <<120, 69, 36, 11>>>>[d[2]][d[1]]]
MCResponse == [said : {"", "both", "guard", "rehydrate"}, unknown : 0..2, empty : {FALSE}]
               \cup {[said |-> "", unknown |-> 0, empty |-> TRUE]}
MCRequests == {<<"FLAGS", "CUST">>, <<"CUST", "NOPE">>}
MCFilters == {[layers |-> {"rules", "ambient"}, conf |-> 0, expiry |-> FALSE],
              [layers |-> {"rules"}, conf |-> 50, expiry |-> FALSE],
              [layers |-> {"rules", "ambient"}, conf |-> 0, expiry |-> TRUE]}
MCWanted == {{"a"}, {"a", "b"}}

\* one repository has hooks, the other does not, and its name does not pass
DirsOfRepos == "a" :> "onboarded" @@ "b" :> "bare"

\* what other components keep while one runs
PackRests == disk = [f \in Files |-> NoFile]
GraphRests == refs = {} /\ sections = {Start}
ServicesInit ==
    /\ topic \in Topics
    /\ PackInit /\ (topic # "pack" => PackRests)
    /\ GraphInit /\ (topic # "graph" => GraphRests)
    /\ Init /\ (topic # "startup" => log = <<>>)
    /\ TelInit /\ BackfillInit /\ ConfInit /\ ElicitInit /\ QueryInit /\ McpInit
    /\ OnboardInit /\ CodebaseInit /\ HydraInit /\ ScoreInit /\ CmdInit

serviceVars ==
    <<vars, packVars, telVars, bfVars, confVars, elicitVars, queryVars,
      graphVars, mcpVars, onboardVars, codebaseVars, hydraVars, scVars,
      cmdVars>>
ServicesNext ==
    /\ UNCHANGED topic
    /\ \/ /\ topic = "startup" /\ Next
          /\ UNCHANGED
               <<packVars, telVars, bfVars, confVars, elicitVars, queryVars,
                 graphVars, mcpVars, onboardVars, codebaseVars, hydraVars, scVars,
                 cmdVars>>
       \/ /\ topic = "pack" /\ PackNext
          /\ UNCHANGED
               <<vars, telVars, bfVars, confVars, elicitVars, queryVars, graphVars,
                 mcpVars, onboardVars, codebaseVars, hydraVars, scVars, cmdVars>>
       \/ /\ topic = "telemetry" /\ TelNext
          /\ UNCHANGED
               <<vars, packVars, bfVars, confVars, elicitVars, queryVars, graphVars,
                 mcpVars, onboardVars, codebaseVars, hydraVars, scVars, cmdVars>>
       \/ /\ topic = "backfill" /\ BackfillNext
          /\ UNCHANGED
               <<vars, packVars, telVars, confVars, elicitVars, queryVars, graphVars,
                 mcpVars, onboardVars, codebaseVars, hydraVars, scVars, cmdVars>>
       \/ /\ topic = "confidence" /\ ConfNext
          /\ UNCHANGED
               <<vars, packVars, telVars, bfVars, elicitVars, queryVars, graphVars,
                 mcpVars, onboardVars, codebaseVars, hydraVars, scVars, cmdVars>>
       \/ /\ topic = "elicited" /\ ElicitNext
          /\ UNCHANGED
               <<vars, packVars, telVars, bfVars, confVars, queryVars, graphVars,
                 mcpVars, onboardVars, codebaseVars, hydraVars, scVars, cmdVars>>
       \/ /\ topic = "query" /\ QueryNext
          /\ UNCHANGED
               <<vars, packVars, telVars, bfVars, confVars, elicitVars, graphVars,
                 mcpVars, onboardVars, codebaseVars, hydraVars, scVars, cmdVars>>
       \/ /\ topic = "graph" /\ GraphNext
          /\ UNCHANGED
               <<vars, packVars, telVars, bfVars, confVars, elicitVars, queryVars,
                 mcpVars, onboardVars, codebaseVars, hydraVars, scVars, cmdVars>>
       \/ /\ topic = "mcp" /\ McpNext
          /\ UNCHANGED
               <<vars, packVars, telVars, bfVars, confVars, elicitVars, queryVars,
                 graphVars, onboardVars, codebaseVars, hydraVars, scVars, cmdVars>>
       \/ /\ topic = "onboard" /\ OnboardNext
          /\ UNCHANGED
               <<vars, packVars, telVars, bfVars, confVars, elicitVars, queryVars,
                 graphVars, mcpVars, codebaseVars, hydraVars, scVars, cmdVars>>
       \/ /\ topic = "codebase" /\ CodebaseNext
          /\ UNCHANGED
               <<vars, packVars, telVars, bfVars, confVars, elicitVars, queryVars,
                 graphVars, mcpVars, onboardVars, hydraVars, scVars, cmdVars>>
       \/ /\ topic = "hydration" /\ HydraNext
          /\ UNCHANGED
               <<vars, packVars, telVars, bfVars, confVars, elicitVars, queryVars,
                 graphVars, mcpVars, onboardVars, codebaseVars, scVars, cmdVars>>
       \/ /\ topic = "scorecard" /\ ScoreNext
          /\ UNCHANGED
               <<vars, packVars, telVars, bfVars, confVars, elicitVars, queryVars,
                 graphVars, mcpVars, onboardVars, codebaseVars, hydraVars, cmdVars>>
       \/ /\ topic = "commands" /\ CmdNext
          /\ UNCHANGED
               <<vars, packVars, telVars, bfVars, confVars, elicitVars, queryVars,
                 graphVars, mcpVars, onboardVars, codebaseVars, hydraVars, scVars>>

ServicesSpec == ServicesInit /\ [][ServicesNext]_<<topic, serviceVars>>
=============================================================================
