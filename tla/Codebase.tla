------------------------------ MODULE Codebase ------------------------------
(***************************************************************************)
(* The codebase compiler (modules/codebase.py): which files of a           *)
(* repository are analysed, what the exported documents and rules say of   *)
(* them, and the harness that is generated once and never overwritten.     *)
(* Directories are sequences of names; what a parser finds in a file is a  *)
(* record of counts.  The user adds files and edits what was generated     *)
(* while the harness runs, and a run may die.                              *)
(***************************************************************************)
EXTENDS Integers, Sequences, FiniteSets, SequencesExt, FiniteSetsExt

CONSTANTS
    SourceFile,     \* [dir, lang, page, routes, models, tests, comps, id]
    SkipDir,        \* _SKIP_DIRS
    HookSource,     \* the file record of .claude/hooks/quality-check.py
    LineCap,        \* max_lines of the exports
    MaxMoves        \* bound: runs of a command and edits together

VARIABLES
    tree,       \* the source files of the user
    gen,        \* what .claude/ holds of the generated files
    harness,    \* the running harness
    cbCounts    \* harness runs and edits so far

codebaseVars == <<tree, gen, harness, cbCounts>>

HarnessFiles == <<"anti-slop", "test-requirements", "commit-conventions", "quality-check">>
RuleFiles == {"api-routes", "data-models", "frontend-components", "test-conventions"}

----------------------------------------------------------------------------
(* The files that are analysed.                                            *)

\* the generated hook is a Python file of the repository like any other
Tree == tree \cup (IF gen["quality-check"] = "none" THEN {} ELSE {HookSource})
Python == {"py"}
Script == {"ts", "d.ts"}
Skipped(dir, from) == \E i \in from..Len(dir) : dir[i] \in SkipDir
\* os.walk from a directory, pruned
Walked(root) == {f \in Tree : IsPrefix(root, f.dir) /\ ~Skipped(f.dir, Len(root) + 1)}
FoundDirs(langs) ==
    {f.dir : f \in {g \in Tree : g.lang \in langs /\ g.dir # <<>> /\ ~Skipped(g.dir, 1)}}
PyDirs == FoundDirs(Python) \cup {f.dir : f \in {g \in Tree : g.lang = "py" /\ g.dir = <<>>}}
TsDirs == FoundDirs(Script)
\* (mutant) only the parent itself is looked up, not every ancestor
NotNested(dirs) == {d \in dirs : d = <<>> \/ Front(d) \notin dirs}
\* the topmost directories of a set
Topmost(dirs) == {d \in dirs : ~\E e \in dirs : IsStrictPrefix(e, d)}
Roots(dirs) == IF PyDirs = {} /\ TsDirs = {} THEN {<<>>} ELSE Topmost(dirs)

PyAnalyzed(root) == {f \in Walked(root) : f.lang = "py" /\ f.parses}
TsAnalyzed(root) == {f \in Walked(root) : f.lang = "ts"}
\* a page below app/ of the scanned directory is a route of Next.js
NextRoute(root, f) == IF f.page /\ IsPrefix(root \o <<"app">>, f.dir) THEN 1 ELSE 0
Modules ==
    UNION {{<<root, f>> : f \in PyAnalyzed(root)} : root \in Roots(PyDirs)}
      \cup UNION {{<<root, [f EXCEPT !.routes = NextRoute(root, f)]>> : f \in TsAnalyzed(root)}
                    : root \in Roots(TsDirs)}
Analyzed == {m[2] : m \in Modules}

----------------------------------------------------------------------------
(* The exported documents and rules.                                       *)

GroupOf(f) == SubSeq(f.dir, 1, Min({3, Len(f.dir)}))
Groups == {GroupOf(f) : f \in Analyzed}
InGroup(g) == {f \in Analyzed : GroupOf(f) = g}
Notable(g, crowd) ==
    \/ \E f \in InGroup(g) : f.routes + f.models + f.tests > 0
    \/ Cardinality(InGroup(g)) >= crowd
MapDirectories == {g \in Groups : Notable(g, 3)}
AgentsDirectories == {g \in Groups : Notable(g, 5)}
LeftOut == UNION {InGroup(g) : g \in Groups \ MapDirectories}
\* the lines of the codebase map before they are cut
MapLines ==
    20 + Cardinality(MapDirectories) + (IF LeftOut # {} THEN 1 ELSE 0)
      + (IF \E f \in Analyzed : f.models > 0 THEN 4 ELSE 0)
      + (IF \E f \in Analyzed : f.tests > 0 THEN 5 ELSE 0)
Cut(n) == IF n > LineCap THEN (LineCap - 2) + 2 ELSE n

\* a rule is written when some module calls for it, for the directories up to
\* the first marker in their paths
Triggers(rule) ==
    {f \in Analyzed : CASE rule = "api-routes" -> f.routes > 0 /\ f.lang = "py"
                        [] rule = "data-models" -> f.models > 0
                        [] rule = "frontend-components" -> f.comps > 0 /\ f.lang = "ts"
                        [] OTHER -> f.tests > 0}
Markers(rule) ==
    CASE rule = "api-routes" -> <<"routes", "api">>
      [] rule = "data-models" -> <<"models">>
      [] rule = "frontend-components" -> <<"components">>
      [] OTHER -> <<"tests", "test">>
UpTo(dir, name) ==
    SubSeq(dir, 1, Min({i \in DOMAIN dir : dir[i] = name}))
ScopeOf(rule, f) ==
    LET has == {i \in DOMAIN Markers(rule) : Markers(rule)[i] \in ToSet(f.dir)}
    IN IF has = {} THEN {} ELSE {UpTo(f.dir, Markers(rule)[Min(has)])}
\* no directory at all stands for the pattern that matches anywhere
RuleScope(rule) == UNION {ScopeOf(rule, f) : f \in Triggers(rule)}

----------------------------------------------------------------------------
(* The commands.                                                           *)

Resting == [at |-> 0, step |-> "", had |-> {}, created |-> {}]
Existing == {f \in DOMAIN gen : gen[f] # "none"}
CodebaseInit ==
    /\ tree = {} /\ harness = Resting
    /\ gen = [f \in ToSet(HarnessFiles) \cup RuleFiles |-> "none"]
    /\ cbCounts = [runs |-> 0, touches |-> 0]

Moves == cbCounts.runs + cbCounts.touches
BeginHarness ==
    /\ harness.at = 0 /\ Moves < MaxMoves
    /\ cbCounts' = [cbCounts EXCEPT !.runs = @ + 1]
    /\ harness' = [at |-> 1, step |-> "look", had |-> Existing, created |-> {}]
    /\ UNCHANGED <<tree, gen>>
Current == HarnessFiles[harness.at]
Onward(h) == IF h.at = Len(HarnessFiles) THEN [Resting EXCEPT !.had = h.had, !.created = h.created]
             ELSE [h EXCEPT !.at = @ + 1, !.step = "look"]
\* each file: look whether it exists, compute its content, open it, write it
LookForFile ==
    /\ harness.at > 0 /\ harness.step = "look"
    /\ harness' = IF gen[Current] # "none" THEN Onward(harness)
                  ELSE [harness EXCEPT !.step = "open"]
    /\ UNCHANGED <<tree, gen, cbCounts>>
WriteFile ==
    /\ harness.at > 0
    /\ \/ /\ harness.step = "open" /\ gen' = [gen EXCEPT ![Current] = "cut"]
          /\ harness' = [harness EXCEPT !.step = "write"]
       \/ /\ harness.step = "write" /\ gen' = [gen EXCEPT ![Current] = "ours"]
          /\ harness' = Onward([harness EXCEPT !.created = @ \cup {Current}])
    /\ UNCHANGED <<tree, cbCounts>>
KillHarness == harness.at > 0 /\ harness' = Resting /\ UNCHANGED <<tree, gen, cbCounts>>

\* export --format rules writes every rule that is called for, over whatever is there
ExportRules ==
    /\ harness.at = 0 /\ Moves < MaxMoves
    /\ cbCounts' = [cbCounts EXCEPT !.runs = @ + 1]
    /\ gen' = [f \in DOMAIN gen |-> IF f \in RuleFiles /\ Triggers(f) # {} THEN "ours" ELSE gen[f]]
    /\ harness' = Resting
    /\ UNCHANGED tree

Touch ==
    /\ Moves < MaxMoves
    /\ cbCounts' = [cbCounts EXCEPT !.touches = @ + 1]
AddSource == /\ Touch /\ \E f \in SourceFile \ tree : tree' = tree \cup {f}
             /\ UNCHANGED <<gen, harness>>
EditGenerated ==
    /\ Touch
    /\ ~(harness.at > 0 /\ harness.step = "write")
    /\ \E f \in {"anti-slop", "data-models"} : gen' = [gen EXCEPT ![f] = "hand"]
    /\ UNCHANGED <<tree, harness>>

CodebaseNext == BeginHarness \/ LookForFile \/ WriteFile \/ KillHarness
                  \/ ExportRules \/ AddSource \/ EditGenerated

----------------------------------------------------------------------------
(* No file is analysed twice, however the directories that were found lie  *)
(* in one another, and no Python file that parses is missed.               *)
EachFileOnce ==
    /\ Cardinality(Modules) = Cardinality({m[2].id : m \in Modules})
    /\ \A f \in Tree : (f.lang = "py" /\ f.parses /\ ~Skipped(f.dir, 1)) =>
          \E m \in Modules : m[2].id = f.id

(* A file that is analysed stays so while others are added, whatever that  *)
(* does to the directories that are scanned - except a script beside the   *)
(* root, which only the analysis of a repository without source            *)
(* directories reads.                                                      *)
AnalysisGrows ==
    [][(<<tree, gen>>' # <<tree, gen>> /\ Tree \subseteq Tree') =>
        \A m \in Modules : m[2].dir # <<>> \/ m[2].lang = "py" =>
            \E n \in Modules' : n[2].id = m[2].id]_codebaseVars

(* Both languages are scanned, as analyze_codebase says.  It does not      *)
(* hold: beside a source directory - the hook the harness generates is one *)
(* - the scripts of the root are not read any more.                        *)
BothLanguagesAreScanned ==
    \A f \in Tree : (f.lang = "ts" /\ ~Skipped(f.dir, 1)) =>
        \E m \in Modules : m[2].id = f.id

(* The pages below app/ are routes.  It does not hold: the directory that  *)
(* is scanned may be app/ itself, and app/app/ is looked for.              *)
PagesAreRoutes ==
    \A f \in Analyzed : (f.page /\ f.dir # <<>> /\ f.dir[1] = "app") => f.routes = 1

(* What AGENTS.md lists the codebase map lists too, every module is in a   *)
(* listed directory or among the counted rest, and neither is longer than  *)
(* its cap.                                                                *)
ExportsAgree ==
    /\ AgentsDirectories \subseteq MapDirectories
    /\ Cardinality(Analyzed)
         = Cardinality(LeftOut) + MapThenSumSet(LAMBDA g : Cardinality(InGroup(g)), MapDirectories)
    /\ Cut(MapLines) <= LineCap

(* A rule is about somebody, and every module that called for it and lies  *)
(* below a marker directory is in its scope, though each module adds only  *)
(* the directory of its first marker.                                      *)
RulesCoverTheirModules ==
    \A rule \in RuleFiles : \A f \in Triggers(rule) :
        (ToSet(f.dir) \cap ToSet(Markers(rule)) # {}) =>
            \E d \in RuleScope(rule) : IsPrefix(d, f.dir)

(* The harness leaves alone every file that was there when it began and    *)
(* names exactly the files it wrote, so a second run creates nothing.      *)
HarnessKeepsWhatExists ==
    /\ [][(LookForFile \/ WriteFile) =>
            \A f \in harness.had : gen'[f] = gen[f]]_codebaseVars
    /\ [](harness.created \cap harness.had = {})

(* What is written by hand is never overwritten, as the module says.  It   *)
(* does not hold for the rules, which every export writes anew.            *)
HandWorkIsKept ==
    [][\A f \in DOMAIN gen : (gen[f] = "hand" /\ harness.at = 0) => gen'[f] = "hand"]_codebaseVars

(* The analysis reads every file once and loses none as the repository     *)
(* grows, its documents agree, and the harness is written once.            *)
CodebaseIsReadWhole ==
    /\ [](Tree = {} \/ (EachFileOnce /\ ExportsAgree /\ RulesCoverTheirModules))
    /\ AnalysisGrows
    /\ HarnessKeepsWhatExists
=============================================================================
