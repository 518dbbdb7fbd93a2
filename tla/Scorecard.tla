------------------------------ MODULE Scorecard ------------------------------
(***************************************************************************)
(* ctxpack/agent/scorecard.py behind `ctxpack scorecard`: the repositories *)
(* of a cohort are aggregated into an artifact, and `--check` says later   *)
(* whether the artifact's inputs are still what they were.                 *)
(*                                                                         *)
(* A journal only grows, so its bytes are its number of rows, 0 for no     *)
(* file.  Both ledger files of a repository are read in one step: once for *)
(* the fingerprint and once, later, for the numbers; a check reads the     *)
(* artifact and the configuration in one step and hashes the configuration *)
(* later.  All artifacts are written in one second, the case in which      *)
(* their names collide.                                                    *)
(***************************************************************************)
EXTENDS Integers, Sequences, FiniteSets

CONSTANTS
    Repo,           \* repositories by their basename, which joins rows to paths
    External,       \* deployments without a ledger; a name may be a repository's too
    Dir,            \* repository -> "missing", "bare" or "onboarded"
    Tainted,        \* repositories whose row does not pass the privacy audit
    Clerk,          \* processes
    Overlap,        \* may two builds run at once?
    MaxAppends, MaxEdits2, MaxBuilds, MaxHalts

VARIABLES
    ledgers,         \* repository -> rows of checkpoints.jsonl and injections.jsonl
    cohort,         \* cohort.json
    archive,        \* scorecard-<stamp>-<n>.json, by n
    newest,         \* scorecard-latest.json
    clerk,          \* process -> the command it runs
    declared,       \* the external deployments that were last declared
    unsettled,         \* cohort.json was cut by a death, or edited under a save
    scTally

scVars == <<ledgers, cohort, archive, newest, clerk, declared, unsettled, scTally>>

Missing == [is |-> "absent"]
Shorn == [is |-> "cut"]
Config(repos, ext) == [is |-> "good", repos |-> repos, ext |-> ext]
OffDuty == [pc |-> "idle"]

ScoreInit ==
    /\ ledgers = [r \in Repo |-> [cp |-> 0, inj |-> 0]]
    /\ cohort = Missing /\ archive = <<>> /\ newest = Missing
    /\ clerk = [p \in Clerk |-> OffDuty]
    /\ declared = {} /\ unsettled = FALSE
    /\ scTally = [append |-> 0, edit |-> 0, build |-> 0, halt |-> 0]

-----------------------------------------------------------------------------
\* load_cohort_config: nothing when there is no file or it cannot be parsed
Readable == cohort.is = "good"
ReposOf(c) == IF c.is = "good" THEN c.repos ELSE {}
ExternalOf(c) == IF c.is = "good" THEN c.ext ELSE {}
\* validate_cohort_config: rows are joined by name, so no name may mean two things
ValidConfig(repos, ext) == repos \cap ext = {}

Counted(k) == scTally' = [scTally EXCEPT ![k] = @ + 1]
Goes(p, to) == clerk' = [clerk EXCEPT ![p] = to]
Doing(p, pc) == clerk[p].pc = pc
Built(exit) == [pc |-> "done", what |-> "build", exit |-> exit]
Free(p) == clerk[p].pc \in {"idle", "done", "checked"}
FilesRest == UNCHANGED <<archive, newest>>
ConfigRests == UNCHANGED <<cohort, declared, unsettled>>

\* hooks append while everything else goes on
LedgerGrows(r, file) ==
    /\ Dir[r] = "onboarded" /\ scTally.append < MaxAppends /\ Counted("append")
    /\ ledgers' = [ledgers EXCEPT ![r][file] = @ + 1]
    /\ UNCHANGED clerk /\ FilesRest /\ ConfigRests

\* a hand-made configuration, in one step
ConfigEdited(repos, ext) ==
    /\ scTally.edit < MaxEdits2 /\ Counted("edit")
    /\ cohort' = Config(repos, ext) /\ declared' = ext
    /\ unsettled' = \E p \in Clerk : clerk[p].pc \in {"saveOpen", "saveWrite"}
    /\ UNCHANGED <<ledgers, clerk>> /\ FilesRest

(***************************************************************************)
(* Building: the population is taken from the arguments, and saved, or     *)
(* from the saved one; the configuration is read again for the external    *)
(* deployments and once more for its hash.                                 *)
(***************************************************************************)
MayBuild(p) ==
    /\ Free(p) /\ scTally.build < MaxBuilds /\ Counted("build")
    /\ Overlap \/ \A q \in Clerk : Free(q) \/ clerk[q].pc = "check"
    /\ UNCHANGED ledgers /\ FilesRest /\ ConfigRests

BuildGiven(p, repos) ==
    /\ MayBuild(p)
    /\ Goes(p, IF ValidConfig(repos, ExternalOf(cohort)) THEN [pc |-> "saveRead", repos |-> repos]
               ELSE Built(1))

BuildSaved(p) ==
    /\ MayBuild(p)
    /\ Goes(p, IF Readable /\ ValidConfig(cohort.repos, cohort.ext) /\ cohort.repos # {}
               THEN [pc |-> "external", repos |-> cohort.repos] ELSE Built(1))

\* (mutant) the configuration is written from the arguments alone
ExternalsForgotten == {}
KeptExternals == ExternalOf(cohort)

SaveReads(p) ==
    /\ Doing(p, "saveRead")
    /\ Goes(p, [pc |-> "saveOpen", repos |-> clerk[p].repos, ext |-> KeptExternals])
    /\ UNCHANGED <<ledgers, scTally>> /\ FilesRest /\ ConfigRests
SaveOpens(p) ==
    /\ Doing(p, "saveOpen") /\ cohort' = Shorn
    /\ Goes(p, [clerk[p] EXCEPT !.pc = "saveWrite"])
    /\ UNCHANGED <<ledgers, declared, unsettled, scTally>> /\ FilesRest
SaveWrites(p) ==
    /\ Doing(p, "saveWrite") /\ cohort' = Config(clerk[p].repos, clerk[p].ext)
    /\ Goes(p, [pc |-> "external", repos |-> clerk[p].repos])
    /\ UNCHANGED <<ledgers, declared, unsettled, scTally>> /\ FilesRest

ReadsExternals(p) ==
    /\ Doing(p, "external")
    /\ Goes(p, [pc |-> "sha", repos |-> clerk[p].repos, ext |-> ExternalOf(cohort)])
    /\ UNCHANGED <<ledgers, scTally>> /\ FilesRest /\ ConfigRests
HashesConfig(p) ==
    /\ Doing(p, "sha")
    /\ Goes(p, [pc |-> "row", ext |-> clerk[p].ext, sha |-> cohort, todo |-> clerk[p].repos, rows |-> <<>>])
    /\ UNCHANGED <<ledgers, scTally>> /\ FilesRest /\ ConfigRests

\* which state a repository is in, from what session_stats found
StatusOf(r, seen) ==
    CASE Dir[r] = "missing" -> "path_missing"
      [] Dir[r] # "missing" /\ seen.cp > 0 -> "active"
      [] OTHER -> IF Dir[r] = "bare" THEN "not_onboarded" ELSE "onboarded_no_data"

RowOf(r, first, second) == [repo |-> r, status |-> StatusOf(r, second), fp |-> first, of |-> second]

Fingerprints(p) ==
    /\ Doing(p, "row") /\ clerk[p].todo # {}
    /\ \E r \in clerk[p].todo :
          Goes(p, [pc |-> "stats", ext |-> clerk[p].ext, sha |-> clerk[p].sha, rows |-> clerk[p].rows,
                   todo |-> clerk[p].todo \ {r}, repo |-> r, fp |-> ledgers[r]])
    /\ UNCHANGED <<ledgers, scTally>> /\ FilesRest /\ ConfigRests
Aggregates(p) ==
    /\ Doing(p, "stats")
    /\ Goes(p, [pc |-> "row", ext |-> clerk[p].ext, sha |-> clerk[p].sha, todo |-> clerk[p].todo,
                rows |-> Append(clerk[p].rows, RowOf(clerk[p].repo, clerk[p].fp, ledgers[clerk[p].repo]))])
    /\ UNCHANGED <<ledgers, scTally>> /\ FilesRest /\ ConfigRests

\* the artifact: one row per repository and one per external deployment
Artifact(job) == [is |-> "good", sha |-> job.sha, rows |-> {job.rows[i] : i \in DOMAIN job.rows}, ext |-> job.ext]
NamesIn(art) == {row.repo : row \in art.rows} \cup art.ext

\* the bytes are audited before anything is written; then a name is picked
AuditRefuses(p) ==
    /\ Doing(p, "row") /\ clerk[p].todo = {}
    /\ NamesIn(Artifact(clerk[p])) \cap Tainted # {}
    /\ Goes(p, Built(1))
    /\ UNCHANGED <<ledgers, scTally>> /\ FilesRest /\ ConfigRests
PicksName(p) ==
    /\ Doing(p, "row") /\ clerk[p].todo = {}
    /\ NamesIn(Artifact(clerk[p])) \cap Tainted = {}
    /\ Goes(p, [pc |-> "openNew", n |-> Len(archive) + 1, art |-> Artifact(clerk[p])])
    /\ UNCHANGED <<ledgers, scTally>> /\ FilesRest /\ ConfigRests

Placed(file, n, art) == [k \in 1..(IF n > Len(file) THEN n ELSE Len(file)) |-> IF k = n THEN art ELSE file[k]]
OpensNew(p) ==
    /\ Doing(p, "openNew") /\ archive' = Placed(archive, clerk[p].n, Shorn)
    /\ Goes(p, [clerk[p] EXCEPT !.pc = "writeNew"])
    /\ UNCHANGED <<ledgers, newest, scTally>> /\ ConfigRests
WritesNew(p) ==
    /\ Doing(p, "writeNew") /\ archive' = Placed(archive, clerk[p].n, clerk[p].art)
    /\ Goes(p, [clerk[p] EXCEPT !.pc = "openLatest"])
    /\ UNCHANGED <<ledgers, newest, scTally>> /\ ConfigRests
OpensLatest(p) ==
    /\ Doing(p, "openLatest") /\ newest' = Shorn
    /\ Goes(p, [clerk[p] EXCEPT !.pc = "writeLatest"])
    /\ UNCHANGED <<ledgers, archive, scTally>> /\ ConfigRests
WritesLatest(p) ==
    /\ Doing(p, "writeLatest") /\ newest' = clerk[p].art
    /\ Goes(p, Built(0))
    /\ UNCHANGED <<ledgers, archive, scTally>> /\ ConfigRests

Halts(p) ==
    /\ ~Free(p) /\ scTally.halt < MaxHalts /\ Counted("halt")
    /\ unsettled' = (unsettled \/ Doing(p, "saveWrite"))
    /\ Goes(p, OffDuty)
    /\ UNCHANGED <<ledgers, cohort, declared>> /\ FilesRest

(***************************************************************************)
(* --check (verify_latest): the artifact is read once, the configuration   *)
(* once for its content and once for its hash, then each ledger.           *)
(***************************************************************************)
Checked(ok, art, cfg, seen) == [pc |-> "checked", ok |-> ok, art |-> art, cfg |-> cfg, seen |-> seen]

CheckReads(p) ==
    /\ Free(p)
    /\ Goes(p, IF newest.is # "good" THEN Checked(FALSE, newest, cohort, <<>>)
               ELSE [pc |-> "check", art |-> newest, cfg |-> cohort, ok |-> TRUE, seen |-> <<>>,
                     todo |-> ReposOf(cohort), hashed |-> FALSE])
    /\ UNCHANGED <<ledgers, scTally>> /\ FilesRest /\ ConfigRests

NothingMissing(art, cfg) == ReposOf(cfg) \subseteq {row.repo : row \in art.rows} /\ ExternalOf(cfg) \subseteq NamesIn(art)

CheckHashes(p) ==
    /\ Doing(p, "check") /\ ~clerk[p].hashed
    /\ LET c == clerk[p] IN
       Goes(p, [c EXCEPT !.hashed = TRUE,
                  !.ok = /\ cohort = c.art.sha
                         /\ ValidConfig(ReposOf(c.cfg), ExternalOf(c.cfg))
                         /\ NothingMissing(c.art, c.cfg)
                         /\ c.cfg.is = "good" \/ c.art.rows = {}])
    /\ UNCHANGED <<ledgers, scTally>> /\ FilesRest /\ ConfigRests

\* a repository that is not in the artifact has been reported as missing
CheckCompares(p) ==
    /\ Doing(p, "check") /\ clerk[p].hashed /\ clerk[p].todo # {}
    /\ \E r \in clerk[p].todo :
          Goes(p, [clerk[p] EXCEPT !.todo = @ \ {r}, !.seen = Append(@, <<r, ledgers[r]>>),
                     !.ok = @ /\ \A row \in clerk[p].art.rows : row.repo = r => row.fp = ledgers[r]])
    /\ UNCHANGED <<ledgers, scTally>> /\ FilesRest /\ ConfigRests
CheckEnds(p) ==
    /\ Doing(p, "check") /\ clerk[p].hashed /\ clerk[p].todo = {}
    /\ Goes(p, Checked(clerk[p].ok, clerk[p].art, clerk[p].cfg, clerk[p].seen))
    /\ UNCHANGED <<ledgers, scTally>> /\ FilesRest /\ ConfigRests

ScoreNext ==
    \/ \E r \in Repo, file \in {"cp", "inj"} : LedgerGrows(r, file)
    \/ \E repos \in SUBSET Repo, ext \in SUBSET External : ConfigEdited(repos, ext)
    \/ \E p \in Clerk :
        \/ \E repos \in (SUBSET Repo) \ {{}} : BuildGiven(p, repos)
        \/ BuildSaved(p)
        \/ SaveReads(p) \/ SaveOpens(p) \/ SaveWrites(p)
        \/ ReadsExternals(p) \/ HashesConfig(p) \/ Fingerprints(p) \/ Aggregates(p)
        \/ AuditRefuses(p) \/ PicksName(p)
        \/ OpensNew(p) \/ WritesNew(p) \/ OpensLatest(p) \/ WritesLatest(p)
        \/ Halts(p)
        \/ CheckReads(p) \/ CheckHashes(p) \/ CheckCompares(p) \/ CheckEnds(p)

-----------------------------------------------------------------------------
Passed(p) == Doing(p, "checked") /\ clerk[p].ok

(* "Inputs unchanged since generation": when a check passes, every number  *)
(* of a repository was aggregated from the very ledger the check saw,      *)
(* though hooks appended between the fingerprint and the aggregation.      *)
PassMeansSameInputs ==
    \A p \in Clerk : Passed(p) =>
        \A i \in DOMAIN clerk[p].seen : \E row \in clerk[p].art.rows :
            row.repo = clerk[p].seen[i][1] /\ row.of = clerk[p].seen[i][2]

(* A check passes only a whole artifact against a readable configuration   *)
(* in which each name means one thing, and no member of the cohort is      *)
(* missing from it.                                                        *)
PassMeansWholeCohort ==
    \A p \in Clerk : Passed(p) =>
        LET c == clerk[p] IN
        /\ c.art.is = "good" /\ c.cfg.is = "good"
        /\ c.cfg.repos \cap c.cfg.ext = {}
        /\ c.cfg.repos \cup c.cfg.ext \subseteq NamesIn(c.art)
        /\ {c.seen[i][1] : i \in DOMAIN c.seen} = c.cfg.repos

(* The pointer shows one of the scorecards that were written.              *)
LatestIsArchived ==
    ~Overlap /\ newest.is = "good" => \E n \in DOMAIN archive : archive[n] = newest

(* "Never overwrite a prior scorecard": what was once completed under a    *)
(* name stays, whichever deaths leave names with half a file.              *)
PriorScorecardsStay ==
    [][~Overlap => \A n \in DOMAIN archive : archive[n].is = "good" => archive'[n] = archive[n]]_scVars

(* Passing --repos "does not silently drop the unmeasurable members from   *)
(* the cohort record", unless a death cut the record or somebody edited it *)
(* under the save.                                                         *)
ExternalsStay ==
    ~Overlap /\ Readable /\ ~unsettled => cohort.ext = declared

(* A published artifact never names what the privacy audit refuses.        *)
NothingTainted ==
    \A n \in DOMAIN archive : archive[n].is = "good" => NamesIn(archive[n]) \cap Tainted = {}

(* The scorecard tells the truth of its inputs and keeps what was          *)
(* published and declared.                                                 *)
ScorecardIsSound ==
    /\ [](PassMeansSameInputs /\ PassMeansWholeCohort /\ LatestIsArchived
            /\ ExternalsStay /\ NothingTainted)
    /\ PriorScorecardsStay

(* Stated and refuted: an artifact lists nobody who is not in the cohort   *)
(* the check saw (an edit between the reading of the configuration and its *)
(* hash leaves rows of the old population under the hash of the new one).  *)
NoStrangers ==
    \A p \in Clerk : Passed(p) =>
        NamesIn(clerk[p].art) \subseteq clerk[p].cfg.repos \cup clerk[p].cfg.ext

(* Stated and refuted: declared deployments survive a death in the save.   *)
ExternalsSurviveDeaths == Readable => cohort.ext = declared

=============================================================================
