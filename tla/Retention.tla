------------------------------ MODULE Retention ------------------------------
(***************************************************************************)
(* ctxpack/agent/retention.py: deleting the per-session artifacts of old   *)
(* sessions.  An operator plans, reads the plan, and applies it by         *)
(* confirming its hash; checkpoints and other changes of the directory may *)
(* come between, and, under a concurrent schedule, while it is running.     *)
(*                                                                         *)
(* Artifacts are named by the 8-character prefix of a session id, journal  *)
(* rows carry the whole id.  A file's content is the number of the write   *)
(* that produced it, so that equal contents are equal hashes; a plan hash  *)
(* is the plan it binds.                                                   *)
(***************************************************************************)
EXTENDS Naturals, Sequences, FiniteSets

CONSTANTS
    Session,     \* full session ids
    Anonymous,   \* the id of a row without a session id, maybe in Session
    Prefix,      \* 8-character prefixes
    PrefixOf,    \* the prefix of a session's artifacts
    Link,        \* content of a symlink, junction or special file
    NoPlan,      \* nothing has been confirmed
    Archive,     \* which runs there are: live (FALSE), backfills (TRUE)
    Concurrent,  \* which schedules: checkpoints while an apply is running, or not
    MaxRuns,     \* bound: checkpoints
    MaxDrift,    \* bound: changes of the directory by anything else
    MaxApplies   \* bound: apply commands

ASSUME PrefixAssumption == PrefixOf \in [Session -> Prefix]
ASSUME RetentionBoundAssumption ==
    /\ Concurrent \subseteq BOOLEAN
    /\ Archive \subseteq BOOLEAN
    /\ MaxRuns \in Nat
    /\ MaxDrift \in Nat
    /\ MaxApplies \in Nat
ASSUME ContentAssumption == Link \notin Nat
ASSUME SessionsFinite == IsFiniteSet(Session)

VARIABLES
    disk,       \* content of every possible session artifact, 0 if absent
    journal,    \* checkpoints.jsonl: the session of each row, live or archive
    torn,       \* has the journal a row that cannot be parsed?
    rootIsLink, \* is the ledger dir itself a link?
    writer,     \* a checkpoint in progress
    confirmed,  \* the plan whose hash the operator passes to --apply
    apply,      \* the apply in progress
    receipts,   \* retention.jsonl
    unlinked,   \* what applies removed: file, content, number of the apply
    count       \* the schedule, and how many checkpoints, drifts and applies there were

vars == <<disk, journal, torn, rootIsLink, writer, confirmed, apply,
          receipts, unlinked, count>>
others == <<confirmed, receipts, unlinked>>

Kind == {"ctx", "gist"}
File == Prefix \X Kind
Reason == {"link", "orphan", "ambiguous_prefix", "unreadable",
           "unlink_failed", "ledger_root_link"}
Content == {0, Link} \cup 1..MaxRuns + 1

Idle == [pc |-> "idle"]

(***************************************************************************)
(* _journal_order and plan_retention, as functions of what they read.      *)
(***************************************************************************)
SessionsIn(j) == {j[i].s : i \in DOMAIN j} \ {Anonymous}
LastRow(j, s) == CHOOSE i \in DOMAIN j :
                    /\ j[i].s = s
                    /\ \A k \in DOMAIN j : j[k].s = s => k <= i
\* how many sessions were checkpointed after s: its place from the end
Newer(j, s) ==
    Cardinality({x \in SessionsIn(j) : LastRow(j, x) > LastRow(j, s)})
\* (mutant) the window is one session short
KeptOneLess(j, keep) == {s \in SessionsIn(j) : Newer(j, s) + 1 < keep}
Kept(j, keep) == {s \in SessionsIn(j) : Newer(j, s) < keep}

Owners(j, f) == {s \in SessionsIn(j) : PrefixOf[s] = f[1]}

\* why the file may not be deleted, in the order the code asks; "none" if it may
SkipReason(j, f) ==
    IF disk[f] = Link THEN "link"
    ELSE IF Owners(j, f) = {} THEN "orphan"
    ELSE IF Cardinality(Owners(j, f)) > 1 THEN "ambiguous_prefix"
    ELSE "none"

Present == {f \in File : disk[f] # 0}
Candidates(j) == {f \in Present : SkipReason(j, f) = "none"}

\* the plan is what _hash_plan binds, entry by entry
PlanOf(j, keep) ==
    LET old == {f \in Candidates(j) : Owners(j, f) \cap Kept(j, keep) = {}}
    IN  [keep |-> keep,
         order |-> {<<s, Newer(j, s)>> : s \in SessionsIn(j)},
         unattributed |-> Cardinality({i \in DOMAIN j : j[i].s = Anonymous}),
         delete |-> {<<f, disk[f]>> : f \in old},
         kept |-> {<<f, disk[f]>> : f \in Candidates(j) \ old},
         skipped |-> {<<f, SkipReason(j, f)>> :
                        f \in {g \in Present : SkipReason(j, g) # "none"}}]

\* the preconditions checked before the journal is believed
Refused == rootIsLink \/ torn \/ journal = <<>>

-----------------------------------------------------------------------------
Init ==
    /\ disk = [f \in File |-> 0]
    /\ journal = <<>>
    /\ torn = FALSE
    /\ rootIsLink = FALSE
    /\ writer = Idle
    /\ confirmed = NoPlan
    /\ apply = Idle
    /\ receipts = <<>>
    /\ unlinked = {}
    /\ count \in {[runs |-> 0, drift |-> 0, applies |-> 0, concurrent |-> c] : c \in Concurrent}

(***************************************************************************)
(* A checkpoint, as far as retention sees it: ledger, gist, journal row.   *)
(***************************************************************************)
StartRun(s, archive) ==
    /\ writer = Idle
    /\ count.runs < MaxRuns
    /\ count.concurrent \/ apply = Idle
    /\ writer' = [pc |-> "ctx", s |-> s, archive |-> archive]
    /\ count' = [count EXCEPT !.runs = @ + 1]
    /\ UNCHANGED <<disk, journal, torn, rootIsLink, apply, others>>

WriteArtifact(kind, next) ==
    /\ writer.pc = kind
    /\ disk' = [disk EXCEPT ![<<PrefixOf[writer.s], kind>>] =
                  IF @ = Link THEN Link ELSE count.runs]
    /\ writer' = [writer EXCEPT !.pc = next]
    /\ UNCHANGED <<journal, torn, rootIsLink, apply, count, others>>

WriteCtx == WriteArtifact("ctx", "gist")
WriteGist == WriteArtifact("gist", "row")

AppendRow ==
    /\ writer.pc = "row"
    /\ journal' = Append(journal, [s |-> writer.s, archive |-> writer.archive])
    /\ writer' = Idle
    /\ UNCHANGED <<disk, torn, rootIsLink, apply, count, others>>

\* a checkpoint dies between two of its writes
WriterDies ==
    /\ writer # Idle
    /\ count.drift < MaxDrift
    /\ writer' = Idle
    /\ count' = [count EXCEPT !.drift = @ + 1]
    /\ UNCHANGED <<disk, journal, torn, rootIsLink, apply, others>>

(***************************************************************************)
(* Changes of the directory by anything else.                              *)
(***************************************************************************)
Drift ==
    /\ count.drift < MaxDrift
    /\ count.concurrent \/ apply = Idle
    /\ count' = [count EXCEPT !.drift = @ + 1]
    /\ UNCHANGED <<journal, writer, apply, others>>

\* an artifact is edited, removed, put there by hand or replaced by a link
FileChanges(f, c) ==
    /\ Drift
    /\ c # disk[f]
    /\ disk' = [disk EXCEPT ![f] = c]
    /\ UNCHANGED <<torn, rootIsLink>>
JournalTorn == Drift /\ torn' = TRUE /\ UNCHANGED <<disk, rootIsLink>>
RootBecomesLink == Drift /\ rootIsLink' = TRUE /\ UNCHANGED <<disk, torn>>

(***************************************************************************)
(* The operator.                                                           *)
(***************************************************************************)
\* ctxpack retention --keep N: prints the plan and its hash
Plan(keep) ==
    /\ ~Refused
    /\ apply = Idle /\ count.applies < MaxApplies
    /\ confirmed' = PlanOf(journal, keep)
    /\ UNCHANGED <<disk, journal, torn, rootIsLink, writer, apply, receipts,
                   unlinked, count>>

\* --apply --plan-hash: the journal is read first ...
ApplyReadsJournal ==
    /\ apply = Idle
    /\ confirmed # NoPlan
    /\ count.applies < MaxApplies
    /\ count.concurrent \/ writer = Idle
    /\ ~Refused
    /\ apply' = [pc |-> "compare", plan |-> confirmed, rows |-> journal,
                  asof |-> count.runs, todo |-> {}, hand |-> {},
                  deleted |-> {}, skipped |-> {}]
    /\ count' = [count EXCEPT !.applies = @ + 1]
    /\ UNCHANGED <<disk, journal, torn, rootIsLink, writer, others>>

\* (mutant) only the paths to delete are compared
MatchesPaths(plan) ==
    LET now == PlanOf(apply.rows, plan.keep)
    IN  {e[1] : e \in now.delete} = {e[1] : e \in plan.delete}

\* ... then the directory; the plan made of both must be the confirmed one,
\* which was made of the same directory, not of the target of a link
Matches(plan) == plan = PlanOf(apply.rows, plan.keep) /\ ~rootIsLink

\* (mutant) the candidates that are to be kept as well
AllCandidates(plan) == {e[1] : e \in plan.delete \cup plan.kept}
ToDelete(plan) == {e[1] : e \in plan.delete}

ApplyMatches ==
    /\ apply.pc = "compare"
    /\ Matches(apply.plan)
    /\ apply' = [apply EXCEPT !.pc = "delete",
                              !.todo = ToDelete(apply.plan),
                              !.skipped = apply.plan.skipped]
    /\ UNCHANGED <<disk, journal, torn, rootIsLink, writer, count, others>>

ApplyMismatch ==
    /\ apply.pc = "compare"
    /\ ~Matches(apply.plan)
    /\ apply' = Idle
    /\ UNCHANGED <<disk, journal, torn, rootIsLink, writer, count, others>>

(***************************************************************************)
(* The deletions, in any order: the guards look at the root and the file,  *)
(* then os.remove is called, which may still fail.                         *)
(***************************************************************************)
Deleting(f) == apply.pc = "delete" /\ apply.hand = {} /\ f \in apply.todo

GuardPasses(f) ==
    /\ Deleting(f)
    /\ ~rootIsLink
    /\ disk[f] \notin {0, Link}
    /\ apply' = [apply EXCEPT !.todo = @ \ {f}, !.hand = {f}]
    /\ UNCHANGED <<disk, journal, torn, rootIsLink, writer, count, others>>

SkipReasonNow(f) == IF disk[f] = Link THEN "link" ELSE "unreadable"

GuardSkips(f) ==
    /\ Deleting(f)
    /\ ~rootIsLink
    /\ disk[f] \in {0, Link}
    /\ apply' = [apply EXCEPT !.todo = @ \ {f},
                              !.skipped = @ \cup {<<f, SkipReasonNow(f)>>}]
    /\ UNCHANGED <<disk, journal, torn, rootIsLink, writer, count, others>>

\* the root became a link: everything left is skipped
GuardStops ==
    /\ \E f \in File : Deleting(f)
    /\ rootIsLink
    /\ apply' = [apply EXCEPT
                   !.todo = {},
                   !.skipped = @ \cup (apply.todo \X {"ledger_root_link"})]
    /\ UNCHANGED <<disk, journal, torn, rootIsLink, writer, count, others>>

\* the path still names the file the guard saw, or what replaced it since
Remove(f) ==
    /\ apply.pc = "delete"
    /\ apply.hand = {f}
    /\ disk[f] # 0
    /\ disk' = [disk EXCEPT ![f] = 0]
    /\ unlinked' = unlinked \cup {<<f, disk[f], count.applies>>}
    /\ apply' = [apply EXCEPT !.hand = {}, !.deleted = @ \cup {f}]
    /\ UNCHANGED <<journal, torn, rootIsLink, writer, confirmed, receipts, count>>

\* (mutant) the failure is taken for a deletion
RemoveFailsUnnoticed(f) ==
    /\ apply.pc = "delete"
    /\ apply.hand = {f}
    /\ apply' = [apply EXCEPT !.hand = {}, !.deleted = @ \cup {f}]
    /\ UNCHANGED <<disk, journal, torn, rootIsLink, writer, count, others>>

\* the file is locked, or gone by now
RemoveFails(f) ==
    /\ apply.pc = "delete"
    /\ apply.hand = {f}
    /\ apply' = [apply EXCEPT
                   !.hand = {}, !.skipped = @ \cup {<<f, "unlink_failed">>}]
    /\ UNCHANGED <<disk, journal, torn, rootIsLink, writer, count, others>>

\* the exit code: 0 only when nothing was skipped, in the plan or since, and the
\* receipt was written
ExitCode(written) == IF apply.skipped = {} /\ written THEN 0 ELSE 1

\* the receipt is written after the deletions, and may fail to be
WriteReceipt ==
    /\ apply.pc = "delete"
    /\ apply.todo = {} /\ apply.hand = {}
    /\ \/ receipts' = Append(receipts,
                        [apply |-> count.applies, plan |-> apply.plan,
                         deleted |-> apply.deleted,
                         skipped |-> apply.skipped])
       \/ UNCHANGED receipts
    /\ apply' = Idle
    /\ UNCHANGED <<disk, journal, torn, rootIsLink, writer, confirmed,
                   unlinked, count>>

ApplyDies ==
    /\ apply # Idle
    /\ count.drift < MaxDrift
    /\ apply' = Idle
    /\ count' = [count EXCEPT !.drift = @ + 1]
    /\ UNCHANGED <<disk, journal, torn, rootIsLink, writer, others>>

Next ==
    \/ \E s \in Session, a \in Archive : StartRun(s, a)
    \/ WriteCtx \/ WriteGist \/ AppendRow \/ WriterDies
    \/ \E f \in File, c \in {0, Link, MaxRuns + 1} : FileChanges(f, c)
    \/ JournalTorn \/ RootBecomesLink
    \/ \E keep \in 1..MaxRuns : Plan(keep)
    \/ ApplyReadsJournal \/ ApplyMatches \/ ApplyMismatch
    \/ \E f \in File : GuardPasses(f) \/ GuardSkips(f) \/ Remove(f) \/ RemoveFails(f)
    \/ GuardStops \/ WriteReceipt \/ ApplyDies

Spec == Init /\ [][Next]_vars

-----------------------------------------------------------------------------
(***************************************************************************)
(* Properties.                                                             *)
(***************************************************************************)
Skips == SUBSET (File \X Reason)
Entries == SUBSET (File \X Content)
Row == [s : Session, archive : Archive]
PlanType ==
    [keep : Nat, order : SUBSET (Session \X Nat),
     unattributed : Nat, delete : Entries, kept : Entries, skipped : Skips]
CountType ==
    [runs : 0..MaxRuns, drift : 0..MaxDrift, applies : 0..MaxApplies,
     concurrent : Concurrent]
ApplyType ==
    [pc : {"compare", "delete"}, plan : PlanType, rows : Seq(Row),
     asof : 0..MaxRuns, todo : SUBSET File, hand : SUBSET File,
     deleted : SUBSET File, skipped : Skips]

\* Every variable has its type: a skip names a session artifact and one of
\* the reason codes, ledger_root_link included, a receipt what the apply had in hand.
TypeOK ==
    /\ disk \in [File -> Content]
    /\ journal \in Seq(Row)
    /\ torn \in BOOLEAN
    /\ rootIsLink \in BOOLEAN
    /\ writer \in {Idle} \cup
                  [pc : {"ctx", "gist", "row"}, s : Session, archive : Archive]
    /\ confirmed \in {NoPlan} \cup PlanType
    /\ apply \in {Idle} \cup ApplyType
    /\ receipts \in Seq([apply : 1..MaxApplies, plan : PlanType,
                         deleted : SUBSET File, skipped : Skips])
    /\ unlinked \subseteq (File \X Content \X (1..MaxApplies))
    /\ count \in CountType

Paths(entries) == {e[1] : e \in entries}

\* A receipt says what happened: the files it calls deleted are exactly those
\* this apply removed, and every file of the confirmed plan is either deleted
\* or skipped, with the plan's own skips (receipt after the deletions,
\* apply_retention), whatever raced, failed or was replaced meanwhile.
ReceiptAccounts ==
    \A i \in DOMAIN receipts : LET r == receipts[i] IN
        /\ r.deleted = {u[1] : u \in {v \in unlinked : v[3] = r.apply}}
        /\ r.plan.skipped \subseteq r.skipped
        /\ Paths(r.plan.delete) =
             r.deleted \cup Paths(r.skipped \ r.plan.skipped)
        /\ r.deleted \cap Paths(r.skipped) = {}

\* "Fixed reason codes - the only strings that can reach a receipt row"
\* (SKIP_REASONS): the code for a root that became a link is not one of them.
SKIP_REASONS == Reason \ {"ledger_root_link"}
ReceiptReasonsFixed ==
    \A i \in DOMAIN receipts : \A e \in receipts[i].skipped : e[2] \in SKIP_REASONS

\* What an apply removes is what the operator confirmed, byte for byte: an
\* edit, a swap or a checkpoint since the plan stops the apply ("Delete
\* exactly what a prior plan confirmed", apply_retention), if nothing races it.
DeletesWhatWasConfirmed ==
    [][~count.concurrent => \A u \in unlinked' \ unlinked : <<u[1], u[2]>> \in apply.plan.delete]_vars

\* A session loses a file only when the journal gives the file to it alone and
\* as many other sessions as the operator keeps were checkpointed after it, if
\* nothing races the apply.
OnlyOldSessionsLose ==
    [][~count.concurrent => \A u \in unlinked' \ unlinked :
         \E s \in SessionsIn(journal) :
            /\ \A x \in SessionsIn(journal) : PrefixOf[x] = u[1][1] => x = s
            /\ apply.plan.keep <= Cardinality(
                 {x \in SessionsIn(journal) : \E i \in DOMAIN journal :
                    /\ journal[i].s = x
                    /\ \A k \in i..Len(journal) : journal[k].s # s})]_vars

\* Checkpoints racing an apply: what is removed without having been confirmed
\* was written by a checkpoint that ran into the apply, or by hand; nothing
\* that was at rest when the apply began is lost unconfirmed.  And an apply that
\* exits with 0 removed each file that was confirmed, though files come back,
\* vanish or are locked while it works.
LossNeedsOverlap ==
    [][/\ \A u \in unlinked' \ unlinked :
            \/ <<u[1], u[2]>> \in apply.plan.delete
            \/ u[2] = Link
            \/ u[2] >= apply.asof
       /\ apply # Idle /\ apply' = Idle /\ ExitCode(receipts' # receipts) = 0 =>
            \A e \in apply.plan.delete : \E u \in unlinked :
                u[1] = e[1] /\ u[3] = count.applies]_vars

\* resolve_session: the session of the last live row, else of the last row
DefaultSession ==
    LET live == {i \in DOMAIN journal : ~journal[i].archive}
        from == IF live = {} THEN DOMAIN journal ELSE live
    IN  journal[CHOOSE i \in from : \A k \in from : k <= i].s

\* What the backfill's comment promises: archive rows leave the default
\* session's resolution where it was.  If a session's ledger survives a
\* deletion, the default session still has one.
DefaultSessionResolves ==
    [][\A u \in unlinked' \ unlinked :
         disk[<<PrefixOf[DefaultSession], "ctx">>] # 0
            => disk'[<<PrefixOf[DefaultSession], "ctx">>] # 0]_vars

\* Under every race: typed state, reason codes included, and receipts that
\* account for each file of the confirmed plan.
ReceiptsAreSound ==
    /\ TypeOK
    /\ ReceiptAccounts

=============================================================================
