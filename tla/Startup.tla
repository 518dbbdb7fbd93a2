------------------------------- MODULE Startup -------------------------------
(***************************************************************************)
(* The session-start hook (ctxpack/cli/main.py, _cmd_hook): it reads what  *)
(* the checkpoints left, adds a warning about sessions never packed, scans *)
(* the result for secrets, writes it to its stdout and only then appends a *)
(* receipt to injections.jsonl (ctxpack/agent/injection_log.py).  Hooks of *)
(* several sessions run at once and any of them may be killed.  The reader *)
(* (ctxpack/agent/session_reader.py, classify_read_path) tells from the    *)
(* receipts alone which sessions were given something.                     *)
(***************************************************************************)
EXTENDS Naturals, Sequences, FiniteSets

CONSTANTS
    Session,    \* full session ids
    NoSession,  \* the id of a payload that names no session
    Prefix,     \* their 8-character prefixes
    PrefixOf,   \* the prefix of each session
    Hook,       \* hook processes that may run at once
    Legacy,     \* sessions that may have a receipt of the old schema
    LegacyPacked, \* whether such a session was certainly packed, too
    MaxStarts,  \* bound: session starts
    MaxEvents   \* bound: checkpoints, and changes of transcripts or ledger
ASSUME StartupPrefixes ==
    /\ PrefixOf \in [Session -> Prefix]
    /\ NoSession \notin Session
    /\ Legacy \subseteq Session
    /\ LegacyPacked \in BOOLEAN
ASSUME StartupBounds == MaxStarts \in Nat /\ MaxEvents \in Nat

VARIABLES
    gist,        \* what read_startup_context finds in the ledger
    settled,     \* sessions whose transcript is older than the active slack
    packed,      \* prefixes with a ledger on disk
    journaled,   \* sessions with a row in checkpoints.jsonl
    hook,        \* each hook's progress
    stdout,      \* what hooks wrote to their stdout
    log,         \* injections.jsonl
    starts,      \* session starts so far
    events       \* other events so far

vars == <<gist, settled, packed, journaled, hook, stdout, log, starts, events>>
world == <<gist, settled, packed, journaled>>

Idle == [pc |-> "idle"]
Part == {"gist", "warning"}
Outcome == {"injected", "failed", "empty"}
Starter == Session \cup {NoSession}

(***************************************************************************)
(* The receipts and what the reader makes of them.                         *)
(***************************************************************************)
Row(schema, s, outcome, bytes, gap, run) ==
    [schema |-> schema, s |-> s, outcome |-> outcome, bytes |-> bytes,
     gap |-> gap, run |-> run]
\* a line cut off before its newline, and a line that is no receipt
Fragment == [schema |-> "fragment"]
Malformed == [schema |-> "malformed"]

\* whatever is appended after a fragment becomes part of the same bad line
AppendLine(line) ==
    IF log # <<>> /\ log[Len(log)] = Fragment
    THEN [log EXCEPT ![Len(log)] = IF line = Fragment THEN Fragment ELSE Malformed]
    ELSE Append(log, line)

Receipts(schema, key) ==
    {log[i].outcome : i \in {k \in DOMAIN log : log[k].schema = schema
                                             /\ log[k].s = key}}

\* one success proves an emission; "empty" must be unanimous
Fold(outcomes) ==
    IF "injected" \in outcomes THEN "injected"
    ELSE IF "failed" \in outcomes THEN "failed"
    ELSE IF "empty" \in outcomes THEN "empty"
    ELSE "unmeasured"

Owners(prefix) == {s \in journaled : PrefixOf[s] = prefix}
\* (mutant) the old receipts are shared by every session of the prefix
ClassifiedByPrefix(s) ==
    LET full == Fold(Receipts("v2", s))
    IN  IF full # "unmeasured" THEN full
        ELSE Fold(Receipts("v1", PrefixOf[s]))
\* a receipt of the old schema counts only when its prefix has one owner
Classified(s) ==
    LET full == Fold(Receipts("v2", s))
    IN  IF full # "unmeasured" THEN full
        ELSE IF Cardinality(Owners(PrefixOf[s])) = 1
             THEN Fold(Receipts("v1", PrefixOf[s]))
             ELSE "unmeasured"

\* injection_stats and the read path of session_stats: valid receipts and
\* packed sessions, by outcome
Attempted(outcome) ==
    Cardinality({i \in DOMAIN log : log[i].schema \in {"v1", "v2"} /\ log[i].outcome = outcome})
ReadPath(outcome) == Cardinality({s \in journaled : Classified(s) = outcome})

(***************************************************************************)
(* capture_coverage, as the hook of session s asks it: old transcripts     *)
(* without a ledger, but for those that look like the session itself.      *)
(***************************************************************************)
LooksLike(t, s) == s # NoSession /\ PrefixOf[t] = PrefixOf[s]
Gaps(s) == {t \in settled : ~LooksLike(t, s) /\ PrefixOf[t] \notin packed}

-----------------------------------------------------------------------------
\* the log may already hold a receipt of the old schema
Init ==
    /\ gist = "none"
    /\ settled = {}
    /\ hook = [h \in Hook |-> Idle]
    /\ starts = 0
    /\ events = 0
    /\ \/ log = <<>> /\ stdout = {} /\ journaled = {} /\ packed = {}
       \/ \E s \in Legacy, o \in Outcome :
            /\ log = <<Row("v1", PrefixOf[s], o, {}, FALSE, 0)>>
            /\ stdout = IF o = "injected"
                        THEN {[s |-> s, parts |-> {"gist"}, raw |-> FALSE,
                               whole |-> TRUE, run |-> 0]}
                        ELSE {}
            /\ journaled \in IF LegacyPacked THEN {{s}} ELSE {{}, {s}}
            /\ packed = {PrefixOf[t] : t \in journaled}

(***************************************************************************)
(* The rest of the system.                                                 *)
(***************************************************************************)
Event == events < MaxEvents /\ events' = events + 1
                            /\ UNCHANGED <<hook, stdout, log, starts>>

\* a checkpoint of s; what it banks may hold a secret the ingest scan missed
Checkpoint(s) ==
    /\ Event
    /\ gist' \in {"clean", "secret"}
    /\ packed' = packed \cup {PrefixOf[s]}
    /\ journaled' = journaled \cup {s}
    /\ UNCHANGED settled

\* the gist is damaged so that it does not decode
Damage ==
    /\ Event
    /\ gist' = "unreadable"
    /\ UNCHANGED <<settled, packed, journaled>>

\* the transcript of s has not been written to for a while
Settle(s) ==
    /\ Event
    /\ s \notin settled
    /\ settled' = settled \cup {s}
    /\ UNCHANGED <<gist, packed, journaled>>

\* the agent's vendor deletes the transcript of s
Vanish(s) ==
    /\ Event
    /\ s \in settled
    /\ settled' = settled \ {s}
    /\ UNCHANGED <<gist, packed, journaled>>

(***************************************************************************)
(* The hook.                                                               *)
(***************************************************************************)
At(h, pc) == hook[h].pc = pc
Quiet == UNCHANGED <<world, starts, events>>

StartSession(h, s) ==
    /\ hook[h] = Idle
    /\ starts < MaxStarts
    /\ starts' = starts + 1
    /\ hook' = [hook EXCEPT ![h] =
                  [pc |-> "read", s |-> s, run |-> starts + 1, parts |-> {},
                   raw |-> FALSE, outcome |-> "none", gap |-> FALSE]]
    /\ UNCHANGED <<world, events, stdout, log>>

\* read_startup_context: a gist that does not decode fails the injection
Read(h) ==
    /\ At(h, "read")
    /\ hook' = [hook EXCEPT
                  ![h].pc = "warn",
                  ![h].parts = IF gist \in {"clean", "secret"} THEN {"gist"} ELSE {},
                  ![h].raw = (gist = "secret"),
                  ![h].outcome = IF gist = "unreadable" THEN "failed" ELSE @]
    /\ Quiet /\ UNCHANGED <<stdout, log>>

\* something to say and no failure yet: otherwise scan and emission are skipped
Emits(j) == j.parts # {} /\ j.outcome = "none"
Warned(j, gap) ==
    LET k == [j EXCEPT !.gap = gap, !.parts = @ \cup IF gap THEN {"warning"} ELSE {}]
    IN  [k EXCEPT !.pc = IF Emits(k) THEN "scan" ELSE "record"]
\* the coverage check, or its failure, which is no gap
Warn(h) ==
    /\ At(h, "warn")
    /\ \E gap \in {Gaps(hook[h].s) # {}, FALSE} :
         hook' = [hook EXCEPT ![h] = Warned(@, gap)]
    /\ Quiet /\ UNCHANGED <<stdout, log>>

\* redact: what is emitted carries no secret from here on
Scan(h) ==
    /\ At(h, "scan")
    /\ hook' = [hook EXCEPT ![h].pc = "emit", ![h].raw = FALSE]
    /\ Quiet /\ UNCHANGED <<stdout, log>>

\* fail-closed: unscanned text is dropped
ScanFails(h) ==
    /\ At(h, "scan")
    /\ hook' = [hook EXCEPT ![h].pc = "record", ![h].parts = {},
                            ![h].raw = FALSE, ![h].outcome = "failed"]
    /\ Quiet /\ UNCHANGED <<stdout, log>>

Emission(h, whole) ==
    [s |-> hook[h].s, parts |-> hook[h].parts, raw |-> hook[h].raw,
     whole |-> whole, run |-> hook[h].run]

Emit(h) ==
    /\ At(h, "emit")
    /\ stdout' = stdout \cup {Emission(h, TRUE)}
    /\ hook' = [hook EXCEPT ![h].pc = "record"]
    /\ Quiet /\ UNCHANGED log

\* (mutant) the error is swallowed and the outcome left alone
EmitFailsUnnoticed(h) ==
    /\ At(h, "emit")
    /\ UNCHANGED stdout
    /\ hook' = [hook EXCEPT ![h].pc = "record"]
    /\ Quiet /\ UNCHANGED log
\* stdout is closed or breaks: part of the text may be out
EmitFails(h) ==
    /\ At(h, "emit")
    /\ \/ UNCHANGED stdout
       \/ stdout' = stdout \cup {Emission(h, FALSE)}
    /\ hook' = [hook EXCEPT ![h].pc = "record", ![h].outcome = "failed"]
    /\ Quiet /\ UNCHANGED log

\* record_injection's own choice when the hook saw no failure
OutcomeOf(j) ==
    IF j.outcome # "none" THEN j.outcome
    ELSE IF j.parts # {} THEN "injected" ELSE "empty"

\* the receipt is appended, or the append fails and nobody is told
Record(h) ==
    /\ At(h, "record")
    /\ LET j == hook[h] IN
         \/ log' = AppendLine(Row("v2", j.s, OutcomeOf(j), j.parts, j.gap, j.run))
         \/ UNCHANGED log
    /\ hook' = [hook EXCEPT ![h] = Idle]
    /\ Quiet /\ UNCHANGED stdout

\* the hook is killed, maybe half-way through its emission or its receipt
Die(h) ==
    /\ hook[h] # Idle
    /\ events < MaxEvents
    /\ events' = events + 1
    /\ \/ UNCHANGED <<stdout, log>>
       \/ /\ At(h, "emit")
          /\ \E whole \in BOOLEAN : stdout' = stdout \cup {Emission(h, whole)}
          /\ UNCHANGED log
       \/ At(h, "record") /\ log' = AppendLine(Fragment) /\ UNCHANGED stdout
    /\ hook' = [hook EXCEPT ![h] = Idle]
    /\ UNCHANGED <<world, starts>>

Next ==
    \/ \E s \in Session : Checkpoint(s) \/ Settle(s) \/ Vanish(s)
    \/ Damage
    \/ \E h \in Hook :
         \/ \E s \in Starter : StartSession(h, s)
         \/ Read(h) \/ Warn(h) \/ Scan(h) \/ ScanFails(h)
         \/ Emit(h) \/ EmitFails(h) \/ Record(h) \/ Die(h)

Spec == Init /\ [][Next]_vars

-----------------------------------------------------------------------------
JobType ==
    [pc : {"read", "warn", "scan", "emit", "record"}, s : Starter,
     run : 1..MaxStarts, parts : SUBSET Part, raw : BOOLEAN,
     outcome : {"none", "failed"}, gap : BOOLEAN]
EmissionType ==
    [s : Starter, parts : (SUBSET Part) \ {{}}, raw : BOOLEAN, whole : BOOLEAN,
     run : 0..MaxStarts]
V1 == [schema : {"v1"}, s : Prefix, outcome : Outcome, bytes : {{}},
       gap : {FALSE}, run : {0}]
V2 == [schema : {"v2"}, s : Starter, outcome : Outcome, bytes : SUBSET Part,
       gap : BOOLEAN, run : 1..MaxStarts]
Line == V1 \cup V2 \cup {Fragment, Malformed}

(***************************************************************************)
(* Every variable keeps its type; in particular a hook never emits an      *)
(* empty context and never reaches its receipt with an outcome of its own  *)
(* other than "failed".                                                    *)
(***************************************************************************)
TypeOK ==
    /\ gist \in {"none", "clean", "secret", "unreadable"}
    /\ settled \subseteq Session
    /\ packed \subseteq Prefix
    /\ journaled \subseteq Session
    /\ hook \in [Hook -> {Idle} \cup JobType]
    /\ stdout \subseteq EmissionType
    /\ log \in Seq(Line)
    /\ starts \in 0..MaxStarts
    /\ events \in 0..MaxEvents

(***************************************************************************)
(* Fail-closed egress: whatever fails on the way, and wherever a hook is   *)
(* killed, no text that the scanner has not passed reaches stdout.         *)
(***************************************************************************)
NothingUnscanned == \A e \in stdout : ~e.raw

V2Rows == {log[i] : i \in {k \in DOMAIN log : log[k].schema = "v2"}}
EmittedBy(run) == {e \in stdout : e.run = run}
WholeFrom(row) ==
    [s |-> row.s, parts |-> row.bytes, raw |-> FALSE, whole |-> TRUE,
     run |-> row.run]

(***************************************************************************)
(* A receipt is true of the hook that wrote it, however its steps          *)
(* interleave with other hooks' and whatever failed: "injected" exactly    *)
(* when that run's whole context went out, "empty" only when nothing of it *)
(* did, and a warning it counts was part of what went out.                 *)
(***************************************************************************)
Attests(row) ==
    /\ row.outcome = "injected" <=> WholeFrom(row) \in stdout
    /\ row.outcome = "empty" => EmittedBy(row.run) = {}
    /\ row.outcome = "injected" /\ row.gap => "warning" \in row.bytes
ReceiptsAttest == \A row \in V2Rows : Attests(row)

(***************************************************************************)
(* A packed session is reported as "with emission" only if that very       *)
(* session was handed a whole context: neither a failed attempt, a torn    *)
(* line nor the receipt of a session with the same prefix proves it.  One  *)
(* receipt proves one session at most: the sessions that `session stats`   *)
(* counts as given something are no more than the receipts beside them.    *)
(***************************************************************************)
ProvenEmission ==
    /\ \A s \in journaled :
         Classified(s) = "injected" => \E e \in stdout : e.s = s /\ e.whole
    /\ ReadPath("injected") <= Attempted("injected")

(***************************************************************************)
(* "Only a session whose every receipt says "empty" is known to have run   *)
(* clean with nothing to say" (injection_log.py): once no hook is running, *)
(* a session folded to "empty" was handed nothing.  The code does not keep *)
(* this: a hook killed between its emission and its receipt leaves no row  *)
(* to say otherwise.                                                       *)
(***************************************************************************)
EmptyMeansNothingSaid ==
    \A s \in Session :
        /\ \A h \in Hook : hook[h] = Idle
        /\ Fold(Receipts("v2", s)) = "empty"
        => ~\E e \in stdout : e.s = s

(***************************************************************************)
(* The row holds "the size and hash of the bytes actually handed to the    *)
(* agent" (injection_log.py).  The code does not keep this: after a failed *)
(* read or a failed emission the row has the size and hash of a text that  *)
(* was not handed over.                                                    *)
(***************************************************************************)
BytesWereEmitted ==
    \A row \in V2Rows : row.bytes # {} => WholeFrom(row) \in stdout

(***************************************************************************)
(* "A session the hooks never packed must announce itself at the next      *)
(* start" (cli/main.py): whoever asks, a settled session never packed is   *)
(* among the gaps.  The code does not keep this: the ledger is looked up,  *)
(* and the asking session excluded, by an 8-character prefix.              *)
(***************************************************************************)
UnpackedAnnounces ==
    \A t \in settled \ journaled : \A s \in Starter \ {t} : t \in Gaps(s)

(***************************************************************************)
(* Whatever fails and wherever a hook is killed: typed state, nothing      *)
(* unscanned in stdout, and receipts that tell what was emitted.           *)
(***************************************************************************)
StartsAreAttested ==
    /\ TypeOK
    /\ NothingUnscanned
    /\ ReceiptsAttest

=============================================================================
