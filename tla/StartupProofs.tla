---------------------------- MODULE StartupProofs ----------------------------
(***************************************************************************)
(* What Startup.tla and Backfill.tla guarantee for every set of hooks and  *)
(* sessions, every collision of prefixes, any number of runs, sweeps,      *)
(* deaths and starts, and every bound: what a session is told when it      *)
(* starts, and what the packing of old sessions leaves for it to find.     *)
(***************************************************************************)
EXTENDS Startup, Backfill, PositionLemmas, SequenceTheorems, FiniteSetTheorems, TLAPS

-----------------------------------------------------------------------------
(***************************************************************************)
(* The start hooks.                                                        *)
(***************************************************************************)

(***************************************************************************)
(* Facts about appending to the log.                                       *)
(***************************************************************************)
IsV2(line) == line.schema = "v2"

LEMMA AppendLineType ==
    ASSUME log \in Seq(Line), NEW line \in Line
    PROVE  AppendLine(line) \in Seq(Line)
<1>1. CASE log # <<>> /\ log[Len(log)] = Fragment
  <2>1. Len(log) \in Nat /\ Len(log) \in 1..Len(log) /\ Len(log) \in DOMAIN log
    BY <1>1, LenProperties, EmptySeq
  <2>2. Fragment \in Line /\ Malformed \in Line
    BY DEF Line
  <2>3. \A x \in Line : [log EXCEPT ![Len(log)] = x] \in Seq(Line)
    BY <2>1, ExceptSeq
  <2> QED BY <1>1, <2>2, <2>3 DEF AppendLine
<1>2. CASE ~(log # <<>> /\ log[Len(log)] = Fragment)
  BY <1>2, AppendProperties DEF AppendLine
<1> QED BY <1>1, <1>2

\* Each line after an append is the new one, a bad one, or was there before.
LEMMA AppendLineAdds ==
    ASSUME log \in Seq(Line), NEW line \in Line, log' = AppendLine(line),
           NEW i \in DOMAIN log'
    PROVE  \/ log'[i] \in {line, Fragment, Malformed}
           \/ i \in DOMAIN log /\ log'[i] = log[i]
<1>0. Len(log) \in Nat /\ DOMAIN log = 1..Len(log)
  BY LenProperties
<1>1. CASE log # <<>> /\ log[Len(log)] = Fragment
  <2>1. PICK x \in {Fragment, Malformed} : log' = [log EXCEPT ![Len(log)] = x]
    BY <1>1 DEF AppendLine
  <2> QED BY <1>0, <2>1
<1>2. CASE ~(log # <<>> /\ log[Len(log)] = Fragment)
  <2>1. log' = Append(log, line)
    BY <1>2 DEF AppendLine
  <2>2. Len(log') = Len(log) + 1 /\ DOMAIN log' = 1..Len(log) + 1
    BY <2>1, <1>0, AppendProperties, LenProperties
  <2> QED BY <1>0, <2>1, <2>2, AppendProperties
<1> QED BY <1>1, <1>2

LEMMA BadLines == Fragment.schema = "fragment" /\ Malformed.schema = "malformed"
  BY DEF Fragment, Malformed

\* An append adds at most its own line to the receipts that count.
LEMMA AppendLineRows ==
    ASSUME log \in Seq(Line), NEW line \in Line, log' = AppendLine(line)
    PROVE  V2Rows' \subseteq V2Rows \cup {x \in {line} : IsV2(x)}
  BY AppendLineAdds, BadLines DEF V2Rows, IsV2

(***************************************************************************)
(* Type correctness.  The type of an emission needs that a hook on its way *)
(* to stdout has something to say.                                         *)
(***************************************************************************)
Speaks(j) == j.pc \in {"scan", "emit"} => j.parts # {}
TypeInv == TypeOK /\ \A h \in Hook : hook[h] # Idle => Speaks(hook[h])

\* What one hook's step leaves: h holds j, every other hook what it held.
Becomes(h, j) == hook' = [hook EXCEPT ![h] = j]

LEMMA HookStep ==
    ASSUME TypeInv, NEW h \in Hook, NEW j \in {Idle} \cup JobType,
           j # Idle => Speaks(j), Becomes(h, j)
    PROVE  /\ hook' \in [Hook -> {Idle} \cup JobType]
           /\ \A g \in Hook : hook'[g] # Idle => Speaks(hook'[g])
           /\ hook'[h] = j
           /\ \A g \in Hook \ {h} : hook'[g] = hook[g]
  BY DEF TypeInv, TypeOK, Becomes

LEMMA Running ==
    ASSUME TypeOK, NEW h \in Hook, hook[h] # Idle
    PROVE  hook[h] \in JobType
  BY DEF TypeOK

LEMMA AtIsRunning ==
    ASSUME NEW h \in Hook, NEW pc \in {"read", "warn", "scan", "emit", "record"},
           At(h, pc)
    PROVE  hook[h] # Idle /\ hook[h].pc = pc
  BY DEF At, Idle

LEMMA EmissionIsTyped ==
    ASSUME TypeInv, NEW h \in Hook, At(h, "emit"), NEW whole \in BOOLEAN
    PROVE  Emission(h, whole) \in EmissionType
<1>1. hook[h] \in JobType /\ hook[h].parts # {}
  BY AtIsRunning, Running DEF TypeInv, Speaks
<1>2. hook[h].run \in 0..MaxStarts
  BY <1>1, StartupBounds DEF JobType
<1> QED BY <1>1, <1>2 DEF Emission, EmissionType, JobType

LEMMA RecordIsTyped ==
    ASSUME TypeOK, NEW h \in Hook, At(h, "record"), NEW j, j = hook[h]
    PROVE  Row("v2", j.s, OutcomeOf(j), j.parts, j.gap, j.run) \in V2
<1>1. j \in JobType
  BY AtIsRunning, Running
<1>2. OutcomeOf(j) \in Outcome
  BY <1>1 DEF OutcomeOf, Outcome, JobType
<1> QED BY <1>1, <1>2 DEF Row, V2, JobType

(***************************************************************************)
(* Each step of a hook as a change of that hook's job.                     *)
(***************************************************************************)
LEMMA ReadBecomes ==
    ASSUME TypeOK, NEW h \in Hook, Read(h)
    PROVE  \E j \in JobType :
             /\ Becomes(h, j) /\ j.run = hook[h].run
             /\ j.pc = "warn"
<1> DEFINE j == [hook[h] EXCEPT
                   !.pc = "warn",
                   !.parts = IF gist \in {"clean", "secret"} THEN {"gist"} ELSE {},
                   !.raw = (gist = "secret"),
                   !.outcome = IF gist = "unreadable" THEN "failed" ELSE @]
<1>1. hook[h] \in JobType
  BY AtIsRunning, Running DEF Read
<1>2. j \in JobType /\ j.run = hook[h].run /\ j.pc = "warn"
  BY <1>1 DEF JobType, Part
<1>3. Becomes(h, j)
  BY DEF Read, Becomes, TypeOK
<1> QED BY <1>2, <1>3

LEMMA WarnBecomes ==
    ASSUME TypeOK, NEW h \in Hook, Warn(h)
    PROVE  \E j \in JobType :
             /\ Becomes(h, j) /\ j.run = hook[h].run
             /\ j.gap => "warning" \in j.parts
             /\ j.outcome = hook[h].outcome
             /\ \/ j.pc = "scan" /\ j.parts # {} /\ j.outcome = "none"
                \/ j.pc = "record" /\ (j.parts = {} \/ j.outcome = "failed")
<1>1. hook[h] \in JobType
  BY AtIsRunning, Running DEF Warn
<1> PICK gap \in BOOLEAN : hook' = [hook EXCEPT ![h] = Warned(hook[h], gap)]
  BY DEF Warn, TypeOK
<1> DEFINE k == [hook[h] EXCEPT
                   !.gap = gap,
                   !.parts = @ \cup IF gap THEN {"warning"} ELSE {}]
           j == [k EXCEPT !.pc = IF Emits(k) THEN "scan" ELSE "record"]
<1>2. /\ k \in JobType /\ k.run = hook[h].run /\ k.outcome = hook[h].outcome
      /\ k.gap => "warning" \in k.parts
  BY <1>1 DEF JobType, Part
<1> HIDE DEF k
<1>3. /\ j \in JobType /\ j.run = k.run /\ j.outcome = k.outcome
      /\ j.gap = k.gap /\ j.parts = k.parts
      /\ j.pc = IF Emits(k) THEN "scan" ELSE "record"
  BY <1>2 DEF JobType
<1>4. k.outcome \in {"none", "failed"}
  BY <1>2 DEF JobType
<1>5. j = Warned(hook[h], gap)
  BY DEF Warned, k
<1> HIDE DEF j
<1> QED BY <1>2, <1>3, <1>4, <1>5 DEF Emits, Becomes

LEMMA ScanBecomes ==
    ASSUME TypeInv, NEW h \in Hook, Scan(h)
    PROVE  \E j \in JobType :
             /\ Becomes(h, j) /\ j.run = hook[h].run
             /\ j.pc = "emit" /\ ~j.raw
             /\ j.parts = hook[h].parts /\ j.parts # {}
             /\ j.outcome = hook[h].outcome /\ j.gap = hook[h].gap
<1> DEFINE j == [hook[h] EXCEPT !.pc = "emit", !.raw = FALSE]
<1>1. hook[h] \in JobType /\ hook[h].parts # {}
  BY AtIsRunning, Running DEF Scan, TypeInv, Speaks
<1>2. /\ j \in JobType /\ j.run = hook[h].run /\ j.pc = "emit" /\ ~j.raw
      /\ j.parts = hook[h].parts /\ j.outcome = hook[h].outcome
      /\ j.gap = hook[h].gap
  BY <1>1 DEF JobType
<1>3. Becomes(h, j)
  BY DEF Scan, Becomes, TypeInv, TypeOK
<1> QED BY <1>1, <1>2, <1>3

LEMMA ScanFailsBecomes ==
    ASSUME TypeOK, NEW h \in Hook, ScanFails(h)
    PROVE  \E j \in JobType :
             /\ Becomes(h, j) /\ j.run = hook[h].run
             /\ j.pc = "record" /\ j.outcome = "failed"
<1> DEFINE j == [hook[h] EXCEPT !.pc = "record", !.parts = {},
                                !.raw = FALSE, !.outcome = "failed"]
<1>1. hook[h] \in JobType
  BY AtIsRunning, Running DEF ScanFails
<1>2. /\ j \in JobType /\ j.run = hook[h].run /\ j.pc = "record"
      /\ j.outcome = "failed"
  BY <1>1 DEF JobType
<1>3. Becomes(h, j)
  BY DEF ScanFails, Becomes, TypeOK
<1> QED BY <1>2, <1>3

LEMMA EmitBecomes ==
    ASSUME TypeOK, NEW h \in Hook, Emit(h)
    PROVE  \E j \in JobType :
             /\ Becomes(h, j) /\ j = [hook[h] EXCEPT !.pc = "record"]
             /\ j.run = hook[h].run /\ j.pc = "record"
             /\ j.parts = hook[h].parts /\ j.outcome = hook[h].outcome
             /\ j.gap = hook[h].gap /\ j.s = hook[h].s /\ j.raw = hook[h].raw
<1> DEFINE j == [hook[h] EXCEPT !.pc = "record"]
<1>1. hook[h] \in JobType
  BY AtIsRunning, Running DEF Emit
<1>2. /\ j \in JobType /\ j.run = hook[h].run /\ j.pc = "record"
      /\ j.parts = hook[h].parts /\ j.outcome = hook[h].outcome
      /\ j.gap = hook[h].gap /\ j.s = hook[h].s /\ j.raw = hook[h].raw
  BY <1>1 DEF JobType
<1>3. Becomes(h, j)
  BY DEF Emit, Becomes, TypeOK
<1> QED BY <1>2, <1>3

LEMMA EmitFailsBecomes ==
    ASSUME TypeOK, NEW h \in Hook, EmitFails(h)
    PROVE  \E j \in JobType :
             /\ Becomes(h, j) /\ j.run = hook[h].run
             /\ j.pc = "record" /\ j.outcome = "failed"
<1> DEFINE j == [hook[h] EXCEPT !.pc = "record", !.outcome = "failed"]
<1>1. hook[h] \in JobType
  BY AtIsRunning, Running DEF EmitFails
<1>2. /\ j \in JobType /\ j.run = hook[h].run /\ j.pc = "record"
      /\ j.outcome = "failed"
  BY <1>1 DEF JobType
<1>3. Becomes(h, j)
  BY DEF EmitFails, Becomes, TypeOK
<1> QED BY <1>2, <1>3

LEMMA TypeInit == Init => TypeInv
<1> SUFFICES ASSUME Init PROVE TypeInv
  OBVIOUS
<1> USE StartupPrefixes, StartupBounds
<1>1. hook \in [Hook -> {Idle} \cup JobType] /\ \A h \in Hook : hook[h] = Idle
  BY DEF Init
<1>2. log \in Seq(Line) /\ stdout \subseteq EmissionType
      /\ journaled \subseteq Session /\ packed \subseteq Prefix
  <2>1. CASE log = <<>> /\ stdout = {} /\ journaled = {} /\ packed = {}
    BY <2>1
  <2>2. CASE \E s \in Legacy, o \in Outcome :
               /\ log = <<Row("v1", PrefixOf[s], o, {}, FALSE, 0)>>
               /\ stdout = IF o = "injected"
                           THEN {[s |-> s, parts |-> {"gist"}, raw |-> FALSE,
                                  whole |-> TRUE, run |-> 0]}
                           ELSE {}
               /\ journaled \in IF LegacyPacked THEN {{s}} ELSE {{}, {s}}
               /\ packed = {PrefixOf[t] : t \in journaled}
    <3> PICK s \in Legacy, o \in Outcome :
               /\ log = <<Row("v1", PrefixOf[s], o, {}, FALSE, 0)>>
               /\ stdout = IF o = "injected"
                           THEN {[s |-> s, parts |-> {"gist"}, raw |-> FALSE,
                                  whole |-> TRUE, run |-> 0]}
                           ELSE {}
               /\ journaled \in IF LegacyPacked THEN {{s}} ELSE {{}, {s}}
               /\ packed = {PrefixOf[t] : t \in journaled}
      BY <2>2
    <3>1. s \in Session /\ PrefixOf[s] \in Prefix
      OBVIOUS
    <3>2. Row("v1", PrefixOf[s], o, {}, FALSE, 0) \in Line
      BY <3>1 DEF Row, Line, V1
    <3>3. log \in Seq(Line)
      <4>1. \A row \in Line : <<row>> \in Seq(Line)
        OBVIOUS
      <4> QED BY <3>2, <4>1, Zenon
    <3>4. 0 \in 0..MaxStarts /\ s \in Starter
          /\ {"gist"} \in (SUBSET Part) \ {{}}
      BY <3>1 DEF Starter, Part
    <3>5. [s |-> s, parts |-> {"gist"}, raw |-> FALSE, whole |-> TRUE,
           run |-> 0] \in EmissionType
      BY <3>4 DEF EmissionType
    <3>6. journaled \subseteq Session
      BY <3>1
    <3>7. packed \subseteq Prefix
      BY <3>6
    <3> QED BY <3>3, <3>5, <3>6, <3>7
  <2> QED BY <2>1, <2>2 DEF Init
<1>3. starts \in 0..MaxStarts /\ events \in 0..MaxEvents
      /\ gist \in {"none", "clean", "secret", "unreadable"} /\ settled \subseteq Session
  BY DEF Init
<1> QED BY <1>1, <1>2, <1>3 DEF TypeInv, TypeOK

LEMMA TypeNext == TypeInv /\ [Next]_vars => TypeInv'
<1> SUFFICES ASSUME TypeInv, [Next]_vars PROVE TypeInv'
  OBVIOUS
<1> USE StartupPrefixes, StartupBounds
<1>t. TypeOK
  BY DEF TypeInv
\* what only a hook's own step changes
<1>h. ASSUME NEW h \in Hook, NEW j \in {Idle} \cup JobType,
             j # Idle => Speaks(j), Becomes(h, j),
             UNCHANGED world, starts' \in 0..MaxStarts, events' \in 0..MaxEvents,
             stdout' \subseteq EmissionType, log' \in Seq(Line)
      PROVE  TypeInv'
  <2>1. /\ hook' \in [Hook -> {Idle} \cup JobType]
        /\ \A g \in Hook : hook'[g] # Idle => Speaks(hook'[g])
    BY <1>h, HookStep
  <2> QED BY <1>h, <1>t, <2>1 DEF TypeInv, TypeOK, world
<1>s. stdout \subseteq EmissionType /\ log \in Seq(Line)
      /\ starts \in 0..MaxStarts /\ events \in 0..MaxEvents
  BY <1>t DEF TypeOK
<1>e. events < MaxEvents => events + 1 \in 0..MaxEvents
  BY <1>s
<1>1. ASSUME NEW s \in Session, Checkpoint(s) \/ Settle(s) \/ Vanish(s)
      PROVE  TypeInv'
  <2>1. events' \in 0..MaxEvents /\ UNCHANGED <<hook, stdout, log, starts>>
    BY <1>1, <1>e DEF Checkpoint, Settle, Vanish, Event
  <2>2. /\ gist' \in {"none", "clean", "secret", "unreadable"}
        /\ settled' \subseteq Session /\ packed' \subseteq Prefix
        /\ journaled' \subseteq Session
    BY <1>1, <1>t DEF Checkpoint, Settle, Vanish, TypeOK
  <2> QED BY <2>1, <2>2 DEF TypeInv, TypeOK
<1>2. CASE Damage
  BY <1>2, <1>t, <1>e DEF Damage, Event, TypeInv, TypeOK
<1>3. ASSUME NEW h \in Hook, NEW s \in Starter, StartSession(h, s)
      PROVE  TypeInv'
  <2> DEFINE j == [pc |-> "read", s |-> s, run |-> starts + 1, parts |-> {},
                   raw |-> FALSE, outcome |-> "none", gap |-> FALSE]
  <2>1. starts + 1 \in 1..MaxStarts /\ starts' = starts + 1
    BY <1>3, <1>s DEF StartSession
  <2>2. j \in JobType /\ Speaks(j)
    BY <2>1 DEF JobType, Speaks
  <2>3. Becomes(h, j) /\ UNCHANGED <<world, events, stdout, log>>
    BY <1>3 DEF StartSession, Becomes
  <2> PICK jj \in JobType : Speaks(jj) /\ Becomes(h, jj)
    BY <2>2, <2>3
  <2>4. starts' \in 0..MaxStarts
    BY <2>1
  <2> QED BY <1>h, <1>s, <2>3, <2>4
<1>4. ASSUME NEW h \in Hook, Read(h) \/ Warn(h) \/ Scan(h) \/ ScanFails(h)
      PROVE  TypeInv'
  <2>1. \E j \in JobType : Speaks(j) /\ Becomes(h, j)
    BY <1>4, <1>t, ReadBecomes, WarnBecomes, ScanBecomes, ScanFailsBecomes DEF Speaks
  <2> PICK j \in JobType : Speaks(j) /\ Becomes(h, j)
    BY <2>1
  <2>2. UNCHANGED <<world, starts, events, stdout, log>>
    BY <1>4 DEF Read, Warn, Scan, ScanFails, Quiet
  <2> QED BY <1>h, <1>s, <2>2
<1>5. ASSUME NEW h \in Hook, Emit(h) \/ EmitFails(h)
      PROVE  TypeInv'
  <2>1. \E j \in JobType : Speaks(j) /\ Becomes(h, j)
    BY <1>5, <1>t, EmitBecomes, EmitFailsBecomes DEF Speaks
  <2> PICK j \in JobType : Speaks(j) /\ Becomes(h, j)
    BY <2>1
  <2>2. UNCHANGED <<world, starts, events, log>>
    BY <1>5 DEF Emit, EmitFails, Quiet
  <2>3. Emission(h, TRUE) \in EmissionType /\ Emission(h, FALSE) \in EmissionType
    BY <1>5, EmissionIsTyped DEF Emit, EmitFails
  <2>4. stdout' \subseteq EmissionType
    BY <1>5, <1>s, <2>3 DEF Emit, EmitFails
  <2> QED BY <1>h, <1>s, <2>2, <2>4
<1>6. ASSUME NEW h \in Hook, Record(h)
      PROVE  TypeInv'
  <2>1. Becomes(h, Idle) /\ UNCHANGED <<world, starts, events, stdout>>
    BY <1>6 DEF Record, Becomes, Quiet
  <2> DEFINE j == hook[h]
             row == Row("v2", j.s, OutcomeOf(j), j.parts, j.gap, j.run)
  <2>2. row \in Line
    BY <1>6, <1>t, RecordIsTyped DEF Record, Line
  <2>3. log' = AppendLine(row) \/ log' = log
    BY <1>6 DEF Record
  <2> HIDE DEF row
  <2>4. log' \in Seq(Line)
    BY <1>s, <2>2, <2>3, AppendLineType
  <2> QED BY <1>h, <1>s, <2>1, <2>4
<1>7. ASSUME NEW h \in Hook, Die(h)
      PROVE  TypeInv'
  <2>1. Becomes(h, Idle) /\ UNCHANGED <<world, starts>> /\ events' \in 0..MaxEvents
    BY <1>7, <1>e DEF Die, Becomes
  <2>2. Fragment \in Line
    BY DEF Line
  <2>3. log' \in Seq(Line)
    BY <1>7, <1>s, <2>2, AppendLineType DEF Die
  <2>4. stdout' \subseteq EmissionType
    BY <1>7, <1>s, EmissionIsTyped DEF Die
  <2> QED BY <1>h, <1>s, <2>1, <2>3, <2>4
<1>8. CASE UNCHANGED vars
  BY <1>8 DEF vars, TypeInv, TypeOK
<1> QED BY <1>1, <1>2, <1>3, <1>4, <1>5, <1>6, <1>7, <1>8 DEF Next

(***************************************************************************)
(* Whatever fails and wherever hooks are killed, every variable keeps its  *)
(* type (_cmd_hook, record_injection).                                     *)
(***************************************************************************)
THEOREM TypeCorrect == Spec => []TypeOK
<1>1. TypeInv => TypeOK
  BY DEF TypeInv
<1> QED BY TypeInit, TypeNext, <1>1, PTL DEF Spec

(***************************************************************************)
(* Receipts attest.  The strengthening: every run has a number of its own, *)
(* under which nothing is in stdout before the hook has scanned what it    *)
(* says, and a hook about to write its receipt would write a true one.     *)
(***************************************************************************)
Apart ==
    /\ \A e \in stdout : e.run <= starts
    /\ \A row \in V2Rows : row.run <= starts
    /\ \A h \in Hook : hook[h] # Idle =>
         /\ hook[h].run <= starts
         /\ \A g \in Hook \ {h} : hook[g] # Idle => hook[g].run # hook[h].run
         /\ \A row \in V2Rows : row.run # hook[h].run

WholeOf(j) ==
    [s |-> j.s, parts |-> j.parts, raw |-> FALSE, whole |-> TRUE, run |-> j.run]

Honest(j) ==
    /\ j.pc = "read" => j.outcome = "none"
    /\ j.pc \in {"scan", "emit"} =>
         j.outcome = "none" /\ (j.gap => "warning" \in j.parts)
    /\ j.pc = "emit" => ~j.raw
    /\ j.pc # "record" => EmittedBy(j.run) = {}
    /\ j.pc = "record" =>
         /\ j.outcome = "failed" => \A e \in EmittedBy(j.run) : ~e.whole
         /\ j.outcome = "none" /\ j.parts = {} => EmittedBy(j.run) = {}
         /\ j.outcome = "none" /\ j.parts # {} =>
              /\ WholeOf(j) \in stdout
              /\ j.gap => "warning" \in j.parts

ReceiptInv ==
    /\ TypeInv
    /\ Apart
    /\ \A h \in Hook : hook[h] # Idle => Honest(hook[h])
    /\ NothingUnscanned
    /\ ReceiptsAttest

\* A run's receipts and standing do not depend on what other runs emit.
LEMMA OtherRuns ==
    ASSUME NEW X, NEW r, \A e \in X : e.run = r, stdout' = stdout \cup X
    PROVE  /\ \A k : k # r => (EmittedBy(k))' = EmittedBy(k)
           /\ \A j : j.run # r /\ Honest(j) => Honest(j)'
           /\ \A row : row.run # r /\ Attests(row) => Attests(row)'
<1>1. \A k : k # r => (EmittedBy(k))' = EmittedBy(k)
  BY DEF EmittedBy
<1>2. ASSUME NEW j, j.run # r PROVE Honest(j) => Honest(j)'
  BY <1>1, <1>2 DEF Honest
<1>3. ASSUME NEW row, row.run # r PROVE Attests(row) => Attests(row)'
  <2>1. WholeFrom(row).run = row.run
    BY DEF WholeFrom
  <2>2. WholeFrom(row) \in stdout' <=> WholeFrom(row) \in stdout
    BY <1>3, <2>1
  <2> QED BY <1>1, <1>3, <2>2 DEF Attests
<1> QED BY <1>1, <1>2, <1>3

(***************************************************************************)
(* What one step of a hook may do: h goes on to hold j, puts X on stdout   *)
(* and, only when it stops, adds R to the receipts.                        *)
(***************************************************************************)
LEMMA Step ==
    ASSUME ReceiptInv, TypeInv', NEW h \in Hook, hook[h] # Idle,
           NEW j \in {Idle} \cup JobType, Becomes(h, j), starts' = starts,
           j # Idle => j.run = hook[h].run /\ Honest(j)',
           NEW X, stdout' = stdout \cup X,
           \A e \in X : e.run = hook[h].run /\ ~e.raw,
           NEW R, V2Rows' \subseteq V2Rows \cup R,
           \A row \in R : j = Idle /\ row.run = hook[h].run /\ Attests(row)'
    PROVE  ReceiptInv'
<1> PICK r : r = hook[h].run
  OBVIOUS
<1>1. /\ hook'[h] = j
      /\ \A g \in Hook \ {h} : hook'[g] = hook[g]
  BY DEF Becomes, ReceiptInv, TypeInv, TypeOK
<1>2. r <= starts
  BY DEF ReceiptInv, Apart
<1>3. Apart'
  <2>1. \A e \in stdout' : e.run <= starts'
    BY <1>2 DEF ReceiptInv, Apart
  <2>2. \A row \in V2Rows' : row.run <= starts'
    BY <1>2 DEF ReceiptInv, Apart
  <2>3. ASSUME NEW g \in Hook, hook'[g] # Idle
        PROVE  /\ hook[g] # Idle /\ hook'[g].run = hook[g].run
               /\ \A row \in V2Rows' : row.run # hook[g].run
    <3>1. hook[g] # Idle /\ hook'[g].run = hook[g].run
      BY <1>1, <2>3
    <3>2. \A row \in V2Rows : row.run # hook[g].run
      BY <3>1 DEF ReceiptInv, Apart
    <3>3. ASSUME NEW row \in R PROVE row.run # hook[g].run
      <4>1. g # h
        BY <1>1, <2>3, <3>3
      <4> QED BY <3>1, <4>1, <3>3 DEF ReceiptInv, Apart
    <3> QED BY <3>1, <3>2, <3>3
  <2>4. ASSUME NEW g \in Hook, hook'[g] # Idle, NEW f \in Hook \ {g}, hook'[f] # Idle
        PROVE  hook'[f].run # hook'[g].run
    BY <2>3, <2>4 DEF ReceiptInv, Apart
  <2>5. ASSUME NEW g \in Hook, hook'[g] # Idle PROVE hook'[g].run <= starts'
    BY <2>3, <2>5 DEF ReceiptInv, Apart
  <2> QED BY <2>1, <2>2, <2>3, <2>4, <2>5 DEF Apart
<1>4. ASSUME NEW g \in Hook, hook'[g] # Idle PROVE Honest(hook[g])'
  <2>1. CASE g = h
    BY <1>1, <1>4, <2>1
  <2>2. CASE g # h
    <3> PICK k : k = hook[g]
      OBVIOUS
    <3>1. hook'[g] = k /\ k # Idle /\ k.run # r /\ Honest(k)
      BY <1>1, <1>4, <2>2 DEF ReceiptInv, Apart
    <3>2. Honest(k)'
      BY <3>1, OtherRuns
    <3> QED BY <3>1, <3>2
  <2> QED BY <2>1, <2>2
<1>5. NothingUnscanned'
  BY DEF ReceiptInv, NothingUnscanned
<1>6. ASSUME NEW row \in V2Rows' PROVE Attests(row)'
  <2>1. CASE row \in R
    BY <2>1
  <2>2. CASE row \in V2Rows
    <3>1. row.run # r /\ Attests(row)
      BY <2>2 DEF ReceiptInv, Apart, ReceiptsAttest
    <3> QED BY <3>1, OtherRuns
  <2> QED BY <2>1, <2>2
<1> QED BY <1>3, <1>4, <1>5, <1>6 DEF ReceiptInv, ReceiptsAttest

\* A step that neither emits nor writes a receipt.
LEMMA QuietStep ==
    ASSUME ReceiptInv, TypeInv', NEW h \in Hook, hook[h] # Idle,
           NEW j \in {Idle} \cup JobType, Becomes(h, j),
           UNCHANGED <<starts, stdout, log>>,
           j # Idle => j.run = hook[h].run /\ Honest(j)
    PROVE  ReceiptInv'
<1> PICK none : none = {}
  OBVIOUS
<1>1. /\ stdout' = stdout \cup none /\ V2Rows' \subseteq V2Rows \cup none
      /\ \A x \in none : FALSE
  BY DEF V2Rows
<1>2. j # Idle => j.run = hook[h].run /\ Honest(j)'
  BY DEF Honest, EmittedBy
<1> QED BY <1>1, <1>2, Step

\* Emitting, wholly or in part, and then either waiting to record it or dying.
LEMMA EmittingStep ==
    ASSUME ReceiptInv, TypeInv', NEW h \in Hook, At(h, "emit"),
           NEW j \in {Idle} \cup JobType, Becomes(h, j),
           UNCHANGED <<starts, log>>,
           NEW whole \in BOOLEAN,
           stdout' = stdout \cup {Emission(h, whole)},
           j # Idle => j.run = hook[h].run /\ Honest(j)'
    PROVE  ReceiptInv'
<1> PICK e : e = Emission(h, whole)
  OBVIOUS
<1>1. hook[h] # Idle /\ hook[h].pc = "emit"
  BY AtIsRunning
<1>2. Honest(hook[h])
  BY <1>1 DEF ReceiptInv
<1>3. e.run = hook[h].run /\ ~e.raw
  BY <1>1, <1>2 DEF Emission, Honest
<1> PICK X, none : X = {e} /\ none = {}
  OBVIOUS
<1>4. /\ stdout' = stdout \cup X /\ V2Rows' \subseteq V2Rows \cup none
      /\ \A x \in X : x.run = hook[h].run /\ ~x.raw
      /\ \A x \in none : FALSE
  BY <1>3 DEF V2Rows
<1> QED BY <1>1, <1>4, Step

LEMMA ReceiptInit == Init => ReceiptInv
<1> SUFFICES ASSUME Init PROVE ReceiptInv
  OBVIOUS
<1>1. TypeInv /\ \A h \in Hook : hook[h] = Idle
  BY TypeInit DEF Init
<1>2. V2Rows = {} /\ \A e \in stdout : e.run = 0 /\ ~e.raw
  <2>1. CASE log = <<>> /\ stdout = {}
    BY <2>1 DEF V2Rows
  <2>2. CASE \E s \in Legacy, o \in Outcome :
               /\ log = <<Row("v1", PrefixOf[s], o, {}, FALSE, 0)>>
               /\ stdout = IF o = "injected"
                           THEN {[s |-> s, parts |-> {"gist"}, raw |-> FALSE,
                                  whole |-> TRUE, run |-> 0]}
                           ELSE {}
    <3> PICK s \in Legacy, o \in Outcome :
               /\ log = <<Row("v1", PrefixOf[s], o, {}, FALSE, 0)>>
               /\ stdout = IF o = "injected"
                           THEN {[s |-> s, parts |-> {"gist"}, raw |-> FALSE,
                                  whole |-> TRUE, run |-> 0]}
                           ELSE {}
      BY <2>2
    <3>1. ASSUME NEW row, row.schema = "v1", log = <<row>> PROVE V2Rows = {}
      <4>1. DOMAIN <<row>> = {1} /\ <<row>>[1] = row
        OBVIOUS
      <4>2. \A i \in DOMAIN log : log[i] = row
        BY <3>1, <4>1, Zenon
      <4> QED BY <3>1, <4>2 DEF V2Rows
    <3>2. Row("v1", PrefixOf[s], o, {}, FALSE, 0).schema = "v1"
      BY DEF Row
    <3>3. V2Rows = {}
      BY <3>1, <3>2, Zenon
    <3> QED BY <3>3
  <2> QED BY <2>1, <2>2 DEF Init
<1>3. Apart
  <2>1. starts = 0
    BY DEF Init
  <2> QED BY <1>1, <1>2, <2>1 DEF Apart
<1> QED BY <1>1, <1>2, <1>3 DEF ReceiptInv, NothingUnscanned, ReceiptsAttest

LEMMA ReceiptNext == ReceiptInv /\ [Next]_vars => ReceiptInv'
<1> SUFFICES ASSUME ReceiptInv, [Next]_vars PROVE ReceiptInv'
  OBVIOUS
<1>t. TypeInv /\ TypeOK /\ TypeInv'
  BY TypeNext DEF ReceiptInv, TypeInv
<1>w. ASSUME UNCHANGED <<hook, stdout, log, starts>> PROVE ReceiptInv'
  <2>1. V2Rows' = V2Rows
    BY <1>w DEF V2Rows
  <2> QED BY <1>t, <1>w, <2>1 DEF ReceiptInv, Apart, Honest, EmittedBy,
                    NothingUnscanned, ReceiptsAttest, Attests
<1>1. ASSUME NEW s \in Session, Checkpoint(s) \/ Settle(s) \/ Vanish(s)
      PROVE  ReceiptInv'
  BY <1>1, <1>w DEF Checkpoint, Settle, Vanish, Event
<1>2. CASE Damage
  BY <1>2, <1>w DEF Damage, Event
<1>3. ASSUME NEW h \in Hook, NEW s \in Starter, StartSession(h, s)
      PROVE  ReceiptInv'
  <2> DEFINE j == [pc |-> "read", s |-> s, run |-> starts + 1, parts |-> {},
                   raw |-> FALSE, outcome |-> "none", gap |-> FALSE]
  <2>1. /\ starts' = starts + 1 /\ starts \in Nat
        /\ stdout' = stdout /\ V2Rows' = V2Rows
        /\ hook'[h] = j /\ \A g \in Hook \ {h} : hook'[g] = hook[g]
    BY <1>3, <1>t DEF StartSession, TypeOK, V2Rows
  <2>2. \A e \in stdout : e.run \in Nat /\ e.run <= starts
    BY <1>t DEF ReceiptInv, Apart, TypeOK, EmissionType
  <2>3. \A row \in V2Rows : row.run \in Nat /\ row.run <= starts
    <3>1. \A i \in DOMAIN log : log[i] \in Line
      BY <1>t, LenProperties, ElementOfSeq DEF TypeOK
    <3>2. V2Rows \subseteq V2
      <4>1. \A line \in Line : line.schema = "v2" => line \in V2
        <5>1. \A line \in V1 : line.schema = "v1"
          BY DEF V1
        <5> QED BY <5>1 DEF Line, Fragment, Malformed
      <4> QED BY <3>1, <4>1 DEF V2Rows
    <3>3. \A row \in V2 : row.run \in Nat
      BY DEF V2
    <3> QED BY <3>2, <3>3 DEF ReceiptInv, Apart
  <2>4. \A g \in Hook \ {h} :
          hook[g] # Idle => hook[g].run \in Nat /\ hook[g].run <= starts
    BY <1>t, Running DEF ReceiptInv, Apart, JobType
  <2>5. Apart'
    <3>1. \A e \in stdout' : e.run <= starts'
      BY <2>1, <2>2
    <3>2. \A row \in V2Rows' : row.run <= starts'
      BY <2>1, <2>3
    <3>3. ASSUME NEW g \in Hook, hook'[g] # Idle
          PROVE  /\ hook'[g].run <= starts'
                 /\ \A f \in Hook \ {g} : hook'[f] # Idle => hook'[f].run # hook'[g].run
                 /\ \A row \in V2Rows' : row.run # hook'[g].run
      <4>1. CASE g = h
        <5>1. hook'[g].run = starts + 1
          BY <2>1, <4>1
        <5> HIDE DEF j
        <5> QED BY <2>1, <2>3, <2>4, <4>1, <5>1
      <4>2. CASE g # h
        <5>1. hook'[g] = hook[g] /\ hook'[h].run = starts + 1
          BY <2>1, <4>2
        <5> HIDE DEF j
        <5> QED BY <2>1, <2>4, <3>3, <4>2, <5>1 DEF ReceiptInv, Apart
      <4> QED BY <4>1, <4>2
    <3> QED BY <3>1, <3>2, <3>3 DEF Apart
  <2>6. EmittedBy(starts + 1) = {}
    BY <2>1, <2>2 DEF EmittedBy
  <2>7. Honest(j) /\ j # Idle
    BY <2>6 DEF Honest, Idle
  <2>8. ASSUME NEW g \in Hook, hook'[g] # Idle PROVE Honest(hook[g])'
    <3>1. \A k : Honest(k) => Honest(k)'
      BY <2>1 DEF Honest, EmittedBy
    <3>2. PICK k : k = hook'[g]
      OBVIOUS
    <3>3. Honest(k)
      BY <2>1, <2>7, <2>8, <3>2 DEF ReceiptInv
    <3> QED BY <3>1, <3>2, <3>3
  <2>9. NothingUnscanned' /\ ReceiptsAttest'
    BY <2>1 DEF ReceiptInv, NothingUnscanned, ReceiptsAttest, Attests, EmittedBy
  <2> QED BY <1>t, <2>5, <2>8, <2>9 DEF ReceiptInv
<1>4. ASSUME NEW h \in Hook, Read(h) \/ Warn(h) \/ Scan(h) \/ ScanFails(h)
      PROVE  ReceiptInv'
  <2>1. hook[h] # Idle /\ hook[h].pc \in {"read", "warn", "scan"}
    BY <1>4, AtIsRunning DEF Read, Warn, Scan, ScanFails
  <2>2. Honest(hook[h]) /\ EmittedBy(hook[h].run) = {}
    BY <2>1 DEF ReceiptInv, Honest
  <2>3. UNCHANGED <<starts, stdout, log>>
    BY <1>4 DEF Read, Warn, Scan, ScanFails, Quiet
  <2>4. \E j \in JobType : Becomes(h, j) /\ j.run = hook[h].run /\ Honest(j)
    <3>1. CASE Read(h)
      <4> PICK j \in JobType : Becomes(h, j) /\ j.run = hook[h].run /\ j.pc = "warn"
        BY <3>1, <1>t, ReadBecomes
      <4> QED BY <2>2 DEF Honest
    <3>2. CASE Warn(h)
      <4> PICK j \in JobType :
             /\ Becomes(h, j) /\ j.run = hook[h].run
             /\ j.gap => "warning" \in j.parts
             /\ \/ j.pc = "scan" /\ j.parts # {} /\ j.outcome = "none"
                \/ j.pc = "record" /\ (j.parts = {} \/ j.outcome = "failed")
        BY <3>2, <1>t, WarnBecomes
      <4> QED BY <2>2 DEF Honest
    <3>3. CASE Scan(h)
      <4>1. hook[h].pc = "scan"
        BY <3>3 DEF Scan, At
      <4> PICK j \in JobType :
             /\ Becomes(h, j) /\ j.run = hook[h].run /\ j.pc = "emit" /\ ~j.raw
             /\ j.parts = hook[h].parts
             /\ j.outcome = hook[h].outcome /\ j.gap = hook[h].gap
        BY <3>3, <1>t, ScanBecomes
      <4> QED BY <2>2, <4>1 DEF Honest
    <3>4. CASE ScanFails(h)
      <4> PICK j \in JobType :
             /\ Becomes(h, j) /\ j.run = hook[h].run
             /\ j.pc = "record" /\ j.outcome = "failed"
        BY <3>4, <1>t, ScanFailsBecomes
      <4> QED BY <2>2 DEF Honest
    <3> QED BY <1>4, <3>1, <3>2, <3>3, <3>4
  <2> PICK j \in JobType : Becomes(h, j) /\ j.run = hook[h].run /\ Honest(j)
    BY <2>4
  <2> QED BY <1>t, <2>1, <2>3, QuietStep
<1>5. ASSUME NEW h \in Hook, Emit(h)
      PROVE  ReceiptInv'
  <2>1. hook[h] # Idle /\ hook[h].pc = "emit" /\ hook[h] \in JobType
    BY <1>5, <1>t, AtIsRunning, Running DEF Emit
  <2>2. Honest(hook[h]) /\ hook[h].parts # {}
    BY <1>t, <2>1 DEF ReceiptInv, TypeInv, Speaks
  <2> PICK j \in JobType :
             /\ Becomes(h, j)
             /\ j.run = hook[h].run /\ j.pc = "record"
             /\ j.parts = hook[h].parts /\ j.outcome = hook[h].outcome
             /\ j.gap = hook[h].gap /\ j.s = hook[h].s /\ j.raw = hook[h].raw
    BY <1>5, <1>t, EmitBecomes
  <2>3. stdout' = stdout \cup {Emission(h, TRUE)} /\ UNCHANGED <<starts, log>>
    BY <1>5 DEF Emit, Quiet
  <2>4. Emission(h, TRUE) = WholeOf(j)
    BY <2>1, <2>2 DEF Emission, WholeOf, Honest, JobType
  <2>5. Honest(j)'
    <3>1. WholeOf(j) \in stdout'
      BY <2>3, <2>4
    <3>2. j.outcome = "none" /\ (j.gap => "warning" \in j.parts) /\ j.parts # {}
      BY <2>1, <2>2 DEF Honest
    <3> QED BY <3>1, <3>2 DEF Honest
  <2> QED BY <1>5, <1>t, <2>3, <2>5, EmittingStep DEF Emit
<1>6. ASSUME NEW h \in Hook, EmitFails(h)
      PROVE  ReceiptInv'
  <2>1. hook[h] # Idle /\ hook[h].pc = "emit"
    BY <1>6, AtIsRunning DEF EmitFails
  <2>2. EmittedBy(hook[h].run) = {}
    BY <2>1 DEF ReceiptInv, Honest
  <2> PICK j \in JobType :
             /\ Becomes(h, j) /\ j.run = hook[h].run
             /\ j.pc = "record" /\ j.outcome = "failed"
    BY <1>6, <1>t, EmitFailsBecomes
  <2>3. UNCHANGED <<starts, log>>
    BY <1>6 DEF EmitFails, Quiet
  <2>4. CASE stdout' = stdout
    <3>1. Honest(j)
      BY <2>2 DEF Honest
    <3> QED BY <1>t, <2>1, <2>3, <2>4, <3>1, QuietStep
  <2>5. CASE stdout' = stdout \cup {Emission(h, FALSE)}
    <3>1. ~Emission(h, FALSE).whole
      BY DEF Emission
    <3>2. Honest(j)'
      BY <2>2, <2>5, <3>1 DEF Honest, EmittedBy
    <3> QED BY <1>6, <1>t, <2>3, <2>5, <3>2, EmittingStep DEF EmitFails
  <2> QED BY <1>6, <2>4, <2>5 DEF EmitFails
<1>7. ASSUME NEW h \in Hook, Record(h)
      PROVE  ReceiptInv'
  <2>1. hook[h] # Idle /\ hook[h].pc = "record" /\ hook[h] \in JobType
    BY <1>7, <1>t, AtIsRunning, Running DEF Record
  <2>2. Becomes(h, Idle) /\ UNCHANGED <<starts, stdout>>
    BY <1>7 DEF Record, Becomes, Quiet
  <2> PICK j : j = hook[h]
    OBVIOUS
  <2> PICK row : row = Row("v2", j.s, OutcomeOf(j), j.parts, j.gap, j.run)
    OBVIOUS
  <2>3. CASE log' = log
    BY <1>t, <2>1, <2>2, <2>3, QuietStep
  <2>4. CASE log' = AppendLine(row)
    <3>1. row \in Line
      BY <1>7, <1>t, RecordIsTyped DEF Record, Line
    <3>2. V2Rows' \subseteq V2Rows \cup {row}
      BY <1>t, <2>4, <3>1, AppendLineRows DEF TypeOK
    <3>3. row.run = hook[h].run /\ row.bytes = j.parts /\ row.gap = j.gap
          /\ row.outcome = OutcomeOf(j) /\ WholeFrom(row) = WholeOf(j)
      BY DEF Row, WholeFrom, WholeOf
    <3>4. Honest(j) /\ j.outcome \in {"none", "failed"}
      BY <2>1 DEF ReceiptInv, JobType
    <3>5. Attests(row)
      <4>1. WholeOf(j).run = j.run /\ WholeOf(j).whole
        BY DEF WholeOf
      <4>2. CASE j.outcome = "failed"
        <5>1. WholeOf(j) \notin stdout
          BY <2>1, <3>4, <4>1, <4>2 DEF Honest, EmittedBy
        <5> QED BY <3>3, <4>2, <5>1 DEF Attests, OutcomeOf
      <4>3. CASE j.outcome = "none" /\ j.parts = {}
        <5>1. EmittedBy(j.run) = {} /\ WholeOf(j) \notin stdout
          BY <2>1, <3>4, <4>1, <4>3 DEF Honest, EmittedBy
        <5> QED BY <3>3, <4>3, <5>1 DEF Attests, OutcomeOf
      <4>4. CASE j.outcome = "none" /\ j.parts # {}
        <5>1. WholeOf(j) \in stdout /\ (j.gap => "warning" \in j.parts)
          BY <2>1, <3>4, <4>4 DEF Honest
        <5> QED BY <3>3, <4>4, <5>1 DEF Attests, OutcomeOf
      <4> QED BY <3>4, <4>2, <4>3, <4>4
    <3>6. Attests(row)'
      BY <2>2, <3>5 DEF Attests, EmittedBy
    <3> PICK R, none : R = {row} /\ none = {}
      OBVIOUS
    <3>7. /\ stdout' = stdout \cup none /\ \A x \in none : FALSE
          /\ V2Rows' \subseteq V2Rows \cup R
      BY <2>2, <3>2
    <3>8. \A x \in R : x.run = hook[h].run /\ Attests(x)'
      BY <3>3, <3>6
    <3> QED BY <1>t, <2>1, <2>2, <3>7, <3>8, Step
  <2> QED BY <1>7, <2>3, <2>4 DEF Record
<1>8. ASSUME NEW h \in Hook, Die(h)
      PROVE  ReceiptInv'
  <2>1. hook[h] # Idle /\ Becomes(h, Idle) /\ UNCHANGED starts
    BY <1>8 DEF Die, Becomes
  <2>2. CASE UNCHANGED <<stdout, log>>
    BY <1>t, <2>1, <2>2, QuietStep
  <2>3. CASE /\ At(h, "emit") /\ UNCHANGED log
             /\ \E whole \in BOOLEAN : stdout' = stdout \cup {Emission(h, whole)}
    BY <1>t, <2>1, <2>3, EmittingStep
  <2>4. CASE log' = AppendLine(Fragment) /\ UNCHANGED stdout
    <3>1. Fragment \in Line /\ ~IsV2(Fragment)
      BY DEF Line, Fragment, IsV2
    <3> PICK none : none = {}
      OBVIOUS
    <3>2. /\ V2Rows' \subseteq V2Rows \cup none /\ stdout' = stdout \cup none
          /\ \A x \in none : FALSE
      BY <1>t, <2>4, <3>1, AppendLineRows DEF TypeOK
    <3> QED BY <1>t, <2>1, <3>2, Step
  <2> QED BY <1>8, <2>2, <2>3, <2>4 DEF Die
<1>9. CASE UNCHANGED vars
  BY <1>9, <1>w DEF vars
<1> QED BY <1>1, <1>2, <1>3, <1>4, <1>5, <1>6, <1>7, <1>8, <1>9 DEF Next

(***************************************************************************)
(* A receipt is true of the hook run that wrote it, whatever failed and    *)
(* however hooks interleave (_cmd_hook emits first and records after).     *)
(***************************************************************************)
THEOREM ReceiptsAreTrue == Spec => []ReceiptsAttest
<1>1. ReceiptInv => ReceiptsAttest
  BY DEF ReceiptInv
<1> QED BY ReceiptInit, ReceiptNext, <1>1, PTL DEF Spec

(***************************************************************************)
(* Nothing the scanner has not passed reaches stdout, whatever fails       *)
(* (_cmd_hook's egress scan is fail-closed).                               *)
(***************************************************************************)
THEOREM EgressIsScanned == Spec => []NothingUnscanned
<1>1. ReceiptInv => NothingUnscanned
  BY DEF ReceiptInv
<1> QED BY ReceiptInit, ReceiptNext, <1>1, PTL DEF Spec

(***************************************************************************)
(* A session start attests to itself: typed, scanned, and with receipts    *)
(* that tell what was emitted (_cmd_hook, read_injections).                *)
(***************************************************************************)
THEOREM StartsStayAttested == Spec => []StartsAreAttested
<1>1. TypeOK /\ NothingUnscanned /\ ReceiptsAttest => StartsAreAttested
  BY DEF StartsAreAttested
<1> QED BY <1>1, TypeCorrect, ReceiptsAreTrue, EgressIsScanned, PTL

-----------------------------------------------------------------------------
(***************************************************************************)
(* What the receipts prove of the sessions.  A receipt of the old schema   *)
(* names a prefix only: what it was written for is in the invariant, and   *)
(* that this was a packed session, as the hook that wrote such receipts    *)
(* took for granted, is LegacyPacked.                                      *)
(***************************************************************************)
LegacyOf(s) == [s |-> s, parts |-> {"gist"}, raw |-> FALSE, whole |-> TRUE, run |-> 0]
OldRows == {log[i] : i \in {k \in DOMAIN log : log[k].schema = "v1"}}
WrittenFor(row, s) ==
    /\ row.s = PrefixOf[s]
    /\ row.outcome = "injected" => LegacyOf(s) \in stdout
    /\ LegacyPacked => s \in journaled
LegacyInv ==
    /\ IsFiniteSet(journaled)
    /\ \A row \in OldRows : \E s \in Legacy : WrittenFor(row, s)

LEMMA LegacyInit == Init => LegacyInv
<1> SUFFICES ASSUME Init PROVE LegacyInv
  OBVIOUS
<1>1. CASE log = <<>> /\ journaled = {}
  BY <1>1, FS_EmptySet DEF LegacyInv, OldRows
<1>2. ASSUME NEW s \in Legacy, NEW o \in Outcome,
             log = <<Row("v1", PrefixOf[s], o, {}, FALSE, 0)>>,
             o = "injected" => LegacyOf(s) \in stdout,
             journaled \in IF LegacyPacked THEN {{s}} ELSE {{}, {s}}
      PROVE  LegacyInv
  <2>0. journaled = {s} \/ (journaled = {} /\ ~LegacyPacked)
    BY <1>2
  <2>1. IsFiniteSet(journaled) /\ (LegacyPacked => s \in journaled)
    BY <2>0, FS_EmptySet, FS_Singleton
  <2>2. \A row \in OldRows : row.s = PrefixOf[s] /\ row.outcome = o
    BY <1>2 DEF OldRows, Row
  <2> QED BY <1>2, <2>1, <2>2 DEF LegacyInv, WrittenFor
<1>3. \/ log = <<>> /\ journaled = {}
      \/ \E s \in Legacy, o \in Outcome :
            /\ log = <<Row("v1", PrefixOf[s], o, {}, FALSE, 0)>>
            /\ o = "injected" => LegacyOf(s) \in stdout
            /\ journaled \in IF LegacyPacked THEN {{s}} ELSE {{}, {s}}
  BY DEF Init, LegacyOf
<1> QED BY <1>1, <1>2, <1>3

\* What any step may do to what hooks and checkpoints leave behind.
LEMMA Accumulates ==
    ASSUME TypeInv, [Next]_vars
    PROVE  /\ stdout \subseteq stdout'
           /\ journaled' = journaled \/ \E s \in Session : journaled' = journaled \cup {s}
           /\ log' = log \/ \E line \in V2 \cup {Fragment} : log' = AppendLine(line)
<1>1. ASSUME NEW s \in Session, Checkpoint(s) \/ Settle(s) \/ Vanish(s) \/ Damage
      PROVE  /\ UNCHANGED <<stdout, log>>
             /\ journaled' = journaled \/ journaled' = journaled \cup {s}
  BY <1>1 DEF Checkpoint, Settle, Vanish, Damage, Event
<1>2. CASE Damage
  BY <1>2 DEF Damage, Event
<1>3. ASSUME NEW h \in Hook,
             \/ \E s \in Starter : StartSession(h, s)
             \/ Read(h) \/ Warn(h) \/ Scan(h) \/ ScanFails(h) \/ Emit(h) \/ EmitFails(h)
      PROVE  stdout \subseteq stdout' /\ UNCHANGED <<journaled, log>>
  BY <1>3 DEF StartSession, Read, Warn, Scan, ScanFails, Emit, EmitFails, Quiet, world
<1>4. ASSUME NEW h \in Hook, Record(h)
      PROVE  /\ UNCHANGED <<stdout, journaled>>
             /\ log' = log \/ \E line \in V2 : log' = AppendLine(line)
  <2>1. Row("v2", hook[h].s, OutcomeOf(hook[h]), hook[h].parts, hook[h].gap, hook[h].run) \in V2
    BY <1>4, RecordIsTyped DEF Record, TypeInv
  <2> QED BY <1>4, <2>1 DEF Record, Quiet, world
<1>5. ASSUME NEW h \in Hook, Die(h)
      PROVE  /\ stdout \subseteq stdout' /\ UNCHANGED journaled
             /\ log' = log \/ log' = AppendLine(Fragment)
  BY <1>5 DEF Die, world
<1>6. CASE UNCHANGED vars
  BY <1>6 DEF vars
<1> QED BY <1>1, <1>2, <1>3, <1>4, <1>5, <1>6 DEF Next

LEMMA LegacyNext == TypeInv /\ LegacyInv /\ [Next]_vars => LegacyInv'
<1> SUFFICES ASSUME TypeInv, LegacyInv, [Next]_vars PROVE LegacyInv'
  OBVIOUS
<1>1. IsFiniteSet(journaled') /\ journaled \subseteq journaled' /\ stdout \subseteq stdout'
  BY Accumulates, FS_AddElement DEF LegacyInv
<1>2. OldRows' \subseteq OldRows
  <2>1. CASE log' = log
    BY <2>1 DEF OldRows
  <2>2. ASSUME NEW line \in V2 \cup {Fragment}, log' = AppendLine(line)
        PROVE  OldRows' \subseteq OldRows
    <3>1. log \in Seq(Line) /\ line \in Line
      BY DEF TypeInv, TypeOK, Line
    <3>2. line.schema # "v1"
      BY BadLines DEF V2
    <3> QED BY <2>2, <3>1, <3>2, AppendLineAdds, BadLines DEF OldRows
  <2> QED BY <2>1, <2>2, Accumulates
<1>3. ASSUME NEW row \in OldRows' PROVE \E s \in Legacy : WrittenFor(row, s)'
  <2> PICK s \in Legacy : WrittenFor(row, s)
    BY <1>2 DEF LegacyInv
  <2> QED BY <1>1 DEF WrittenFor
<1> QED BY <1>1, <1>3 DEF LegacyInv

\* the receipts that prove an emission to s
Proofs(s) ==
    {i \in DOMAIN log :
       /\ log[i].outcome = "injected"
       /\ \/ log[i].schema = "v2" /\ log[i].s = s
          \/ log[i].schema = "v1" /\ log[i].s = PrefixOf[s] /\ Owners(PrefixOf[s]) = {s}}

\* Who is classified as given something has a receipt that proves it ...
LEMMA InjectedIsProven ==
    ASSUME IsFiniteSet(journaled), NEW s \in journaled, Classified(s) = "injected"
    PROVE  \E i \in DOMAIN log : i \in Proofs(s)
<1>0. \A outcomes : /\ Fold(outcomes) = "injected" => "injected" \in outcomes
                    /\ "injected" # "unmeasured"
  BY DEF Fold
<1>1. CASE Fold(Receipts("v2", s)) # "unmeasured"
  <2>1. "injected" \in Receipts("v2", s)
    BY <1>0, <1>1, Zenon DEF Classified
  <2> QED BY <2>1 DEF Receipts, Proofs
<1>2. CASE Fold(Receipts("v2", s)) = "unmeasured"
  <2>1. /\ Cardinality(Owners(PrefixOf[s])) = 1
        /\ Fold(Receipts("v1", PrefixOf[s])) = "injected"
    BY <1>0, <1>2 DEF Classified
  <2>2. "injected" \in Receipts("v1", PrefixOf[s])
    BY <1>0, <2>1, Zenon
  <2>3. IsFiniteSet(Owners(PrefixOf[s]))
    BY FS_Subset DEF Owners
  <2>4. PICK x : Owners(PrefixOf[s]) = {x}
    BY <2>1, <2>3, FS_Singleton
  <2>5. Owners(PrefixOf[s]) = {s}
    <3>1. s \in Owners(PrefixOf[s])
      BY DEF Owners
    <3> QED BY <2>4, <3>1
  <2> QED BY <2>2, <2>5 DEF Receipts, Proofs
<1> QED BY <1>1, <1>2

\* ... and one receipt proves it of one session only.
LEMMA ProofsAreApart ==
    ASSUME NEW s \in journaled, NEW t \in journaled, NEW i \in Proofs(s), i \in Proofs(t)
    PROVE  s = t
<1>1. CASE log[i].schema = "v2"
  BY <1>1 DEF Proofs
<1>2. CASE log[i].schema = "v1"
  <2>1. PrefixOf[s] = PrefixOf[t] /\ Owners(PrefixOf[s]) = {s} /\ Owners(PrefixOf[t]) = {t}
    BY <1>2 DEF Proofs
  <2> QED BY <2>1
<1> QED BY <1>1, <1>2 DEF Proofs

LEMMA FewerSessionsThanReceipts ==
    ASSUME TypeInv, LegacyInv
    PROVE  ReadPath("injected") <= Attempted("injected")
<1> DEFINE S == {s \in journaled : Classified(s) = "injected"}
           T == {i \in DOMAIN log : log[i].schema \in {"v1", "v2"}
                                      /\ log[i].outcome = "injected"}
           f == [s \in S |-> CHOOSE i \in DOMAIN log : i \in Proofs(s)]
<1>1. \A s \in S : f[s] \in Proofs(s)
  <2> SUFFICES ASSUME NEW s \in S PROVE f[s] \in Proofs(s)
    OBVIOUS
  <2>1. \E i \in DOMAIN log : i \in Proofs(s)
    BY InjectedIsProven DEF LegacyInv
  <2> QED BY <2>1
<1>2. IsFiniteSet(T)
  <2>1. log \in Seq(Line)
    BY DEF TypeInv, TypeOK
  <2>2. IsFiniteSet(DOMAIN log)
    BY <2>1, LenProperties, FS_Interval
  <2>3. T \in SUBSET (DOMAIN log)
    OBVIOUS
  <2> QED BY <2>2, <2>3, FS_Subset
<1>3. f \in [S -> T]
  <2>1. \A s : Proofs(s) \subseteq T
    BY DEF Proofs
  <2>2. \A s \in S : f[s] \in T
    BY <1>1, <2>1
  <2>3. f = [s \in S |-> f[s]]
    OBVIOUS
  <2> HIDE DEF f, S, T
  <2> QED BY <2>2, <2>3
<1>4. ASSUME NEW s \in S, NEW t \in S, f[s] = f[t] PROVE s = t
  <2>1. s \in journaled /\ t \in journaled
    OBVIOUS
  <2>2. f[s] \in Proofs(s) /\ f[s] \in Proofs(t)
    BY <1>1, <1>4
  <2> HIDE DEF f, S
  <2> QED BY <2>1, <2>2, ProofsAreApart
<1> HIDE DEF f, S, T
<1>5. f \in Injection(S, T)
  BY <1>3, <1>4 DEF Injection, IsInjective
<1>6. Cardinality(S) <= Cardinality(T)
  BY <1>2, <1>5, FS_Injection
<1> QED BY <1>6 DEF ReadPath, Attempted, S, T

LEMMA ClassifiedWereTold ==
    ASSUME ReceiptInv, LegacyInv, LegacyPacked,
           NEW s \in journaled, Classified(s) = "injected"
    PROVE  \E e \in stdout : e.s = s /\ e.whole
<1>1. PICK i \in DOMAIN log : i \in Proofs(s)
  BY InjectedIsProven DEF LegacyInv
<1>2. CASE log[i].schema = "v2" /\ log[i].s = s
  <2>1. log[i] \in V2Rows /\ log[i].outcome = "injected"
    BY <1>1, <1>2 DEF V2Rows, Proofs
  <2>2. WholeFrom(log[i]) \in stdout
    BY <2>1 DEF ReceiptInv, ReceiptsAttest, Attests
  <2> QED BY <1>2, <2>2 DEF WholeFrom
<1>3. CASE log[i].schema = "v1" /\ log[i].s = PrefixOf[s] /\ Owners(PrefixOf[s]) = {s}
  <2>1. log[i] \in OldRows /\ log[i].outcome = "injected"
    BY <1>1, <1>3 DEF OldRows, Proofs
  <2>2. PICK t \in Legacy : WrittenFor(log[i], t)
    BY <2>1 DEF LegacyInv
  <2>3. t \in Owners(PrefixOf[s]) /\ LegacyOf(t) \in stdout
    BY <1>3, <2>1, <2>2 DEF WrittenFor, Owners
  <2> QED BY <1>3, <2>3 DEF LegacyOf
<1> QED BY <1>1, <1>2, <1>3 DEF Proofs

LEMMA ReceiptsBehindSessions == Spec => [](ReceiptInv /\ LegacyInv)
<1>1. ReceiptInv => TypeInv
  BY DEF ReceiptInv
<1> QED BY <1>1, ReceiptInit, ReceiptNext, LegacyInit, LegacyNext, PTL DEF Spec

(***************************************************************************)
(* The sessions that `session stats` counts as given something are no more *)
(* than the receipts beside them, whatever prefixes collide and whatever   *)
(* lines are torn (read path of session_stats, injection_stats).           *)
(***************************************************************************)
THEOREM OneReceiptOneSession == Spec => [](ReadPath("injected") <= Attempted("injected"))
<1>1. ReceiptInv /\ LegacyInv => ReadPath("injected") <= Attempted("injected")
  BY FewerSessionsThanReceipts DEF ReceiptInv
<1> QED BY <1>1, ReceiptsBehindSessions, PTL

(***************************************************************************)
(* A packed session counts as given something only if it was, provided     *)
(* that the sessions with a receipt of the old schema were packed          *)
(* (classify_read_path).                                                   *)
(***************************************************************************)
THEOREM EmissionIsProven == Spec => [](LegacyPacked => ProvenEmission)
<1>1. ReceiptInv /\ LegacyInv => (LegacyPacked => ProvenEmission)
  BY FewerSessionsThanReceipts, ClassifiedWereTold DEF ReceiptInv, ProvenEmission
<1> QED BY <1>1, ReceiptsBehindSessions, PTL

-----------------------------------------------------------------------------
(***************************************************************************)
(* Backfill.                                                               *)
(***************************************************************************)
BfSpec == BackfillInit /\ [][BackfillNext]_bfVars

(***************************************************************************)
(* The values of the variables.                                            *)
(***************************************************************************)
BfPrefix == {ConvPrefix[s] : s \in Conv}
BfFile == [turns : Nat, mtime : Nat]
BfWriter == [pc : {"ledger", "latest", "row", "rollup"}, s : Conv,
             archive : BOOLEAN, turns : Nat]
BfOutcome == {"packed", "failed", "ok", "hollow", "broken"}
BfSweep == [pc : {"packing", "done"}, asof : [Conv -> BfFile],
            rows : Seq(Conv \X BfOutcome), all : SUBSET Conv, todo : Seq(Conv)]
BfStart == [pc : {"latest", "done"}, seen : SUBSET (BfPrefix \cup {Nobody}),
            owed : SUBSET BfPrefix, raced : BOOLEAN]
BfRow == [s : Conv, archive : BOOLEAN] \cup {Torn}

BfTypeOK ==
    /\ trans \in [Conv -> BfFile]
    /\ led \in [BfPrefix -> BfFile]
    /\ latest \in BfPrefix \cup {Nobody}
    /\ rollup \in SUBSET BfPrefix
    /\ journal \in Seq(BfRow) /\ tornTail \in BOOLEAN
    /\ writer \in {NoOne} \cup BfWriter
    /\ sweep \in {NoOne} \cup BfSweep
    /\ start \in {NoOne} \cup BfStart
    /\ banked \in SUBSET BfPrefix
    /\ now \in Nat
    /\ count \in [runs : Nat, sweeps : Nat, deaths : Nat, starts : Nat]

(***************************************************************************)
(* The invariant: what each promise needs of the states before it.         *)
(***************************************************************************)
Writing == writer # NoOne
PastLedger == Writing /\ writer.pc # "ledger"
Sweeping == sweep.pc # "idle"
Reported(s, how) == <<s, how>> \in ToSet(sweep.rows)

\* a pack in a sweep is that of the session next in turn
ArchiveInv ==
    Writing /\ writer.archive =>
        sweep.pc = "packing" /\ sweep.todo # <<>> /\ writer.s = Head(sweep.todo)

FilesInv ==
    /\ \A s \in Conv : trans[s].turns >= 1 /\ trans[s].mtime <= now
    /\ \A p \in BfPrefix : led[p].mtime <= now
    /\ Writing => writer.turns >= 1 /\ writer.turns <= trans[writer.s].turns
    /\ PastLedger => led[ConvPrefix[writer.s]].turns = writer.turns

\* the sessions of a sweep are those reported and those still to do
RowsInv ==
    Sweeping =>
        /\ {r[1] : r \in ToSet(sweep.rows)} \cup ToSet(sweep.todo) = sweep.all
        /\ Len(sweep.rows) + Len(sweep.todo) = Cardinality(sweep.all)
        /\ sweep.pc = "done" => sweep.todo = <<>>
        /\ \A r \in ToSet(sweep.rows) :
              r[2] \in {"packed", "failed"} \/ (r[2] = Grade[r[1]] /\ r[2] # "ok")

\* a ledger that a sweep has written stays at what the sweep read, or later,
\* and so will that of the run in progress
AsofInv ==
    Sweeping => \A s \in Conv : /\ sweep.asof[s].turns <= trans[s].turns
                                /\ sweep.asof[s].mtime <= trans[s].mtime
Kept(s) ==
    /\ led[ConvPrefix[s]].turns >= 1
    /\ led[ConvPrefix[s]].mtime >= sweep.asof[s].mtime
    /\ Twins(s) = {} => led[ConvPrefix[s]].turns >= sweep.asof[s].turns
KeptInv ==
    Sweeping => \A s \in Conv :
        Reported(s, "packed") \/ (PastLedger /\ writer.archive /\ writer.s = s) => Kept(s)
ReadInv ==
    Sweeping /\ Writing /\ (writer.archive \/ Reported(writer.s, "packed")) =>
        writer.turns >= sweep.asof[writer.s].turns
PackedInv == AsofInv /\ KeptInv /\ ReadInv

\* the latest gist is the last live row's, a live run's own once it wrote it
LiveAt(pc) == Writing /\ ~writer.archive /\ writer.pc = pc
LatestInv ==
    count.deaths = 0 =>
        /\ tornTail = FALSE
        /\ latest = IF LiveAt("row") THEN ConvPrefix[writer.s] ELSE LatestLive(journal)
        /\ LiveAt("rollup") => LatestLive(journal) = ConvPrefix[writer.s]

\* the rollup, with one session beside it, has everything that is banked; that
\* one is the latest gist's unless a live run is about to move it
AllBut(set, few) == \E x \in BfPrefix \cup {Nobody} : set \subseteq few \cup {x}
StartInv ==
    count.deaths = 0 =>
        /\ \A p \in banked : led[p].turns > 0
        /\ AllBut(banked, rollup)
        /\ ~Writing \/ writer.archive => banked \subseteq rollup \cup {latest}
        /\ start.pc # "idle" => AllBut(start.owed, start.seen)
        /\ start.pc = "latest" /\ ~start.raced =>
              /\ start.owed \subseteq start.seen \cup {latest}
              /\ ~Writing \/ writer.archive
        /\ start.pc = "done" /\ ~start.raced => start.owed \subseteq start.seen

TornRows == {i \in DOMAIN journal : journal[i] = Torn}
TornInv == Cardinality(TornRows) + (IF tornTail THEN 1 ELSE 0) <= count.deaths

BfInv == /\ ArchiveInv /\ FilesInv /\ RowsInv /\ PackedInv
         /\ LatestInv /\ StartInv /\ TornInv

(***************************************************************************)
(* Sequences.                                                              *)
(***************************************************************************)
\* An enumeration of a finite set lists each of its elements once.
LEMMA EnumerationLists ==
    ASSUME NEW S, IsFiniteSet(S), NEW o \in SetToSeqs(S)
    PROVE  o \in Seq(S) /\ Len(o) = Cardinality(S) /\ ToSet(o) = S
<1>1. o \in [1..Cardinality(S) -> S] /\ \A i, j \in 1..Cardinality(S) : i # j => o[i] # o[j]
  BY DEF SetToSeqs
<1>2. /\ o \in Seq(S) /\ Len(o) = Cardinality(S) /\ DOMAIN o = 1..Len(o)
      /\ \A x \in S : \E i \in DOMAIN o : o[i] = x
  BY <1>1, ListingIsWhole
<1>3. ToSet(o) = S
  BY <1>1, <1>2 DEF ToSet
<1> QED BY <1>2, <1>3

LEMMA ToSetEmpty == ToSet(<<>>) = {}
  BY DEF ToSet

LEMMA ToSetAppend ==
    ASSUME NEW S, NEW seq \in Seq(S), NEW e \in S
    PROVE  ToSet(Append(seq, e)) = ToSet(seq) \cup {e}
<1> DEFINE n == Len(seq)
<1>1. /\ n \in Nat /\ DOMAIN seq = 1..n
      /\ DOMAIN Append(seq, e) = 1..(n + 1)
      /\ \A i \in 1..n : Append(seq, e)[i] = seq[i]
      /\ Append(seq, e)[n + 1] = e
  BY AppendProperties, LenProperties
<1>2. \A i \in 1..(n + 1) : i \in 1..n \/ i = n + 1
  BY <1>1
<1>3. \A i \in 1..n : i \in 1..(n + 1)
  BY <1>1
<1>4. n + 1 \in 1..(n + 1)
  BY <1>1
<1> HIDE DEF n
<1> QED BY <1>1, <1>2, <1>3, <1>4 DEF ToSet

LEMMA ToSetHeadTail ==
    ASSUME NEW S, NEW seq \in Seq(S), seq # <<>>
    PROVE  ToSet(seq) = {Head(seq)} \cup ToSet(Tail(seq))
<1> DEFINE n == Len(seq)
<1>1. /\ n \in Nat \ {0} /\ DOMAIN seq = 1..n
      /\ DOMAIN Tail(seq) = 1..(n - 1)
      /\ \A i \in 1..(n - 1) : Tail(seq)[i] = seq[i + 1]
      /\ Head(seq) = seq[1]
  BY HeadTailProperties, LenProperties, EmptySeq
<1>3. \A i \in 1..(n - 1) : i + 1 \in 1..n
  BY <1>1
<1>4. 1 \in 1..n
  BY <1>1
<1> HIDE DEF n
<1>5. ASSUME NEW i \in 1..n, i # 1 PROVE seq[i] \in ToSet(Tail(seq))
  <2>1. /\ i - 1 \in 1..(n - 1) /\ (i - 1) + 1 = i
    BY <1>1, <1>5
  <2>2. Tail(seq)[i - 1] = seq[i] /\ i - 1 \in DOMAIN Tail(seq)
    BY <1>1, <2>1
  <2> QED BY <2>2 DEF ToSet
<1> QED BY <1>1, <1>3, <1>4, <1>5 DEF ToSet

LEMMA ToSetTyped ==
    ASSUME NEW S, NEW seq \in Seq(S)
    PROVE  ToSet(seq) \subseteq S
  BY ElementOfSeq, LenProperties DEF ToSet

(***************************************************************************)
(* The types.                                                              *)
(***************************************************************************)
LEMMA BusyWriter ==
    ASSUME BfTypeOK
    PROVE  /\ Writing => writer \in BfWriter
           /\ ~Writing => writer.pc = "idle"
           /\ writer.pc # "idle" => Writing
           /\ Sweeping => sweep \in BfSweep
           /\ ~Sweeping => sweep = NoOne
           /\ start.pc # "idle" => start \in BfStart
  BY DEF BfTypeOK, Writing, Sweeping, NoOne, BfWriter, BfSweep, BfStart

LEMMA CountTyped ==
    ASSUME BfTypeOK, NEW k \in {"runs", "sweeps", "deaths", "starts"}, NEW max,
           More(k, max)
    PROVE  count' \in [runs : Nat, sweeps : Nat, deaths : Nat, starts : Nat]
  BY DEF BfTypeOK, More

LEMMA NextInTurn ==
    ASSUME sweep \in BfSweep, sweep.todo # <<>>
    PROVE  /\ Head(sweep.todo) \in Conv /\ Tail(sweep.todo) \in Seq(Conv)
           /\ Len(sweep.todo) \in Nat /\ Len(Tail(sweep.todo)) = Len(sweep.todo) - 1
           /\ ToSet(sweep.todo) = {Head(sweep.todo)} \cup ToSet(Tail(sweep.todo))
<1>1. sweep.todo \in Seq(Conv)
  BY DEF BfSweep
<1> QED BY <1>1, HeadTailProperties, LenProperties, ToSetHeadTail

LEMMA RowTyped ==
    ASSUME sweep \in BfSweep, NEW s \in Conv, NEW how \in BfOutcome
    PROVE  LET rows == Append(sweep.rows, <<s, how>>) IN
           /\ rows \in Seq(Conv \X BfOutcome)
           /\ Len(sweep.rows) \in Nat /\ Len(rows) = Len(sweep.rows) + 1
           /\ ToSet(rows) = ToSet(sweep.rows) \cup {<<s, how>>}
<1>1. sweep.rows \in Seq(Conv \X BfOutcome)
  BY DEF BfSweep
<1> DEFINE T == Conv \X BfOutcome
           row == <<s, how>>
<1>2. row \in T
  OBVIOUS
<1>3. sweep.rows \in Seq(T)
  BY <1>1
<1> HIDE DEF T, row
<1>4. /\ Append(sweep.rows, row) \in Seq(T)
      /\ Len(sweep.rows) \in Nat /\ Len(Append(sweep.rows, row)) = Len(sweep.rows) + 1
  BY <1>2, <1>3, AppendProperties, LenProperties
<1>5. ToSet(Append(sweep.rows, row)) = ToSet(sweep.rows) \cup {row}
  BY <1>2, <1>3, ToSetAppend
<1> QED BY <1>4, <1>5 DEF T, row

LEMMA FilesTypedInit == BackfillInit => BfTypeOK
<1> SUFFICES ASSUME BackfillInit PROVE BfTypeOK
  OBVIOUS
<1>1. trans \in [Conv -> BfFile] /\ led \in [BfPrefix -> BfFile]
  BY DEF BackfillInit, BfPrefix, BfFile, NoLedger
<1>2. journal \in Seq(BfRow)
  BY EmptySeq DEF BackfillInit
<1>3. count \in [runs : Nat, sweeps : Nat, deaths : Nat, starts : Nat]
  BY DEF BackfillInit
<1> QED BY <1>1, <1>2, <1>3 DEF BackfillInit, BfTypeOK

LEMMA FilesTypedNext ==
    ASSUME BfTypeOK, ArchiveInv, [BackfillNext]_bfVars
    PROVE  BfTypeOK'
<1> USE DEF BfTypeOK, ledgerFiles
<1>1. ASSUME Tick PROVE BfTypeOK'
  BY <1>1 DEF Tick
<1>2. ASSUME NEW s \in Conv, Grow(s) PROVE BfTypeOK'
  BY <1>2 DEF Grow, BfFile
<1>3. ASSUME NEW s \in Conv, LiveRun(s) PROVE BfTypeOK'
  <2>1. count' \in [runs : Nat, sweeps : Nat, deaths : Nat, starts : Nat]
    BY <1>3, CountTyped DEF LiveRun
  <2>2. writer' \in BfWriter
    BY <1>3 DEF LiveRun, Parsed, BfWriter, BfFile
  <2>3. start' \in {NoOne} \cup BfStart
    BY <1>3, BusyWriter DEF LiveRun, BfStart
  <2> QED BY <1>3, <2>1, <2>2, <2>3 DEF LiveRun
<1>4. ASSUME WriteLedger PROVE BfTypeOK'
  <2>1. writer \in BfWriter
    BY <1>4, BusyWriter DEF WriteLedger
  <2>2. led' \in [BfPrefix -> BfFile] /\ writer' \in BfWriter
    BY <1>4, <2>1 DEF WriteLedger, BfWriter, BfFile, BfPrefix
  <2> QED BY <1>4, <2>2 DEF WriteLedger
<1>5. ASSUME WriteLatest PROVE BfTypeOK'
  <2>1. writer \in BfWriter
    BY <1>5, BusyWriter DEF WriteLatest
  <2>2. latest' \in BfPrefix \cup {Nobody} /\ writer' \in BfWriter
    BY <1>5, <2>1 DEF WriteLatest, BfWriter, BfPrefix
  <2> QED BY <1>5, <2>2 DEF WriteLatest
<1>6. ASSUME AppendRow PROVE BfTypeOK'
  <2>1. writer \in BfWriter
    BY <1>6, BusyWriter DEF AppendRow
  <2>2. journal' \in Seq(BfRow) /\ writer' \in BfWriter
    BY <1>6, <2>1, AppendProperties DEF AppendRow, BfWriter, BfRow, Torn
  <2> QED BY <1>6, <2>2 DEF AppendRow, TailAfterRow
<1>7. ASSUME WriteRollup PROVE BfTypeOK'
  <2>1. writer \in BfWriter
    BY <1>7, BusyWriter DEF WriteRollup
  <2>2. banked' \in SUBSET BfPrefix /\ rollup' \in SUBSET BfPrefix
    BY <1>7, <2>1 DEF WriteRollup, BfWriter, BfPrefix
  <2>3. sweep' \in {NoOne} \cup BfSweep
    <3>1. CASE writer.archive
      <4>1. sweep \in BfSweep /\ sweep.todo # <<>>
        BY <2>1, <3>1, BusyWriter DEF ArchiveInv, Writing, Sweeping, BfWriter, NoOne
      <4>2. Tail(sweep.todo) \in Seq(Conv)
            /\ Append(sweep.rows, <<writer.s, "packed">>) \in Seq(Conv \X BfOutcome)
        BY <2>1, <4>1, NextInTurn, RowTyped DEF BfWriter, BfOutcome
      <4> QED BY <1>7, <3>1, <4>1, <4>2 DEF WriteRollup, BfSweep
    <3>2. CASE ~writer.archive
      BY <1>7, <3>2 DEF WriteRollup
    <3> QED BY <3>1, <3>2
  <2> QED BY <1>7, <2>2, <2>3 DEF WriteRollup
<1>8. ASSUME NEW torn \in BOOLEAN, Killed(torn) PROVE BfTypeOK'
  <2>1. count' \in [runs : Nat, sweeps : Nat, deaths : Nat, starts : Nat]
    BY <1>8, CountTyped DEF Killed
  <2> QED BY <1>8, <2>1 DEF Killed
<1>9. ASSUME NEW active \in BOOLEAN, SweepBegins(active) PROVE BfTypeOK'
  <2>1. count' \in [runs : Nat, sweeps : Nat, deaths : Nat, starts : Nat]
    BY <1>9, CountTyped DEF SweepBegins
  <2>2. PICK order \in Orders(Todo(active)) :
          sweep' = [pc |-> "packing", asof |-> trans, rows |-> <<>>,
                    all |-> Todo(active), todo |-> order]
    BY <1>9 DEF SweepBegins
  <2>3. Todo(active) \in SUBSET Conv
    BY DEF Todo
  <2>4. order \in Seq(Conv)
    <3>1. IsFiniteSet(Todo(active))
      BY <2>3, ConvAssumption, FS_Subset
    <3>2. order \in Seq(Todo(active))
      BY <3>1, EnumerationLists DEF Orders
    <3> QED BY <2>3, <3>2, SeqMonotonic
  <2>5. sweep' \in BfSweep
    BY <2>2, <2>3, <2>4, EmptySeq DEF BfSweep
  <2> QED BY <1>9, <2>1, <2>5 DEF SweepBegins
<1>10. ASSUME SweepPacks PROVE BfTypeOK'
  <2>1. sweep \in BfSweep
    BY <1>10, BusyWriter DEF SweepPacks, Sweeping
  <2>2. writer' \in BfWriter
    BY <1>10, <2>1, NextInTurn DEF SweepPacks, Parsed, BfWriter, BfFile
  <2> QED BY <1>10, <2>2 DEF SweepPacks
<1>11. ASSUME SweepSkips PROVE BfTypeOK'
  <2>1. sweep \in BfSweep
    BY <1>11, BusyWriter DEF SweepSkips, Sweeping
  <2>2. /\ Head(sweep.todo) \in Conv /\ Tail(sweep.todo) \in Seq(Conv)
        /\ Grade[Head(sweep.todo)] \in BfOutcome
    BY <1>11, <2>1, NextInTurn, ConvAssumption DEF SweepSkips, BfOutcome
  <2>3. Append(sweep.rows, <<Head(sweep.todo), Grade[Head(sweep.todo)]>>)
          \in Seq(Conv \X BfOutcome)
    BY <2>1, <2>2, RowTyped
  <2>4. sweep' \in BfSweep
    BY <1>11, <2>1, <2>2, <2>3 DEF SweepSkips, AfterSkip, BfSweep
  <2> QED BY <1>11, <2>4 DEF SweepSkips
<1>12. ASSUME SweepFails PROVE BfTypeOK'
  <2>1. count' \in [runs : Nat, sweeps : Nat, deaths : Nat, starts : Nat]
    BY <1>12, CountTyped DEF SweepFails
  <2>2. sweep \in BfSweep /\ writer \in BfWriter /\ sweep.todo # <<>>
    BY <1>12, BusyWriter DEF SweepFails, Sweeping, Writing, ArchiveInv
  <2>3. Tail(sweep.todo) \in Seq(Conv)
        /\ Append(sweep.rows, <<writer.s, "failed">>) \in Seq(Conv \X BfOutcome)
    BY <2>2, NextInTurn, RowTyped DEF BfWriter, BfOutcome
  <2>4. sweep' \in BfSweep
    BY <1>12, <2>2, <2>3 DEF SweepFails, AfterSkip, BfSweep
  <2> QED BY <1>12, <2>1, <2>4 DEF SweepFails
<1>13. ASSUME SweepEnds PROVE BfTypeOK'
  <2>1. sweep \in BfSweep
    BY <1>13, BusyWriter DEF SweepEnds, Sweeping
  <2>2. sweep' \in BfSweep
    BY <1>13, <2>1 DEF SweepEnds, BfSweep
  <2> QED BY <1>13, <2>2 DEF SweepEnds
<1>14. ASSUME StartReadsProject PROVE BfTypeOK'
  <2>1. count' \in [runs : Nat, sweeps : Nat, deaths : Nat, starts : Nat]
    BY <1>14, CountTyped DEF StartReadsProject
  <2>2. start' \in BfStart
    BY <1>14 DEF StartReadsProject, BfStart
  <2> QED BY <1>14, <2>1, <2>2 DEF StartReadsProject
<1>15. ASSUME StartReadsLatest PROVE BfTypeOK'
  <2>1. start \in BfStart
    BY <1>15, BusyWriter DEF StartReadsLatest
  <2>2. start' \in BfStart
    BY <1>15, <2>1 DEF StartReadsLatest, BfStart
  <2> QED BY <1>15, <2>2 DEF StartReadsLatest
<1>16. CASE UNCHANGED bfVars
  BY <1>16 DEF bfVars
<1> QED BY <1>1, <1>2, <1>3, <1>4, <1>5, <1>6, <1>7, <1>8, <1>9, <1>10, <1>11,
           <1>12, <1>13, <1>14, <1>15, <1>16 DEF BackfillNext, BareCheckpoint,
           LiveTranscripts

(***************************************************************************)
(* The three steps of a checkpoint before its last.                        *)
(***************************************************************************)
LEMMA WriterMoves ==
    ASSUME BfTypeOK, WriteLedger \/ WriteLatest \/ AppendRow
    PROVE  /\ writer \in BfWriter /\ writer' \in BfWriter /\ Writing /\ Writing'
           /\ writer'.s = writer.s /\ writer'.archive = writer.archive
           /\ writer'.turns = writer.turns /\ writer'.pc # "ledger"
           /\ UNCHANGED <<trans, rollup, banked, sweep, start, now, count>>
<1>1. writer \in BfWriter
  BY BusyWriter DEF WriteLedger, WriteLatest, AppendRow
<1>2. /\ writer' \in BfWriter /\ writer'.s = writer.s /\ writer'.archive = writer.archive
      /\ writer'.turns = writer.turns /\ writer'.pc # "ledger"
      /\ UNCHANGED <<trans, rollup, banked, sweep, start, now, count>>
  BY <1>1 DEF WriteLedger, WriteLatest, AppendRow, BfWriter
<1> QED BY <1>1, <1>2 DEF Writing, NoOne, BfWriter

\* The last one, in a live run and in a sweep.
LEMMA WriterEnds ==
    ASSUME BfTypeOK, ArchiveInv, WriteRollup
    PROVE  /\ writer \in BfWriter /\ Writing /\ PastLedger /\ ~Writing'
           /\ UNCHANGED <<trans, led, latest, journal, tornTail, start, now, count>>
           /\ ~writer.archive => sweep' = sweep
           /\ writer.archive =>
                /\ sweep \in BfSweep /\ sweep.pc = "packing"
                /\ sweep.todo # <<>> /\ writer.s = Head(sweep.todo)
                /\ sweep' = [sweep EXCEPT !.todo = Tail(@),
                                          !.rows = Append(@, <<writer.s, "packed">>)]
<1>1. writer \in BfWriter /\ Writing /\ PastLedger
  BY BusyWriter DEF WriteRollup, PastLedger, Writing, NoOne
<1>2. writer.archive => /\ sweep \in BfSweep /\ sweep.pc = "packing"
                        /\ sweep.todo # <<>> /\ writer.s = Head(sweep.todo)
  BY <1>1, BusyWriter DEF ArchiveInv, Sweeping
<1> QED BY <1>1, <1>2 DEF WriteRollup, Writing

LEMMA ArchiveNext ==
    ASSUME BfTypeOK, ArchiveInv, [BackfillNext]_bfVars
    PROVE  ArchiveInv'
<1> USE DEF ledgerFiles
<1>1. ASSUME NEW s \in Conv, LiveRun(s) PROVE ArchiveInv'
  BY <1>1 DEF LiveRun, Parsed, ArchiveInv
<1>2. CASE WriteLedger \/ WriteLatest \/ AppendRow
  BY <1>2, WriterMoves DEF ArchiveInv
<1>3. CASE WriteRollup
  BY <1>3, WriterEnds DEF ArchiveInv
<1>4. ASSUME NEW torn \in BOOLEAN, Killed(torn) PROVE ArchiveInv'
  BY <1>4 DEF Killed, ArchiveInv, Writing
<1>5. ASSUME NEW active \in BOOLEAN, SweepBegins(active) PROVE ArchiveInv'
  BY <1>5 DEF SweepBegins, ArchiveInv, Writing
<1>6. CASE SweepPacks
  BY <1>6 DEF SweepPacks, Parsed, ArchiveInv
<1>7. CASE SweepSkips
  BY <1>7 DEF SweepSkips, ArchiveInv, Writing
<1>8. CASE SweepFails
  BY <1>8 DEF SweepFails, ArchiveInv, Writing
<1>9. CASE SweepEnds
  BY <1>9 DEF SweepEnds, ArchiveInv, Writing
<1>10. CASE UNCHANGED <<writer, sweep>>
  BY <1>10 DEF ArchiveInv, Writing
<1> QED BY <1>1, <1>2, <1>3, <1>4, <1>5, <1>6, <1>7, <1>8, <1>9, <1>10
        DEF BackfillNext, BareCheckpoint, LiveTranscripts, Tick, Grow,
            StartReadsProject, StartReadsLatest, bfVars

(***************************************************************************)
(* Transcripts, ledgers and the run that reads the one and writes the      *)
(* other.                                                                  *)
(***************************************************************************)
LEMMA FilesNext ==
    ASSUME BfTypeOK, BfTypeOK', ArchiveInv, FilesInv, [BackfillNext]_bfVars
    PROVE  FilesInv'
<1> USE DEF ledgerFiles
<1>1. CASE Tick
  <2>1. now < now' /\ UNCHANGED <<trans, led, writer>>
    BY <1>1 DEF Tick, BfTypeOK
  <2>2. \A s \in Conv : trans[s].mtime \in Nat
    BY DEF BfTypeOK, BfFile
  <2>3. \A p \in BfPrefix : led[p].mtime \in Nat
    BY DEF BfTypeOK, BfFile
  <2> QED BY <2>1, <2>2, <2>3 DEF FilesInv, Writing, PastLedger, BfTypeOK
<1>2. ASSUME NEW s \in Conv, Grow(s) PROVE FilesInv'
  <2>1. \A x \in Conv : /\ trans'[x].turns >= trans[x].turns
                         /\ trans'[x].mtime <= now
                         /\ trans[x].turns \in Nat /\ trans'[x].turns \in Nat
    BY <1>2 DEF Grow, BfTypeOK, BfFile, FilesInv
  <2>2. Writing => writer.s \in Conv /\ writer.turns \in Nat
    BY BusyWriter DEF BfWriter
  <2> QED BY <1>2, <2>1, <2>2 DEF Grow, FilesInv, Writing, PastLedger
<1>3. CASE (\E s \in Conv : LiveRun(s)) \/ SweepPacks
  <2>1. PICK s \in Conv, a \in BOOLEAN : writer' = Parsed(s, a)
    <3>1. CASE SweepPacks
      BY <3>1, BusyWriter, NextInTurn DEF SweepPacks, Sweeping
    <3> QED BY <1>3, <3>1 DEF LiveRun
  <2>2. UNCHANGED <<trans, led, now>>
    BY <1>3 DEF LiveRun, SweepPacks
  <2>3. trans[s].turns \in Nat
    BY DEF BfTypeOK, BfFile
  <2> QED BY <2>1, <2>2, <2>3 DEF FilesInv, Parsed, PastLedger
<1>4. CASE WriteLedger
  <2>1. /\ writer \in BfWriter /\ Writing /\ Writing'
        /\ writer'.s = writer.s /\ writer'.turns = writer.turns
        /\ UNCHANGED <<trans, now>>
    BY <1>4, WriterMoves
  <2>2. \A p \in BfPrefix : led'[p] = IF p = ConvPrefix[writer.s]
                                     THEN [turns |-> writer.turns, mtime |-> now]
                                     ELSE led[p]
    BY <1>4 DEF WriteLedger, BfTypeOK
  <2>3. ConvPrefix[writer.s] \in BfPrefix
    BY <2>1 DEF BfWriter, BfPrefix
  <2> QED BY <2>1, <2>2, <2>3 DEF FilesInv, BfTypeOK
<1>5. CASE WriteLatest \/ AppendRow
  <2>1. /\ Writing /\ Writing' /\ PastLedger
        /\ writer'.s = writer.s /\ writer'.turns = writer.turns
        /\ UNCHANGED <<trans, now, led>>
    BY <1>5, WriterMoves DEF WriteLatest, AppendRow, PastLedger
  <2> QED BY <2>1 DEF FilesInv
<1>6. CASE WriteRollup
  BY <1>6, WriterEnds DEF FilesInv, PastLedger
<1>7. ASSUME NEW torn \in BOOLEAN, Killed(torn) PROVE FilesInv'
  BY <1>7 DEF Killed, FilesInv, Writing, PastLedger
<1>8. CASE SweepFails
  BY <1>8 DEF SweepFails, FilesInv, Writing, PastLedger
<1>9. CASE UNCHANGED <<trans, led, writer, now>>
  BY <1>9 DEF FilesInv, Writing, PastLedger
<1> QED BY <1>1, <1>2, <1>3, <1>4, <1>5, <1>6, <1>7, <1>8, <1>9
        DEF BackfillNext, BareCheckpoint, LiveTranscripts, SweepBegins, SweepSkips,
            SweepEnds, StartReadsProject, StartReadsLatest, bfVars

(***************************************************************************)
(* The report of a sweep.                                                  *)
(***************************************************************************)
\* A session leaves the list of those to do for the report.
LEMMA RowMoves ==
    ASSUME sweep \in BfSweep, sweep.pc = "packing", sweep.todo # <<>>, RowsInv,
           NEW how \in BfOutcome,
           how \in {"packed", "failed"} \/ (how = Grade[Head(sweep.todo)] /\ how # "ok"),
           sweep' = [sweep EXCEPT !.todo = Tail(@),
                                  !.rows = Append(@, <<Head(sweep.todo), how>>)]
    PROVE  RowsInv'
<1> DEFINE s == Head(sweep.todo)
           row == <<s, how>>
<1>1. /\ sweep'.pc = "packing" /\ sweep'.all = sweep.all
      /\ sweep'.todo = Tail(sweep.todo) /\ sweep'.rows = Append(sweep.rows, row)
  BY DEF BfSweep
<1>2. /\ s \in Conv /\ Len(sweep.todo) \in Nat
      /\ Len(sweep'.todo) = Len(sweep.todo) - 1
      /\ ToSet(sweep.todo) = {s} \cup ToSet(sweep'.todo)
  BY <1>1, NextInTurn
<1>3. /\ Len(sweep.rows) \in Nat /\ Len(sweep'.rows) = Len(sweep.rows) + 1
      /\ ToSet(sweep'.rows) = ToSet(sweep.rows) \cup {row}
  BY <1>1, <1>2, RowTyped
<1>4. row[1] = s /\ row[2] = how
  OBVIOUS
<1>5. /\ {r[1] : r \in ToSet(sweep.rows)} \cup ToSet(sweep.todo) = sweep.all
      /\ Len(sweep.rows) + Len(sweep.todo) = Cardinality(sweep.all)
      /\ \A r \in ToSet(sweep.rows) :
            r[2] \in {"packed", "failed"} \/ (r[2] = Grade[r[1]] /\ r[2] # "ok")
  BY DEF RowsInv, Sweeping
<1> HIDE DEF row
<1>6. {r[1] : r \in ToSet(sweep'.rows)} = {r[1] : r \in ToSet(sweep.rows)} \cup {s}
  BY <1>3, <1>4
<1>7. {r[1] : r \in ToSet(sweep'.rows)} \cup ToSet(sweep'.todo) = sweep.all
  <2> DEFINE told == {r[1] : r \in ToSet(sweep.rows)}
             told2 == {r[1] : r \in ToSet(sweep'.rows)}
  <2>1. told2 = told \cup {s} /\ told \cup ToSet(sweep.todo) = sweep.all
    BY <1>5, <1>6
  <2> HIDE DEF told, told2
  <2>2. told2 \cup ToSet(sweep'.todo) = sweep.all
    BY <1>2, <2>1
  <2> QED BY <2>2 DEF told2
<1>8. Len(sweep'.rows) + Len(sweep'.todo) = Cardinality(sweep.all)
  <2>1. \A m, n \in Nat : (m + 1) + (n - 1) = m + n
    OBVIOUS
  <2>2. Len(sweep'.rows) + Len(sweep'.todo) = Len(sweep.rows) + Len(sweep.todo)
    BY <1>2, <1>3, <2>1
  <2> QED BY <1>5, <2>2
<1>9. \A r \in ToSet(sweep'.rows) :
         r[2] \in {"packed", "failed"} \/ (r[2] = Grade[r[1]] /\ r[2] # "ok")
  BY <1>3, <1>4, <1>5
<1> QED BY <1>1, <1>7, <1>8, <1>9 DEF RowsInv

LEMMA SweepStarts ==
    ASSUME NEW active \in BOOLEAN, SweepBegins(active)
    PROVE  /\ sweep'.pc = "packing" /\ sweep'.asof = trans /\ sweep'.rows = <<>>
           /\ sweep'.all \in SUBSET Conv /\ ToSet(sweep'.todo) = sweep'.all
           /\ Len(sweep'.todo) = Cardinality(sweep'.all)
           /\ Cardinality(sweep'.all) \in Nat
<1>1. PICK order \in Orders(Todo(active)) :
        sweep' = [pc |-> "packing", asof |-> trans, rows |-> <<>>,
                  all |-> Todo(active), todo |-> order]
  BY DEF SweepBegins
<1>2. Todo(active) \in SUBSET Conv
  BY DEF Todo
<1>3. IsFiniteSet(Todo(active)) /\ Cardinality(Todo(active)) \in Nat
  BY <1>2, ConvAssumption, FS_Subset, FS_CardinalityType
<1>4. Len(order) = Cardinality(Todo(active)) /\ ToSet(order) = Todo(active)
  BY <1>3, EnumerationLists DEF Orders
<1> QED BY <1>1, <1>2, <1>3, <1>4

LEMMA RowsNext ==
    ASSUME BfTypeOK, ArchiveInv, RowsInv, [BackfillNext]_bfVars
    PROVE  RowsInv'
<1>1. CASE WriteRollup
  <2>1. CASE writer.archive
    BY <1>1, <2>1, WriterEnds, RowMoves DEF BfOutcome
  <2>2. CASE ~writer.archive
    BY <1>1, <2>2, WriterEnds DEF RowsInv, Sweeping
  <2> QED BY <2>1, <2>2
<1>2. ASSUME NEW torn \in BOOLEAN, Killed(torn) PROVE RowsInv'
  BY <1>2 DEF Killed, RowsInv, Sweeping, NoOne
<1>3. ASSUME NEW active \in BOOLEAN, SweepBegins(active) PROVE RowsInv'
  <2>1. Len(<<>>) = 0
    BY EmptySeq
  <2>2. /\ sweep'.pc = "packing" /\ sweep'.rows = <<>> /\ ToSet(sweep'.rows) = {}
        /\ ToSet(sweep'.todo) = sweep'.all
        /\ Len(sweep'.todo) = Cardinality(sweep'.all)
        /\ Cardinality(sweep'.all) \in Nat
    BY <1>3, SweepStarts, ToSetEmpty
  <2>3. {r[1] : r \in ToSet(sweep'.rows)} = {}
    BY <2>2
  <2>4. Len(sweep'.rows) + Len(sweep'.todo) = Cardinality(sweep'.all)
    BY <2>1, <2>2
  <2>5. {r[1] : r \in ToSet(sweep'.rows)} \cup ToSet(sweep'.todo) = sweep'.all
    BY <2>2, <2>3
  <2> QED BY <2>2, <2>4, <2>5 DEF RowsInv
<1>4. CASE SweepSkips
  <2>1. sweep \in BfSweep /\ sweep.pc = "packing" /\ sweep.todo # <<>>
    BY <1>4, BusyWriter DEF SweepSkips, Sweeping
  <2>2. Grade[Head(sweep.todo)] \in BfOutcome
    BY <2>1, NextInTurn, ConvAssumption DEF BfOutcome
  <2> QED BY <1>4, <2>1, <2>2, RowMoves DEF SweepSkips, AfterSkip
<1>5. CASE SweepFails
  <2>1. /\ sweep \in BfSweep /\ sweep.pc = "packing" /\ sweep.todo # <<>>
        /\ writer.s = Head(sweep.todo)
    BY <1>5, BusyWriter DEF SweepFails, Sweeping, Writing, ArchiveInv
  <2> QED BY <1>5, <2>1, RowMoves DEF SweepFails, AfterSkip, BfOutcome
<1>6. CASE SweepEnds
  <2>1. /\ sweep \in BfSweep /\ Sweeping /\ sweep.todo = <<>>
    BY <1>6, BusyWriter DEF SweepEnds, Sweeping
  <2>2. /\ sweep'.todo = <<>> /\ sweep'.rows = sweep.rows /\ sweep'.all = sweep.all
    BY <1>6, <2>1 DEF SweepEnds, BfSweep
  <2> QED BY <2>1, <2>2 DEF RowsInv
<1>7. CASE UNCHANGED sweep
  BY <1>7 DEF RowsInv, Sweeping
<1> QED BY <1>1, <1>2, <1>3, <1>4, <1>5, <1>6, <1>7
        DEF BackfillNext, BareCheckpoint, LiveTranscripts, Tick, Grow, LiveRun,
            WriteLedger, WriteLatest, AppendRow, SweepPacks, StartReadsProject,
            StartReadsLatest, bfVars

(***************************************************************************)
(* The ledgers that a sweep has written.                                   *)
(***************************************************************************)
LEMMA PackedMoves ==
    ASSUME sweep \in BfSweep, sweep.todo # <<>>, NEW how \in BfOutcome,
           sweep' = [sweep EXCEPT !.todo = Tail(@),
                                  !.rows = Append(@, <<Head(sweep.todo), how>>)]
    PROVE  /\ sweep'.pc = sweep.pc /\ sweep'.asof = sweep.asof
           /\ \A s : Reported(s, "packed")' <=>
                   Reported(s, "packed") \/ (how = "packed" /\ s = Head(sweep.todo))
<1>1. /\ sweep'.pc = sweep.pc /\ sweep'.asof = sweep.asof
      /\ sweep'.rows = Append(sweep.rows, <<Head(sweep.todo), how>>)
  BY DEF BfSweep
<1>2. ToSet(sweep'.rows) = ToSet(sweep.rows) \cup {<<Head(sweep.todo), how>>}
  BY <1>1, NextInTurn, RowTyped
<1> QED BY <1>1, <1>2 DEF Reported

LEMMA PackedNext ==
    ASSUME BfTypeOK, BfTypeOK', ArchiveInv, FilesInv, PackedInv, [BackfillNext]_bfVars
    PROVE  PackedInv'
<1> USE DEF ledgerFiles
<1>0. Sweeping => /\ sweep \in BfSweep
                  /\ \A s \in Conv : sweep.asof[s].turns \in Nat /\ sweep.asof[s].mtime \in Nat
  BY BusyWriter DEF BfSweep, BfFile
<1>1. ASSUME NEW s \in Conv, Grow(s) PROVE PackedInv'
  <2>1. \A x \in Conv : /\ trans'[x].turns >= trans[x].turns
                         /\ trans'[x].mtime >= trans[x].mtime
                         /\ trans[x].turns \in Nat /\ trans'[x].turns \in Nat
                         /\ trans[x].mtime \in Nat /\ trans'[x].mtime \in Nat
    BY <1>1 DEF Grow, BfTypeOK, BfFile, FilesInv
  <2>2. AsofInv'
    BY <1>0, <1>1, <2>1 DEF Grow, PackedInv, AsofInv, Sweeping
  <2>3. KeptInv' /\ ReadInv'
    BY <1>1 DEF Grow, PackedInv, KeptInv, ReadInv, Kept, Sweeping, Writing,
       PastLedger, Reported
  <2> QED BY <2>2, <2>3 DEF PackedInv
<1>2. CASE (\E s \in Conv : LiveRun(s)) \/ SweepPacks
  <2>1. PICK s \in Conv, a \in BOOLEAN : writer' = Parsed(s, a)
    <3>1. CASE SweepPacks
      BY <3>1, BusyWriter, NextInTurn DEF SweepPacks, Sweeping
    <3> QED BY <1>2, <3>1 DEF LiveRun
  <2>2. UNCHANGED <<trans, led, sweep>>
    BY <1>2 DEF LiveRun, SweepPacks
  <2>3. ~PastLedger' /\ writer'.s = s /\ writer'.turns = trans[s].turns
    BY <2>1 DEF Parsed, PastLedger
  <2>4. trans[s].turns \in Nat
    BY DEF BfTypeOK, BfFile
  <2>5. Sweeping => trans[s].turns >= sweep.asof[s].turns
    BY <1>0, <2>4 DEF PackedInv, AsofInv
  <2>6. ReadInv'
    BY <2>2, <2>3, <2>5 DEF ReadInv, Sweeping
  <2>7. AsofInv' /\ KeptInv'
    BY <2>2, <2>3 DEF PackedInv, AsofInv, KeptInv, Kept, Sweeping, Reported
  <2> QED BY <2>6, <2>7 DEF PackedInv
<1>3. CASE WriteLedger
  <2>1. /\ writer \in BfWriter /\ Writing /\ Writing'
        /\ writer'.s = writer.s /\ writer'.turns = writer.turns
        /\ writer'.archive = writer.archive
        /\ UNCHANGED <<trans, now, sweep>>
    BY <1>3, WriterMoves
  <2>2. \A p \in BfPrefix : led'[p] = IF p = ConvPrefix[writer.s]
                                     THEN [turns |-> writer.turns, mtime |-> now]
                                     ELSE led[p]
    BY <1>3 DEF WriteLedger, BfTypeOK
  <2>3. AsofInv' /\ ReadInv'
    BY <2>1 DEF PackedInv, AsofInv, ReadInv, Sweeping, Reported
  <2>4. ASSUME Sweeping, NEW s \in Conv, Reported(s, "packed") \/ (writer.archive /\ writer.s = s)
        PROVE  Kept(s)'
    <3>1. ConvPrefix[s] \in BfPrefix
      BY DEF BfPrefix
    <3>2. CASE ConvPrefix[writer.s] = ConvPrefix[s]
      <4>1. led'[ConvPrefix[s]].turns = writer.turns /\ led'[ConvPrefix[s]].mtime = now
        BY <2>2, <3>1, <3>2
      <4>2. writer.turns >= 1
        BY <2>1 DEF FilesInv
      <4>3. now >= sweep.asof[s].mtime
        <5>1. sweep.asof[s].mtime <= trans[s].mtime /\ trans[s].mtime <= now
          BY <2>4 DEF PackedInv, AsofInv, FilesInv
        <5>2. sweep \in BfSweep
          BY <2>4 DEF BfTypeOK, Sweeping, NoOne
        <5>3. sweep.asof[s].mtime \in Nat
          BY <5>2 DEF BfSweep, BfFile
        <5>4. trans[s].mtime \in Nat /\ now \in Nat
          BY DEF BfTypeOK, BfFile
        <5> QED BY <5>1, <5>3, <5>4
      <4>4. Twins(s) = {} => writer.turns >= sweep.asof[s].turns
        <5>1. Twins(s) = {} => writer.s = s
          BY <2>1, <3>2 DEF Twins, BfWriter
        <5> QED BY <2>1, <2>4, <5>1 DEF PackedInv, ReadInv
      <4> QED BY <2>1, <4>1, <4>2, <4>3, <4>4 DEF Kept, Twins
    <3>3. CASE ConvPrefix[writer.s] # ConvPrefix[s]
      <4>1. Reported(s, "packed") /\ led'[ConvPrefix[s]] = led[ConvPrefix[s]]
        BY <2>2, <2>4, <3>1, <3>3
      <4> QED BY <2>1, <2>4, <4>1 DEF PackedInv, KeptInv, Kept, Twins
    <3> QED BY <3>2, <3>3
  <2>5. KeptInv'
    BY <2>1, <2>4 DEF KeptInv, Sweeping, Reported
  <2> QED BY <2>3, <2>5 DEF PackedInv
<1>4. CASE WriteLatest \/ AppendRow
  <2>1. /\ Writing /\ Writing' /\ PastLedger
        /\ writer'.s = writer.s /\ writer'.turns = writer.turns
        /\ writer'.archive = writer.archive
        /\ UNCHANGED <<trans, sweep, led>>
    BY <1>4, WriterMoves DEF WriteLatest, AppendRow, PastLedger
  <2> QED BY <2>1 DEF PackedInv, AsofInv, KeptInv, ReadInv, Kept, Sweeping, Reported
<1>5. CASE WriteRollup
  <2>1. PastLedger /\ ~Writing' /\ UNCHANGED <<trans, led>>
    BY <1>5, WriterEnds
  <2>2. CASE writer.archive
    <3>1. /\ sweep \in BfSweep /\ sweep.pc = "packing" /\ writer.s = Head(sweep.todo)
          /\ sweep'.pc = sweep.pc /\ sweep'.asof = sweep.asof
          /\ \A s : Reported(s, "packed")' <=> Reported(s, "packed") \/ s = writer.s
      BY <1>5, <2>2, WriterEnds, PackedMoves DEF BfOutcome
    <3> QED BY <2>1, <2>2, <3>1
            DEF PackedInv, AsofInv, KeptInv, ReadInv, Kept, Sweeping, PastLedger
  <2>3. CASE ~writer.archive
    <3>1. sweep' = sweep
      BY <1>5, <2>3, WriterEnds
    <3> QED BY <2>1, <2>3, <3>1
            DEF PackedInv, AsofInv, KeptInv, ReadInv, Kept, Sweeping, Reported, PastLedger
  <2> QED BY <2>2, <2>3
<1>6. ASSUME NEW torn \in BOOLEAN, Killed(torn) PROVE PackedInv'
  <2>1. ~Writing' /\ UNCHANGED <<trans, led>> /\ (sweep' = sweep \/ ~Sweeping')
    BY <1>6 DEF Killed, Writing, Sweeping, NoOne
  <2> QED BY <2>1
          DEF PackedInv, AsofInv, KeptInv, ReadInv, Kept, Sweeping, Reported, PastLedger
<1>7. ASSUME NEW active \in BOOLEAN, SweepBegins(active) PROVE PackedInv'
  <2>1. UNCHANGED <<trans, led, writer>> /\ ~(Writing /\ writer.archive)
    BY <1>7 DEF SweepBegins, ArchiveInv
  <2>2. sweep'.asof = trans /\ \A s : ~Reported(s, "packed")'
    BY <1>7, SweepStarts, ToSetEmpty DEF Reported
  <2>3. \A s \in Conv : trans[s].turns \in Nat /\ trans[s].mtime \in Nat
    BY DEF BfTypeOK, BfFile
  <2> QED BY <2>1, <2>2, <2>3
          DEF PackedInv, AsofInv, KeptInv, ReadInv, Writing, PastLedger
<1>8. CASE SweepSkips \/ SweepFails
  <2>1. /\ sweep \in BfSweep /\ sweep.pc = "packing" /\ sweep.todo # <<>>
        /\ ~Writing' /\ UNCHANGED <<trans, led>>
    BY <1>8, BusyWriter DEF SweepSkips, SweepFails, Sweeping, Writing, ArchiveInv
  <2>2. PICK how \in BfOutcome \ {"packed"} :
          sweep' = [sweep EXCEPT !.todo = Tail(@),
                                 !.rows = Append(@, <<Head(sweep.todo), how>>)]
    <3>1. CASE SweepSkips
      <4>1. Grade[Head(sweep.todo)] \in BfOutcome \ {"packed"}
        BY <2>1, NextInTurn, ConvAssumption DEF BfOutcome
      <4> QED BY <3>1, <4>1 DEF SweepSkips, AfterSkip
    <3>2. CASE SweepFails
      <4>1. writer.s = Head(sweep.todo)
        BY <3>2 DEF SweepFails, ArchiveInv, Writing
      <4> QED BY <3>2, <4>1 DEF SweepFails, AfterSkip, BfOutcome
    <3> QED BY <1>8, <3>1, <3>2
  <2>3. /\ sweep'.pc = sweep.pc /\ sweep'.asof = sweep.asof
        /\ \A s : Reported(s, "packed")' <=> Reported(s, "packed")
    BY <2>1, <2>2, PackedMoves
  <2> QED BY <2>1, <2>3
          DEF PackedInv, AsofInv, KeptInv, ReadInv, Kept, Sweeping, PastLedger
<1>9. CASE SweepEnds
  <2>1. sweep \in BfSweep /\ Sweeping
    BY <1>9, BusyWriter DEF SweepEnds, Sweeping
  <2>2. /\ sweep'.asof = sweep.asof /\ sweep'.rows = sweep.rows
        /\ UNCHANGED <<trans, led, writer>>
    BY <1>9, <2>1 DEF SweepEnds, BfSweep
  <2> QED BY <2>1, <2>2
          DEF PackedInv, AsofInv, KeptInv, ReadInv, Kept, Writing, Reported, PastLedger
<1>10. CASE UNCHANGED <<trans, led, writer, sweep>>
  BY <1>10 DEF PackedInv, AsofInv, KeptInv, ReadInv, Kept, Sweeping, Writing,
     Reported, PastLedger
<1> QED BY <1>1, <1>2, <1>3, <1>4, <1>5, <1>6, <1>7, <1>8, <1>9, <1>10
        DEF BackfillNext, BareCheckpoint, LiveTranscripts, Tick,
            StartReadsProject, StartReadsLatest, bfVars

(***************************************************************************)
(* The journal and the latest gist.                                        *)
(***************************************************************************)
LEMMA LatestLiveAppend ==
    ASSUME NEW j \in Seq(BfRow), NEW r \in BfRow
    PROVE  LatestLive(Append(j, r)) = IF r.archive THEN LatestLive(j) ELSE ConvPrefix[r.s]
<1> DEFINE n == Len(j)
           k == Append(j, r)
           live == {i \in DOMAIN j : ~j[i].archive}
           live2 == {i \in DOMAIN k : ~k[i].archive}
<1>1. /\ n \in Nat /\ DOMAIN j = 1..n /\ DOMAIN k = 1..(n + 1)
      /\ \A i \in 1..n : k[i] = j[i]
      /\ k[n + 1] = r
  BY AppendProperties, LenProperties
<1> HIDE DEF n, k
<1>2. \A i \in 1..(n + 1) : i \in 1..n \/ i = n + 1
  BY <1>1
<1>3. \A i \in 1..n : i \in 1..(n + 1) /\ i <= n + 1 /\ ~(n + 1 <= i)
  BY <1>1
<1>4. n + 1 \in 1..(n + 1) /\ n + 1 <= n + 1
  BY <1>1
<1>5. CASE r.archive
  <2>1. live2 = live
    BY <1>1, <1>2, <1>3, <1>5
  <2>2. CASE live = {}
    BY <1>5, <2>1, <2>2 DEF LatestLive, k
  <2>3. CASE live # {}
    <3>1. \E i \in live : \A x \in live : x <= i
      BY <1>1, <2>3, GreatestPosition
    <3>2. (CHOOSE i \in live : \A x \in live : x <= i) \in 1..n
      BY <1>1, <3>1
    <3>3. LatestLive(j) = ConvPrefix[j[CHOOSE i \in live : \A x \in live : x <= i].s]
      BY <2>3 DEF LatestLive
    <3>4. LatestLive(k) = ConvPrefix[k[CHOOSE i \in live : \A x \in live : x <= i].s]
      BY <2>1, <2>3 DEF LatestLive
    <3> QED BY <1>1, <1>5, <3>2, <3>3, <3>4 DEF k
  <2> QED BY <2>2, <2>3
<1>6. CASE ~r.archive
  <2>1. n + 1 \in live2 /\ \A x \in live2 : x \in 1..(n + 1)
    BY <1>1, <1>4, <1>6
  <2>2. \A x \in live2 : x <= n + 1
    BY <1>2, <1>3, <1>4, <2>1
  <2>3. \A i \in live2 : (\A x \in live2 : x <= i) => i = n + 1
    BY <1>2, <1>3, <2>1
  <2>4. (CHOOSE i \in live2 : \A x \in live2 : x <= i) = n + 1
    BY <2>1, <2>2, <2>3
  <2>5. LatestLive(k) = ConvPrefix[k[CHOOSE i \in live2 : \A x \in live2 : x <= i].s]
    BY <2>1 DEF LatestLive
  <2> QED BY <1>1, <1>6, <2>4, <2>5 DEF k
<1> QED BY <1>5, <1>6

\* Only a death counts as one.
LEMMA DeathsCounted ==
    ASSUME BfTypeOK, [BackfillNext]_bfVars
    PROVE  /\ count.deaths \in Nat /\ count'.deaths \in Nat
           /\ count'.deaths = count.deaths
                \/ /\ count'.deaths = count.deaths + 1
                   /\ SweepFails \/ \E torn \in BOOLEAN : Killed(torn)
<1>1. count.deaths \in Nat
  BY DEF BfTypeOK
<1>2. ASSUME NEW k \in {"runs", "sweeps", "starts"}, NEW max, More(k, max)
      PROVE  count'.deaths = count.deaths
  BY <1>2 DEF BfTypeOK, More
<1>3. CASE \E s \in Conv : LiveRun(s)
  BY <1>1, <1>2, <1>3 DEF LiveRun
<1>4. CASE \E active \in BOOLEAN : SweepBegins(active)
  BY <1>1, <1>2, <1>4 DEF SweepBegins
<1>5. CASE StartReadsProject
  BY <1>1, <1>2, <1>5 DEF StartReadsProject
<1>6. CASE SweepFails \/ \E torn \in BOOLEAN : Killed(torn)
  <2>1. More("deaths", MaxDeaths)
    BY <1>6 DEF SweepFails, Killed
  <2>2. count'.deaths = count.deaths + 1
    BY <2>1 DEF BfTypeOK, More
  <2> QED BY <1>1, <1>6, <2>2
<1>7. CASE UNCHANGED count
  BY <1>1, <1>7
<1> QED BY <1>3, <1>4, <1>5, <1>6, <1>7
    DEF BackfillNext, BareCheckpoint, LiveTranscripts, Tick, Grow, WriteLedger,
        WriteLatest, AppendRow, WriteRollup, SweepPacks, SweepSkips, SweepEnds,
        StartReadsLatest, bfVars

LEMMA RowAppends ==
    ASSUME BfTypeOK, AppendRow
    PROVE  LET r == IF tornTail THEN Torn
                    ELSE [s |-> writer.s, archive |-> writer.archive] IN
           /\ writer \in BfWriter /\ Writing /\ r \in BfRow
           /\ journal' = Append(journal, r) /\ tornTail' = FALSE
           /\ UNCHANGED <<led, latest, rollup, banked, sweep, start, count>>
<1>1. writer \in BfWriter /\ Writing
  BY WriterMoves
<1>2. [s |-> writer.s, archive |-> writer.archive] \in BfRow /\ Torn \in BfRow
  BY <1>1 DEF BfWriter, BfRow
<1> QED BY <1>1, <1>2 DEF AppendRow, TailAfterRow

LEMMA LatestNext ==
    ASSUME BfTypeOK, ArchiveInv, LatestInv, [BackfillNext]_bfVars
    PROVE  LatestInv'
<1> USE DEF ledgerFiles
<1>1. SUFFICES ASSUME count'.deaths = 0
               PROVE  /\ tornTail' = FALSE
                      /\ latest' = IF LiveAt("row")' THEN ConvPrefix[writer'.s]
                                   ELSE LatestLive(journal')
                      /\ LiveAt("rollup")' => LatestLive(journal') = ConvPrefix[writer'.s]
  BY DEF LatestInv
<1>2. /\ count.deaths = 0
      /\ ~SweepFails /\ \A torn \in BOOLEAN : ~Killed(torn)
  <2>1. count.deaths = 0
    BY <1>1, DeathsCounted
  <2>2. ~More("deaths", MaxDeaths)
    BY <1>1, <2>1 DEF More, BfTypeOK
  <2> QED BY <2>1, <2>2 DEF SweepFails, Killed
<1>3. /\ tornTail = FALSE
      /\ latest = IF LiveAt("row") THEN ConvPrefix[writer.s] ELSE LatestLive(journal)
      /\ LiveAt("rollup") => LatestLive(journal) = ConvPrefix[writer.s]
  BY <1>2 DEF LatestInv
<1>4. CASE (\E s \in Conv : LiveRun(s)) \/ SweepPacks
  BY <1>3, <1>4 DEF LiveRun, SweepPacks, Parsed, LiveAt, Writing
<1>5. CASE WriteLedger
  <2>1. /\ UNCHANGED <<latest, journal, tornTail>>
        /\ writer.pc = "ledger" /\ writer'.pc = "latest"
    BY <1>5, WriterMoves DEF WriteLedger, BfWriter
  <2> QED BY <1>3, <2>1 DEF LiveAt
<1>6. CASE WriteLatest
  <2>1. /\ UNCHANGED <<journal, tornTail>> /\ Writing /\ Writing'
        /\ writer.pc = "latest" /\ writer'.pc = "row" /\ writer'.s = writer.s
        /\ writer'.archive = writer.archive
        /\ latest' = IF writer.archive THEN latest ELSE ConvPrefix[writer.s]
    BY <1>6, WriterMoves DEF WriteLatest, BfWriter
  <2> QED BY <1>3, <2>1 DEF LiveAt
<1>7. CASE AppendRow
  <2> DEFINE r == [s |-> writer.s, archive |-> writer.archive]
  <2>1. /\ r \in BfRow /\ journal' = Append(journal, r) /\ tornTail' = FALSE
        /\ latest' = latest /\ Writing /\ writer.pc = "row"
    BY <1>3, <1>7, RowAppends DEF AppendRow
  <2>2. /\ Writing' /\ writer'.pc = "rollup" /\ writer'.s = writer.s
        /\ writer'.archive = writer.archive
    BY <1>7, WriterMoves DEF AppendRow, BfWriter
  <2>3. LatestLive(journal') = IF writer.archive THEN LatestLive(journal)
                               ELSE ConvPrefix[writer.s]
    <3>1. r.archive = writer.archive /\ r.s = writer.s
      OBVIOUS
    <3> QED BY <2>1, <3>1, LatestLiveAppend DEF BfTypeOK
  <2> QED BY <1>3, <2>1, <2>2, <2>3 DEF LiveAt
<1>8. CASE WriteRollup
  <2>1. /\ UNCHANGED <<latest, journal, tornTail>> /\ writer.pc = "rollup" /\ ~Writing'
    BY <1>8, WriterEnds DEF WriteRollup
  <2> QED BY <1>3, <2>1 DEF LiveAt
<1>9. CASE UNCHANGED <<latest, journal, tornTail, writer>>
  BY <1>3, <1>9 DEF LiveAt, Writing
<1> QED BY <1>2, <1>4, <1>5, <1>6, <1>7, <1>8, <1>9
        DEF BackfillNext, BareCheckpoint, LiveTranscripts, Tick, Grow, SweepBegins,
            SweepSkips, SweepEnds, StartReadsProject, StartReadsLatest, bfVars

(***************************************************************************)
(* What a session start reads.                                             *)
(***************************************************************************)
\* The last step of a run in a directory where none has died: the rollup has
\* everything that is banked but the latest gist's session.
LEMMA RollupTakesAll ==
    ASSUME BfTypeOK, ArchiveInv, FilesInv, LatestInv, StartInv, count.deaths = 0,
           WriteRollup
    PROVE  /\ banked' \subseteq rollup' \cup {latest}
           /\ \A p \in banked' : led[p].turns > 0
<1>1. writer \in BfWriter /\ Writing /\ PastLedger /\ writer.pc = "rollup"
  BY WriterEnds DEF WriteRollup
<1>2. ConvPrefix[writer.s] \in BfPrefix
  BY <1>1 DEF BfWriter, BfPrefix
<1>3. led[ConvPrefix[writer.s]].turns > 0
  <2>1. led[ConvPrefix[writer.s]].turns = writer.turns /\ writer.turns >= 1
    BY <1>1 DEF FilesInv
  <2> QED BY <1>1, <2>1 DEF BfWriter
<1>4. Exclude = latest
  <2>1. ~LiveAt("row")
    BY <1>1 DEF LiveAt
  <2>2. latest = LatestLive(journal)
    BY <2>1 DEF LatestInv
  <2>3. ~writer.archive => LatestLive(journal) = ConvPrefix[writer.s]
    BY <1>1 DEF LatestInv, LiveAt
  <2> QED BY <2>2, <2>3 DEF Exclude
<1>5. banked' = banked \cup {ConvPrefix[writer.s]}
      /\ rollup' = {p \in BfPrefix : led[p].turns > 0} \ {latest}
  BY <1>4 DEF WriteRollup, BfTypeOK
<1>6. \A p \in banked' : p \in BfPrefix /\ led[p].turns > 0
  BY <1>2, <1>3, <1>5 DEF StartInv, BfTypeOK
<1> QED BY <1>5, <1>6

LEMMA AllButOne ==
    ASSUME NEW x \in BfPrefix \cup {Nobody}, NEW set, NEW few,
           set \subseteq few \cup {x}
    PROVE  AllBut(set, few)
  BY DEF AllBut

LEMMA StartNext ==
    ASSUME BfTypeOK, ArchiveInv, FilesInv, LatestInv, StartInv, [BackfillNext]_bfVars
    PROVE  StartInv'
<1> USE DEF ledgerFiles
<1> DEFINE Told == /\ start.pc # "idle" => AllBut(start.owed, start.seen)
                   /\ start.pc = "latest" /\ ~start.raced =>
                        /\ start.owed \subseteq start.seen \cup {latest}
                        /\ ~Writing \/ writer.archive
                   /\ start.pc = "done" /\ ~start.raced => start.owed \subseteq start.seen
           Banked == /\ \A p \in banked : led[p].turns > 0
                     /\ AllBut(banked, rollup)
                     /\ ~Writing \/ writer.archive => banked \subseteq rollup \cup {latest}
<1>1. SUFFICES ASSUME count'.deaths = 0 PROVE Banked' /\ Told'
  BY DEF StartInv
<1>2. /\ count.deaths = 0
      /\ ~SweepFails /\ \A torn \in BOOLEAN : ~Killed(torn)
  <2>1. count.deaths = 0
    BY <1>1, DeathsCounted
  <2>2. ~More("deaths", MaxDeaths)
    BY <1>1, <2>1 DEF More, BfTypeOK
  <2> QED BY <2>1, <2>2 DEF SweepFails, Killed
<1>3. Banked /\ Told
  BY <1>2 DEF StartInv
<1> HIDE DEF Banked, Told
<1>4. ASSUME NEW s \in Conv, LiveRun(s) PROVE Banked' /\ Told'
  <2>1. /\ Writing' /\ ~writer'.archive
        /\ UNCHANGED <<led, latest, rollup, banked>>
    BY <1>4 DEF LiveRun, Parsed, Writing, NoOne
  <2>2. Banked'
    BY <1>3, <2>1 DEF Banked, AllBut
  <2>3. CASE start.pc = "latest"
    <3>1. start \in BfStart
      BY <2>3, BusyWriter
    <3>2. /\ start'.pc = start.pc /\ start'.raced
          /\ start'.owed = start.owed /\ start'.seen = start.seen
      BY <1>4, <2>3, <3>1 DEF LiveRun, BfStart
    <3> QED BY <1>3, <2>2, <2>3, <3>2 DEF Told, AllBut
  <2>4. CASE start.pc # "latest"
    BY <1>3, <1>4, <2>2, <2>4 DEF LiveRun, Told, AllBut
  <2> QED BY <2>3, <2>4
<1>5. CASE WriteLedger
  <2>1. /\ writer \in BfWriter /\ Writing /\ Writing' /\ writer'.archive = writer.archive
        /\ UNCHANGED <<latest, rollup, banked, start>>
    BY <1>5, WriterMoves DEF WriteLedger
  <2>2. writer.turns > 0
    BY <2>1 DEF FilesInv, BfWriter
  <2>3. \A p \in BfPrefix : led'[p].turns = writer.turns \/ led'[p] = led[p]
    BY <1>5 DEF WriteLedger, BfTypeOK
  <2>4. Banked'
    BY <1>3, <2>1, <2>2, <2>3 DEF Banked, AllBut, BfTypeOK
  <2> QED BY <1>3, <2>1, <2>4 DEF Told, AllBut
<1>6. CASE WriteLatest
  <2>1. /\ Writing /\ Writing' /\ writer'.archive = writer.archive
        /\ UNCHANGED <<led, rollup, banked, start>>
        /\ writer.archive => latest' = latest
    BY <1>6, WriterMoves DEF WriteLatest
  <2> QED BY <1>3, <2>1 DEF Banked, Told, AllBut
<1>7. CASE AppendRow
  <2>1. /\ Writing /\ Writing' /\ writer'.archive = writer.archive
        /\ UNCHANGED <<led, latest, rollup, banked, start>>
    BY <1>7, WriterMoves, RowAppends
  <2> QED BY <1>3, <2>1 DEF Banked, Told, AllBut
<1>8. CASE WriteRollup
  <2>1. ~Writing' /\ UNCHANGED <<led, latest, start>>
    BY <1>8, WriterEnds
  <2>2. /\ banked' \subseteq rollup' \cup {latest}
        /\ \A p \in banked' : led[p].turns > 0
    BY <1>2, <1>8, RollupTakesAll
  <2>3. AllBut(banked', rollup')
    BY <2>2, AllButOne DEF BfTypeOK
  <2>4. Banked'
    BY <2>1, <2>2, <2>3 DEF Banked, AllBut
  <2> QED BY <1>3, <2>1, <2>4 DEF Told, AllBut
<1>9. CASE SweepPacks
  <2>1. /\ ~Writing /\ writer'.archive
        /\ UNCHANGED <<led, latest, rollup, banked, start>>
    BY <1>9 DEF SweepPacks, Parsed, Writing
  <2> QED BY <1>3, <2>1 DEF Banked, Told, AllBut
<1>10. CASE StartReadsProject
  <2>1. /\ UNCHANGED <<led, latest, rollup, banked, writer>>
        /\ start'.pc = "latest" /\ start'.seen = rollup /\ start'.owed = banked
        /\ start'.raced = Writing
    BY <1>10 DEF StartReadsProject, Writing
  <2> QED BY <1>3, <2>1 DEF Banked, Told, AllBut, Writing
<1>11. CASE StartReadsLatest
  <2>1. start \in BfStart /\ start.pc = "latest"
    BY <1>11, BusyWriter DEF StartReadsLatest
  <2>2. /\ UNCHANGED <<led, latest, rollup, banked, writer>>
        /\ start'.pc = "done" /\ start'.seen = start.seen \cup {latest}
        /\ start'.owed = start.owed /\ start'.raced = start.raced
    BY <1>11, <2>1 DEF StartReadsLatest, BfStart
  <2>3. Banked'
    BY <1>3, <2>2 DEF Banked, AllBut, Writing
  <2>4. AllBut(start'.owed, start'.seen)
    BY <1>3, <2>1, <2>2 DEF Told, AllBut
  <2>5. ~start'.raced => start'.owed \subseteq start'.seen
    BY <1>3, <2>1, <2>2 DEF Told
  <2> QED BY <2>2, <2>3, <2>4, <2>5 DEF Told, AllBut
<1>12. CASE UNCHANGED <<led, latest, rollup, banked, writer, start>>
  BY <1>3, <1>12 DEF Banked, Told, AllBut, Writing
<1> QED BY <1>2, <1>4, <1>5, <1>6, <1>7, <1>8, <1>9, <1>10, <1>11, <1>12
        DEF BackfillNext, BareCheckpoint, LiveTranscripts, Tick, Grow, SweepBegins,
            SweepSkips, SweepEnds, bfVars

(***************************************************************************)
(* Torn rows.                                                              *)
(***************************************************************************)
LEMMA TornFinite ==
    ASSUME BfTypeOK
    PROVE  IsFiniteSet(TornRows) /\ Cardinality(TornRows) \in Nat
<1>1. Len(journal) \in Nat /\ DOMAIN journal = 1..Len(journal)
  BY LenProperties DEF BfTypeOK
<1>2. IsFiniteSet(1..Len(journal))
  BY <1>1, FS_Interval
<1> QED BY <1>1, <1>2, FS_Subset, FS_CardinalityType DEF TornRows

LEMMA TornNext ==
    ASSUME BfTypeOK, TornInv, [BackfillNext]_bfVars
    PROVE  TornInv'
<1>0. /\ IsFiniteSet(TornRows) /\ Cardinality(TornRows) \in Nat
      /\ count.deaths \in Nat /\ tornTail \in BOOLEAN
      /\ count'.deaths = count.deaths \/ count'.deaths = count.deaths + 1
  BY TornFinite, DeathsCounted DEF BfTypeOK
<1>1. CASE AppendRow
  <2> DEFINE n == Len(journal)
             r == IF tornTail THEN Torn ELSE [s |-> writer.s, archive |-> writer.archive]
  <2>1. /\ journal' = Append(journal, r) /\ r \in BfRow /\ tornTail' = FALSE
        /\ count' = count /\ writer \in BfWriter
    BY <1>1, RowAppends
  <2>2. r = Torn <=> tornTail
    <3>1. writer.s # Nobody
      BY <2>1, ConvAssumption DEF BfWriter
    <3> QED BY <3>1 DEF Torn
  <2>3. /\ n \in Nat /\ DOMAIN journal = 1..n /\ DOMAIN journal' = 1..(n + 1)
        /\ \A i \in 1..n : journal'[i] = journal[i]
        /\ journal'[n + 1] = r
    BY <2>1, AppendProperties, LenProperties DEF BfTypeOK
  <2> HIDE DEF n, r
  <2>4. \A i \in 1..(n + 1) : i \in 1..n \/ i = n + 1
    BY <2>3
  <2>5. /\ \A i \in 1..n : i \in 1..(n + 1)
        /\ n + 1 \in 1..(n + 1) /\ n + 1 \notin 1..n
    BY <2>3
  <2>6. CASE tornTail
    <3>1. TornRows' = TornRows \cup {n + 1} /\ n + 1 \notin TornRows
      BY <2>2, <2>3, <2>4, <2>5, <2>6 DEF TornRows
    <3>2. Cardinality(TornRows') = Cardinality(TornRows) + 1
      BY <1>0, <3>1, FS_AddElement
    <3> QED BY <1>0, <2>1, <2>6, <3>2 DEF TornInv
  <2>7. CASE ~tornTail
    <3>1. TornRows' = TornRows
      BY <2>2, <2>3, <2>4, <2>5, <2>7 DEF TornRows
    <3> QED BY <1>0, <2>1, <2>7, <3>1 DEF TornInv
  <2> QED BY <2>6, <2>7
<1>2. ASSUME NEW torn \in BOOLEAN, Killed(torn) PROVE TornInv'
  <2>1. count'.deaths = count.deaths + 1
    BY <1>2 DEF Killed, More, BfTypeOK
  <2>2. TornRows' = TornRows
    BY <1>2 DEF Killed, TornRows
  <2> QED BY <1>0, <2>1, <2>2 DEF TornInv
<1>3. CASE UNCHANGED <<journal, tornTail>>
  BY <1>0, <1>3 DEF TornInv, TornRows
<1> QED BY <1>1, <1>2, <1>3
        DEF BackfillNext, BareCheckpoint, LiveTranscripts, Tick, Grow, LiveRun,
            WriteLedger, WriteLatest, WriteRollup, SweepBegins, SweepPacks,
            SweepSkips, SweepFails, SweepEnds, StartReadsProject,
            StartReadsLatest, bfVars, ledgerFiles

(***************************************************************************)
(* The invariant holds, and the promises follow from it.                   *)
(***************************************************************************)
LEMMA BfInvInit == BackfillInit => BfInv
<1> SUFFICES ASSUME BackfillInit PROVE BfInv
  OBVIOUS
<1>1. /\ \A s \in Conv : trans[s].turns = 1 /\ trans[s].mtime = 0
      /\ \A p \in BfPrefix : led[p].mtime = 0
      /\ ~Writing /\ ~Sweeping /\ start.pc = "idle" /\ now = 0
      /\ banked = {} /\ journal = <<>> /\ tornTail = FALSE /\ latest = Nobody
      /\ count.deaths = 0
  BY DEF BackfillInit, BfPrefix, NoLedger, Writing, Sweeping, NoOne
<1>2. ArchiveInv /\ FilesInv /\ RowsInv /\ PackedInv
  <2>1. FilesInv
    BY <1>1 DEF FilesInv, PastLedger
  <2>2. ArchiveInv /\ RowsInv /\ PackedInv
    BY <1>1 DEF ArchiveInv, RowsInv, PackedInv, AsofInv, KeptInv, ReadInv
  <2> QED BY <2>1, <2>2
<1>3. LatestInv
  BY <1>1 DEF LatestInv, LiveAt, LatestLive
<1>4. StartInv
  BY <1>1 DEF StartInv, AllBut
<1>5. TornInv
  <2>1. TornRows = {}
    BY <1>1 DEF TornRows
  <2> QED BY <1>1, <2>1, FS_EmptySet DEF TornInv
<1> QED BY <1>2, <1>3, <1>4, <1>5 DEF BfInv

\* The values of the variables are always of their types.
THEOREM BackfillTypeCorrect == BfSpec => []BfTypeOK
<1>1. BackfillInit => BfTypeOK /\ ArchiveInv
  BY FilesTypedInit, BfInvInit DEF BfInv
<1>2. BfTypeOK /\ ArchiveInv /\ [BackfillNext]_bfVars => BfTypeOK' /\ ArchiveInv'
  BY FilesTypedNext, ArchiveNext
<1> QED BY <1>1, <1>2, PTL DEF BfSpec

LEMMA BackfillInvariant == BfSpec => [](BfTypeOK /\ BfInv)
<1>1. BackfillInit => BfTypeOK /\ BfInv
  BY FilesTypedInit, BfInvInit
<1>2. BfTypeOK /\ BfInv /\ [BackfillNext]_bfVars => BfTypeOK' /\ BfInv'
  <2> SUFFICES ASSUME BfTypeOK, BfInv, [BackfillNext]_bfVars PROVE BfTypeOK' /\ BfInv'
    OBVIOUS
  <2>1. /\ ArchiveInv /\ FilesInv /\ RowsInv /\ PackedInv
        /\ LatestInv /\ StartInv /\ TornInv
    BY DEF BfInv
  <2>2. BfTypeOK'
    BY <2>1, FilesTypedNext
  <2>3. ArchiveInv' /\ FilesInv' /\ RowsInv' /\ PackedInv'
    BY <2>1, <2>2, ArchiveNext, FilesNext, RowsNext, PackedNext
  <2>4. LatestInv' /\ StartInv' /\ TornInv'
    BY <2>1, LatestNext, StartNext, TornNext
  <2> QED BY <2>2, <2>3, <2>4 DEF BfInv
<1> QED BY <1>1, <1>2, PTL DEF BfSpec

\* A report has its sessions once each, and those it calls packed have it.
LEMMA CoversEach == BfTypeOK /\ BfInv => SweepCovers
<1> SUFFICES ASSUME BfTypeOK, BfInv, sweep.pc = "done"
             PROVE  /\ {r[1] : r \in ToSet(sweep.rows)} = sweep.all
                    /\ Len(sweep.rows) = Cardinality(sweep.all)
                    /\ \A s \in sweep.all :
                         <<s, "packed">> \in ToSet(sweep.rows) /\ Twins(s) = {} =>
                            led[ConvPrefix[s]].turns >= sweep.asof[s].turns
  BY DEF SweepCovers
<1>1. Sweeping /\ sweep \in BfSweep
  BY BusyWriter DEF Sweeping
<1>2. /\ {r[1] : r \in ToSet(sweep.rows)} \cup ToSet(sweep.todo) = sweep.all
      /\ Len(sweep.rows) + Len(sweep.todo) = Cardinality(sweep.all)
      /\ sweep.todo = <<>>
  BY <1>1 DEF BfInv, RowsInv
<1>3. ToSet(sweep.todo) = {} /\ Len(sweep.todo) = 0 /\ Len(sweep.rows) \in Nat
  BY <1>1, <1>2, ToSetEmpty, EmptySeq, LenProperties DEF BfSweep
<1>4. Len(sweep.rows) = Cardinality(sweep.all)
  BY <1>2, <1>3
<1>5. {r[1] : r \in ToSet(sweep.rows)} = sweep.all
  BY <1>2, <1>3
<1>6. \A s \in sweep.all :
         <<s, "packed">> \in ToSet(sweep.rows) /\ Twins(s) = {} =>
            led[ConvPrefix[s]].turns >= sweep.asof[s].turns
  BY <1>1 DEF BfInv, PackedInv, KeptInv, Kept, Reported, BfSweep
<1> QED BY <1>4, <1>5, <1>6

\* What a sweep packed, or a sweep without a failure let pass, is closed.
LEMMA ClosesEach == BfTypeOK /\ BfInv => SweepConverges
<1> SUFFICES ASSUME BfTypeOK, BfInv, sweep.pc = "done", NEW s \in sweep.all,
                    trans[s] = sweep.asof[s],
                    <<s, "packed">> \in ToSet(sweep.rows)
                        \/ (SweepExit = 0 /\ Grade[s] = "ok")
             PROVE  Status(s) \notin {"unpacked", "stale"}
  BY DEF SweepConverges
<1>1. Sweeping /\ sweep \in BfSweep /\ s \in Conv
  BY BusyWriter DEF Sweeping, BfSweep
<1>2. Reported(s, "packed")
  <2> SUFFICES ASSUME SweepExit = 0, Grade[s] = "ok" PROVE Reported(s, "packed")
    BY DEF Reported
  <2>1. {r[1] : r \in ToSet(sweep.rows)} = sweep.all
    BY CoversEach DEF SweepCovers
  <2>2. PICK r \in ToSet(sweep.rows) : r[1] = s
    BY <2>1
  <2>3. r \in Conv \X BfOutcome
    BY <1>1, ToSetTyped DEF BfSweep
  <2>4. r = <<s, r[2]>>
    BY <2>2, <2>3
  <2>5. r[2] # "failed"
    BY DEF SweepExit
  <2>6. r[2] \in {"packed", "failed"} \/ (r[2] = Grade[r[1]] /\ r[2] # "ok")
    BY <1>1 DEF BfInv, RowsInv
  <2>7. r[2] = "packed"
    BY <2>2, <2>5, <2>6
  <2> QED BY <2>4, <2>7 DEF Reported
<1>3. ConvPrefix[s] \in BfPrefix
  BY <1>1 DEF BfPrefix
<1>4. /\ led[ConvPrefix[s]].turns >= 1
      /\ led[ConvPrefix[s]].mtime >= trans[s].mtime
  BY <1>1, <1>2 DEF BfInv, PackedInv, KeptInv, Kept
<1>5. /\ led[ConvPrefix[s]].turns \in Nat /\ led[ConvPrefix[s]].mtime \in Nat
      /\ trans[s].mtime \in Nat
  BY <1>1, <1>3 DEF BfTypeOK, BfFile
<1>6. led[ConvPrefix[s]].turns # 0
  BY <1>4, <1>5
<1>7. ~Outgrew(trans[s], led[ConvPrefix[s]])
  BY <1>4, <1>5, SlackAssumption DEF Outgrew
<1> QED BY <1>6, <1>7 DEF Status

\* Of what was banked a start has all but one session, all when not raced.
LEMMA MissesOne == BfTypeOK /\ BfInv => StartMissesOnlyDisplaced
<1> SUFFICES ASSUME BfTypeOK, BfInv, start.pc = "done", count.deaths = 0
             PROVE  /\ Cardinality(start.owed \ start.seen) <= 1
                    /\ ~start.raced => start.owed \ start.seen = {}
  BY DEF StartMissesOnlyDisplaced
<1>1. /\ AllBut(start.owed, start.seen)
      /\ ~start.raced => start.owed \subseteq start.seen
  BY DEF BfInv, StartInv
<1>2. PICK x : start.owed \subseteq start.seen \cup {x}
  BY <1>1 DEF AllBut
<1>3. start.owed \ start.seen \in SUBSET {x}
  BY <1>2
<1>4. IsFiniteSet({x}) /\ Cardinality({x}) = 1
  BY FS_Singleton
<1>5. Cardinality(start.owed \ start.seen) <= 1
  <2>1. Cardinality(start.owed \ start.seen) <= Cardinality({x})
    BY <1>3, <1>4, FS_Subset
  <2> QED BY <1>4, <2>1
<1> QED BY <1>1, <1>5

(* Whatever runs, sweeps, deaths and session starts come in whatever       *)
(* order: a finished sweep reports each session it set out to pack once    *)
(* and closes what it found open, between runs the latest gist is the last *)
(* live row's, a start misses at most the session displaced under it, and  *)
(* no more journal rows are lost than runs died (backfill.py run_backfill; *)
(* checkpoint.py run_checkpoint, read_startup_context).                    *)
THEOREM SweepsStaySound == BfSpec => []SweepsAreSound
<1>1. BfTypeOK /\ BfInv => LatestIsLastLive
  BY DEF BfInv, LatestInv, LatestIsLastLive, LiveAt, Writing
<1>2. BfTypeOK /\ BfInv => RowsSurvive
  <2> SUFFICES ASSUME BfTypeOK, BfInv PROVE RowsSurvive
    OBVIOUS
  <2>1. Cardinality(TornRows) \in Nat /\ count.deaths \in Nat
    BY TornFinite DEF BfTypeOK
  <2> QED BY <2>1 DEF BfInv, TornInv, RowsSurvive, TornRows
<1>3. BfTypeOK /\ BfInv => SweepsAreSound
  BY <1>1, <1>2, CoversEach, ClosesEach, MissesOne DEF SweepsAreSound
<1> QED BY <1>3, BackfillInvariant, PTL

=============================================================================
