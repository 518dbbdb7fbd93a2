--------------------------- MODULE RetentionProofs ---------------------------
(***************************************************************************)
(* What Retention.tla guarantees for every set of sessions, every naming   *)
(* of their artifacts and every bound.                                     *)
(***************************************************************************)
EXTENDS Retention, PositionLemmas, SequenceTheorems, FiniteSetTheorems, TLAPS

(***************************************************************************)
(* Facts about the plan.                                                   *)
(***************************************************************************)
LEMMA SessionsInType ==
    ASSUME NEW j \in Seq(Row)
    PROVE  /\ SessionsIn(j) \subseteq Session
           /\ IsFiniteSet(SessionsIn(j))
<1>1. ASSUME NEW i \in DOMAIN j PROVE j[i].s \in Session
  <2>1. j[i] \in Row
    BY LenProperties, ElementOfSeq
  <2> QED BY <2>1 DEF Row
<1>2. SessionsIn(j) \subseteq Session
  BY <1>1 DEF SessionsIn
<1> QED BY <1>2, SessionsFinite, FS_Subset

LEMMA NewerType ==
    ASSUME NEW j \in Seq(Row), NEW s
    PROVE  Newer(j, s) \in Nat
<1> DEFINE N == {x \in SessionsIn(j) : LastRow(j, x) > LastRow(j, s)}
<1>1. IsFiniteSet(N)
  BY SessionsInType, FS_Subset
<1>2. Cardinality(N) \in Nat
  BY <1>1, FS_CardinalityType
<1> QED BY <1>2 DEF Newer

LEMMA SkipReasonType ==
    ASSUME NEW j, NEW f, SkipReason(j, f) # "none"
    PROVE  SkipReason(j, f) \in Reason
  BY DEF SkipReason, Reason

LEMMA PlanOfType ==
    ASSUME TypeOK, NEW j \in Seq(Row), NEW keep \in Nat
    PROVE  PlanOf(j, keep) \in PlanType
<1> DEFINE old == {f \in Candidates(j) : Owners(j, f) \cap Kept(j, keep) = {}}
           nameless == {i \in DOMAIN j : j[i].s = Anonymous}
           entries(S) == {<<f, disk[f]>> : f \in S}
           skips == {<<f, SkipReason(j, f)>> :
                       f \in {g \in Present : SkipReason(j, g) # "none"}}
<1>1. {<<s, Newer(j, s)>> : s \in SessionsIn(j)} \in SUBSET (Session \X Nat)
  BY SessionsInType, NewerType
<1>2. Cardinality(nameless) \in Nat
  <2>1. DOMAIN j = 1..Len(j) /\ Len(j) \in Nat
    BY LenProperties
  <2>2. IsFiniteSet(1..Len(j))
    BY <2>1, FS_Interval
  <2>3. IsFiniteSet(nameless)
    BY <2>1, <2>2, FS_Subset
  <2> QED BY <2>3, FS_CardinalityType
<1>3. Candidates(j) \subseteq File /\ Present \subseteq File
  BY DEF Candidates, Present
<1>4. ASSUME NEW S, S \subseteq File PROVE entries(S) \in Entries
  BY <1>4 DEF TypeOK, Entries
<1>5. skips \in Skips
  BY <1>3, SkipReasonType DEF Skips
<1>6. entries(old) \in Entries /\ entries(Candidates(j) \ old) \in Entries
  BY <1>3, <1>4
<1> HIDE DEF nameless, skips
<1> QED BY <1>1, <1>2, <1>5, <1>6 DEF PlanOf, PlanType, nameless, skips

\* A plan never skips what it deletes.
LEMMA PlanDisjoint ==
    ASSUME NEW j, NEW keep
    PROVE  Paths(PlanOf(j, keep).delete) \cap Paths(PlanOf(j, keep).skipped) = {}
  BY DEF PlanOf, Paths, Candidates

(***************************************************************************)
(* Type correctness.  An apply has a number from its first step on.        *)
(***************************************************************************)
TypeInv == TypeOK /\ (apply # Idle => count.applies > 0)

LEMMA Active ==
    ASSUME TypeOK, apply # Idle
    PROVE  apply \in ApplyType
  BY DEF TypeOK

LEMMA Writing ==
    ASSUME TypeOK, writer # Idle
    PROVE  writer \in [pc : {"ctx", "gist", "row"}, s : Session, archive : Archive]
  BY DEF TypeOK

\* The counters are only ever raised by one, below their bound.
LEMMA CountUp ==
    ASSUME NEW c \in CountType
    PROVE  /\ c.runs < MaxRuns => [c EXCEPT !.runs = c.runs + 1] \in CountType
           /\ c.drift < MaxDrift => [c EXCEPT !.drift = c.drift + 1] \in CountType
           /\ c.applies < MaxApplies =>
                [c EXCEPT !.applies = c.applies + 1] \in CountType
<1> PICK r \in 0..MaxRuns, d \in 0..MaxDrift, a \in 0..MaxApplies, b \in Concurrent :
         c = [runs |-> r, drift |-> d, applies |-> a, concurrent |-> b]
  BY DEF CountType
<1> USE RetentionBoundAssumption
<1>1. c.runs = r /\ c.drift = d /\ c.applies = a
  OBVIOUS
<1>2. /\ r < MaxRuns => r + 1 \in 0..MaxRuns
      /\ d < MaxDrift => d + 1 \in 0..MaxDrift
      /\ a < MaxApplies => a + 1 \in 0..MaxApplies
  OBVIOUS
<1>3. /\ \A n \in 0..MaxRuns : [c EXCEPT !.runs = n] \in CountType
      /\ \A n \in 0..MaxDrift : [c EXCEPT !.drift = n] \in CountType
      /\ \A n \in 0..MaxApplies : [c EXCEPT !.applies = n] \in CountType
  BY DEF CountType
<1> QED BY <1>1, <1>2, <1>3, Zenon

LEMMA TypeInit == Init => TypeInv
<1> SUFFICES ASSUME Init PROVE TypeInv
  OBVIOUS
<1>1. disk \in [File -> Content]
  BY DEF Init, Content
<1>2. count \in CountType
  BY RetentionBoundAssumption DEF Init, CountType
<1>3. journal \in Seq(Row)
  BY DEF Init
<1>4. receipts \in Seq([apply : 1..MaxApplies, plan : PlanType,
                       deleted : SUBSET File, skipped : Skips])
  BY DEF Init
<1>5. /\ writer = Idle /\ apply = Idle /\ confirmed = NoPlan /\ unlinked = {}
      /\ torn \in BOOLEAN /\ rootIsLink \in BOOLEAN
  BY DEF Init
<1> QED BY <1>1, <1>2, <1>3, <1>4, <1>5, Zenon DEF TypeInv, TypeOK

LEMMA TypeNext == TypeInv /\ [Next]_vars => TypeInv'
<1> SUFFICES ASSUME TypeInv, [Next]_vars PROVE TypeInv'
  OBVIOUS
<1> USE RetentionBoundAssumption
<1>t. TypeOK
  BY DEF TypeInv
<1>c. count \in CountType
  BY <1>t DEF TypeOK
<1>r. ASSUME count.runs < MaxRuns, count' = [count EXCEPT !.runs = @ + 1]
      PROVE  count' \in CountType /\ count'.applies = count.applies
  <2>1. count' \in CountType
    BY <1>c, <1>r, CountUp, Zenon
  <2> QED BY <1>c, <1>r, <2>1 DEF CountType
<1>d. ASSUME count.drift < MaxDrift, count' = [count EXCEPT !.drift = @ + 1]
      PROVE  count' \in CountType /\ count'.applies = count.applies
  <2>1. count' \in CountType
    BY <1>c, <1>d, CountUp, Zenon
  <2> QED BY <1>c, <1>d, <2>1 DEF CountType
<1>1. CASE \E s \in Session, a \in Archive : StartRun(s, a)
  <2> PICK s \in Session, a \in Archive : StartRun(s, a)
    BY <1>1
  <2>1. count' \in CountType /\ count'.applies = count.applies
    BY <1>r DEF StartRun
  <2> QED BY <2>1 DEF StartRun, TypeInv, TypeOK, others
<1>2. ASSUME NEW kind \in {"ctx", "gist"}, NEW next \in {"gist", "row"},
             WriteArtifact(kind, next)
      PROVE  TypeInv'
  <2>1. writer \in [pc : {"ctx", "gist", "row"}, s : Session, archive : Archive]
    BY <1>t, <1>2, Writing DEF WriteArtifact, Idle
  <2>2. writer' \in [pc : {"ctx", "gist", "row"}, s : Session, archive : Archive]
    BY <1>2, <2>1 DEF WriteArtifact
  <2>3. count.runs \in Content /\ Link \in Content
    <3>1. count.runs = 0 \/ count.runs \in 1..MaxRuns + 1
      BY <1>t DEF TypeOK, CountType
    <3> QED BY <3>1 DEF Content
  <2>4. disk' \in [File -> Content]
    BY <1>2, <1>t, <2>3 DEF WriteArtifact, TypeOK
  <2> QED BY <1>2, <2>2, <2>4 DEF WriteArtifact, TypeInv, TypeOK, others
<1>3. CASE AppendRow
  <2>1. [s |-> writer.s, archive |-> writer.archive] \in Row
    BY <1>t, <1>3, Writing DEF AppendRow, Idle, Row
  <2>2. journal' \in Seq(Row)
    BY <1>3, <1>t, <2>1, AppendProperties DEF AppendRow, TypeOK
  <2> QED BY <1>3, <2>2 DEF AppendRow, TypeInv, TypeOK, others
<1>4. CASE WriterDies
  <2>1. count' \in CountType /\ count'.applies = count.applies
    BY <1>4, <1>d DEF WriterDies
  <2> QED BY <1>4, <2>1 DEF WriterDies, TypeInv, TypeOK, others
<1>5. CASE \E f \in File, c \in {0, Link, MaxRuns + 1} : FileChanges(f, c)
  <2> PICK f \in File, c \in {0, Link, MaxRuns + 1} : FileChanges(f, c)
    BY <1>5
  <2>1. c \in Content
    BY DEF Content
  <2>2. disk' \in [File -> Content]
    BY <1>t, <2>1 DEF FileChanges, TypeOK
  <2>3. count' \in CountType /\ count'.applies = count.applies
    BY <1>d DEF FileChanges, Drift
  <2> QED BY <2>2, <2>3 DEF FileChanges, Drift, TypeInv, TypeOK, others
<1>6. CASE JournalTorn \/ RootBecomesLink
  <2>1. count' \in CountType /\ count'.applies = count.applies
    BY <1>6, <1>d DEF JournalTorn, RootBecomesLink, Drift
  <2> QED BY <1>6, <2>1 DEF JournalTorn, RootBecomesLink, Drift, TypeInv, TypeOK, others
<1>7. CASE \E keep \in 1..MaxRuns : Plan(keep)
  <2> PICK keep \in 1..MaxRuns : Plan(keep)
    BY <1>7
  <2>1. keep \in Nat
    BY RetentionBoundAssumption
  <2>2. confirmed' \in PlanType
    BY <1>t, <2>1, PlanOfType DEF Plan, TypeOK
  <2> QED BY <2>2 DEF Plan, TypeInv, TypeOK
<1>8. CASE ApplyReadsJournal
  <2>1. confirmed \in PlanType
    BY <1>8, <1>t DEF ApplyReadsJournal, TypeOK
  <2>2. apply' \in ApplyType
    BY <1>8, <1>t, <2>1 DEF ApplyReadsJournal, TypeOK, ApplyType, CountType, Skips
  <2>3. count' \in CountType
        /\ count'.applies > 0
    <3>1. count' \in CountType
      BY <1>8, <1>c, CountUp, Zenon DEF ApplyReadsJournal
    <3> QED BY <1>8, <1>c, <3>1 DEF ApplyReadsJournal, CountType
  <2> QED BY <1>8, <2>2, <2>3 DEF ApplyReadsJournal, TypeInv, TypeOK, others
<1>9. CASE ApplyMatches
  <2>1. apply \in ApplyType /\ apply # Idle
    BY <1>9, <1>t, Active DEF ApplyMatches, ToDelete, Idle
  <2>2. {e[1] : e \in apply.plan.delete} \subseteq File
    BY <2>1 DEF ApplyType, PlanType, Entries
  <2>3. apply' \in ApplyType
    BY <1>9, <2>1, <2>2 DEF ApplyMatches, ToDelete, ApplyType, PlanType
  <2> QED BY <1>9, <2>1, <2>3 DEF ApplyMatches, ToDelete, TypeInv, TypeOK, others
<1>10. CASE ApplyMismatch
  BY <1>10 DEF ApplyMismatch, TypeInv, TypeOK, others
<1>11. ASSUME NEW f \in File, GuardPasses(f) PROVE TypeInv'
  <2>1. apply \in ApplyType /\ apply # Idle
    BY <1>11, <1>t, Active DEF GuardPasses, Deleting, Idle
  <2>2. apply' \in ApplyType
    BY <1>11, <2>1 DEF GuardPasses, ApplyType
  <2> QED BY <1>11, <2>1, <2>2 DEF GuardPasses, TypeInv, TypeOK, others
<1>12. ASSUME NEW f \in File, GuardSkips(f) PROVE TypeInv'
  <2>1. apply \in ApplyType /\ apply # Idle
    BY <1>12, <1>t, Active DEF GuardSkips, Deleting, Idle
  <2>2. <<f, SkipReasonNow(f)>> \in File \X Reason
    BY DEF SkipReasonNow, Reason
  <2>3. apply' \in ApplyType
    BY <1>12, <2>1, <2>2 DEF GuardSkips, ApplyType, Skips
  <2> QED BY <1>12, <2>1, <2>3 DEF GuardSkips, TypeInv, TypeOK, others
<1>13. ASSUME NEW f \in File, Remove(f) PROVE TypeInv'
  <2>1. apply \in ApplyType /\ apply # Idle
    BY <1>13, <1>t, Active DEF Remove, Idle
  <2>2. apply' \in ApplyType
    BY <1>13, <2>1 DEF Remove, ApplyType
  <2>3. disk' \in [File -> Content] /\ disk[f] \in Content
    BY <1>13, <1>t DEF Remove, TypeOK, Content
  <2>4. count.applies \in 1..MaxApplies
    BY <2>1 DEF TypeInv, TypeOK, CountType
  <2>5. unlinked' \subseteq (File \X Content \X (1..MaxApplies))
    BY <1>13, <1>t, <2>3, <2>4 DEF Remove, TypeOK
  <2> QED BY <1>13, <2>1, <2>2, <2>3, <2>5 DEF Remove, TypeInv, TypeOK
<1>14. ASSUME NEW f \in File, RemoveFails(f) PROVE TypeInv'
  <2>1. apply \in ApplyType /\ apply # Idle
    BY <1>14, <1>t, Active DEF RemoveFails, Idle
  <2>2. <<f, "unlink_failed">> \in File \X Reason
    BY DEF Reason
  <2>3. apply' \in ApplyType
    BY <1>14, <2>1, <2>2 DEF RemoveFails, ApplyType, Skips
  <2> QED BY <1>14, <2>1, <2>3 DEF RemoveFails, TypeInv, TypeOK, others
<1>15. CASE GuardStops
  <2>1. apply \in ApplyType /\ apply # Idle
    BY <1>15, <1>t, Active DEF GuardStops, Deleting, Idle
  <2>2. apply.todo \X {"ledger_root_link"} \in Skips
    BY <2>1 DEF ApplyType, Skips, Reason
  <2>3. apply' \in ApplyType
    BY <1>15, <2>1, <2>2 DEF GuardStops, ApplyType, Skips
  <2> QED BY <1>15, <2>1, <2>3 DEF GuardStops, TypeInv, TypeOK, others
<1>16. CASE WriteReceipt
  <2>1. apply \in ApplyType /\ apply # Idle
    BY <1>16, <1>t, Active DEF WriteReceipt, Idle
  <2>2. count.applies \in 1..MaxApplies
    BY <2>1 DEF TypeInv, TypeOK, CountType
  <2> DEFINE receipt == [apply |-> count.applies, plan |-> apply.plan,
                         deleted |-> apply.deleted, skipped |-> apply.skipped]
             Receipt == [apply : 1..MaxApplies, plan : PlanType,
                         deleted : SUBSET File, skipped : Skips]
  <2>3. receipt \in Receipt
    BY <2>1, <2>2 DEF ApplyType
  <2>4. receipts \in Seq(Receipt)
    BY <1>t DEF TypeOK
  <2>5. receipts' = Append(receipts, receipt) \/ receipts' = receipts
    BY <1>16 DEF WriteReceipt
  <2> HIDE DEF receipt, Receipt
  <2>6. receipts' \in Seq(Receipt)
    BY <2>3, <2>4, <2>5, AppendProperties
  <2> USE DEF Receipt
  <2> QED BY <1>16, <2>6 DEF WriteReceipt, TypeInv, TypeOK
<1>17. CASE ApplyDies
  <2>1. count' \in CountType /\ count'.applies = count.applies
    BY <1>17, <1>d DEF ApplyDies
  <2> QED BY <1>17, <2>1 DEF ApplyDies, TypeInv, TypeOK, others
<1>18. CASE UNCHANGED vars
  BY <1>18 DEF vars, TypeInv, TypeOK, Content
<1> QED
  BY <1>1, <1>2, <1>3, <1>4, <1>5, <1>6, <1>7, <1>8, <1>9, <1>10, <1>11,
     <1>12, <1>13, <1>14, <1>15, <1>16, <1>17, <1>18
     DEF Next, WriteCtx, WriteGist

\* Every reachable state is well typed: a receipt names session artifacts
\* only, and each skip has one of the codes of Reason.
THEOREM TypeCorrect == Spec => []TypeOK
<1>1. Spec => []TypeInv
  BY TypeInit, TypeNext, PTL DEF Spec
<1>2. TypeInv => TypeOK
  BY DEF TypeInv
<1> QED BY <1>1, <1>2, PTL

(***************************************************************************)
(* Receipts: what the apply in progress has done so far accounts for every *)
(* file of its plan, so the receipt it writes does.                        *)
(***************************************************************************)
RemovedBy(n) == {u[1] : u \in {v \in unlinked : v[3] = n}}
DisjointPlan(plan) == Paths(plan.delete) \cap Paths(plan.skipped) = {}

Accounts(a) ==
    /\ a.plan.skipped \subseteq a.skipped
    /\ Paths(a.plan.delete) = a.todo \cup a.hand \cup a.deleted
                                 \cup Paths(a.skipped \ a.plan.skipped)
    /\ (a.todo \cup a.hand) \cap (a.deleted \cup Paths(a.skipped)) = {}
    /\ a.todo \cap a.hand = {}
    /\ a.deleted \cap Paths(a.skipped) = {}

ReceiptOf(r) ==
    /\ r.deleted = RemovedBy(r.apply)
    /\ r.plan.skipped \subseteq r.skipped
    /\ Paths(r.plan.delete) = r.deleted \cup Paths(r.skipped \ r.plan.skipped)
    /\ r.deleted \cap Paths(r.skipped) = {}

ReceiptInv ==
    /\ \A u \in unlinked : u[3] <= count.applies
    /\ \A i \in DOMAIN receipts :
         /\ receipts[i].apply <= count.applies
         /\ apply # Idle => receipts[i].apply < count.applies
         /\ ReceiptOf(receipts[i])
    /\ confirmed # NoPlan => DisjointPlan(confirmed)
    /\ apply # Idle =>
         /\ DisjointPlan(apply.plan)
         /\ apply.deleted = RemovedBy(count.applies)
         /\ apply.pc = "compare" => apply.deleted = {} /\ apply.hand = {}
         /\ apply.pc = "delete" => Accounts(apply)

\* T is S and a skip of each file of X, none of which S skips
SkipsAdded(S, P, X, r, T) ==
    P \subseteq S /\ X \cap Paths(S) = {} /\ T = S \cup (X \X {r})
PathsAdded(S, P, X, T) ==
    Paths(T) = Paths(S) \cup X /\ Paths(T \ P) = Paths(S \ P) \cup X

LEMMA SkipAccounts ==
    ASSUME NEW S, NEW P, NEW X, NEW r, NEW T, SkipsAdded(S, P, X, r, T)
    PROVE  PathsAdded(S, P, X, T)
<1> DEFINE new == X \X {r}
<1>1. Paths(new) = X
  <2>1. ASSUME NEW x \in X PROVE x \in Paths(new)
    <3>1. <<x, r>> \in new /\ <<x, r>>[1] = x
      OBVIOUS
    <3> QED BY <3>1 DEF Paths
  <2>2. ASSUME NEW e \in new PROVE e[1] \in X
    OBVIOUS
  <2> QED BY <2>1, <2>2 DEF Paths
<1>2. new \cap P = {}
  <2>1. ASSUME NEW e \in new, e \in P PROVE FALSE
    <3>1. e[1] \in X
      OBVIOUS
    <3>2. e[1] \in Paths(S)
      BY <2>1 DEF Paths, SkipsAdded
    <3> QED BY <3>1, <3>2 DEF SkipsAdded
  <2> QED BY <2>1
<1>0. T = S \cup new
  BY DEF SkipsAdded
<1> HIDE DEF new
<1>3. (S \cup new) \ P = (S \ P) \cup new
  BY <1>2
<1>4. \A A, B : Paths(A \cup B) = Paths(A) \cup Paths(B)
  BY DEF Paths
<1> QED BY <1>0, <1>1, <1>3, <1>4, Zenon DEF PathsAdded

LEMMA ReceiptNumber ==
    ASSUME TypeOK, NEW i \in DOMAIN receipts
    PROVE  receipts[i].apply \in 1..MaxApplies
<1> DEFINE Receipt == [apply : 1..MaxApplies, plan : PlanType,
                       deleted : SUBSET File, skipped : Skips]
<1>1. receipts \in Seq(Receipt)
  BY DEF TypeOK
<1>2. receipts[i] \in Receipt
  <2> HIDE DEF Receipt
  <2> QED BY <1>1, LenProperties, ElementOfSeq
<1> QED BY <1>2

LEMMA ReceiptInit == Init => ReceiptInv
  BY DEF Init, ReceiptInv, Idle

LEMMA ReceiptNext == TypeInv /\ ReceiptInv /\ [Next]_vars => ReceiptInv'
<1> SUFFICES ASSUME TypeInv, ReceiptInv, [Next]_vars PROVE ReceiptInv'
  OBVIOUS
<1>t. TypeOK
  BY DEF TypeInv
<1>c. count \in CountType
  BY <1>t DEF TypeOK
\* what leaves receipts, unlinked, plans and the apply alone changes nothing
<1>q. ASSUME UNCHANGED <<receipts, unlinked>>, count'.applies = count.applies,
             apply' = apply \/ apply' = Idle,
             confirmed' = confirmed \/ DisjointPlan(confirmed')
      PROVE  ReceiptInv'
  <2>1. \A n : RemovedBy(n)' = RemovedBy(n)
    BY <1>q DEF RemovedBy
  <2>2. \A i \in DOMAIN receipts : ReceiptOf(receipts[i])'
    BY <1>q, <2>1 DEF ReceiptInv, ReceiptOf
  <2>3. CASE apply' = apply
    BY <1>q, <2>1, <2>2, <2>3 DEF ReceiptInv, ReceiptOf, Accounts
  <2>4. CASE apply' = Idle
    BY <1>q, <2>1, <2>2, <2>4 DEF ReceiptInv, ReceiptOf
  <2> QED BY <1>q, <2>3, <2>4
<1>d. ASSUME NEW k \in {"runs", "drift"}, count' = [count EXCEPT ![k] = @ + 1]
      PROVE  count'.applies = count.applies
  BY <1>c, <1>d DEF CountType
\* a step of the apply between its journal read and its receipt, that
\* removes nothing
<1>a. ASSUME apply # Idle, UNCHANGED <<receipts, unlinked, confirmed, count>>,
             apply'.plan = apply.plan, apply'.deleted = apply.deleted,
             apply'.pc = "delete", Accounts(apply')
      PROVE  ReceiptInv'
  <2>1. \A n : RemovedBy(n)' = RemovedBy(n)
    BY <1>a DEF RemovedBy
  <2>2. \A i \in DOMAIN receipts : ReceiptOf(receipts[i])'
    BY <1>a, <2>1 DEF ReceiptInv, ReceiptOf
  <2> QED BY <1>a, <2>1, <2>2 DEF ReceiptInv
<1>1. CASE \E s \in Session, a \in Archive : StartRun(s, a)
  <2> PICK s \in Session, a \in Archive : StartRun(s, a)
    BY <1>1
  <2>1. count'.applies = count.applies
    BY <1>c DEF StartRun, CountType
  <2> QED BY <1>q, <2>1 DEF StartRun, others
<1>2. CASE WriteCtx \/ WriteGist \/ AppendRow
  BY <1>2, <1>q DEF WriteCtx, WriteGist, WriteArtifact, AppendRow, others
<1>3. CASE WriterDies \/ JournalTorn \/ RootBecomesLink \/ ApplyDies
  <2>1. count'.applies = count.applies
    BY <1>3, <1>c DEF WriterDies, JournalTorn, RootBecomesLink, ApplyDies, Drift, CountType
  <2> QED BY <1>3, <1>q, <2>1
        DEF WriterDies, JournalTorn, RootBecomesLink, ApplyDies, Drift, others
<1>4. CASE \E f \in File, c \in {0, Link, MaxRuns + 1} : FileChanges(f, c)
  <2> PICK f \in File, c \in {0, Link, MaxRuns + 1} : FileChanges(f, c)
    BY <1>4
  <2>1. count'.applies = count.applies
    BY <1>c DEF FileChanges, Drift, CountType
  <2> QED BY <1>q, <2>1 DEF FileChanges, Drift, others
<1>5. CASE \E keep \in 1..MaxRuns : Plan(keep)
  BY <1>5, <1>q, PlanDisjoint DEF Plan, DisjointPlan
<1>6. CASE ApplyReadsJournal
  <2> PICK n \in Nat : n = count.applies + 1
    BY <1>c, RetentionBoundAssumption DEF CountType
  <2>1. count'.applies = n /\ n > count.applies /\ n \in Nat
    BY <1>6, <1>c, RetentionBoundAssumption DEF ApplyReadsJournal, CountType
  <2>2. /\ apply' # Idle /\ apply'.pc = "compare" /\ apply'.plan = confirmed
        /\ apply'.deleted = {} /\ apply'.hand = {}
    BY <1>6 DEF ApplyReadsJournal, Idle
  <2>3. UNCHANGED <<receipts, unlinked, confirmed>> /\ confirmed # NoPlan
    BY <1>6 DEF ApplyReadsJournal, others
  <2>4. ASSUME NEW u \in unlinked PROVE u[3] < n /\ u[3] \in Nat
    BY <1>t, <1>c, <2>1 DEF ReceiptInv, TypeOK, CountType
  <2>5. RemovedBy(n)' = {}
    BY <2>3, <2>4 DEF RemovedBy
  <2>6. \A m : RemovedBy(m)' = RemovedBy(m)
    BY <2>3 DEF RemovedBy
  <2>7. ASSUME NEW i \in DOMAIN receipts
        PROVE  receipts[i].apply < n /\ ReceiptOf(receipts[i])'
    <3>1. receipts[i].apply <= count.applies /\ ReceiptOf(receipts[i])
      BY DEF ReceiptInv
    <3>2. receipts[i].apply \in 1..MaxApplies
      BY <1>t, ReceiptNumber
    <3>3. receipts[i].apply < n
      BY <3>1, <3>2, <2>1, <1>c DEF CountType
    <3>4. ReceiptOf(receipts[i])'
      BY <3>1, <2>3, <2>6 DEF ReceiptOf
    <3> QED BY <3>3, <3>4
  <2>8. \A u \in unlinked' : u[3] <= count'.applies
    BY <2>1, <2>3, <2>4, <1>t DEF TypeOK
  <2>9. \A i \in DOMAIN receipts' :
          /\ receipts'[i].apply <= count'.applies
          /\ receipts'[i].apply < count'.applies
          /\ ReceiptOf(receipts[i])'
    <3> TAKE i \in DOMAIN receipts'
    <3>1. receipts[i].apply < n /\ ReceiptOf(receipts[i])'
      BY <2>3, <2>7
    <3>2. receipts[i].apply \in 1..MaxApplies
      BY <1>t, <2>3, ReceiptNumber
    <3> QED BY <2>1, <2>3, <3>1, <3>2
  <2>10. DisjointPlan(confirmed)
    BY <2>3 DEF ReceiptInv
  <2> QED BY <2>1, <2>2, <2>3, <2>5, <2>8, <2>9, <2>10 DEF ReceiptInv
<1>7. CASE ApplyMatches
  <2>1. apply \in ApplyType /\ apply # Idle
    BY <1>7, <1>t, Active DEF ApplyMatches, ToDelete, Idle
  <2>2. /\ apply'.plan = apply.plan /\ apply'.deleted = {} /\ apply'.hand = {}
        /\ apply'.pc = "delete" /\ apply'.skipped = apply.plan.skipped
        /\ apply'.todo = Paths(apply.plan.delete)
    BY <1>7, <2>1 DEF ApplyMatches, ToDelete, ApplyType, ReceiptInv, Paths
  <2>3. apply.deleted = {} /\ DisjointPlan(apply.plan)
    BY <1>7, <2>1 DEF ApplyMatches, ToDelete, ReceiptInv
  <2>4. Accounts(apply')
    BY <2>2, <2>3 DEF Accounts, DisjointPlan, Paths
  <2> QED BY <1>7, <1>a, <2>1, <2>2, <2>3, <2>4 DEF ApplyMatches, ToDelete, others
<1>8. CASE ApplyMismatch
  BY <1>8, <1>q DEF ApplyMismatch, others
<1>9. ASSUME NEW f \in File, GuardPasses(f) PROVE ReceiptInv'
  <2>1. apply \in ApplyType /\ apply # Idle /\ apply.pc = "delete"
    BY <1>9, <1>t, Active DEF GuardPasses, Deleting, Idle
  <2>2. /\ apply'.plan = apply.plan /\ apply'.deleted = apply.deleted
        /\ apply'.skipped = apply.skipped /\ apply'.pc = "delete"
        /\ apply'.todo = apply.todo \ {f} /\ apply'.hand = {f}
        /\ f \in apply.todo /\ apply.hand = {}
    BY <1>9, <2>1 DEF GuardPasses, Deleting, ApplyType
  <2>3. Accounts(apply)
    BY <2>1 DEF ReceiptInv
  <2>4. Accounts(apply')
    BY <2>2, <2>3 DEF Accounts
  <2> QED BY <1>9, <1>a, <2>1, <2>2, <2>4 DEF GuardPasses, others
\* some files in hand or still to do are skipped for a reason
<1>10. ASSUME apply # Idle, apply.pc = "delete",
              UNCHANGED <<receipts, unlinked, confirmed, count>>,
              apply'.plan = apply.plan, apply'.deleted = apply.deleted,
              apply'.pc = "delete",
              \E X \in SUBSET File, r \in Reason :
                 /\ X \subseteq apply.todo \cup apply.hand
                 /\ apply'.todo \cup apply'.hand = (apply.todo \cup apply.hand) \ X
                 /\ apply'.todo \cap apply'.hand = {}
                 /\ apply'.skipped = apply.skipped \cup (X \X {r})
       PROVE  ReceiptInv'
  <2> PICK X \in SUBSET File, r \in Reason :
         /\ X \subseteq apply.todo \cup apply.hand
         /\ apply'.todo \cup apply'.hand = (apply.todo \cup apply.hand) \ X
         /\ apply'.todo \cap apply'.hand = {}
         /\ apply'.skipped = apply.skipped \cup (X \X {r})
    BY <1>10
  <2>1. Accounts(apply)
    BY <1>10 DEF ReceiptInv
  <2>2. /\ Paths(apply'.skipped) = Paths(apply.skipped) \cup X
        /\ Paths(apply'.skipped \ apply.plan.skipped)
             = Paths(apply.skipped \ apply.plan.skipped) \cup X
    <3>1. apply.plan.skipped \subseteq apply.skipped /\ X \cap Paths(apply.skipped) = {}
      BY <1>10, <2>1 DEF Accounts
    <3> PICK S, P, T : /\ S = apply.skipped /\ P = apply.plan.skipped
                       /\ T = apply'.skipped
      OBVIOUS
    <3>2. SkipsAdded(S, P, X, r, T)
      BY <3>1 DEF SkipsAdded
    <3>3. PathsAdded(S, P, X, T)
      BY <3>2, SkipAccounts
    <3> QED BY <3>3 DEF PathsAdded
  <2>3. Accounts(apply')
    BY <1>10, <2>1, <2>2 DEF Accounts
  <2> QED BY <1>10, <1>a, <2>3
<1>11. ASSUME NEW f \in File, GuardSkips(f) PROVE ReceiptInv'
  <2>1. apply \in ApplyType /\ apply # Idle /\ apply.pc = "delete"
    BY <1>11, <1>t, Active DEF GuardSkips, Deleting, Idle
  <2> PICK r \in Reason : r = SkipReasonNow(f)
    BY DEF SkipReasonNow, Reason
  <2>2. /\ apply'.plan = apply.plan /\ apply'.deleted = apply.deleted
        /\ apply'.skipped = apply.skipped \cup {<<f, r>>} /\ apply'.pc = "delete"
        /\ apply'.todo = apply.todo \ {f} /\ apply'.hand = {}
        /\ f \in apply.todo /\ apply.hand = {}
        /\ UNCHANGED <<receipts, unlinked, confirmed, count>>
    BY <1>11, <2>1 DEF GuardSkips, Deleting, ApplyType, others
  <2>3. {<<f, r>>} = {f} \X {r}
    OBVIOUS
  <2>4. apply.todo \in SUBSET File
    BY <2>1 DEF ApplyType
  <2>5. /\ {f} \in SUBSET File /\ {f} \subseteq apply.todo \cup apply.hand
        /\ apply'.todo \cup apply'.hand = (apply.todo \cup apply.hand) \ {f}
        /\ apply'.todo \cap apply'.hand = {}
        /\ apply'.skipped = apply.skipped \cup ({f} \X {r})
    BY <2>2, <2>3, <2>4
  <2> QED BY <2>1, <2>2, <2>5, <1>10
<1>12. ASSUME NEW f \in File, RemoveFails(f) PROVE ReceiptInv'
  <2>1. apply \in ApplyType /\ apply # Idle /\ apply.pc = "delete"
    BY <1>12, <1>t, Active DEF RemoveFails, Idle
  <2>2. /\ apply'.plan = apply.plan /\ apply'.deleted = apply.deleted
        /\ apply'.skipped = apply.skipped \cup {<<f, "unlink_failed">>}
        /\ apply'.pc = "delete"
        /\ apply'.todo = apply.todo /\ apply'.hand = {}
        /\ UNCHANGED <<receipts, unlinked, confirmed, count>>
    BY <1>12, <2>1 DEF RemoveFails, ApplyType, others
  <2>3. apply.hand = {f}
    BY <1>12 DEF RemoveFails
  <2>4. {<<f, "unlink_failed">>} = {f} \X {"unlink_failed"}
    OBVIOUS
  <2>5. Accounts(apply)
    BY <2>1 DEF ReceiptInv
  <2>6. /\ {f} \in SUBSET File /\ {f} \subseteq apply.todo \cup apply.hand
        /\ apply'.todo \cup apply'.hand = (apply.todo \cup apply.hand) \ {f}
        /\ apply'.todo \cap apply'.hand = {}
        /\ apply'.skipped = apply.skipped \cup ({f} \X {"unlink_failed"})
    BY <2>2, <2>3, <2>4, <2>5 DEF Accounts
  <2>7. "unlink_failed" \in Reason
    BY DEF Reason
  <2> QED BY <2>1, <2>2, <2>6, <2>7, <1>10
<1>13. CASE GuardStops
  <2>1. apply \in ApplyType /\ apply # Idle /\ apply.pc = "delete" /\ apply.hand = {}
    BY <1>13, <1>t, Active DEF GuardStops, Deleting, Idle
  <2>2. /\ apply'.plan = apply.plan /\ apply'.deleted = apply.deleted
        /\ apply'.skipped = apply.skipped \cup (apply.todo \X {"ledger_root_link"})
        /\ apply'.pc = "delete" /\ apply'.todo = {} /\ apply'.hand = {}
        /\ UNCHANGED <<receipts, unlinked, confirmed, count>>
    BY <1>13, <2>1 DEF GuardStops, ApplyType, others
  <2>3. apply.todo \in SUBSET File
    BY <2>1 DEF ApplyType
  <2>4. "ledger_root_link" \in Reason
    BY DEF Reason
  <2> QED BY <2>1, <2>2, <2>3, <2>4, <1>10
<1>14. ASSUME NEW f \in File, Remove(f) PROVE ReceiptInv'
  <2> PICK n \in Nat : n = count.applies
    BY <1>c, RetentionBoundAssumption DEF CountType
  <2> PICK u : u = <<f, disk[f], n>>
    OBVIOUS
  <2>1. apply \in ApplyType /\ apply # Idle /\ apply.pc = "delete"
    BY <1>14, <1>t, Active DEF Remove, Idle
  <2>2. /\ apply'.plan = apply.plan /\ apply'.deleted = apply.deleted \cup {f}
        /\ apply'.skipped = apply.skipped /\ apply'.pc = "delete"
        /\ apply'.todo = apply.todo /\ apply'.hand = {} /\ f \in apply.hand
        /\ UNCHANGED <<receipts, confirmed, count>>
        /\ unlinked' = unlinked \cup {u}
    BY <1>14, <2>1 DEF Remove, ApplyType
  <2>3. n \in Nat /\ u[1] = f /\ u[3] = n
    BY <1>c, RetentionBoundAssumption DEF CountType
  <2>4. RemovedBy(n)' = RemovedBy(n) \cup {f}
    BY <2>2, <2>3 DEF RemovedBy
  <2>5. ASSUME NEW m, m # n PROVE RemovedBy(m)' = RemovedBy(m)
    BY <2>2, <2>3, <2>5 DEF RemovedBy
  <2>6. \A v \in unlinked' : v[3] <= count'.applies
    BY <2>2, <2>3 DEF ReceiptInv
  <2>7. ASSUME NEW i \in DOMAIN receipts
        PROVE  receipts[i].apply < n /\ ReceiptOf(receipts[i])'
    <3>1. receipts[i].apply < n /\ ReceiptOf(receipts[i])
      BY <2>1 DEF ReceiptInv
    <3>2. receipts[i].apply \in 1..MaxApplies
      BY <1>t, ReceiptNumber
    <3>3. RemovedBy(receipts[i].apply)' = RemovedBy(receipts[i].apply)
      BY <3>1, <3>2, <2>2, <2>3, <2>5
    <3> QED BY <3>1, <3>3, <2>2 DEF ReceiptOf
  <2>8. Accounts(apply)
    BY <2>1 DEF ReceiptInv
  <2>9. apply.hand = {f}
    BY <1>14 DEF Remove
  <2>10. Accounts(apply')
    BY <2>2, <2>8, <2>9 DEF Accounts
  <2>11. apply.deleted = RemovedBy(n) /\ DisjointPlan(apply.plan)
    BY <2>1 DEF ReceiptInv
  <2>12. apply' # Idle
    BY <2>2 DEF Idle
  <2>13. \A i \in DOMAIN receipts' :
           /\ receipts'[i].apply <= count'.applies
           /\ receipts'[i].apply < count'.applies
           /\ ReceiptOf(receipts[i])'
    <3> TAKE i \in DOMAIN receipts'
    <3>1. receipts[i].apply \in 1..MaxApplies
      BY <1>t, <2>2, ReceiptNumber
    <3> QED BY <2>2, <2>3, <2>7, <3>1
  <2>14. count'.applies = n
    BY <2>2
  <2> QED BY <2>2, <2>4, <2>6, <2>10, <2>11, <2>12, <2>13, <2>14 DEF ReceiptInv
<1>15. CASE WriteReceipt
  <2>1. apply \in ApplyType /\ apply # Idle /\ apply.pc = "delete"
    BY <1>15, <1>t, Active DEF WriteReceipt, Idle
  <2>2. /\ apply' = Idle /\ apply.todo = {} /\ apply.hand = {}
        /\ UNCHANGED <<unlinked, confirmed, count>>
    BY <1>15 DEF WriteReceipt
  <2>3. CASE receipts' = receipts
    BY <1>q, <2>2, <2>3
  <2> PICK r : r = [apply |-> count.applies, plan |-> apply.plan,
                    deleted |-> apply.deleted, skipped |-> apply.skipped]
    OBVIOUS
  <2>4. CASE receipts' = Append(receipts, r)
    <3>1. \A m : RemovedBy(m)' = RemovedBy(m)
      BY <2>2 DEF RemovedBy
    <3>2. \E R : receipts \in Seq(R)
      BY <1>t DEF TypeOK
    <3>3. ASSUME NEW i \in DOMAIN receipts'
          PROVE  (i \in DOMAIN receipts /\ receipts'[i] = receipts[i]) \/ receipts'[i] = r
      BY <2>4, <3>2, AppendProperties, LenProperties
    <3>4. Accounts(apply) /\ apply.deleted = RemovedBy(count.applies)
      BY <2>1 DEF ReceiptInv
    <3>5. ReceiptOf(r) /\ r.apply = count.applies
      BY <2>2, <3>4 DEF ReceiptOf, Accounts
    <3>6. \A x : ReceiptOf(x)' = ReceiptOf(x)
      BY <3>1 DEF ReceiptOf
    <3>7. count.applies \in Nat
      BY <1>c, RetentionBoundAssumption DEF CountType
    <3>8. ASSUME NEW i \in DOMAIN receipts'
          PROVE  receipts'[i].apply <= count.applies /\ ReceiptOf(receipts[i])'
      <4> PICK x : x = receipts'[i]
        OBVIOUS
      <4>1. x.apply <= count.applies /\ ReceiptOf(x)
        BY <3>3, <3>5, <3>7 DEF ReceiptInv
      <4>2. ReceiptOf(x)'
        BY <4>1, <3>6
      <4> QED BY <4>1, <4>2
    <3> QED BY <2>2, <3>8 DEF ReceiptInv
  <2> QED BY <1>15, <2>3, <2>4 DEF WriteReceipt
<1>16. CASE UNCHANGED vars
  BY <1>16, <1>q DEF vars
<1> QED
  BY <1>1, <1>2, <1>3, <1>4, <1>5, <1>6, <1>7, <1>8, <1>9, <1>11, <1>12,
     <1>13, <1>14, <1>15, <1>16 DEF Next

\* Every receipt accounts for its plan: what it calls deleted is what that
\* apply removed, and every file of the plan is deleted or skipped, not both -
\* whatever checkpoints, swaps, failures and crashes come between.
THEOREM ReceiptsAccount == Spec => []ReceiptAccounts
<1>1. TypeInv /\ ReceiptInv /\ [Next]_vars => TypeInv' /\ ReceiptInv'
  BY TypeNext, ReceiptNext
<1>2. Spec => [](TypeInv /\ ReceiptInv)
  BY TypeInit, ReceiptInit, <1>1, PTL DEF Spec
<1>3. ReceiptInv => ReceiptAccounts
  BY DEF ReceiptInv, ReceiptOf, ReceiptAccounts, RemovedBy
<1> QED BY <1>2, <1>3, PTL

(***************************************************************************)
(* Nothing else runs during an apply: the directory it deletes from is the *)
(* one the plan was confirmed for, so a deleted file belongs to a session  *)
(* outside the window and holds what the plan says.                        *)
(***************************************************************************)
LEMMA LastRowIs ==
    ASSUME NEW j \in Seq(Row), NEW s \in SessionsIn(j)
    PROVE  /\ LastRow(j, s) \in 1..Len(j)
           /\ j[LastRow(j, s)].s = s
           /\ \A k \in 1..Len(j) : j[k].s = s => k <= LastRow(j, s)
<1> DEFINE rows == {i \in 1..Len(j) : j[i].s = s}
<1>1. Len(j) \in Nat /\ DOMAIN j = 1..Len(j)
  BY LenProperties
<1>2. rows # {} /\ rows \in SUBSET (1..Len(j))
  BY <1>1 DEF SessionsIn
<1>3. \E i \in rows : \A k \in rows : k <= i
  <2> HIDE DEF rows
  <2> QED BY <1>1, <1>2, GreatestPosition
<1>4. \E i \in DOMAIN j : j[i].s = s /\ \A k \in DOMAIN j : j[k].s = s => k <= i
  BY <1>1, <1>3
<1> QED BY <1>1, <1>4 DEF LastRow

\* The sessions that count as newer are those with a row after every row of s.
LEMMA NewerMeansLater ==
    ASSUME NEW j \in Seq(Row), NEW s \in SessionsIn(j)
    PROVE  Newer(j, s) = Cardinality(
             {x \in SessionsIn(j) : \E i \in DOMAIN j :
                j[i].s = x /\ \A k \in i..Len(j) : j[k].s # s})
<1> DEFINE later(x) == \E i \in DOMAIN j :
                         j[i].s = x /\ \A k \in i..Len(j) : j[k].s # s
<1>1. Len(j) \in Nat /\ DOMAIN j = 1..Len(j)
  BY LenProperties
<1>2. ASSUME NEW x \in SessionsIn(j)
      PROVE  LastRow(j, x) > LastRow(j, s) <=> later(x)
  <2>1. /\ LastRow(j, s) \in 1..Len(j)
        /\ j[LastRow(j, s)].s = s
        /\ \A k \in 1..Len(j) : j[k].s = s => k <= LastRow(j, s)
    BY LastRowIs
  <2>2. /\ LastRow(j, x) \in 1..Len(j)
        /\ j[LastRow(j, x)].s = x
        /\ \A k \in 1..Len(j) : j[k].s = x => k <= LastRow(j, x)
    BY LastRowIs
  <2>3. ASSUME LastRow(j, x) > LastRow(j, s) PROVE later(x)
    <3>1. ASSUME NEW k \in LastRow(j, x)..Len(j) PROVE j[k].s # s
      <4>1. k \in 1..Len(j) /\ ~(k <= LastRow(j, s))
        BY <1>1, <2>1, <2>2, <2>3
      <4> QED BY <4>1, <2>1
    <3> QED BY <1>1, <2>2, <3>1
  <2>4. ASSUME later(x) PROVE LastRow(j, x) > LastRow(j, s)
    <3> PICK i \in 1..Len(j) : j[i].s = x /\ \A k \in i..Len(j) : j[k].s # s
      BY <1>1, <2>4
    <3>1. i <= LastRow(j, x)
      BY <2>2
    <3>2. LastRow(j, s) \notin i..Len(j)
      BY <2>1
    <3> QED BY <1>1, <2>1, <2>2, <3>1, <3>2
  <2> QED BY <2>3, <2>4
<1>3. {x \in SessionsIn(j) : LastRow(j, x) > LastRow(j, s)}
       = {x \in SessionsIn(j) : later(x)}
  <2> HIDE DEF later
  <2> QED BY <1>2
<1> QED BY <1>3 DEF Newer

Old(j, keep, f) ==
    \E s \in SessionsIn(j) : Owners(j, f) = {s} /\ keep <= Newer(j, s)

\* A plan deletes only what is old, as it is on disk.
LEMMA PlanOld ==
    ASSUME NEW j \in Seq(Row), NEW keep \in Nat, NEW e \in PlanOf(j, keep).delete
    PROVE  /\ e[1] \in File
           /\ e = <<e[1], disk[e[1]]>>
           /\ Old(j, keep, e[1])
<1> PICK f \in Candidates(j) : /\ e = <<f, disk[f]>>
                               /\ Owners(j, f) \cap Kept(j, keep) = {}
  BY DEF PlanOf
<1>1. f \in File /\ Owners(j, f) # {} /\ ~(Cardinality(Owners(j, f)) > 1)
  BY DEF Candidates, Present, SkipReason
<1>2. IsFiniteSet(Owners(j, f))
  BY SessionsInType, FS_Subset DEF Owners
<1>3. Cardinality(Owners(j, f)) = 1
  <2>1. Cardinality(Owners(j, f)) \in Nat /\ Cardinality(Owners(j, f)) # 0
    BY <1>1, <1>2, FS_CardinalityType, FS_EmptySet
  <2> QED BY <1>1, <2>1
<1>4. PICK s : Owners(j, f) = {s}
  BY <1>2, <1>3, FS_Singleton
<1>5. s \in SessionsIn(j) /\ s \notin Kept(j, keep)
  BY <1>4 DEF Owners
<1>6. keep <= Newer(j, s)
  BY <1>5, NewerType DEF Kept
<1> QED BY <1>1, <1>4, <1>5, <1>6 DEF Old

QuietBody ==
    apply # Idle =>
      /\ writer = Idle
      /\ apply.rows = journal
      /\ apply.pc = "delete" =>
           /\ \A f \in apply.todo \cup apply.hand : <<f, disk[f]>> \in apply.plan.delete
           /\ \A e \in apply.plan.delete : Old(journal, apply.plan.keep, e[1])

QuietInv == ~count.concurrent => QuietBody

\* The schedule of a behaviour is chosen once.
LEMMA ScheduleStays == TypeInv /\ [Next]_vars => count'.concurrent = count.concurrent
<1> SUFFICES ASSUME TypeInv, [Next]_vars PROVE count'.concurrent = count.concurrent
  OBVIOUS
<1>1. PICK r \in 0..MaxRuns, d \in 0..MaxDrift, a \in 0..MaxApplies, b \in Concurrent :
         count = [runs |-> r, drift |-> d, applies |-> a, concurrent |-> b]
  BY DEF TypeInv, TypeOK, CountType
<1>2. \/ UNCHANGED count
      \/ count' = [count EXCEPT !.runs = @ + 1]
      \/ count' = [count EXCEPT !.drift = @ + 1]
      \/ count' = [count EXCEPT !.applies = @ + 1]
  BY DEF Next, vars, others, StartRun, WriteCtx, WriteGist, WriteArtifact,
       AppendRow, WriterDies, FileChanges, Drift, JournalTorn, RootBecomesLink,
       Plan, ApplyReadsJournal, ApplyMatches, ToDelete, ApplyMismatch, GuardPasses,
       GuardSkips, GuardStops, Remove, RemoveFails, WriteReceipt, ApplyDies
<1> QED BY <1>1, <1>2

LEMMA QuietNext == TypeInv /\ ReceiptInv /\ QuietInv /\ [Next]_vars => QuietInv'
<1> SUFFICES ASSUME TypeInv, ReceiptInv, QuietBody, [Next]_vars, ~count.concurrent
             PROVE  QuietBody'
  BY ScheduleStays DEF QuietInv
<1>t. TypeOK
  BY DEF TypeInv
<1>1. CASE \E s \in Session, a \in Archive : StartRun(s, a)
  BY <1>1 DEF StartRun, QuietBody
<1>2. CASE WriteCtx \/ WriteGist \/ AppendRow \/ WriterDies
  BY <1>2 DEF WriteCtx, WriteGist, WriteArtifact, AppendRow, WriterDies, QuietBody, Idle
<1>3. CASE \E f \in File, c \in {0, Link, MaxRuns + 1} : FileChanges(f, c)
  BY <1>3 DEF FileChanges, Drift, QuietBody
<1>4. CASE JournalTorn \/ RootBecomesLink
  BY <1>4 DEF JournalTorn, RootBecomesLink, Drift, QuietBody
<1>5. CASE \E keep \in 1..MaxRuns : Plan(keep)
  BY <1>5 DEF Plan, QuietBody
<1>6. CASE ApplyReadsJournal
  <2>1. writer' = Idle /\ apply'.rows = journal' /\ apply'.pc = "compare"
    BY <1>6 DEF ApplyReadsJournal
  <2> QED BY <2>1 DEF QuietBody
<1>7. CASE ApplyMatches
  <2>1. apply \in ApplyType /\ apply # Idle
    BY <1>7, <1>t, Active DEF ApplyMatches, ToDelete, Idle
  <2>2. /\ apply'.plan = apply.plan /\ apply'.rows = apply.rows
        /\ apply'.todo = Paths(apply.plan.delete) /\ apply'.hand = {}
        /\ UNCHANGED <<disk, journal, writer>>
    BY <1>7, <2>1 DEF ApplyMatches, ToDelete, ApplyType, ReceiptInv, Paths
  <2>3. apply.rows = journal /\ writer = Idle
    BY <2>1 DEF QuietBody
  <2>4. apply.plan = PlanOf(journal, apply.plan.keep)
    BY <1>7, <2>3 DEF ApplyMatches, ToDelete, Matches
  <2>5. journal \in Seq(Row) /\ apply.plan.keep \in Nat
    BY <1>t, <2>1 DEF TypeOK, ApplyType, PlanType
  <2>6. ASSUME NEW e \in apply.plan.delete
        PROVE  e = <<e[1], disk[e[1]]>> /\ Old(journal, apply.plan.keep, e[1])
    BY <2>4, <2>5, PlanOld
  <2>7. \A f \in Paths(apply.plan.delete) : <<f, disk[f]>> \in apply.plan.delete
    BY <2>6 DEF Paths
  <2> QED BY <2>2, <2>3, <2>6, <2>7 DEF QuietBody
<1>8. CASE ApplyMismatch \/ ApplyDies \/ WriteReceipt
  BY <1>8 DEF ApplyMismatch, ApplyDies, WriteReceipt, QuietBody
\* the rest of the deletions
<1>9. ASSUME apply # Idle, apply.pc = "delete", UNCHANGED <<journal, writer>>,
             apply'.plan = apply.plan, apply'.rows = apply.rows,
             apply'.todo \cup apply'.hand \subseteq apply.todo \cup apply.hand,
             \A f \in apply'.todo \cup apply'.hand : disk'[f] = disk[f]
      PROVE  QuietBody'
  BY <1>9 DEF QuietBody
<1>10. ASSUME NEW f \in File, GuardPasses(f) \/ GuardSkips(f) PROVE QuietBody'
  <2>1. apply \in ApplyType /\ apply # Idle
    BY <1>10, <1>t, Active DEF GuardPasses, GuardSkips, Deleting, Idle
  <2>2. /\ apply'.plan = apply.plan /\ apply'.rows = apply.rows
        /\ apply'.todo \cup apply'.hand \subseteq apply.todo \cup apply.hand
    <3>1. CASE GuardPasses(f)
      BY <2>1, <3>1 DEF GuardPasses, Deleting, ApplyType
    <3>2. CASE GuardSkips(f)
      BY <2>1, <3>2 DEF GuardSkips, Deleting, ApplyType
    <3> QED BY <1>10, <3>1, <3>2
  <2> QED BY <1>9, <1>10, <2>1, <2>2 DEF GuardPasses, GuardSkips, Deleting
<1>11. ASSUME NEW f \in File, Remove(f) PROVE QuietBody'
  <2>1. apply \in ApplyType /\ apply # Idle /\ apply.pc = "delete"
    BY <1>11, <1>t, Active DEF Remove, Idle
  <2>2. /\ apply'.plan = apply.plan /\ apply'.rows = apply.rows
        /\ apply'.todo = apply.todo /\ apply'.hand = {} /\ apply.hand = {f}
        /\ UNCHANGED <<journal, writer>>
    BY <1>11, <2>1 DEF Remove, ApplyType
  <2>3. f \notin apply.todo
    BY <2>1, <2>2 DEF ReceiptInv, Accounts
  <2>4. \A g \in apply.todo : disk'[g] = disk[g]
    BY <1>11, <1>t, <2>1, <2>3 DEF Remove, TypeOK, ApplyType
  <2> QED BY <1>9, <2>1, <2>2, <2>4
<1>12. ASSUME NEW f \in File, RemoveFails(f) PROVE QuietBody'
  <2>1. apply \in ApplyType /\ apply # Idle
    BY <1>12, <1>t, Active DEF RemoveFails, Idle
  <2>2. /\ apply'.plan = apply.plan /\ apply'.rows = apply.rows
        /\ apply'.todo \cup apply'.hand \subseteq apply.todo \cup apply.hand
    BY <1>12, <2>1 DEF RemoveFails, ApplyType
  <2> QED BY <1>9, <1>12, <2>1, <2>2 DEF RemoveFails
<1>13. CASE GuardStops
  <2>1. apply \in ApplyType /\ apply # Idle
    BY <1>13, <1>t, Active DEF GuardStops, Deleting, Idle
  <2>2. /\ apply'.plan = apply.plan /\ apply'.rows = apply.rows
        /\ apply'.todo \cup apply'.hand \subseteq apply.todo \cup apply.hand
    BY <1>13, <2>1 DEF GuardStops, Deleting, ApplyType
  <2> QED BY <1>9, <1>13, <2>1, <2>2 DEF GuardStops, Deleting
<1>14. CASE UNCHANGED vars
  BY <1>14 DEF vars, QuietBody
<1> QED
  BY <1>1, <1>2, <1>3, <1>4, <1>5, <1>6, <1>7, <1>8, <1>10, <1>11, <1>12,
     <1>13, <1>14 DEF Next

\* Only os.remove adds to what was unlinked, and what it removes was in hand.
LEMMA UnlinkedByRemove ==
    ASSUME [Next]_vars, NEW u \in unlinked' \ unlinked
    PROVE  \E f \in File : Remove(f) /\ u = <<f, disk[f], count.applies>>
<1>1. CASE \E f \in File : Remove(f)
  BY <1>1 DEF Remove
<1>2. CASE ~\E f \in File : Remove(f)
  BY <1>2 DEF Next, vars, others, StartRun, WriteCtx, WriteGist, WriteArtifact,
       AppendRow, WriterDies, FileChanges, Drift, JournalTorn, RootBecomesLink,
       Plan, ApplyReadsJournal, ApplyMatches, ToDelete, ApplyMismatch, GuardPasses,
       GuardSkips, GuardStops, RemoveFails, WriteReceipt, ApplyDies
<1> QED BY <1>1, <1>2

QuietDelete ==
    \A u \in unlinked' \ unlinked :
      /\ <<u[1], u[2]>> \in apply.plan.delete
      /\ Old(journal, apply.plan.keep, u[1])

LEMMA QuietDeletes ==
    TypeInv /\ QuietInv /\ ~count.concurrent /\ [Next]_vars => QuietDelete
<1> SUFFICES ASSUME TypeInv, QuietBody, [Next]_vars, NEW u \in unlinked' \ unlinked
             PROVE  /\ <<u[1], u[2]>> \in apply.plan.delete
                    /\ Old(journal, apply.plan.keep, u[1])
  BY DEF QuietDelete, QuietInv
<1>1. PICK f \in File : Remove(f) /\ u = <<f, disk[f], count.applies>>
  BY UnlinkedByRemove
<1>2. apply # Idle /\ apply.pc = "delete" /\ f \in apply.hand
  BY <1>1 DEF Remove, Idle
<1>3. <<f, disk[f]>> \in apply.plan.delete
  BY <1>2 DEF QuietBody
<1>4. <<f, disk[f]>>[1] = f /\ u[1] = f /\ u[2] = disk[f]
  BY <1>1
<1>5. Old(journal, apply.plan.keep, f)
  <2>1. \A e \in apply.plan.delete : Old(journal, apply.plan.keep, e[1])
    BY <1>2 DEF QuietBody
  <2> QED BY <1>3, <1>4, <2>1
<1> QED BY <1>3, <1>4, <1>5

LEMMA Quiet ==
    Spec => [](TypeInv /\ ReceiptInv /\ QuietInv)
<1>1. Init => QuietInv
  BY DEF Init, QuietInv, QuietBody
<1>2. TypeInv /\ ReceiptInv /\ QuietInv /\ [Next]_vars
        => TypeInv' /\ ReceiptInv' /\ QuietInv'
  BY TypeNext, ReceiptNext, QuietNext
<1> QED BY TypeInit, ReceiptInit, <1>1, <1>2, PTL DEF Spec

\* When nothing races the apply, every byte it removes was confirmed.
THEOREM DeletesOnlyTheConfirmed ==
    Spec => DeletesWhatWasConfirmed
<1>1. TypeInv /\ QuietInv /\ [Next]_vars
        => [~count.concurrent =>
              \A u \in unlinked' \ unlinked : <<u[1], u[2]>> \in apply.plan.delete]_vars
  BY QuietDeletes DEF QuietDelete
<1> QED BY Quiet, <1>1, PTL DEF Spec, DeletesWhatWasConfirmed

\* When nothing races the apply, a session loses a file only if the file is
\* its alone and at least `keep' sessions were checkpointed after it.
THEOREM WindowSurvives ==
    Spec => OnlyOldSessionsLose
<1> DEFINE lost(u) ==
      \E s \in SessionsIn(journal) :
        /\ \A x \in SessionsIn(journal) : PrefixOf[x] = u[1][1] => x = s
        /\ apply.plan.keep <= Cardinality(
             {x \in SessionsIn(journal) : \E i \in DOMAIN journal :
                /\ journal[i].s = x
                /\ \A k \in i..Len(journal) : journal[k].s # s})
<1>1. ASSUME TypeInv, QuietInv, ~count.concurrent, [Next]_vars, NEW u \in unlinked' \ unlinked
      PROVE  lost(u)
  <2>1. Old(journal, apply.plan.keep, u[1])
    BY <1>1, QuietDeletes DEF QuietDelete
  <2> PICK s \in SessionsIn(journal) : /\ Owners(journal, u[1]) = {s}
                                       /\ apply.plan.keep <= Newer(journal, s)
    BY <2>1 DEF Old
  <2>2. journal \in Seq(Row)
    BY <1>1 DEF TypeInv, TypeOK
  <2>3. \A x \in SessionsIn(journal) : PrefixOf[x] = u[1][1] => x = s
    BY DEF Owners
  <2> QED BY <2>2, <2>3, NewerMeansLater
<1>2. TypeInv /\ QuietInv /\ [Next]_vars
        => [~count.concurrent => \A u \in unlinked' \ unlinked : lost(u)]_vars
  BY <1>1
<1> QED BY Quiet, <1>2, PTL DEF Spec, OnlyOldSessionsLose

-----------------------------------------------------------------------------
(***************************************************************************)
(* What may race the apply.  A file that is still to be removed is as it   *)
(* was confirmed, or not a file by now, or was written since the apply     *)
(* began, by a checkpoint or by hand: nothing else changes a file.         *)
(***************************************************************************)
Known(f) ==
    \/ <<f, disk[f]>> \in apply.plan.delete
    \/ disk[f] \in {0, Link}
    \/ disk[f] \in Nat /\ disk[f] >= apply.asof
RaceInv ==
    apply # Idle =>
      /\ apply.asof <= count.runs
      /\ apply.pc = "delete" => \A f \in apply.todo \cup apply.hand : Known(f)

\* A step keeps what is known of the files the apply still has to remove if it
\* leaves each of them alone or changes it to something known.
LEMMA RaceKept ==
    ASSUME TypeInv, RaceInv, apply # Idle,
           apply'.plan = apply.plan, apply'.asof = apply.asof,
           count.runs <= count'.runs, count'.runs \in Nat,
           \/ apply'.pc = "compare"
           \/ /\ apply.pc = "delete"
              /\ apply'.todo \cup apply'.hand \subseteq apply.todo \cup apply.hand,
           \A f \in apply'.todo \cup apply'.hand :
              \/ disk'[f] = disk[f]
              \/ disk'[f] \in {0, Link}
              \/ disk'[f] \in Nat /\ disk'[f] >= apply.asof
    PROVE  RaceInv'
<1>1. apply.asof \in Nat /\ count.runs \in Nat
  <2>1. apply \in ApplyType /\ count \in CountType
    BY DEF TypeInv, TypeOK
  <2>2. apply.asof \in 0..MaxRuns /\ count.runs \in 0..MaxRuns
    BY <2>1 DEF ApplyType, CountType
  <2> QED BY <2>2, RetentionBoundAssumption
<1>2. apply'.asof <= count'.runs
  BY <1>1 DEF RaceInv
<1>3. ASSUME apply'.pc = "delete", NEW f \in apply'.todo \cup apply'.hand
      PROVE  Known(f)'
  <2>1. f \in apply.todo \cup apply.hand /\ apply.pc = "delete"
    BY <1>3
  <2>2. Known(f)
    BY <2>1 DEF RaceInv
  <2> QED BY <1>3, <2>2 DEF Known
<1> QED BY <1>2, <1>3 DEF RaceInv

LEMMA RaceNext == TypeInv /\ ReceiptInv /\ RaceInv /\ [Next]_vars => RaceInv'
<1> SUFFICES ASSUME TypeInv, ReceiptInv, RaceInv, [Next]_vars PROVE RaceInv'
  OBVIOUS
<1>t. /\ TypeOK /\ count \in CountType /\ disk \in [File -> Content]
      /\ apply # Idle => apply \in ApplyType
  BY DEF TypeInv, TypeOK
<1>n. count.runs \in 0..MaxRuns /\ MaxRuns \in Nat /\ count.runs \in Nat
  BY <1>t, RetentionBoundAssumption DEF CountType
<1>i. apply' = Idle => RaceInv'
  BY DEF RaceInv
<1>c. ASSUME NEW k \in {"drift", "applies"}, count' = [count EXCEPT ![k] = @ + 1]
      PROVE  count'.runs = count.runs
  BY <1>c, <1>t DEF CountType
<1>u. ASSUME UNCHANGED <<apply, disk>>, count'.runs = count.runs PROVE RaceInv'
  BY <1>u DEF RaceInv, Known
<1>1. CASE \E s \in Session, a \in Archive : StartRun(s, a)
  <2>1. UNCHANGED <<apply, disk>> /\ count' = [count EXCEPT !.runs = @ + 1]
    BY <1>1 DEF StartRun
  <2>2. count'.runs = count.runs + 1
    BY <1>t, <2>1 DEF CountType
  <2>3. count.runs <= count'.runs /\ count'.runs \in Nat
    BY <1>n, <2>2
  <2>4. CASE apply # Idle
    <3>1. apply.pc \in {"compare", "delete"}
      BY <1>t, <2>4 DEF ApplyType
    <3> QED BY <2>1, <2>3, <2>4, <3>1, RaceKept
  <2> QED BY <1>i, <2>1, <2>4
<1>2. ASSUME NEW kind, NEW next, WriteArtifact(kind, next) PROVE RaceInv'
  <2>1. UNCHANGED <<apply, count>>
    BY <1>2 DEF WriteArtifact
  <2>2. CASE apply # Idle
    <3>1. apply.pc \in {"compare", "delete"} /\ apply.todo \cup apply.hand \subseteq File
      BY <1>t, <2>2 DEF ApplyType
    <3>2. apply.asof <= count.runs
      BY <2>2 DEF RaceInv
    <3>3. ASSUME NEW f \in File
          PROVE  \/ disk'[f] = disk[f]
                 \/ disk'[f] \in {0, Link}
                 \/ disk'[f] \in Nat /\ disk'[f] >= apply.asof
      <4>1. disk'[f] = disk[f] \/ disk'[f] = Link \/ disk'[f] = count.runs
        BY <1>2, <1>t DEF WriteArtifact
      <4> QED BY <1>n, <3>2, <4>1
    <3> QED BY <1>n, <2>1, <2>2, <3>1, <3>3, RaceKept
  <2> QED BY <1>i, <2>1, <2>2
<1>3. CASE AppendRow \/ WriterDies \/ JournalTorn \/ RootBecomesLink
  BY <1>3, <1>u, <1>c DEF AppendRow, WriterDies, JournalTorn, RootBecomesLink, Drift
<1>4. ASSUME NEW g \in File, NEW c \in {0, Link, MaxRuns + 1}, FileChanges(g, c)
      PROVE  RaceInv'
  <2>1. UNCHANGED apply /\ count'.runs = count.runs
    BY <1>4, <1>c DEF FileChanges, Drift
  <2>2. CASE apply # Idle
    <3>1. apply.pc \in {"compare", "delete"} /\ apply.todo \cup apply.hand \subseteq File
      BY <1>t, <2>2 DEF ApplyType
    <3>2. apply.asof <= count.runs /\ apply.asof \in 0..MaxRuns
      BY <1>t, <2>2 DEF RaceInv, ApplyType
    <3>3. ASSUME NEW f \in File
          PROVE  \/ disk'[f] = disk[f]
                 \/ disk'[f] \in {0, Link}
                 \/ disk'[f] \in Nat /\ disk'[f] >= apply.asof
      <4>1. disk'[f] = disk[f] \/ disk'[f] = c
        BY <1>4, <1>t DEF FileChanges
      <4>2. c \in {0, Link} \/ (c \in Nat /\ c >= apply.asof)
        BY <1>n, <3>2
      <4> QED BY <4>1, <4>2
    <3> QED BY <1>n, <2>1, <2>2, <3>1, <3>3, RaceKept
  <2> QED BY <1>i, <2>1, <2>2
<1>5. CASE \E keep \in 1..MaxRuns : Plan(keep)
  BY <1>5, <1>u DEF Plan
<1>6. CASE ApplyReadsJournal
  <2>1. apply'.pc = "compare" /\ apply'.asof = count.runs /\ count'.runs = count.runs
    BY <1>6, <1>c DEF ApplyReadsJournal
  <2> QED BY <1>n, <2>1 DEF RaceInv
<1>7. CASE ApplyMatches
  <2>1. apply \in ApplyType /\ apply # Idle
    BY <1>7, <1>t, Active DEF ApplyMatches, ToDelete, Idle
  <2>2. /\ apply'.plan = apply.plan /\ apply'.asof = apply.asof
        /\ apply'.todo = Paths(apply.plan.delete) /\ apply'.hand = {}
        /\ UNCHANGED <<disk, count>>
    BY <1>7, <2>1 DEF ApplyMatches, ToDelete, ApplyType, ReceiptInv, Paths
  <2>3. apply.plan = PlanOf(apply.rows, apply.plan.keep)
    BY <1>7 DEF ApplyMatches, ToDelete, Matches
  <2>4. apply.rows \in Seq(Row) /\ apply.plan.keep \in Nat
    BY <2>1 DEF ApplyType, PlanType
  <2>5. \A e \in apply.plan.delete : e = <<e[1], disk[e[1]]>>
    BY <2>3, <2>4, PlanOld
  <2>6. \A f \in Paths(apply.plan.delete) : <<f, disk[f]>> \in apply.plan.delete
    BY <2>5 DEF Paths
  <2>7. apply.asof <= count.runs
    BY <2>1 DEF RaceInv
  <2> QED BY <2>2, <2>6, <2>7 DEF RaceInv, Known
<1>8. CASE ApplyMismatch \/ ApplyDies \/ WriteReceipt
  BY <1>8, <1>i DEF ApplyMismatch, ApplyDies, WriteReceipt
\* the rest of the deletions
<1>9. ASSUME apply # Idle, apply.pc = "delete", UNCHANGED count,
             apply'.plan = apply.plan, apply'.asof = apply.asof,
             apply'.todo \cup apply'.hand \subseteq apply.todo \cup apply.hand,
             \A f \in File : disk'[f] \in {disk[f], 0}
      PROVE  RaceInv'
  <2>1. apply.todo \cup apply.hand \subseteq File
    BY <1>9, <1>t DEF ApplyType
  <2>2. \A f \in apply'.todo \cup apply'.hand : disk'[f] \in {disk[f], 0}
    BY <1>9, <2>1
  <2> QED BY <1>9, <1>n, <2>2, RaceKept
<1>10. ASSUME NEW f \in File, GuardPasses(f) \/ GuardSkips(f) \/ RemoveFails(f)
       PROVE  RaceInv'
  <2>1. apply \in ApplyType /\ apply # Idle /\ apply.pc = "delete" /\ UNCHANGED <<disk, count>>
    BY <1>10, <1>t, Active DEF GuardPasses, GuardSkips, RemoveFails, Deleting, Idle
  <2>2. /\ apply'.plan = apply.plan /\ apply'.asof = apply.asof
        /\ apply'.todo \cup apply'.hand \subseteq apply.todo \cup apply.hand
    <3>1. CASE GuardPasses(f)
      BY <2>1, <3>1 DEF GuardPasses, Deleting, ApplyType
    <3>2. CASE GuardSkips(f)
      BY <2>1, <3>2 DEF GuardSkips, Deleting, ApplyType
    <3>3. CASE RemoveFails(f)
      BY <2>1, <3>3 DEF RemoveFails, ApplyType
    <3> QED BY <1>10, <3>1, <3>2, <3>3
  <2> QED BY <1>9, <2>1, <2>2
<1>11. ASSUME NEW f \in File, Remove(f) PROVE RaceInv'
  <2>1. apply \in ApplyType /\ apply # Idle /\ apply.pc = "delete" /\ UNCHANGED count
    BY <1>11, <1>t, Active DEF Remove, Idle
  <2>2. /\ apply'.plan = apply.plan /\ apply'.asof = apply.asof
        /\ apply'.todo = apply.todo /\ apply'.hand = {}
    BY <1>11, <2>1 DEF Remove, ApplyType
  <2>3. \A g \in File : disk'[g] \in {disk[g], 0}
    BY <1>11, <1>t DEF Remove
  <2> QED BY <1>9, <2>1, <2>2, <2>3
<1>12. CASE GuardStops
  <2>1. apply \in ApplyType /\ apply # Idle /\ apply.pc = "delete" /\ UNCHANGED <<disk, count>>
    BY <1>12, <1>t, Active DEF GuardStops, Deleting, Idle
  <2>2. /\ apply'.plan = apply.plan /\ apply'.asof = apply.asof
        /\ apply'.todo \cup apply'.hand \subseteq apply.todo \cup apply.hand
    BY <1>12, <2>1 DEF GuardStops, Deleting, ApplyType
  <2> QED BY <1>9, <2>1, <2>2
<1>13. CASE UNCHANGED vars
  BY <1>13, <1>u DEF vars
<1> QED
  BY <1>1, <1>2, <1>3, <1>4, <1>5, <1>6, <1>7, <1>8, <1>10, <1>11, <1>12, <1>13
     DEF Next, WriteCtx, WriteGist

\* What goes unconfirmed came after the apply began.
LEMMA LossIsLate ==
    ASSUME TypeInv, RaceInv, [Next]_vars, NEW u \in unlinked' \ unlinked
    PROVE  \/ <<u[1], u[2]>> \in apply.plan.delete
           \/ u[2] = Link
           \/ u[2] >= apply.asof
<1>1. PICK f \in File : Remove(f) /\ u = <<f, disk[f], count.applies>>
  BY UnlinkedByRemove
<1>2. apply # Idle /\ apply.pc = "delete" /\ f \in apply.hand /\ disk[f] # 0
  BY <1>1 DEF Remove, Idle
<1>3. Known(f)
  BY <1>2 DEF RaceInv
<1>4. u[1] = f /\ u[2] = disk[f]
  BY <1>1
<1> QED BY <1>2, <1>3, <1>4 DEF Known

\* An apply that exits with 0 removed all it was to remove.
LEMMA ZeroMeansRemoved ==
    ASSUME TypeInv, ReceiptInv, [Next]_vars,
           apply # Idle, apply' = Idle, ExitCode(receipts' # receipts) = 0,
           NEW e \in apply.plan.delete
    PROVE  \E u \in unlinked : u[1] = e[1] /\ u[3] = count.applies
<1>1. apply.skipped = {} /\ receipts' # receipts
  BY DEF ExitCode
<1>2. WriteReceipt
  BY <1>1 DEF Next, vars, others, StartRun, WriteCtx, WriteGist, WriteArtifact,
       AppendRow, WriterDies, FileChanges, Drift, JournalTorn, RootBecomesLink,
       Plan, ApplyReadsJournal, ApplyMatches, ToDelete, ApplyMismatch, GuardPasses,
       GuardSkips, GuardStops, Remove, RemoveFails, ApplyDies
<1>3. apply.pc = "delete" /\ apply.todo = {} /\ apply.hand = {}
  BY <1>2 DEF WriteReceipt
<1>4. Accounts(apply) /\ apply.deleted = RemovedBy(count.applies)
  BY <1>3 DEF ReceiptInv
<1>5. Paths(apply.skipped \ apply.plan.skipped) = {}
  BY <1>1 DEF Paths
<1>6. Paths(apply.plan.delete) = RemovedBy(count.applies)
  BY <1>3, <1>4, <1>5 DEF Accounts
<1>7. e[1] \in RemovedBy(count.applies)
  BY <1>6 DEF Paths
<1> QED BY <1>7 DEF RemovedBy

\* Whatever races the apply, what it removes unconfirmed was written after it
\* began, and if it exits with 0 it removed all it confirmed (apply_retention).
THEOREM LossTakesOverlap == Spec => LossNeedsOverlap
<1>1. Init => RaceInv
  BY DEF Init, RaceInv
<1>2. Spec => [](TypeInv /\ ReceiptInv /\ RaceInv)
  <2>1. TypeInv /\ ReceiptInv /\ RaceInv /\ [Next]_vars
          => TypeInv' /\ ReceiptInv' /\ RaceInv'
    BY TypeNext, ReceiptNext, RaceNext
  <2> QED BY TypeInit, ReceiptInit, <1>1, <2>1, PTL DEF Spec
<1>3. TypeInv /\ ReceiptInv /\ RaceInv /\ [Next]_vars =>
        [/\ \A u \in unlinked' \ unlinked :
              \/ <<u[1], u[2]>> \in apply.plan.delete
              \/ u[2] = Link
              \/ u[2] >= apply.asof
         /\ apply # Idle /\ apply' = Idle /\ ExitCode(receipts' # receipts) = 0 =>
              \A e \in apply.plan.delete : \E u \in unlinked :
                  u[1] = e[1] /\ u[3] = count.applies]_vars
  BY LossIsLate, ZeroMeansRemoved
<1> QED BY <1>2, <1>3, PTL DEF Spec, LossNeedsOverlap

\* Receipts of an apply are typed and account for its plan, whatever races it
\* (apply_retention).
THEOREM ReceiptsStaySound == Spec => []ReceiptsAreSound
<1>1. TypeOK /\ ReceiptAccounts => ReceiptsAreSound
  BY DEF ReceiptsAreSound
<1> QED BY <1>1, TypeCorrect, ReceiptsAccount, PTL

=============================================================================
