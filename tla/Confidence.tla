----------------------------- MODULE Confidence -----------------------------
(***************************************************************************)
(* ctxpack/core/confidence.py: observed confidence that fades with time,   *)
(* kept in a JSON file, and what modules/dream.py makes of the hydration   *)
(* log: observations and gaps.                                             *)
(*                                                                         *)
(* Confidence is a number of thousandths, rounded down; a tick of the      *)
(* clock is the time in which gamma halves it (two weeks at 0.95 a day).   *)
(***************************************************************************)
EXTENDS Integers, Sequences, FiniteSets, SequencesExt

CONSTANTS
    Name, Exists,       \* sections agents ask for, and those the catalog has
    Gain,               \* 1/alpha
    PruneBelow,         \* in thousandths
    MinCount,           \* _DEFAULT_MIN_CO_OCCURRENCES
    MaxSteps, MaxClock

VARIABLES
    records,    \* the tracker in memory, <<>> for an unknown name
    file,       \* the saved tracker
    hydrations, \* the telemetry log
    clock, steps

confVars == <<records, file, hydrations, clock, steps>>

Full == 1000
Rec(c, at, yes, no) == [c |-> c, at |-> at, yes |-> yes, no |-> no]
Unknown == Rec(-1, 0, 0, 0)
Known == {n \in Name : records[n] # Unknown}

\* (mutant) half of what is missing
RaiseByHalf(c) == c + (Full - c) \div 2
Raise(c) == c + (Full - c) \div Gain
Lower(c) == c \div 2
Decayed(c, ticks) == c \div 2 ^ ticks

\* get_confidence: the stored value, decayed since the last observation
View(r, t) == IF r = Unknown THEN 0 ELSE Decayed(r.c, t - r.at)

ConfInit ==
    /\ records = [n \in Name |-> Unknown] /\ file = records
    /\ hydrations = <<>> /\ clock = 0 /\ steps = 0

Step == steps < MaxSteps /\ steps' = steps + 1
Wait == clock < MaxClock /\ clock' = clock + 1 /\ UNCHANGED <<records, file, hydrations, steps>>

\* observe: the value as it was stored, whatever has decayed since
Observed(r, confirmed) ==
    LET old == IF r = Unknown THEN Rec(0, clock, 0, 0) ELSE r IN
    IF confirmed THEN Rec(Raise(old.c), clock, old.yes + 1, old.no)
                 ELSE Rec(Lower(old.c), clock, old.yes, old.no + 1)

\* a query logs what it asked for and how much of it matched; observe_hydration
\* then confirms, or contradicts, the sections that the answer used
Hydrated(asked, question, confirmed) ==
    /\ Step
    /\ records' = [n \in Name |-> IF n \in asked \cap Exists THEN Observed(records[n], confirmed)
                                  ELSE records[n]]
    /\ hydrations' = Append(hydrations, [asked |-> asked, q |-> question,
                                         matched |-> Cardinality(asked \cap Exists)])
    /\ UNCHANGED <<file, clock>>

DecayedNow(r) == IF r = Unknown THEN r ELSE [r EXCEPT !.c = Decayed(r.c, clock - r.at), !.at = clock]

ApplyDecay ==
    /\ Step
    /\ records' = [n \in Name |->
         LET r == DecayedNow(records[n]) IN IF r.c < PruneBelow THEN Unknown ELSE r]
    /\ UNCHANGED <<file, hydrations, clock>>

\* written beside the file and moved over it
Save == Step /\ file' = records /\ UNCHANGED <<records, hydrations, clock>>
\* another process, or this one after a crash
Load == Step /\ records' = file /\ UNCHANGED <<file, hydrations, clock>>

ConfNext ==
    \/ Wait
    \/ \E u \in SUBSET Name, q \in {"q1", "q2"}, ok \in BOOLEAN : Hydrated(u, q, ok)
    \/ ApplyDecay \/ Save \/ Load

(***************************************************************************)
(* consolidate: what was asked for in vain, above the threshold.           *)
(***************************************************************************)
Misses(q) == {i \in DOMAIN hydrations : hydrations[i].q = q /\ hydrations[i].matched = 0}
MissedTerms == {[q |-> q, count |-> Cardinality(Misses(q))] :
            q \in {x \in {"q1", "q2"} : Cardinality(Misses(x)) >= MinCount}}

-----------------------------------------------------------------------------
\* the most that n confirmations can give
RECURSIVE Ceiling(_)
Ceiling(n) == IF n = 0 THEN 0 ELSE LET c == Ceiling(n - 1) IN c + (Full - c) \div Gain

(* Trust needs repetition: whatever was decayed, pruned, saved or loaded   *)
(* in between, a record is never worth more than its own confirmations     *)
(* could give it, and a contradiction last halves that.                    *)
EvidenceBounds == \A n \in Known : records[n].c <= Ceiling(records[n].yes)

(* Writing the decay through changes nothing that a reader can see, then   *)
(* or later, of the records it keeps: no stretch of time counts twice.     *)
DecayCountsOnce ==
    [][ApplyDecay => \A n \in Name : records'[n] # Unknown =>
          \A t \in clock..MaxClock : View(records'[n], t) = View(records[n], t)]_confVars

(* A gap is what the catalog could not answer: it counts no query that    *)
(* any section answered, though patterns count sections that were only     *)
(* asked for.                                                              *)
GapsObserveNothing ==
    \A g \in MissedTerms : g.count =
        Cardinality({i \in DOMAIN hydrations : /\ hydrations[i].q = g.q
                                                /\ hydrations[i].asked \cap Exists = {}})

(* Confidence is what was observed: bounded by the confirmations, decayed  *)
(* once for each stretch of time, with gaps that nothing answered.         *)
ConfidenceIsEarned ==
    /\ [](EvidenceBounds /\ GapsObserveNothing)
    /\ DecayCountsOnce

=============================================================================
