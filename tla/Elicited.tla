------------------------------ MODULE Elicited ------------------------------
(***************************************************************************)
(* ctxpack/modules/elicit.py behind `ctxpack elicit`: facts of one expert  *)
(* that others confirm or challenge.  Each command loads the store, works  *)
(* on its copy and moves the new file over the old one; a command that     *)
(* raises, or dies before that move, leaves the store as it was.           *)
(*                                                                         *)
(* Confidence is kept in units that halve exactly MaxChallenges times.     *)
(***************************************************************************)
EXTENDS Integers, Sequences, FiniteSets

CONSTANTS Fact, Expert, Text, MaxChallenges, MaxCommands

VARIABLES store, commands
elicitVars == <<store, commands>>

Initial == 70 * 2 ^ MaxChallenges       \* _INITIAL_CONFIDENCE
Confirmed == 95 * 2 ^ MaxChallenges     \* _CONFIRMED_CONFIDENCE
NoExpert == "none"
NotKept == [by |-> NoExpert]

ElicitInit == store = [f \in Fact |-> NotKept] /\ commands = 0

Saved(f, rec) ==
    /\ commands < MaxCommands /\ commands' = commands + 1
    /\ store' = [store EXCEPT ![f] = rec]

\* only the original expert may add a fact again
MayAdd(f, e) == store[f] = NotKept \/ store[f].by = e

NewFact(e, text) ==
    [by |-> e, text |-> text, conf |-> Initial, confirmer |-> NoExpert,
     more |-> {}, against |-> {}, halved |-> 0]
\* (mutant) a fact added again starts again
Restarted(f, text) == NewFact(store[f].by, text)
Reworded(f, text) == [store[f] EXCEPT !.text = text]

Add(f, e, text) ==
    /\ MayAdd(f, e)
    /\ Saved(f, IF store[f] = NotKept THEN NewFact(e, text) ELSE Reworded(f, text))

\* one cannot confirm or challenge what one said
MaySpeak(f, e) == store[f] # NotKept /\ store[f].by # e

Confirm(f, e) ==
    /\ MaySpeak(f, e)
    /\ LET r == store[f] IN Saved(f,
         IF r.confirmer = NoExpert
         THEN [r EXCEPT !.confirmer = e, !.conf = IF r.conf > Confirmed THEN r.conf ELSE Confirmed]
         ELSE [r EXCEPT !.more = IF e = r.confirmer THEN @ ELSE @ \cup {e}])

Halved(conf) == conf \div 2
Challenge(f, e) ==
    /\ MaySpeak(f, e) /\ store[f].halved < MaxChallenges
    /\ Saved(f, [store[f] EXCEPT !.conf = Halved(@), !.against = @ \cup {e}, !.halved = @ + 1])

ElicitNext ==
    \E f \in Fact, e \in Expert :
        \/ \E text \in Text : Add(f, e, text)
        \/ Confirm(f, e)
        \/ Challenge(f, e)

-----------------------------------------------------------------------------
Kept == {f \in Fact : store[f] # NotKept}

(* Confirmation is independent: no expert is counted for or against what   *)
(* is his own, whoever added it again, and nobody is counted twice as a    *)
(* confirmer.                                                              *)
VoicesAreIndependent ==
    \A f \in Kept : LET r == store[f] IN
        /\ r.by \notin {r.confirmer} \cup r.more \cup r.against
        /\ r.confirmer \notin r.more
        /\ r.more # {} => r.confirmer # NoExpert

(* "A single expert's opinion is not silently treated as gospel": more     *)
(* than the initial confidence has a second expert, and a fact that nobody *)
(* confirmed has paid for each of its challenges.                          *)
CertaintyIsEarned ==
    \A f \in Kept : LET r == store[f] IN
        /\ r.conf > Initial => r.confirmer # NoExpert
        /\ r.confirmer = NoExpert => r.conf = Initial \div 2 ^ r.halved

(* Nothing anyone does to a fact, adding it again included, takes back     *)
(* what others said of it.                                                 *)
VoicesAreKept ==
    [][\A f \in Kept :
          /\ store'[f].by = store[f].by
          /\ store[f].more \subseteq store'[f].more
          /\ store[f].against \subseteq store'[f].against
          /\ store[f].confirmer # NoExpert => store'[f].confirmer = store[f].confirmer]_elicitVars

(* Every expert has one voice per fact, it is never his own fact, and      *)
(* nothing takes it back.                                                  *)
VoicesCountOnce ==
    /\ [](VoicesAreIndependent /\ CertaintyIsEarned)
    /\ VoicesAreKept

=============================================================================
