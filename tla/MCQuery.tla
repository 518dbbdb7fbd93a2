------------------------------- MODULE MCQuery -------------------------------
(***************************************************************************)
(* An instance of SessionQuery for TLC.                                    *)
(***************************************************************************)
EXTENDS SessionQuery

\* f1 is decided in one tier or another, f2 is only mentioned
Sections ==
    {[name |-> 1, fact |-> "f1", tier |-> 0, kind |-> "DECISION", turn |-> 2, roles |-> {"user"}],
     [name |-> 2, fact |-> "f1", tier |-> 3, kind |-> "DECISION", turn |-> 1, roles |-> {"user", "assistant"}],
     [name |-> 3, fact |-> "f2", tier |-> 3, kind |-> "LITERAL", turn |-> 2, roles |-> {}]}

QuerySpec == QueryInit /\ [][QueryNext]_queryVars
=============================================================================
