---------------------------- MODULE SessionBank -----------------------------
(***************************************************************************)
(* What checkpointing promises a session: the turns that are banked only   *)
(* ever grow, and never run ahead of what the agent wrote.                 *)
(***************************************************************************)
EXTENDS Naturals

CONSTANTS Session, MaxTurns

VARIABLES
    written,   \* turns the agent has written
    banked     \* turns the journal answers for

bankVars == <<written, banked>>

BankInit ==
    /\ written = [s \in Session |-> 0]
    /\ banked = [s \in Session |-> 0]

Write(s) ==
    /\ written[s] < MaxTurns
    /\ written' = [written EXCEPT ![s] = @ + 1]
    /\ UNCHANGED banked

\* one atomic checkpoint: of everything written, or of an earlier prefix
Bank(s) ==
    /\ \E t \in banked[s]..written[s] : banked' = [banked EXCEPT ![s] = t]
    /\ UNCHANGED written

BankNext == \E s \in Session : Write(s) \/ Bank(s)

BankSpec == BankInit /\ [][BankNext]_bankVars

=============================================================================
