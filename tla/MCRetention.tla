----------------------------- MODULE MCRetention -----------------------------
(* Instances of Retention for TLC: three sessions, two of which share the   *)
(* 8-character prefix that names their files, and runs without a session.   *)
EXTENDS Retention, TLC

CONSTANTS a1, a2, b, anon, A, B, U

MCPrefixOf == a1 :> A @@ a2 :> A @@ b :> B @@ anon :> U
\* two sessions with one prefix are interchangeable
Twins == Permutations({a1, a2})
MCPrefixOfTwo == a1 :> A @@ b :> B
=============================================================================
