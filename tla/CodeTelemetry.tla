---------------------------- MODULE CodeTelemetry ---------------------------
(***************************************************************************)
(* ctxpack/core/code/telemetry.py: the log of code-tool calls and the two  *)
(* patterns recognised across them.  What is remembered between calls      *)
(* belongs to one pack of one server: it is dropped when another version   *)
(* is built, and with the process.  The log stays.                         *)
(*                                                                         *)
(* A query is <<key, wording>>: _normalised_query_key and query_hash.      *)
(***************************************************************************)
EXTENDS Integers, Sequences, FiniteSets

CONSTANTS
    Version,        \* pack versions
    NoVersion,      \* pack_version before the first pack
    Symbol,         \* <<file, local>> names agents ask for
    InPack,          \* version -> the symbols that pack holds
    Query,
    Window,         \* REFORMULATION_WINDOW_S, in clock ticks
    Threshold,      \* REFORMULATION_THRESHOLD
    Lookback,       \* RAW_FILE_LOOKBACK
    MaxCalls, MaxTime, MaxBoots \* bounds: calls logged, the clock and the servers

ASSUME TelAssumption ==
    /\ Window \in Nat /\ Threshold \in Nat /\ Lookback \in Nat \ {0}
    /\ NoVersion \notin Version

VARIABLES
    boot,       \* session_id
    version,    \* pack_version
    hydrated,   \* last_hydrated_files
    searches,   \* recent_search_keys; only their wordings are counted
    answered,   \* hydrate_count
    logged,     \* the log file
    ticks

telVars == <<boot, version, hydrated, searches, answered, logged, ticks>>

\* a call's row names the pack it was about, a pattern's only the session
Logged(v, kind, what, n) == [kind |-> kind, what |-> what, n |-> n, at |-> ticks, pack |-> <<boot, v>>]
Pattern(kind, what, n) == [kind |-> kind, what |-> what, n |-> n, at |-> ticks, pack |-> <<boot>>]
Patterns == {"after_hydrate", "reformulated"}
Calling == Cardinality({i \in DOMAIN logged : logged[i].kind \notin Patterns}) < MaxCalls
\* every tool but the packing itself asks for a pack first: _require_pack
Ready == Calling /\ version # NoVersion

TelInit ==
    /\ boot = 1 /\ version = NoVersion /\ hydrated = <<>> /\ searches = {} /\ answered = 0
    /\ logged = <<>> /\ ticks = 0

Advance ==
    /\ ticks < MaxTime /\ ticks' = ticks + 1
    /\ UNCHANGED <<boot, version, hydrated, searches, answered, logged>>

Forget == hydrated' = <<>> /\ searches' = {} /\ answered' = 0

\* another server on the same log
Reboot ==
    /\ boot < MaxBoots /\ boot' = boot + 1
    /\ version' = NoVersion /\ Forget
    /\ UNCHANGED <<logged, ticks>>

\* set_pack_version: building the same version again keeps the memory
SetPackVersion(v) ==
    /\ version' = v
    /\ IF v = version THEN UNCHANGED <<hydrated, searches, answered>> ELSE Forget

PackBuilt(v) ==
    /\ Calling /\ SetPackVersion(v)
    /\ logged' = Append(logged, Logged(v, "pack_built", v, 0))
    /\ UNCHANGED <<boot, ticks>>

SymbolsListed ==
    /\ Ready
    /\ logged' = Append(logged, Logged(version, "list", NoVersion, 0))
    /\ UNCHANGED <<boot, version, hydrated, searches, answered, ticks>>

\* (mutant) a failed lookup is remembered as well
RememberAny(s, found) == hydrated' = Append(hydrated, s) /\ answered' = answered + 1
\* the list of the last files is halved when it is full
Remember(s, found) ==
    IF ~found THEN UNCHANGED <<hydrated, answered>>
    ELSE LET all == Append(hydrated, s) IN
         /\ hydrated' = IF Len(all) > 2 * Lookback
                        THEN SubSeq(all, Len(all) - Lookback + 1, Len(all)) ELSE all
         /\ answered' = answered + 1

\* a symbol that is not in the pack leaves two rows
Hydrate(s) ==
    LET found == s \in InPack[version] IN
    /\ Ready
    /\ Remember(s, found)
    /\ logged' = IF found THEN Append(logged, Logged(version, "hydrate", s, 1))
                 ELSE Append(Append(logged, Logged(version, "hydrate", s, 0)),
                             Logged(version, "not_in_pack", s, 0))
    /\ UNCHANGED <<boot, version, searches, ticks>>

Fresh(asked) == {s \in asked : s.at >= ticks - Window}

Search(q) ==
    LET recent == Fresh(searches) \cup {[at |-> ticks, q |-> q]}
        wordings == {s.q : s \in {r \in recent : r.q[1] = q[1]}}
        row == Append(logged, Logged(version, "search", q, 0))
    IN /\ Ready
       /\ searches' = recent
       /\ logged' = IF Cardinality(wordings) < Threshold THEN row
                    ELSE Append(row, Pattern("reformulated", q[1], Cardinality(wordings)))
       /\ UNCHANGED <<boot, version, hydrated, answered, ticks>>

\* the latest hydrated symbol of the file, counted from the end
RawFile(f) ==
    LET hits == {i \in DOMAIN hydrated : hydrated[i][1] = f}
        last == CHOOSE i \in hits : \A j \in hits : j <= i
        row == Append(logged, Logged(version, "raw_file", f, answered))
    IN /\ Ready
       /\ logged' = IF hits = {} THEN row
                    ELSE Append(row, Pattern("after_hydrate", hydrated[last], Len(hydrated) - last + 1))
       /\ UNCHANGED <<boot, version, hydrated, searches, answered, ticks>>

TelNext ==
    \/ Advance
    \/ Reboot
    \/ \E v \in Version : PackBuilt(v)
    \/ \E s \in Symbol : Hydrate(s)
    \/ \E q \in Query : Search(q)
    \/ SymbolsListed
    \/ \E f \in {s[1] : s \in Symbol} : RawFile(f)

\* summary(): the counts of its rates
Count(kind) == Cardinality({i \in DOMAIN logged : logged[i].kind = kind})

-----------------------------------------------------------------------------
\* rows j to i are of one pack in one server
OnePack(j, i) ==
    \A k \in j..i : logged[k].kind \notin Patterns => logged[k].pack = logged[j].pack
HydratesIn(i) == {j \in 1..i : logged[j].kind = "hydrate" /\ logged[j].n = 1 /\ OnePack(j, i)}

(* A raw read is put down to a hydrate only when the same pack answered a  *)
(* hydrate of that file, and exactly as many successful hydrates ago as    *)
(* the row says: names of another snapshot are never matched.              *)
PatternsStayInPack ==
    \A i \in DOMAIN logged : logged[i].kind = "after_hydrate" =>
        \E j \in HydratesIn(i) :
            /\ logged[j].what = logged[i].what
            /\ Cardinality({k \in HydratesIn(i) : k >= j}) = logged[i].n

(* A reformulation is several wordings of one query, in one pack and in    *)
(* one window of time.                                                     *)
ReformulationsAreRecent ==
    \A i \in DOMAIN logged : logged[i].kind = "reformulated" =>
        LET asked == {j \in 1..i : /\ logged[j].kind = "search" /\ OnePack(j, i)
                                   /\ logged[j].what[1] = logged[i].what
                                   /\ logged[j].at >= logged[i].at - Window}
        IN /\ Cardinality({logged[j].what : j \in asked}) = logged[i].n
           /\ logged[i].n >= Threshold

(* prior_hydrate_count is the number of answered hydrates of this pack,    *)
(* though the list of files behind it is cut again and again.              *)
HydrateCountIsExact ==
    \A i \in DOMAIN logged : logged[i].kind = "raw_file" =>
        logged[i].n = Cardinality(HydratesIn(i))

(* Two of the summary's rates are shares of the calls they are about.  The *)
(* third is none: one hydrate may precede many raw reads.                  *)
RatesAreShares ==
    /\ Count("not_in_pack") <= Count("hydrate")
    /\ Count("reformulated") <= Count("search")

(* What the usage rows claim is what the calls were: the same pack, the    *)
(* same window, the exact counts.                                          *)
TelemetryIsExact ==
    /\ PatternsStayInPack
    /\ ReformulationsAreRecent
    /\ HydrateCountIsExact
    /\ RatesAreShares

(* The summary is said to be the current session's.  It is not: the log is *)
(* read from its beginning, and outlives the server.                       *)
SummaryIsOfSession ==
    \A i \in DOMAIN logged : logged[i].pack[1] = boot

(* A cluster is said to be reported again only when its number of wordings *)
(* changes.  It is not so: every further search reports it.                *)
ReportedOncePerCount ==
    \A i, j \in DOMAIN logged :
        (/\ i < j /\ logged[i].kind = "reformulated" /\ logged[j].kind = "reformulated"
         /\ logged[i].what = logged[j].what /\ logged[i].at = logged[j].at /\ OnePack(i + 1, j)
         /\ logged[i + 1].pack = logged[i - 1].pack) =>
        logged[i].n # logged[j].n

=============================================================================
