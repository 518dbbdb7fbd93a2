---------------------------- MODULE SessionQuery ----------------------------
(***************************************************************************)
(* ctxpack/agent/session_reader.py: `why` over every session, and          *)
(* `resume`, read while checkpoints, retention and damage go on.           *)
(*                                                                         *)
(* The key asked for is fixed: a section is the fact it holds and the      *)
(* first of the four ways in which it matches the key, 4 when in none.     *)
(* The views of one session (`recall`, `timeline`, `decisions`, `literals` *)
(* and `why --session`) are operators on the sections of its ledger.       *)
(***************************************************************************)
EXTENDS Integers, Sequences, FiniteSets

CONSTANTS
    Sid,            \* sessions, by the prefix their files carry
    Section,        \* [name, fact, tier, kind, turn, roles]; a turn is -1 when
                    \* none is stated, names are numbers in their order
    Forked,         \* facts that an unresolved supersession fork touches
    WhyMax,         \* _WHY_MAX_MATCHES
    MaxWrites, MaxQueries

\* a fact is stated in finitely many roles, and a ledger has finitely many sections
ASSUME QueryAssumption ==
    /\ IsFiniteSet(Section) /\ WhyMax \in Nat
    /\ \A x \in Section : x.tier \in 0..4 /\ x.turn \in Int /\ x.name \in Int /\ IsFiniteSet(x.roles)

VARIABLES
    doc,            \* session -> "absent", "bad" or the sections of its ledger
    rows,           \* checkpoints.jsonl, [s, archive]
    latestGist,     \* whose gist latest-gist.md is
    query,          \* the query in progress, or its reply
    wrote, asked

queryVars == <<doc, rows, latestGist, query, wrote, asked>>

AbsentDoc == [is |-> "absent", secs |-> {}]
BadDoc == [is |-> "bad", secs |-> {}]
Good(secs) == [is |-> "good", secs |-> secs]
NoSid == "none"
NoQuery == [pc |-> "idle"]
NoMatch == 4

QueryInit ==
    /\ doc = [s \in Sid |-> AbsentDoc] /\ rows = <<>> /\ latestGist = NoSid
    /\ query = NoQuery /\ wrote = 0 /\ asked = 0

\* the elements of S in the order of Op: each at its rank
ListedBy(S, Op(_, _)) ==
    [i \in 1..Cardinality(S) |-> CHOOSE x \in S : Cardinality({y \in S : Op(y, x)}) = i - 1]
Members(s) == {s[i] : i \in DOMAIN s}

(***************************************************************************)
(* What changes the ledger meanwhile.                                      *)
(***************************************************************************)
Touched(s) == IF query.pc \in {"search", "gist"} THEN [query EXCEPT !.touched = @ \cup {s}] ELSE query
Changes(s, d) ==
    /\ wrote < MaxWrites /\ wrote' = wrote + 1
    /\ doc' = [doc EXCEPT ![s] = d]
    /\ query' = Touched(s)
    /\ UNCHANGED asked

\* a re-pack keeps what was banked and writes all of it again, each under a name of its own
Repack(s, secs, archive) ==
    /\ doc[s].secs \subseteq secs /\ \A x, y \in secs : x.name = y.name => x = y
    /\ Changes(s, Good(secs))
    /\ latestGist' = IF archive THEN latestGist ELSE s
    /\ rows' = Append(rows, [s |-> s, archive |-> archive])
Spoil(s) == doc[s].is = "good" /\ Changes(s, BadDoc) /\ UNCHANGED <<rows, latestGist>>
Prune(s) == doc[s].is # "absent" /\ latestGist # s /\ Changes(s, AbsentDoc) /\ UNCHANGED <<rows, latestGist>>

(***************************************************************************)
(* How a section matches the key.                                          *)
(***************************************************************************)
Best(secs) == IF secs = {} THEN NoMatch
              ELSE CHOOSE t \in {x.tier : x \in secs} : \A x \in secs : t <= x.tier
\* the cascade: only the sections that match in the best way any does
Matches(secs) == {x \in secs : x.tier = Best(secs) /\ x.tier # NoMatch}

(***************************************************************************)
(* The views of the sections `secs` of one session.                        *)
(***************************************************************************)
Earlier(a, b) == a.turn < b.turn \/ (a.turn = b.turn /\ a.name < b.name)
Ordered(secs) == ListedBy(secs, Earlier)
\* a limit keeps the end, "the useful tail"
Timeline(secs, kinds, limit) ==
    LET all == Ordered({x \in secs : kinds = {} \/ x.kind \in kinds})
    IN IF limit = 0 \/ limit >= Len(all) THEN all ELSE SubSeq(all, Len(all) - limit + 1, Len(all))
Stakes == {"DECISION", "CONSTRAINT", "FAILED-APPROACH"}
Decisions(secs) == [k \in Stakes |-> Ordered({x \in secs : x.kind = k})]
Literals(secs) == Ordered({x \in secs : x.kind = "LITERAL"})

\* a miss is asserted: so many sections searched, as of the last turn
AsOf(secs) == IF secs = {} THEN 0
              ELSE CHOOSE t \in {x.turn : x \in secs} : \A x \in secs : x.turn <= t
Missed(secs) == [found |-> FALSE, secs |-> {}, searched |-> Cardinality(secs), asOf |-> AsOf(secs)]
Answered(secs, out) == IF out = {} THEN Missed(secs) ELSE [found |-> TRUE, secs |-> out]
Index(secs) == {x.name : x \in secs}
Recall(secs, names) == Answered(secs, {x \in secs : x.name \in names})

\* the source axis: by the roles a fact was stated in, never one of several
DeriveAuthority(role) ==
    CASE role = "user" -> "user_stated" [] role = "assistant" -> "agent_candidate"
      [] role = "tool" -> "tool_observed" [] OTHER -> "legacy_unknown"
Authority(x) ==
    CASE x.roles = {} -> DeriveAuthority("")
      [] Cardinality(x.roles) = 1 -> DeriveAuthority(CHOOSE r \in x.roles : TRUE)
      [] OTHER -> "multiple"
\* the local axis, from a ratification journal: degraded, or the events it holds
Local(x, journal) ==
    CASE journal.degraded -> "degraded"
      [] ~journal.degraded /\ x.fact \in DOMAIN journal.state ->
            (IF journal.state[x.fact] = "ratify" THEN "ratified" ELSE "rejected")
      [] OTHER -> "none"
Stamped(x, journal) == [sec |-> x, authority |-> Authority(x), local |-> Local(x, journal)]
Why(secs) == Answered(secs, Matches(secs))

(***************************************************************************)
(* why over every session                                                  *)
(***************************************************************************)
First(s) == CHOOSE i \in DOMAIN rows : rows[i].s = s /\ \A k \in 1..i - 1 : rows[k].s # s
\* sessions in the order of their first checkpoint
Sooner(a, b) == First(a) < First(b)
Order == ListedBy({rows[i].s : i \in DOMAIN rows}, Sooner)

Ask(pc) ==
    /\ query.pc \in {"idle", "done"} /\ asked < MaxQueries /\ asked' = asked + 1
    /\ UNCHANGED <<doc, rows, latestGist, wrote>>

WhyBegins ==
    /\ rows # <<>> /\ Ask("search")
    /\ query' = [pc |-> "search", order |-> Order, next |-> 1, hits |-> {}, read |-> {},
                 was |-> doc, touched |-> {}]

\* (mutant) the first session that cannot be read ends the search
NextAfterBad == Len(query.order) + 1
NextAfterSkip == query.next + 1

\* one session after the other; what cannot be read is passed over
WhyReads ==
    /\ query.pc = "search" /\ query.next <= Len(query.order)
    /\ LET s == query.order[query.next] IN
       query' = IF doc[s].is # "good" THEN [query EXCEPT !.next = NextAfterSkip]
                ELSE [query EXCEPT !.next = @ + 1, !.read = @ \cup {s},
                        !.hits = @ \cup {[s |-> s, idx |-> query.next, sec |-> x] : x \in Matches(doc[s].secs)}]
    /\ UNCHANGED <<doc, rows, latestGist, wrote, asked>>

\* by tier, then the most recent session, then the turn
Before(a, b) ==
    \/ a.sec.tier < b.sec.tier
    \/ a.sec.tier = b.sec.tier /\ a.idx > b.idx
    \/ a.sec.tier = b.sec.tier /\ a.idx = b.idx /\ Earlier(a.sec, b.sec)

WhyReplies ==
    /\ query.pc = "search" /\ query.next > Len(query.order)
    /\ LET ranked == ListedBy(query.hits, Before)
           kept == SubSeq(ranked, 1, IF Len(ranked) < WhyMax THEN Len(ranked) ELSE WhyMax)
       IN query' = [pc |-> "done", what |-> "why", found |-> query.hits # {}, matches |-> kept,
                    conflict |-> \E i \in DOMAIN kept : kept[i].sec.fact \in Forked,
                    truncated |-> Len(ranked) > WhyMax, searched |-> Len(query.order),
                    order |-> Members(query.order), read |-> query.read,
                    was |-> query.was, touched |-> query.touched]
    /\ UNCHANGED <<doc, rows, latestGist, wrote, asked>>

(***************************************************************************)
(* resume, without a session: the last live row's, or the last row's       *)
(***************************************************************************)
LastOf(is) == CHOOSE i \in is : \A k \in is : k <= i
Resolved ==
    LET live == {i \in DOMAIN rows : ~rows[i].archive} IN
    IF rows = <<>> THEN NoSid ELSE rows[LastOf(IF live = {} THEN DOMAIN rows ELSE live)].s

ResumeLoads ==
    /\ rows # <<>> /\ Ask("gist")
    /\ query' = IF doc[Resolved].is = "good"
                THEN [pc |-> "gist", sid |-> Resolved, touched |-> {}]
                ELSE [pc |-> "done", what |-> "error"]

ResumeReplies ==
    /\ query.pc = "gist"
    /\ query' = [pc |-> "done", what |-> "resume", sid |-> query.sid, gist |-> latestGist,
                 touched |-> query.touched]
    /\ UNCHANGED <<doc, rows, latestGist, wrote, asked>>

QueryNext ==
    \/ \E s \in Sid, secs \in SUBSET Section, archive \in BOOLEAN : Repack(s, secs, archive)
    \/ \E s \in Sid : Spoil(s) \/ Prune(s)
    \/ WhyBegins \/ WhyReads \/ WhyReplies
    \/ ResumeLoads \/ ResumeReplies

-----------------------------------------------------------------------------
Replied(what) == query.pc = "done" /\ query.what = what
MatchSet == {[s |-> query.matches[i].s, sec |-> query.matches[i].sec] : i \in DOMAIN query.matches}

(* A fact that was banked when `why` was asked is in the answer, though    *)
(* other sessions are damaged, pruned or packed again while it reads; only *)
(* the cap may drop it, for matches that are at least as good ("an exact   *)
(* match beats every substring hit").                                      *)
FoundThroughout ==
    Replied("why") =>
        \A s \in query.order \ query.touched : query.was[s].is = "good" =>
            \A x \in query.was[s].secs : x.tier = Best(query.was[s].secs) /\ x.tier # NoMatch =>
                \/ [s |-> s, sec |-> x] \in MatchSet
                \/ query.truncated /\ \A m \in MatchSet : m.sec.tier <= x.tier

(* Nothing is answered that a session did not hold, in the session's own   *)
(* best way of matching: a `why` over every session agrees with the same   *)
(* `why` asked of that session alone.                                      *)
SameAsSingle ==
    Replied("why") =>
        \A m \in MatchSet : m.s \notin query.touched =>
            m.sec \in query.was[m.s].secs /\ m.sec.tier = Best(query.was[m.s].secs)

(* A resume that nothing raced gives facts and gist of one session, with   *)
(* archive rows, damage and retention before it.                           *)
ResumeIsOneSession ==
    Replied("resume") /\ query.touched = {} /\ query.gist # NoSid => query.gist = query.sid

(* "No banked fact matches this key in ANY session - asserted absence      *)
(* after searching the whole ledger".  It fails: sessions that could not   *)
(* be read are passed over and counted among the searched.                 *)
AbsenceIsSearched ==
    Replied("why") /\ ~query.found => query.searched = Cardinality(query.read)

(* The views of one session agree: what the timeline holds of a kind, the  *)
(* list of that kind holds in the same order; a limit leaves out nothing   *)
(* later than what it shows; whatever the index names or `why` matches can *)
(* be recalled; a key that names a section is never a miss; and "as of     *)
(* turn T" covers every section of the session.  (No ledger comes about    *)
(* only after a query.)                                                    *)
ViewsAgree ==
    asked = 0 => \A s \in {t \in Sid : doc[t].is = "good"} : LET secs == doc[s].secs IN
        /\ \A k \in Stakes : Timeline(secs, {k}, 0) = Decisions(secs)[k]
        /\ Timeline(secs, {"LITERAL"}, 0) = Literals(secs)
        /\ \A shown \in {Members(Timeline(secs, {}, 1))} : \A x \in secs \ shown :
             \A y \in shown : x.turn <= y.turn
        /\ \A n \in Index(secs) : Recall(secs, {n}).found
        /\ \A x \in Why(secs).secs : x \in Recall(secs, {x.name}).secs
        /\ (\E x \in secs : x.tier = 0) => \A x \in Why(secs).secs : x.tier = 0
        /\ ~Why(secs).found => \A x \in secs : x.turn <= Why(secs).asOf

(* "The axes are reported SEPARATELY and never folded": no event of the    *)
(* journal makes a fact's authority another one, an uncertain journal      *)
(* confers nothing on any match, and a fact stated in several roles is of  *)
(* none of them.                                                           *)
AxesStaySeparate ==
    Replied("why") =>
        \A degraded \in BOOLEAN, state \in {<<>>} \cup [{x.fact : x \in Section} -> {"ratify", "reject"}] :
            \A i \in DOMAIN query.matches :
                LET x == query.matches[i].sec
                    m == Stamped(x, [degraded |-> degraded, state |-> state])
                IN /\ m.local = "ratified" => ~degraded /\ state # <<>>
                   /\ m.authority = "user_stated" => x.roles = {"user"}

(* Stated and refuted: a fork that touches the key is announced ("surface  *)
(* both; do not silently pick one"); only the matches that the cap keeps   *)
(* are looked up, and a forked one may be behind it.                       *)
ForkSurvivesTheCap ==
    Replied("why") /\ query.touched = {} /\
        (\E s \in query.read : \E x \in Matches(query.was[s].secs) : x.fact \in Forked)
            => query.conflict

(* Stated and refuted: a miss says "not in memory" ("asserted absence      *)
(* after searching the full ledger"); `recall` and `why --session` search  *)
(* one session, and another may hold the fact.                             *)
MissIsAbsence ==
    \A s, t \in Sid : doc[s].is = "good" /\ ~Why(doc[s].secs).found => ~Why(doc[t].secs).found

(* An answer over many sessions is neither short of what was banked nor    *)
(* more than one session held, while others are packed, damaged or pruned, *)
(* and the views of each session agree.                                    *)
AnswersAreComplete ==
    /\ ViewsAgree
    /\ AxesStaySeparate
    /\ FoundThroughout
    /\ SameAsSingle
    /\ ResumeIsOneSession

=============================================================================
