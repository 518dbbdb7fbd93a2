------------------------------ MODULE CodePack ------------------------------
(***************************************************************************)
(* pack_codebase of ctxpack/core/code/pack.py, as ctx/code_pack calls it:  *)
(* the last pack is the base of the next one, and a file whose hash is     *)
(* unchanged keeps the entities and edges it had.  Files may be edited     *)
(* while a pack runs: each is read twice, for its hash and for its parse.  *)
(*                                                                         *)
(* A symbol is named <<file, local name>>, and <<Nowhere, text>> is a call *)
(* that has no callee yet.  The tools that read a pack are operators on    *)
(* it.  The order of the walk is left open.  PageRank is a constant order  *)
(* of the symbols, without ties.                                           *)
(***************************************************************************)
EXTENDS Integers, FiniteSets, FiniteSetsExt

CONSTANTS
    Files,          \* what the walk finds: files that no rule excludes
    Source,         \* contents a file may have
    NoFile,         \* the content of a file that does not exist
    Defs, Calls,    \* what a content defines, and its calls <<from, text>>
    Unparsable,     \* contents the parser raises on
    TailOf,         \* last part of the local names and texts that hold a dot
    Place,          \* content -> where its symbols begin
    Central,        \* symbol -> its centrality
    Cost, Budget,   \* local name -> tokens of its body, and what a reply may hold
    MaxEdits, MaxPacks

Locals == UNION {Defs[c] : c \in Source}

\* in place of a file where there is none
Nowhere == "nowhere"

\* a file has finitely many symbols, makes its calls from them, and the last
\* part of a name holds no dot; no two symbols are as central
ASSUME PackAssumption ==
    /\ NoFile \notin Source /\ Budget \in Nat /\ Nowhere \notin Files
    /\ \A c \in Source : IsFiniteSet(Defs[c]) /\ \A k \in Calls[c] : k[1] \in Defs[c]
    /\ \A l \in DOMAIN TailOf : TailOf[l] \notin DOMAIN TailOf
    /\ Central \in [Files \X Locals -> Int]
    /\ \A m, n \in Files \X Locals : Central[m] = Central[n] => m = n

VARIABLES
    disk,       \* the files on disk
    pack,       \* _CODE_PACK
    job,        \* the pack being built
    raced,      \* its files that changed between their hash and their parse
    edited, packs

packVars == <<disk, pack, job, raced, edited, packs>>

NoPack == [loaded |-> FALSE, hashes |-> <<>>, ents |-> {}, edges |-> {}]
NoJob == [pc |-> "idle"]

Names(ents) == {<<e.file, e.local>> : e \in ents}

\* by_local: whoever is called so, or ends in it behind a dot
NamedBy(text, n) == n[2] = text \/ (n[2] \in DOMAIN TailOf /\ TailOf[n[2]] = text)
ByLocal(text, nodes) == {n \in nodes : NamedBy(text, n)}
Candidates(callee, nodes) ==
    LET direct == IF callee[1] = Nowhere THEN ByLocal(callee[2], nodes) ELSE {} IN
    IF direct = {} /\ callee[2] \in DOMAIN TailOf
    THEN ByLocal(TailOf[callee[2]], nodes) ELSE direct

\* resolve_callees: one candidate or none
OneOf(names) == CHOOSE n \in names : TRUE
Resolve(edges, nodes) ==
    {e \in edges : e.to \in nodes}
    \cup {[from |-> e.from, to |-> OneOf(Candidates(e.to, nodes))] :
            e \in {x \in edges : x.to \notin nodes /\ Cardinality(Candidates(x.to, nodes)) = 1}}

PackInit ==
    /\ disk \in [Files -> Source \cup {NoFile}]
    /\ pack = NoPack /\ job = NoJob /\ raced = {}
    /\ edited = 0 /\ packs = 0

\* someone writes or removes a file
Edit(f, c) ==
    /\ edited < MaxEdits /\ disk[f] # c
    /\ disk' = [disk EXCEPT ![f] = c] /\ edited' = edited + 1
    /\ job' = IF job.pc = "parse" /\ job.at = f THEN [job EXCEPT !.raced = @ \cup {f}] ELSE job
    /\ UNCHANGED <<pack, raced, packs>>

\* ctx/code_pack walks the tree
Begin(body) ==
    /\ job = NoJob /\ packs < MaxPacks
    /\ packs' = packs + 1
    /\ job' = [pc |-> "hash", body |-> body, at |-> Nowhere,
               left |-> {f \in Files : disk[f] # NoFile},
               hashes |-> <<>>, ents |-> {}, edges |-> {}, raced |-> {}]
    /\ UNCHANGED <<disk, pack, raced, edited>>

With(fun, f, v) == [g \in DOMAIN fun \cup {f} |-> IF g = f THEN v ELSE fun[g]]

\* (mutant) a file the prior pack has seen is reused
ReusableByName(f) == f \in DOMAIN pack.hashes
Reusable(f) == f \in DOMAIN pack.hashes /\ pack.hashes[f] = disk[f]

\* the hash decides between the prior pack's entities and a parse
HashFile(f) ==
    /\ job.pc = "hash" /\ f \in job.left /\ disk[f] # NoFile
    /\ job' = IF Reusable(f)
              THEN [job EXCEPT !.left = @ \ {f}, !.hashes = With(@, f, disk[f]),
                               !.ents = @ \cup {e \in pack.ents : e.file = f},
                               !.edges = @ \cup {e \in pack.edges : e.from[1] = f},
                               !.raced = @ \cup (raced \cap {f})]
              ELSE [job EXCEPT !.pc = "parse", !.at = f, !.left = @ \ {f},
                               !.hashes = With(@, f, disk[f])]
    /\ UNCHANGED <<disk, pack, raced, edited, packs>>

\* a parse that raises leaves the file without entities
ParseFile ==
    /\ job.pc = "parse"
    /\ LET f == job.at  c == disk[f] IN
       job' = IF c = NoFile \/ c \in Unparsable
              THEN [job EXCEPT !.pc = "hash", !.at = Nowhere]
              ELSE [job EXCEPT !.pc = "hash", !.at = Nowhere,
                        !.ents = @ \cup {[file |-> f, local |-> l, body |-> job.body, of |-> c] : l \in Defs[c]},
                        !.edges = @ \cup {[from |-> <<f, k[1]>>, to |-> <<Nowhere, k[2]>>] : k \in Calls[c]}]
    /\ UNCHANGED <<disk, pack, raced, edited, packs>>

\* a file that vanished before its hash was taken fails the whole call
Vanished(f) ==
    /\ job.pc = "hash" /\ f \in job.left /\ disk[f] = NoFile
    /\ job' = NoJob
    /\ UNCHANGED <<disk, pack, raced, edited, packs>>

\* _CODE_PACK is replaced once the new pack is whole
Finish ==
    /\ job.pc = "hash" /\ job.left = {}
    /\ pack' = [loaded |-> TRUE, hashes |-> job.hashes, ents |-> job.ents,
                edges |-> Resolve(job.edges, Names(job.ents))]
    /\ job' = NoJob /\ raced' = job.raced
    /\ UNCHANGED <<disk, edited, packs>>

PackNext ==
    \/ \E f \in Files, c \in Source \cup {NoFile} : Edit(f, c)
    \/ \E body \in BOOLEAN : Begin(body)
    \/ \E f \in Files : HashFile(f) \/ Vanished(f)
    \/ ParseFile \/ Finish

PackSpecification == PackInit /\ [][PackNext]_packVars

(***************************************************************************)
(* What the tools serve from the pack.                                     *)
(***************************************************************************)
Refusal(code) == [code |-> code]
\* every tool but ctx/code_pack wants a pack
Served(p, reply) == IF p.loaded THEN reply ELSE Refusal("pack_not_loaded")
Entity(p, n) == CHOOSE e \in p.ents : <<e.file, e.local>> = n
\* the fields that the version hashes; a rank is a field too, and follows from the edges
Shown(e) == <<e.file, e.local, IF e.body THEN e.local ELSE "no body">>
PackVersion(p) == [shown |-> {Shown(e) : e \in p.ents}, edges |-> p.edges]

MoreCentral(m, n) == Central[m] > Central[n]
\* the k most central
Top(names, k) == {n \in names : Cardinality({m \in names : MoreCentral(m, n)}) < k}

ListSymbols(p, f, k) ==
    Served(p, IF f \notin DOMAIN p.hashes THEN Refusal("unknown_module")
              ELSE [code |-> "ok", symbols |-> Top({n \in Names(p.ents) : n[1] = f}, k),
                    version |-> PackVersion(p)])

\* hits are the symbols that score anything; blended with centrality
SearchSymbols(p, hits, k) ==
    Served(p, [code |-> "ok", symbols |-> Top(hits, k), version |-> PackVersion(p)])

Callees(p, n) == {e.to : e \in {x \in p.edges : x.from = n}}
Callers(p, n) == {e.from : e \in {x \in p.edges : x.to = n}}
\* a neighbour without a body costs nothing and is passed over
Priced(p, names) == {m \in names : Entity(p, m).body}

Tokens(names) == MapThenSumSet(LAMBDA m : Cost[m[2]], names)
AsCentral(names, n) == {m \in names : m = n \/ MoreCentral(m, n)}
\* greedy: the first that does not fit ends the packing
Packed(names) == {n \in names : \A m \in AsCentral(names, n) : Tokens(AsCentral(names, m)) <= Budget}
NearestTo(p, n) ==
    LET near == Packed(Priced(p, Callees(p, n) \cup Callers(p, n)))
    IN [callees |-> near \cap Callees(p, n), callers |-> near \ Callees(p, n)]

HydrateSymbol(p, n, depth) ==
    Served(p, IF n \notin Names(p.ents) THEN Refusal("unknown_symbol")
              ELSE [code |-> "ok", fields |-> Shown(Entity(p, n)), place |-> Place[Entity(p, n).of],
                    near |-> IF depth = 1 THEN NearestTo(p, n) ELSE [callees |-> {}, callers |-> {}],
                    version |-> PackVersion(p)])

\* the escape hatch reads the disk
ServeFile(p, f) ==
    Served(p, IF f \notin DOMAIN p.hashes
              THEN Refusal(IF disk[f] = NoFile THEN "unknown_module" ELSE "ignored_path")
              ELSE IF disk[f] = NoFile THEN Refusal("invalid_input")
              ELSE [code |-> "ok", content |-> disk[f], version |-> PackVersion(p)])

-----------------------------------------------------------------------------
DefinedIn(c) == IF c \in Unparsable THEN {} ELSE Defs[c]

(* A hash that did not change vouches for the entities kept under it: the  *)
(* pack holds exactly the symbols of the contents it hashed, however many  *)
(* packs, edits and reverts ago they were parsed (the reuse by file_hashes *)
(* in pack_codebase).  The exception is a file edited between its hash and *)
(* its parse, which stays wrong for as long as the old hash comes back.    *)
HashVouches ==
    \A f \in DOMAIN pack.hashes : f \notin raced =>
        {e.local : e \in {x \in pack.ents : x.file = f}} = DefinedIn(pack.hashes[f])

(* Packing what has not changed changes nothing, edges and their resolved  *)
(* callees included ("on no-change input scores are identical").           *)
NoChangeIsNeutral ==
    [][job.pc # "idle" /\ job' = NoJob /\ pack' # pack /\ pack.loaded
        /\ job.hashes = pack.hashes
        => pack'.ents = pack.ents /\ pack'.edges = pack.edges]_packVars

(* Every edge is a call that the caller's file makes by the name its       *)
(* callee has, or by its last part, between two symbols of the pack: a     *)
(* callee that moved or went takes the edges of unchanged callers with it. *)
Invokes(text, n) == NamedBy(text, n) \/ (text \in DOMAIN TailOf /\ NamedBy(TailOf[text], n))
EdgesAreCalls ==
    \A e \in pack.edges :
        /\ {e.from, e.to} \subseteq Names(pack.ents)
        /\ e.from[1] \notin raced =>
            \E k \in Calls[pack.hashes[e.from[1]]] : k[1] = e.from[2] /\ Invokes(k[2], e.to)

(* What one tool names another serves, under the same version: a listed or *)
(* found symbol hydrates, one of a file that was not edited under the pack *)
(* is of the content that was hashed, and a listing that is cut leaves out *)
(* the least central.                                                      *)
ListedIsServed ==
    \A f \in DOMAIN pack.hashes, k \in 1..Cardinality(Names(pack.ents)) :
        LET listed == ListSymbols(pack, f, k)
            found == SearchSymbols(pack, Names(pack.ents), k)
        IN  /\ \A n \in listed.symbols \cup found.symbols :
                 /\ HydrateSymbol(pack, n, 0).code = "ok"
                 /\ HydrateSymbol(pack, n, 0).version = listed.version
                 /\ n[1] \notin raced => n[2] \in DefinedIn(pack.hashes[n[1]])
            /\ \A n \in Names(pack.ents) : n[1] = f /\ n \notin listed.symbols =>
                 Cardinality(listed.symbols) = k /\ \A m \in listed.symbols : MoreCentral(m, n)

(* "High-signal neighbours win when the budget is tight": hydrating with   *)
(* neighbours serves true callers and callees within the budget, each with *)
(* a body and in one role, and never one while a more central is left out. *)
NeighboursAreTheBest ==
    \A n \in Names(pack.ents) :
        LET near == HydrateSymbol(pack, n, 1).near
            served == near.callees \cup near.callers
        IN  /\ near.callees \cap near.callers = {}
            /\ served # {} => Tokens(served) <= Budget
            /\ \A m \in served : Entity(pack, m).body /\
                  \E e \in pack.edges : {e.from, e.to} = {m, n}
            /\ \A m \in served, x \in Priced(pack, Callees(pack, n) \cup Callers(pack, n)) \ served :
                  MoreCentral(m, x)

(* An incremental pack is as good as its hashes: kept entities are those   *)
(* of the contents hashed, kept edges still call, no change is neutral,    *)
(* and what the tools serve from it agrees.                                *)
PackIsExact ==
    /\ [](HashVouches /\ EdgesAreCalls /\ ListedIsServed /\ NeighboursAreTheBest)
    /\ NoChangeIsNeutral

(* Stated and refuted: "every response includes a pack_version field; if   *)
(* mismatched, reset the symbol cache" - under one version a symbol can    *)
(* move in its file, which the version does not hash.                      *)
SameVersionSameReply ==
    [][pack.loaded /\ pack'.loaded /\ PackVersion(pack') = PackVersion(pack) =>
        \A n \in Names(pack.ents) : HydrateSymbol(pack', n, 0) = HydrateSymbol(pack, n, 0)]_packVars

(* Stated and refuted: the edges "never lie about who points where": one   *)
(* that was resolved by the last part of a call stays when another symbol  *)
(* gets the whole of its name, and a pack from nothing has the other.      *)
CallsResolveNow ==
    \A e \in pack.edges : e.from[1] \notin raced =>
        \E k \in Calls[pack.hashes[e.from[1]]] :
            k[1] = e.from[2] /\ e.to \in Candidates(<<Nowhere, k[2]>>, Names(pack.ents))

(* Stated and refuted: `ignored_path` is for what "is intentionally        *)
(* outside the pack"; a file written after the pack gets it as well.       *)
IgnoredIsExcluded == \A f \in Files : pack.loaded => ServeFile(pack, f).code # "ignored_path"

(* Stated and refuted: what the escape hatch returns is of the pack whose  *)
(* version it carries (it reads the disk, which may have moved on).        *)
RawFileIsOfThePack ==
    \A f \in DOMAIN pack.hashes : ServeFile(pack, f).code = "ok" => ServeFile(pack, f).content = pack.hashes[f]

(* Stated and refuted: `budget_exceeded` "if depth=1 and the symbol's      *)
(* neighbours can't fit" - the reply then has no neighbours, and no code.  *)
BudgetIsAnnounced ==
    \A n \in Names(pack.ents) :
        LET reply == HydrateSymbol(pack, n, 1) IN
        reply.near.callees \cup reply.near.callers = {} /\ reply.code = "ok" =>
            Priced(pack, Callees(pack, n) \cup Callers(pack, n)) = {}

=============================================================================
