----------------------------- MODULE Hydration -----------------------------
(***************************************************************************)
(* Serving a packed document: the directory a model is shown, hydration by *)
(* name with its filters and by query with BM25 (core/hydrator.py,         *)
(* core/bm25.py, core/hydration_protocol.py), the log of hydrations        *)
(* (core/telemetry.py) and the guard over the answers (modules/guard.py).  *)
(* The document grows as it is repacked, and a logger may die in a line.   *)
(***************************************************************************)
EXTENDS Integers, Sequences, FiniteSets, SequencesExt, FiniteSetsExt

CONSTANTS
    DocSection,     \* [name, id, prov, layer, conf, expires, words]
    Word,           \* stems
    Request,        \* sequences of names a model may ask for
    Wanted,         \* sets of stems a program may look for
    Idf,            \* [df, n] -> inverse document frequency, scaled
    Response,       \* [said, unknown, empty]
    Filter,         \* [layers, conf, expiry] a request may come with
    MaxWork, MaxNow2 \* bounds: sections and requests together, and the time

VARIABLES
    pages,          \* the sections of the document, in order
    today,            \* time
    served,         \* the last reply by name, with the request it answers
    hits            \* the lines of the telemetry file

hydraVars == <<pages, today, served, hits>>

----------------------------------------------------------------------------
(* By name.                                                                *)

\* (mutant) the index keeps the first one
LookupFirst(doc, name) == {i \in DOMAIN doc : doc[i].name = name /\
                             \A j \in DOMAIN doc : doc[j].name = name => j >= i}
\* the index keeps the last section of a name
Lookup(doc, name) == {i \in DOMAIN doc : doc[i].name = name /\
                        \A j \in DOMAIN doc : doc[j].name = name => j <= i}
\* a section without provenance is a rule, believed in full, that never ends
LayerOf(s) == IF s.prov THEN s.layer ELSE "rules"
ConfOf(s) == IF s.prov THEN s.conf ELSE 100
Expired(s, t) == s.prov /\ s.expires # 0 /\ s.expires < t
Admits(s, f, t) ==
    /\ LayerOf(s) \in f.layers /\ ConfOf(s) >= f.conf
    /\ ~(f.expiry /\ Expired(s, t))
HydrateByName(doc, names, f, t) ==
    LET found == [i \in DOMAIN names |-> {doc[j] : j \in {k \in Lookup(doc, names[i]) :
                                                             Admits(doc[k], f, t)}}]
        kept == SelectSeq(found, LAMBDA S : S # {})
    IN [i \in DOMAIN kept |-> CHOOSE s \in kept[i] : TRUE]

\* the directory: every section, with the identifier of the first of its name
ListSections(doc) == [i \in DOMAIN doc |-> doc[i].name]
ExtractIdentifier(doc, name) ==
    LET at == {i \in DOMAIN doc : doc[i].name = name /\ doc[i].id # ""}
    IN IF at = {} THEN "" ELSE doc[Min(at)].id

----------------------------------------------------------------------------
(* By query: BM25 with k1 = 1.5 and b = 0.75, in integers.                 *)

Length(s) == MapThenSumSet(LAMBDA w : s.words[w], Word)
DocLength(doc) == FoldSeq(LAMBDA s, n : n + Length(s), 0, doc)
Df(doc, w) == Cardinality({i \in DOMAIN doc : doc[i].words[w] > 0})
TermScore(doc, s, w) ==
    LET all == DocLength(doc)  f == s.words[w]
    IN IF f = 0 THEN 0
       ELSE (Idf[Df(doc, w), Len(doc)] * 2000 * f * all)
              \div ((8 * f + 3) * all + 9 * Length(s) * Len(doc))
Score(doc, s, terms) == MapThenSumSet(LAMBDA w : TermScore(doc, s, w), terms)
\* the best first, an earlier section before a later one
Ahead(doc, terms, i, j) ==
    LET a == Score(doc, doc[i], terms)  b == Score(doc, doc[j], terms) IN a > b \/ (a = b /\ i < j)
HydrateByQuery(doc, terms, n) ==
    LET scored == {i \in DOMAIN doc : Score(doc, doc[i], terms) > 0}
    IN {i \in scored : Cardinality({j \in scored : Ahead(doc, terms, j, i)}) < n}

----------------------------------------------------------------------------
(* ctx/hydrate, without filters: by the names that were given, else by the *)
(* query, else the directory.                                              *)

NoFilter == [layers |-> {LayerOf(s) : s \in DocSection}, conf |-> 0, expiry |-> FALSE]
HandleHydrate(doc, names, terms, n) ==
    CASE names # <<>> -> [is |-> "sections", secs |-> ToSet(HydrateByName(doc, names, NoFilter, today))]
      [] names = <<>> /\ terms # {} ->
            [is |-> "sections", secs |-> {doc[i] : i \in HydrateByQuery(doc, terms, n)}]
      [] OTHER -> [is |-> "directory", listed |-> ToSet(ListSections(doc))]

----------------------------------------------------------------------------
(* The guard and the second round.                                         *)

\* what is said when the context did not suffice: for the second round only,
\* for the guard only, or for both
NeedsRehydration(r) == r.empty \/ r.said \in {"both", "rehydrate"}
Recommendation(r) ==
    IF r.empty THEN "warn"
    ELSE IF r.unknown >= 2 THEN "new_session"
    ELSE IF r.unknown = 1 THEN "retry"
    ELSE IF r.said \in {"both", "guard"} THEN "warn"
    ELSE "ok"
LowConfidence(r) == r.empty \/ r.unknown > 0 \/ r.said \in {"both", "guard"}
Correction(r) ==
    IF Recommendation(r) = "ok" THEN {}
    ELSE IF r.unknown > 0 THEN {"use only the catalog"}
    ELSE IF r.said \in {"both", "guard"} THEN {"use only the context"}
    ELSE {}

----------------------------------------------------------------------------
(* The log: one line for each hydration, appended; a death tears its line  *)
(* and the next one is glued to it.                                        *)

AppendHit(lines, hit) ==
    IF lines # <<>> /\ Last(lines).torn
    THEN Append(Front(lines), [Last(lines) EXCEPT !.torn = hit.torn, !.ok = FALSE])
    ELSE Append(lines, hit)
Hit(names, matched, again, ok) ==
    [names |-> names, matched |-> matched, again |-> again, ok |-> ok, torn |-> ~ok]
ReadHits(lines) == SelectSeq(lines, LAMBDA h : h.ok)
Summary(lines) ==
    LET evs == ReadHits(lines) IN
    [total |-> Len(evs),
     asked |-> FoldSeq(LAMBDA e, n : n + Len(e.names), 0, evs),
     zero |-> Len(SelectSeq(evs, LAMBDA e : e.matched = 0)),
     again |-> Len(SelectSeq(evs, LAMBDA e : e.again))]

----------------------------------------------------------------------------
NotServed == [names |-> <<>>, f |-> [layers |-> {}, conf |-> 0, expiry |-> FALSE], out |-> <<>>]
HydraInit == pages = <<>> /\ today = 1 /\ served = NotServed /\ hits = <<>>

AddPage ==
    /\ Len(pages) + Len(hits) < MaxWork
    /\ \E s \in DocSection : pages' = Append(pages, s)
    /\ UNCHANGED <<today, served, hits>>
Later == today < MaxNow2 /\ today' = today + 1 /\ UNCHANGED <<pages, served, hits>>
\* a request, the second one for an answer perhaps; a death in the append leaves
\* part of the line
Serve(names, f, again, ok) ==
    /\ Len(pages) + Len(hits) < MaxWork
    /\ LET out == HydrateByName(pages, names, f, today) IN
        /\ served' = [names |-> names, f |-> f, out |-> out]
        /\ hits' = AppendHit(hits, Hit(names, Len(out), again, ok))
    /\ UNCHANGED <<pages, today>>

HydraNext ==
    \/ AddPage
    \/ Later
    \/ \E names \in Request, f \in Filter, again, ok \in BOOLEAN : Serve(names, f, again, ok)

----------------------------------------------------------------------------
Again(doc, t) == HydrateByName(doc, served.names, served.f, t)

(* Asking again for the same names gives the same sections when the        *)
(* document grew by sections of other names, and after some time only the  *)
(* expired ones are gone.                                                  *)
RepliesSurviveGrowth ==
    [][/\ (Len(pages') > Len(pages) /\ Last(pages').name \notin ToSet(served.names)) =>
            Again(pages', today) = Again(pages, today)
       /\ today' > today => \A s \in ToSet(Again(pages, today)) \ ToSet(Again(pages, today')) :
                          served.f.expiry /\ Expired(s, today')]_hydraVars

(* A repacked section replaces the one it renews: a reply never holds an   *)
(* older section of a name beside or instead of a newer one that the       *)
(* filters admit.                                                          *)
NewestIsServed ==
    \A f \in Filter, i \in DOMAIN pages : Admits(pages[i], f, today) =>
        LET out == HydrateByName(pages, <<pages[i].name>>, f, today) IN
        \A s \in ToSet(out) :
            \E j \in i..Len(pages) : pages[j] = s /\ pages[j].name = pages[i].name

(* A caller gets to every section it can see: whatever the directory lists *)
(* is served by its name, whatever a query finds is listed, and a query    *)
(* that comes with names does not change what the names get.               *)
DirectoryIsReachable ==
    pages # <<>> => LET listed == HandleHydrate(pages, <<>>, {}, 1).listed IN
    /\ \A name \in listed : HandleHydrate(pages, <<name>>, {}, 1).secs # {}
    /\ \A terms \in Wanted :
        /\ \A s \in HandleHydrate(pages, <<>>, terms, 2).secs :
             s.name \in listed /\ HandleHydrate(pages, <<s.name>>, {}, 2).secs # {}
        /\ \A names \in Request :
             HandleHydrate(pages, names, terms, 2) = HandleHydrate(pages, names, {}, 2)

(* The identifier the directory shows is that of the section it leads to.  *)
(* It does not hold when a name comes twice: the first is shown, the last  *)
(* is served.                                                              *)
DirectoryShowsWhatIsServed ==
    \A i \in DOMAIN pages : \A j \in Lookup(pages, pages[i].name) :
        pages[j].id # "" => ExtractIdentifier(pages, pages[i].name) = pages[j].id

(* A section that says every word of the query at least as often as        *)
(* another and is not longer is not left out for it; nothing without a     *)
(* word of the query is served, and a larger answer extends a smaller one. *)
QueriesRankFairly ==
    pages # <<>> => \A terms \in Wanted :
        /\ HydrateByQuery(pages, terms, 1) \subseteq HydrateByQuery(pages, terms, 2)
        /\ \A i \in HydrateByQuery(pages, terms, 1) :
            /\ \E w \in terms : pages[i].words[w] > 0
            /\ \A j \in DOMAIN pages :
                ((\A w \in terms : pages[j].words[w] >= pages[i].words[w])
                   /\ Length(pages[j]) <= Length(pages[i])
                   /\ j \notin HydrateByQuery(pages, terms, 1)) =>
                Score(pages, pages[i], terms) = Score(pages, pages[j], terms) /\ i < j

(* The summary counts every line that was written whole after a whole one, *)
(* and its rates are those of the lines it read.                           *)
SummaryIsExact ==
    LET s == Summary(hits) IN
    /\ s.zero <= s.total /\ s.again <= s.total
    /\ s.total + Len(SelectSeq(hits, LAMBDA h : ~h.ok)) = Len(hits)
    /\ s.total > 0 => s.asked >= s.total

(* The guard agrees with itself: it recommends something else than going   *)
(* on exactly when its confidence is low, and it has a correction for      *)
(* every response that is not empty and not ok.                            *)
GuardIsConsistent ==
    \A r \in Response :
        /\ (Recommendation(r) # "ok") = LowConfidence(r)
        /\ (Recommendation(r) # "ok" /\ ~r.empty) => Correction(r) # {}

(* The guard extends the signals of the second round, as it says.  It does *)
(* not hold: "insufficient context" is no signal of the guard.             *)
GuardExtendsRehydration == \A r \in Response : NeedsRehydration(r) => LowConfidence(r)

(* What is served is what was asked for: the newest section of each name,  *)
(* unmoved by what else is packed, and the best matches of a query.        *)
ServingIsSound ==
    /\ [](NewestIsServed /\ DirectoryIsReachable /\ QueriesRankFairly
            /\ SummaryIsExact /\ GuardIsConsistent)
    /\ RepliesSurviveGrowth
=============================================================================
