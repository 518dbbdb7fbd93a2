--------------------------- MODULE SourceReaders ---------------------------
(***************************************************************************)
(* What a corpus file gives the packer: the entities, rules and warnings   *)
(* read from YAML (module Yaml), Markdown (md_parser.py, with the section  *)
(* references of xref_resolver.py), JSON (json_parser.py), TOML            *)
(* (toml_parser.py, its own parser for the Pythons without tomllib         *)
(* included) and CSV (csv_parser.py).  A file is a sequence of records:    *)
(*    yaml  a line of module Yaml                                          *)
(*    md    [k, lvl, about]  k = "head" of a level, "bullet", "prose",     *)
(*          "note" or "warn"; about is the entity a heading resolves to,   *)
(*          or NoThing                                                     *)
(*    json  <<key, kind>>    a pair of the top object and what its value   *)
(*          looks like                                                     *)
(*    toml  [k, path, key]   "table", "array" (of tables) or "pair"        *)
(*    csv   [entity, field]  a row, either part possibly empty             *)
(***************************************************************************)
EXTENDS Yaml

CONSTANTS FileRecord(_,_), \* the records a file of a format may hold at a place
          NoThing,        \* no entity, no field, no key
          NameOf(_),   \* _canonicalize_name
          MaxRecords(_)   \* bound: the records of a file

VARIABLES format, file

readerVars == <<format, file>>
Formats == {"yaml", "md", "json", "toml", "csv"}

-----------------------------------------------------------------------------
(***************************************************************************)
(* Markdown: an entity is open or not, and a heading may have named the    *)
(* field that the lines after it belong to.                                *)
(***************************************************************************)
EmptyReader ==
    [entity |-> NoThing, key |-> NoThing, done |-> <<>>, open |-> <<>>, rules |-> <<>>,
     notes |-> {}, warned |-> {}]

WithOpen(r) == IF r.entity = NoThing THEN r.done ELSE Append(r.done, <<r.entity, r.open>>)
\* a heading of level 1 that names no entity closes the one that is open
PlainTop(r, p) == [r EXCEPT !.done = WithOpen(r), !.entity = NoThing, !.open = <<>>, !.key = p]

HeadingRead(r, line, p) ==
    IF line.lvl <= 2 /\ line.about # NoThing
    THEN [r EXCEPT !.done = WithOpen(r), !.entity = <<line.about, p>>, !.open = <<>>, !.key = NoThing]
    ELSE IF line.lvl = 1 THEN PlainTop(r, p) ELSE [r EXCEPT !.key = p]

\* a fact goes to the open entity, or to the rules when only a key is known
FactRead(r, key, p) ==
    IF r.entity # NoThing THEN [r EXCEPT !.open = Append(@, <<key, p>>)]
    ELSE [r EXCEPT !.rules = Append(@, <<key, p>>)]

LineRead(r, line, p) ==
    CASE line.k = "head" -> HeadingRead(r, line, p)
      [] line.k = "warn" -> [r EXCEPT !.warned = @ \cup {<<p, r.entity>>}]
      [] line.k = "note" /\ r.entity # NoThing /\ r.key # NoThing ->
            \* one annotation for a key: a later one takes its place
            [r EXCEPT !.notes = {n \in @ : n[1] # r.entity \/ n[2] # r.key} \cup {<<r.entity, r.key, p>>}]
      [] line.k = "bullet" /\ (r.entity # NoThing \/ r.key # NoThing) -> FactRead(r, r.key, p)
      [] line.k = "prose" /\ r.key # NoThing -> FactRead(r, r.key, p)
      [] OTHER -> r

MarkdownRead(lines) ==
    LET r == FoldLeft(LAMBDA acc, p : LineRead(acc, lines[p], p), EmptyReader,
                      [p \in DOMAIN lines |-> p])
    IN [r EXCEPT !.done = WithOpen(r)]

\* the number of each heading: how many of its level there were, within each of
\* the levels above it
Numbered(lines) ==
    FoldLeft(LAMBDA acc, p :
                IF lines[p].k # "head" THEN acc
                ELSE LET level == lines[p].lvl
                         counters == [i \in 1..4 |-> CASE i < level -> acc.counters[i]
                                                       [] i = level -> acc.counters[i] + 1
                                                       [] OTHER -> 0]
                     IN [counters |-> counters,
                         index |-> acc.index \cup {<<SubSeq(counters, 1, level), p>>}],
             [counters |-> <<0, 0, 0, 0>>, index |-> {}],
             [p \in DOMAIN lines |-> p])

\* reference: the headings above a line that tell where it belongs
Headings(lines) == {q \in DOMAIN lines : lines[q].k = "head"}
Names(line) == line.lvl <= 2 /\ line.about # NoThing
LastAbove(p, heads) == Max({q \in heads : q < p} \cup {0})
EntityAbove(lines, p) ==
    LET last == LastAbove(p, {q \in Headings(lines) : Names(lines[q]) \/ lines[q].lvl = 1})
    IN IF last = 0 \/ ~Names(lines[last]) THEN NoThing ELSE <<lines[last].about, last>>
KeyAbove(lines, p) ==
    LET last == LastAbove(p, Headings(lines))
    IN IF last = 0 \/ Names(lines[last]) THEN NoThing ELSE last

\* A line of a Markdown file belongs to the entity of the nearest heading that
\* names one, unless a plain heading of level 1 stands between, and to the field
\* the nearest heading names: so it is kept, once, there; a bullet is lost only
\* above every heading, and prose only where no field is named
\* (extract_entities_from_md).
LinesGoWhereTheyStand(lines) ==
    LET r == MarkdownRead(lines)
        facts == UNION {{<<r.done[i][1], f[1], f[2]>> : f \in ToSet(r.done[i][2])} : i \in DOMAIN r.done}
                    \cup {<<NoThing, f[1], f[2]>> : f \in ToSet(r.rules)}
        of(k) == {p \in DOMAIN lines : lines[p].k = k}
        placed(p) == <<EntityAbove(lines, p), KeyAbove(lines, p), p>>
    IN /\ facts = {placed(p) : p \in {q \in of("bullet") : EntityAbove(lines, q) # NoThing \/ KeyAbove(lines, q) # NoThing}
                                    \cup {q \in of("prose") : KeyAbove(lines, q) # NoThing}}
       /\ r.warned = {<<p, EntityAbove(lines, p)>> : p \in of("warn")}
       /\ Len(r.done) = Cardinality({p \in of("head") : lines[p].lvl <= 2 /\ lines[p].about # NoThing})

\* A reference to a section finds one heading at most, and finds the heading that
\* stands at that place in the outline of the file (build_section_index).
NumbersFollowTheOutline(lines) ==
    LET index == Numbered(lines).index
        under(q, level) == LastAbove(q, {h \in Headings(lines) : lines[h].lvl < level})
        place(p, level) ==
            Cardinality({q \in Headings(lines) : /\ q <= p /\ lines[q].lvl = level
                                                 /\ under(q, level) = under(p, level)})
    IN /\ \A x, y \in index : x[1] = y[1] => x[2] = y[2]
       /\ \A x \in index : \A level \in DOMAIN x[1] : x[1][level] = place(x[2], level)

-----------------------------------------------------------------------------
(***************************************************************************)
(* JSON and TOML: what each pair of the top object becomes.  A value is a  *)
(* "scalar", a "table" (with no key an entity may have), an "entity" (with *)
(* one), an "objects" list (two or more with a key in common), an "uneven" *)
(* list of objects without one, or a "group" of entities (under the key    *)
(* "entity" of TOML).                                                      *)
(***************************************************************************)
KeysIn(pairs) == {pairs[i][1] : i \in DOMAIN pairs}
WithKind(pairs, kinds) == {pairs[i][1] : i \in {j \in DOMAIN pairs : pairs[j][2] \in kinds}}
Nothing == [entities |-> {}, rules |-> {}]

\* "policies" is looked at only without "rules", and what is no entity beside
\* them is dropped
RulesFirst(pairs) ==
    [entities |-> WithKind(pairs, {"entity"}) \ {"rules", "policies"},
     rules |-> (IF "rules" \in KeysIn(pairs) THEN {"rules"} ELSE {"policies"}) \ WithKind(pairs, {"scalar"})]

JsonRead(pairs) ==
    CASE "entity" \in KeysIn(pairs) -> [Nothing EXCEPT !.entities = {"entity"}]
      [] "entity" \notin KeysIn(pairs) /\ KeysIn(pairs) \cap {"rules", "policies"} # {} -> RulesFirst(pairs)
      [] OTHER -> [entities |-> WithKind(pairs, {"entity", "objects"}),
                   rules |-> WithKind(pairs, {"scalar", "table", "group"})]

TomlRead(pairs) ==
    IF "entity" \in WithKind(pairs, {"group", "table", "entity"})
    THEN \* the entities are the tables in it; what else it holds is dropped
         [entities |-> ({"entity"} \cap WithKind(pairs, {"group"}))
                         \cup (WithKind(pairs, {"entity"}) \ {"entity"}),
          rules |-> KeysIn(pairs) \ ({"entity"} \cup WithKind(pairs, {"entity"}))]
    ELSE [entities |-> WithKind(pairs, {"entity", "table", "group"}),
          rules |-> WithKind(pairs, {"scalar", "objects", "uneven"})]

\* Without the keys that change how a file is read, each pair at the top of a JSON
\* or TOML file becomes one entity or one rule; uneven lists are the exception in
\* JSON.  Rules never hide an entity that stands beside them
\* (extract_entities_from_json, extract_entities_from_toml).
PairsAreTaken(pairs) ==
    LET json == JsonRead(pairs)
        toml == TomlRead(pairs)
        ordinary == KeysIn(pairs) \cap {"entity", "rules", "policies"} = {}
        taken(out) == out.entities \cup out.rules
    IN /\ ordinary => taken(json) = KeysIn(pairs) \ WithKind(pairs, {"uneven"})
       /\ ordinary => taken(toml) = KeysIn(pairs)
       /\ json.entities \cap json.rules = {} /\ toml.entities \cap toml.rules = {}
       /\ "entity" \notin KeysIn(pairs) =>
             WithKind(pairs, {"entity"}) \ {"rules", "policies"} \subseteq json.entities \cap toml.entities

-----------------------------------------------------------------------------
(***************************************************************************)
(* The parser for TOML where there is no tomllib: tables are named by      *)
(* paths, and a pair belongs to the table opened last.                     *)
(***************************************************************************)
\* a pair that names a table takes its place; a table below a scalar cannot be
\* opened, and nothing can be written in a scalar
TomlLine(acc, line, p) ==
    CASE acc.failed \/ line.k = "array" -> acc
      [] ~acc.failed /\ line.k = "table" ->
            [acc EXCEPT !.at = line.path,
                        !.failed = \E v \in acc.pairs : IsStrictPrefix(Append(v[1], v[2]), line.path)]
      [] ~acc.failed /\ line.k \notin {"array", "table"} /\ (\E v \in acc.pairs : Append(v[1], v[2]) = acc.at) ->
            [acc EXCEPT !.failed = TRUE]
      [] OTHER ->
            LET name == Append(acc.at, line.key)
            IN [acc EXCEPT !.pairs = {v \in @ : ~IsPrefix(name, Append(v[1], v[2]))}
                                        \cup {<<acc.at, line.key, p>>}]
TomlParsed(lines) ==
    FoldLeft(LAMBDA acc, p : TomlLine(acc, lines[p], p),
             [at |-> <<>>, pairs |-> {}, failed |-> FALSE], [p \in DOMAIN lines |-> p])

TableAbove(lines, p, kinds) ==
    LET tables == {q \in 1..(p - 1) : lines[q].k \in kinds}
    IN IF tables = {} THEN <<>> ELSE lines[Max(tables)].path
\* Without arrays of tables a pair is found in the table it stands under, however
\* often a table is reopened, and the last of a key wins; unless one name stands for
\* a pair and a table, which is no TOML (_fallback_toml_parse).
PairsLandInTheirTable(lines) ==
    LET parsed == TomlParsed(lines)
        pairs == {p \in DOMAIN lines : lines[p].k = "pair"}
        at(p) == <<TableAbove(lines, p, {"table"}), lines[p].key>>
        clash == \E p \in pairs, q \in DOMAIN lines : IsPrefix(Append(at(p)[1], at(p)[2]), lines[q].path)
    IN ~clash /\ (\A p \in DOMAIN lines : lines[p].k # "array") =>
         /\ ~parsed.failed
         /\ parsed.pairs = {<<at(p)[1], at(p)[2], p>> :
                               p \in {q \in pairs : \A o \in pairs : at(o) = at(q) => o <= q}}

-----------------------------------------------------------------------------
(***************************************************************************)
(* CSV with an entity column: rows are grouped by the name as written.     *)
(***************************************************************************)
CsvRead(rows) ==
    LET named == {p \in DOMAIN rows : rows[p].entity # NoThing}
    IN {[name |-> NameOf(e),
         fields |-> {p \in named : rows[p].entity = e /\ rows[p].field # NoThing}]
           : e \in {rows[p].entity : p \in named}}
\* A row with a name and a field is a field of one entity of that name, whichever
\* rows stand between (_extract_entity_per_row).
RowsAreGrouped(rows) ==
    \A p \in DOMAIN rows :
        LET holders == {e \in CsvRead(rows) : p \in e.fields}
        IN IF rows[p].entity = NoThing \/ rows[p].field = NoThing THEN holders = {}
           ELSE {e.name : e \in holders} = {NameOf(rows[p].entity)}

-----------------------------------------------------------------------------
ReadersInit == format \in Formats /\ file = <<>>
ReadersNext ==
    /\ UNCHANGED format
    /\ Len(file) < MaxRecords(format)
    /\ \E record \in FileRecord(format, Len(file) + 1) :
         /\ format = "yaml" => MayStand(file, record)
         /\ format = "json" => record[1] \notin KeysIn(file)
         /\ file' = Append(file, record)
ReadersSpec == ReadersInit /\ [][ReadersNext]_readerVars

\* A corpus file gives the packer all that its format says it holds, each fact
\* where it stands in the file.
SourcesAreReadWhole ==
    /\ format = "yaml" => DocumentIsItsTree(file) /\ EveryKeyIsExtracted(file)
    /\ format = "md" => LinesGoWhereTheyStand(file) /\ NumbersFollowTheOutline(file)
    /\ format = "json" => PairsAreTaken(file)
    /\ format = "toml" => PairsLandInTheirTable(file)
    /\ format = "csv" => RowsAreGrouped(file)

\* Stated and fails: nothing of a YAML file is lost; rows of one entity make one
\* entity (two spellings of a name make two); an array of tables keeps its pairs to
\* itself (they go to the table before it); no pair of a JSON file is dropped.
NoYamlIsLost == format = "yaml" => YamlIsNeverLost(file)
OneEntityPerName ==
    format = "csv" => \A d, e \in CsvRead(file) : d.name = e.name => d = e
ArraysKeepTheirPairs ==
    format = "toml" =>
        \A v \in TomlParsed(file).pairs : v[1] = TableAbove(file, v[3], {"table", "array"})
NoPairIsDropped ==
    format = "json" => JsonRead(file).entities \cup JsonRead(file).rules = KeysIn(file)
=============================================================================
