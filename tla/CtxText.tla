------------------------------ MODULE CtxText ------------------------------
(***************************************************************************)
(* The text of a .ctx document: its parser (ctxpack/core/parser.py), line  *)
(* by line, and its serializer (ctxpack/core/serializer.py).  A document   *)
(* is parsed, written back and parsed again; the tree of a parse is kept   *)
(* as the list of its nodes in order, each with the section that owns it.  *)
(*                                                                         *)
(* A line is [kind, ind, net, id]: its shape, its indentation, how many    *)
(* brackets it opens more than it closes, and what tells it from others.   *)
(***************************************************************************)
EXTENDS Integers, Sequences, SequencesExt

CONSTANTS
    BodyLine,    \* lines of a body
    HeaderKey,   \* header fields: "required", "recommended" or "custom"
                 \* followed by the field's place in the alphabet
    MaxBody,     \* bound: lines of a body
    MaxHeader    \* bound: fields of a header

ASSUME CtxTextBounds == MaxBody \in Nat /\ MaxHeader \in Nat

VARIABLES
    source,   \* the lines of the body, as given or as written back
    pos,      \* how many of them are consumed
    nodes,    \* the nodes parsed
    owners,   \* the sections the next line may belong to, innermost last
    reading,  \* what spans lines: a quoted block or a value's brackets
    pass,     \* first, second: which parse this is; done
    given,    \* ghost: the text and tree of the first parse
    header    \* the header's fields: [status, metadata]

ctxVars == <<source, pos, nodes, owners, reading, pass, given, header>>

Body == [mode |-> "body", depth |-> 0]
NextLine == source[pos + 1]
AtEnd == pos = Len(source)

(***************************************************************************)
(* Parsing.                                                                *)
(***************************************************************************)
\* a section belongs to the innermost section indented less than it
SectionOwners(ind) == SelectSeq(owners, LAMBDA n : nodes[n].ind < ind)
\* any other line to the innermost section not indented more than it
ContentOwners(ind) == SelectSeq(owners, LAMBDA n : nodes[n].ind <= ind)
OwnerOf(list) == IF list = <<>> THEN 0 ELSE list[Len(list)]
Node(line, list) ==
    [kind |-> line.kind, ind |-> IF line.kind = "section" THEN line.ind ELSE 0,
     owner |-> OwnerOf(list), lines |-> <<line>>]
Extend(line) == [nodes EXCEPT ![Len(nodes)].lines = Append(@, line)]

\* _parse_body drops blank lines
ReadBlank ==
    /\ reading.mode = "body" /\ ~AtEnd /\ NextLine.kind = "blank"
    /\ pos' = pos + 1
    /\ UNCHANGED <<source, nodes, owners, reading, pass, given, header>>
\* _parse_section
ReadSection ==
    /\ reading.mode = "body" /\ ~AtEnd /\ NextLine.kind = "section"
    /\ LET open == SectionOwners(NextLine.ind) IN
         /\ nodes' = Append(nodes, Node(NextLine, open))
         /\ owners' = Append(open, Len(nodes) + 1)
    /\ pos' = pos + 1
    /\ UNCHANGED <<source, reading, pass, given, header>>
\* _classify_line: a fence opens a quoted block, a value may leave brackets
\* open
ReadContent ==
    /\ reading.mode = "body" /\ ~AtEnd /\ NextLine.kind \notin {"blank", "section"}
    /\ nodes' = Append(nodes, Node(NextLine, ContentOwners(NextLine.ind)))
    /\ owners' = ContentOwners(NextLine.ind)
    /\ pos' = pos + 1
    /\ reading' = IF NextLine.kind = "fence" THEN [mode |-> "quote", depth |-> 0]
                  ELSE IF NextLine.kind \in {"kv", "sequence"} /\ NextLine.net > 0
                  THEN [mode |-> "value", depth |-> NextLine.net] ELSE Body
    /\ UNCHANGED <<source, pass, given, header>>
\* _parse_quoted_block: to the next fence, or to the end of the text
ReadQuoted ==
    /\ reading.mode = "quote" /\ ~AtEnd
    /\ nodes' = Extend(NextLine)
    /\ reading' = IF NextLine.kind = "fence" THEN Body ELSE reading
    /\ pos' = pos + 1
    /\ UNCHANGED <<source, owners, pass, given, header>>
\* _balance_brackets: a section marker ends a value that was never closed
StopsAtSection == NextLine.kind = "section"
ReadValue ==
    /\ reading.mode = "value" /\ ~AtEnd /\ ~StopsAtSection
    /\ nodes' = Extend(NextLine)
    /\ reading' = IF reading.depth + NextLine.net <= 0 THEN Body
                  ELSE [reading EXCEPT !.depth = @ + NextLine.net]
    /\ pos' = pos + 1
    /\ UNCHANGED <<source, owners, pass, given, header>>
AbandonValue ==
    /\ reading.mode = "value"
    /\ ~AtEnd /\ StopsAtSection
    /\ reading' = Body
    /\ UNCHANGED <<source, pos, nodes, owners, pass, given, header>>

(***************************************************************************)
(* Writing.                                                                *)
(***************************************************************************)
\* (mutant) content is indented below its section
Deeper(line) == [line EXCEPT !.ind = @ + 2]
\* _serialize_body_iter: a section keeps its indentation, other lines lose
\* theirs; a quoted block is closed, and an empty one holds a blank line; an
\* inline list has no case and is left out
Flush(line) == [line EXCEPT !.ind = 0]
Fence == [kind |-> "fence", ind |-> 0, net |-> 0, id |-> ""]
Blank == [kind |-> "blank", ind |-> 0, net |-> 0, id |-> ""]
Quoted(lines) == LET inside == SelectSeq(lines, LAMBDA l : l.kind # "fence")
                 IN IF inside = <<>> THEN <<Blank>> ELSE inside
WrittenAs(node) ==
    CASE node.kind = "section" -> node.lines
      [] node.kind = "inline" -> <<>>
      [] node.kind = "fence" ->
           <<Flush(node.lines[1])>> \o Quoted(Tail(node.lines)) \o <<Fence>>
      [] OTHER -> <<Flush(node.lines[1])>> \o Tail(node.lines)
InOrderRead(list) == list
Serialized(list) ==
    LET order == InOrderRead(list) IN FlattenSeq([i \in DOMAIN order |-> WrittenAs(order[i])])

WriteBack ==
    /\ AtEnd
    /\ pass = "first"
    /\ given' = [text |-> source, nodes |-> nodes]
    /\ source' = Serialized(nodes)
    /\ pos' = 0 /\ nodes' = <<>> /\ owners' = <<>> /\ reading' = Body
    /\ pass' = "second"
    /\ UNCHANGED header
Done ==
    /\ AtEnd
    /\ pass = "second"
    /\ pass' = "done"
    /\ UNCHANGED <<source, pos, nodes, owners, reading, given, header>>

(***************************************************************************)
(* The header.                                                             *)
(***************************************************************************)
Group(key) == IF key[1] = "required" THEN 0 ELSE IF key[1] = "recommended" THEN 1 ELSE 2
Before(a, b) == Group(a) < Group(b) \/ (Group(a) = Group(b) /\ a[2] < b[2])
StatusAfter(h) == SelectSeq(h.status, LAMBDA k : Group(k) = 0)
\* _serialize_header_iter, canonical: only required fields stay on the status
\* line, the others follow with the metadata, sorted
Canonical(h) ==
    StatusAfter(h)
      \o SortSeq(SelectSeq(h.status, LAMBDA k : Group(k) # 0) \o h.metadata, Before)
\* the validator's W003 (_canonical_order): group by group, otherwise as given
InOrder(keys) ==
    keys = SelectSeq(keys, LAMBDA k : Group(k) = 0)
             \o SelectSeq(keys, LAMBDA k : Group(k) = 1)
             \o SelectSeq(keys, LAMBDA k : Group(k) = 2)

-----------------------------------------------------------------------------
CtxInit ==
    /\ source \in UNION {[1..n -> BodyLine] : n \in 0..MaxBody}
    /\ pos = 0 /\ nodes = <<>> /\ owners = <<>> /\ reading = Body
    /\ pass = "first"
    /\ given = [text |-> <<>>, nodes |-> <<>>]
    /\ header = [status |-> <<>>, metadata |-> <<>>]

AddHeaderField(key) ==
    /\ source = <<>> /\ pass = "first"
    /\ Len(header.status) + Len(header.metadata) < MaxHeader
    /\ key \notin ToSet(header.status \o header.metadata)
    /\ \/ header.metadata = <<>> /\ header' = [header EXCEPT !.status = Append(@, key)]
       \/ header' = [header EXCEPT !.metadata = Append(@, key)]
    /\ UNCHANGED <<source, pos, nodes, owners, reading, pass, given>>

CtxNext ==
    \/ ReadBlank \/ ReadSection \/ ReadContent \/ ReadQuoted
    \/ ReadValue \/ AbandonValue \/ WriteBack \/ Done
    \/ \E key \in HeaderKey : AddHeaderField(key)
CtxSpec == CtxInit /\ [][CtxNext]_ctxVars

-----------------------------------------------------------------------------
(***************************************************************************)
(* Properties.                                                             *)
(***************************************************************************)
Parsed == AtEnd /\ pass = "first"
LinesOf(list) == FlattenSeq([i \in DOMAIN list |-> list[i].lines])
Solid(lines) == SelectSeq(lines, LAMBDA l : l.kind # "blank")

\* Every line of the text that is not blank is in one node, in order: nothing
\* is read twice and nothing lost, wherever a block or value is left open
\* (parser.py, _parse_body).
EveryLineIsRead == Parsed => Solid(LinesOf(nodes)) = Solid(source)
\* A value whose brackets never close costs its own section at most: every
\* section marker outside a quoted block opens a section (parser.py,
\* _balance_brackets, "must never swallow the sections that follow it").
SectionsAreNeverSwallowed ==
    \A i \in DOMAIN nodes : nodes[i].kind # "fence" =>
        \A j \in 2..Len(nodes[i].lines) : nodes[i].lines[j].kind # "section"
\* A node lies in its owner: a section in one indented less than it, so that
\* two sections are never inside each other (parser.py, _parse_section).
OwnersAreShallower ==
    \A i \in DOMAIN nodes : nodes[i].owner # 0 =>
        /\ nodes[i].owner < i
        /\ nodes[nodes[i].owner].kind = "section"
        /\ nodes[i].kind = "section" => nodes[nodes[i].owner].ind < nodes[i].ind
\* Writing is stable: what is written of a parsed document, parsed and
\* written again, is the same text, damaged values and open blocks included
\* (serializer.py, serialize of parse).
WritingIsStable == pass = "done" => Serialized(nodes) = source
\* A flat document of the kinds a pack writes comes back as it was: no node
\* moves to another section or changes (serializer.py and parser.py).
Flat(list) == \A n \in ToSet(list) :
    n.ind = 0 /\ n.kind \in {"section", "kv", "plain", "provenance"}
Shape(list) == [i \in DOMAIN list |-> <<list[i].kind, list[i].owner>>]
FlatDocumentsComeBack ==
    pass = "done" /\ Flat(given.nodes) => Shape(nodes) = Shape(given.nodes)
\* A header written in canonical order passes the validator's own check of
\* the order (serializer.py canonical=True, validator.py W003).
CanonicalPassesW003 == InOrder(Canonical(header))

\* Reading loses no line and no section, and writing what was read is stable.
DocumentsAreReadWhole ==
    /\ EveryLineIsRead
    /\ SectionsAreNeverSwallowed
    /\ OwnersAreShallower
    /\ WritingIsStable
    /\ FlatDocumentsComeBack
    /\ CanonicalPassesW003

=============================================================================
