--------------------------- MODULE TranscriptText ---------------------------
(***************************************************************************)
(* How ctxpack/agent/transcript_parser.py cuts a message into sentences:   *)
(* fenced blocks are quoted material and go, soft-wrapped lines are folded *)
(* back together, and what is left is filtered by length.  Every extractor *)
(* sits behind these three steps.                                          *)
(*                                                                         *)
(* A line is what the regular expressions see of it:                       *)
(*   k     "blank", "prose", "head" (heading, quote, table row), "item"    *)
(*         (list item) or "fence" (three or more backticks or tildes)      *)
(*   mark  it leads with Decision:, Constraint: or Supersedes:             *)
(*   ends  it ends in . ! or ?        ind   it is indented                 *)
(*   len   its length                                                      *)
(*   c, n, info   a fence's character, length and info string ("word", or  *)
(*         "tick": one that holds a backtick); "none" where there is none  *)
(* A line of a text is named by its position, 0 is a line left blank.      *)
(*                                                                         *)
(* Identifiers are mined from the message as it is: a candidate is the     *)
(* span one of the classes matches, and the class's priority.              *)
(***************************************************************************)
EXTENDS Integers, Sequences, FiniteSets, SequencesExt

CONSTANTS
    MessageLine,    \* the lines a message is made of
    MinLen,         \* shortest sentence kept (15 characters)
    SentenceCap,    \* longest sentence kept (300)
    MarkerCap,      \* longest marker-led sentence kept (900)
    Candidate,      \* spans that may match: [at, len, prio]
    MaxFound,       \* bound: candidates in a message
    MaxLines        \* bound: lines of a message

ASSUME TextAssumption ==
    /\ MinLen \in Nat /\ SentenceCap \in Nat /\ MarkerCap \in Nat
    /\ MinLen <= SentenceCap /\ SentenceCap <= MarkerCap
ASSUME LineAssumption ==
    MessageLine \subseteq
        [k : {"blank", "prose", "head", "item", "fence"},
         mark : {"none", "decision", "constraint", "supersedes"},
         ends : BOOLEAN, ind : BOOLEAN, len : Nat,
         c : {"none", "tick", "tilde"}, n : Nat, info : {"none", "word", "tick"}]
ASSUME CandidateAssumption == Candidate \subseteq [at : Nat, len : Nat \ {0}, prio : Nat]

VARIABLES
    message,    \* the lines of one message
    spans       \* the identifier candidates in it

textVars == <<message, spans>>

NoFence == [c |-> "none", n |-> 0]

\* (mutant) any fence line opens or closes
FeedToggles(fence, l) ==
    IF l.k # "fence" THEN fence
    ELSE IF fence = NoFence THEN [c |-> l.c, n |-> l.n] ELSE NoFence
\* _FenceTracker: the fence that is open after line l
Feed(fence, l) ==
    IF l.k # "fence" THEN fence
    ELSE IF fence = NoFence
         THEN IF l.c = "tick" /\ l.info = "tick" THEN NoFence ELSE [c |-> l.c, n |-> l.n]
         ELSE IF l.c = fence.c /\ l.n >= fence.n /\ l.info = "none" THEN NoFence ELSE fence

\* what is inside a fence, its two marker lines included
IsQuoted(fence, l) == fence # NoFence \/ Feed(fence, l) # fence

\* _drop_fenced, one line after another: a removed block leaves one blank
\* line behind
DropLine(ls, acc, i) ==
    LET q == IsQuoted(acc.fence, ls[i]) IN
    [fence |-> Feed(acc.fence, ls[i]),
     cut |-> q,
     out |-> IF q THEN acc.out ELSE acc.out \o (IF acc.cut THEN <<0, i>> ELSE <<i>>)]
Dropping(ls) ==
    LET after[i \in 0..Len(ls)] ==
            IF i = 0 THEN [fence |-> NoFence, cut |-> FALSE, out |-> <<>>]
            ELSE DropLine(ls, after[i - 1], i)
    IN after
DropFenced(ls) == Dropping(ls)[Len(ls)].out

\* _join_soft_wraps: the blocks of a text, an empty one where a line is blank
StartsBlock(l) == l.k \in {"head", "item"} \/ l.mark # "none"
EndsBlock(ls, block, l) ==
    \/ block = <<>>
    \/ ls[block[Len(block)]].ends
    \/ ls[block[1]].k = "head"
    \/ ls[block[1]].k = "item" /\ ~l.ind
JoinLine(ls, out, i) ==
    IF i = 0 \/ ls[i].k = "blank" THEN Append(out, <<>>)
    ELSE IF out = <<>> \/ StartsBlock(ls[i]) THEN Append(out, <<i>>)
    ELSE IF EndsBlock(ls, out[Len(out)], ls[i]) THEN Append(out, <<i>>)
    ELSE [out EXCEPT ![Len(out)] = Append(@, i)]
Joining(ls, kept) ==
    LET after[m \in 0..Len(kept)] ==
            IF m = 0 THEN <<>> ELSE JoinLine(ls, after[m - 1], kept[m])
    IN after
JoinSoftWraps(ls, kept) == Joining(ls, kept)[Len(kept)]

\* _sentences: long ones survive only behind a marker
LengthOf(ls, s) == FoldLeft(LAMBDA n, i : n + ls[i].len, 0, s)
Sentences(ls, kept) ==
    {s \in ToSet(JoinSoftWraps(ls, kept)) :
        /\ s # <<>>
        /\ LengthOf(ls, s) >= MinLen
        /\ LengthOf(ls, s) <= IF ls[s[1]].mark \in {"decision", "constraint"}
                              THEN MarkerCap ELSE SentenceCap}

\* _extract_literals: candidates in order of their start, the longer first, then
\* by class; one that begins inside the last one taken is dropped
Precedes(c, d) ==
    \/ c.at < d.at
    \/ c.at = d.at /\ c.len > d.len
    \/ c.at = d.at /\ c.len = d.len /\ c.prio < d.prio
ByStart(cands) ==
    [r \in 1..Cardinality(cands) |->
        CHOOSE c \in cands : Cardinality({d \in cands : Precedes(d, c)}) = r - 1]
TakeSpan(out, c) ==
    IF out # <<>> /\ c.at < out[Len(out)].at + out[Len(out)].len THEN out ELSE Append(out, c)
Taking(order) ==
    LET after[m \in 0..Len(order)] ==
            IF m = 0 THEN <<>> ELSE TakeSpan(after[m - 1], order[m])
    IN after
ExtractLiterals(cands) == Taking(ByStart(cands))[Cardinality(cands)]

TextInit == message = <<>> /\ spans = {}

\* a message with one more line
AddLine(l) ==
    /\ Len(message) < MaxLines /\ spans = {}
    /\ message' = Append(message, l)
    /\ UNCHANGED spans

\* a message with one more candidate in it
AddCandidate(c) ==
    /\ Cardinality(spans) < MaxFound /\ message = <<>>
    /\ spans' = spans \cup {c}
    /\ UNCHANGED message

TextNext ==
    \/ \E l \in MessageLine : AddLine(l)
    \/ \E c \in Candidate : AddCandidate(c)

-----------------------------------------------------------------------------
Unquoted == DropFenced(message)
Stated == Sentences(message, Unquoted)

(* A sentence never joins lines from the two sides of a quotation or of a  *)
(* blank line: nobody can be made to state what a fence sits in the middle *)
(* of (the boundary _drop_fenced leaves and _join_soft_wraps respects).    *)
NothingStitched ==
    \A s \in Stated : \A j \in 1..(Len(s) - 1) : s[j + 1] = s[j] + 1

(* A statement marker always leads its sentence, so the extractors, which  *)
(* look only at the start, see every marker that is kept.                  *)
MarkersLead ==
    \A s \in Stated : \A j \in 2..Len(s) : message[s[j]].mark = "none"

(* Text after a fence opener is stated only if a closing line came between *)
(* the two: an unterminated fence quotes everything to the end, and an     *)
(* inner fence of another kind does not end the quotation.                 *)
FenceFailsClosed ==
    \A o, i \in DOMAIN message :
        (/\ o < i
         /\ Dropping(message)[o - 1].fence = NoFence /\ IsQuoted(NoFence, message[o])
         /\ \E s \in Stated : i \in ToSet(s))
        => \E e \in (o + 1)..(i - 1) :
             /\ message[e].k = "fence" /\ message[e].c = message[o].c
             /\ message[e].n >= message[o].n /\ message[e].info = "none"

(* A soft-wrapped statement is never severed: an unfinished prose or       *)
(* marker line and the plain line right below it are in one sentence,      *)
(* unless the sentence is dropped whole.                                   *)
WrapsAreWhole ==
    \A i \in 1..(Len(message) - 1) :
        (/\ {i, i + 1} \subseteq ToSet(Unquoted)
         /\ message[i].k \in {"prose", "fence"} /\ ~message[i].ends
         /\ message[i + 1].k = "prose" /\ message[i + 1].mark = "none"
         /\ (i > 1 => message[i - 1].k = "blank"))
        => \A s \in Stated : i \in ToSet(s) <=> i + 1 \in ToSet(s)

(* Mined identifiers never overlap, in whatever order the classes found    *)
(* them, and one is dropped only for another that begins no later than it, *)
(* the longest that begins there (_extract_literals: no cap, "silently     *)
(* dropping an id defeats the ledger's whole purpose").                    *)
Meet(c, d) == c.at < d.at + d.len /\ d.at < c.at + c.len
Mined == ExtractLiterals(spans)
LiteralsTakeOnce ==
    /\ \A i, j \in DOMAIN Mined : i < j => Mined[i].at + Mined[i].len <= Mined[j].at
    /\ \A c \in spans \ ToSet(Mined) : \E d \in ToSet(Mined) :
            Meet(c, d) /\ (d.at < c.at \/ (d.at = c.at /\ d.len >= c.len))

(* Stated and refuted: "longest-match-wins on overlap" (_extract_literals).*)
(* An earlier start wins, also against a longer match that begins inside.  *)
LongestWins ==
    \A c \in spans \ ToSet(Mined) : \E d \in ToSet(Mined) : Meet(c, d) /\ d.len >= c.len

(* What is taken as stated is what its author stated: nothing quoted,      *)
(* stitched together, cut short or buried behind a marker; and no          *)
(* identifier is banked twice or lost but to one it overlaps.              *)
RecordsReadWhole ==
    /\ LiteralsTakeOnce
    /\ NothingStitched
    /\ MarkersLead
    /\ FenceFailsClosed
    /\ WrapsAreWhole

=============================================================================
