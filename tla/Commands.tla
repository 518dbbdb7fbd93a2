------------------------------ MODULE Commands ------------------------------
(***************************************************************************)
(* ctxpack/cli/main.py: the commands that write files of their own.        *)
(* `pack` turns a corpus into up to four files, `fmt --inplace` rewrites   *)
(* one of them, `elicit` loads a store and moves a new one over it, and    *)
(* the readers (`parse`, `validate`, `hydrate`, `diff`) read one or two.   *)
(*                                                                         *)
(* A document is the number of the pack that made it; formatting keeps     *)
(* what it says.  A text is written behind a truncation, in parts: a file  *)
(* may be found empty, which no reader accepts, or short, which parses.    *)
(***************************************************************************)
EXTENDS Integers, Sequences, FiniteSets

CONSTANTS
    Shell,          \* processes
    Voice,          \* what experts say to `elicit`
    Parallel,       \* may two commands run at once?
    MaxPacks2, MaxFmts, MaxElicits, MaxCuts

VARIABLES
    doc4,           \* the output file, its provenance, the gist and the manifest
    facts,          \* the elicited facts
    factsTmp,       \* the file that is moved over them
    shell,          \* process -> the command it runs, or how it ended
    said,           \* voices of commands that reported success
    cmdTally

cmdVars == <<doc4, facts, factsTmp, shell, said, cmdTally>>

Doc == {"out", "prov", "L3", "MANIFEST"}
NoDoc == [is |-> "absent", run |-> 0]
EmptyDoc == [is |-> "empty", run |-> 0]
ShortDoc(run) == [is |-> "short", run |-> run]
WholeDoc(run) == [is |-> "whole", run |-> run]
Prompt == [at |-> "prompt"]
\* _run: a refusal or any exception is exit code 1
Exited(what, code) == [at |-> "exited", what |-> what, code |-> code]

CmdInit ==
    /\ doc4 = [d \in Doc |-> NoDoc]
    /\ facts = [is |-> "whole", voices |-> {}] /\ factsTmp = [is |-> "absent"]
    /\ shell = [p \in Shell |-> Prompt] /\ said = {}
    /\ cmdTally = [pack |-> 0, fmt |-> 0, elicit |-> 0, cut |-> 0]

-----------------------------------------------------------------------------
AtPrompt(p) == shell[p].at \in {"prompt", "exited"}
Becomes(p, to) == shell' = [shell EXCEPT ![p] = to]
Launches(p, k, max) ==
    /\ AtPrompt(p) /\ (Parallel \/ \A q \in Shell : AtPrompt(q))
    /\ cmdTally[k] < max /\ cmdTally' = [cmdTally EXCEPT ![k] = @ + 1]
StoreRests == UNCHANGED <<facts, factsTmp, said>>

\* (mutant) the companions are written before the document they describe
CompanionsFirst(companion, layers) ==
    (IF companion THEN <<"prov">> ELSE <<>>) \o <<"out">> \o (IF layers THEN <<"L3", "MANIFEST">> ELSE <<>>)
\* the files of one pack, in the order in which they are written: the manifest
\* is generated exactly when the gist is
FilesOf(companion, layers) ==
    <<"out">> \o (IF companion THEN <<"prov">> ELSE <<>>) \o (IF layers THEN <<"L3", "MANIFEST">> ELSE <<>>)

(***************************************************************************)
(* pack: everything is packed and serialised, and validated when asked,    *)
(* before the first file is opened.                                        *)
(***************************************************************************)
PackBegins(p, companion, layers) ==
    /\ Launches(p, "pack", MaxPacks2)
    /\ Becomes(p, [at |-> "open", what |-> "pack", put |-> WholeDoc(cmdTally.pack + 1),
                   files |-> FilesOf(companion, layers), did |-> {}])
    /\ UNCHANGED doc4 /\ StoreRests

\* --validate finds errors, or the corpus cannot be packed
PackRefuses(p) ==
    /\ Launches(p, "pack", MaxPacks2)
    /\ Becomes(p, Exited("pack", 1))
    /\ UNCHANGED doc4 /\ StoreRests

(***************************************************************************)
(* fmt --inplace: read, parse, serialise, open the same file, write.       *)
(***************************************************************************)
Parses(d) == doc4[d].is \in {"short", "whole"}
FmtReads(p, d) ==
    /\ Launches(p, "fmt", MaxFmts)
    /\ Becomes(p, IF Parses(d) THEN [at |-> "open", what |-> "fmt", put |-> doc4[d], files |-> <<d>>, did |-> {}]
                  ELSE Exited("fmt", 1))
    /\ UNCHANGED doc4 /\ StoreRests

\* open(.., "w") truncates; the text follows, perhaps in parts
OpensFile(p) ==
    /\ shell[p].at = "open"
    /\ doc4' = [doc4 EXCEPT ![Head(shell[p].files)] = EmptyDoc]
    /\ Becomes(p, [shell[p] EXCEPT !.at = "write"])
    /\ UNCHANGED cmdTally /\ StoreRests
WritesPart(p) ==
    /\ shell[p].at = "write" /\ doc4[Head(shell[p].files)].is # "short"
    /\ doc4' = [doc4 EXCEPT ![Head(shell[p].files)] = ShortDoc(shell[p].put.run)]
    /\ UNCHANGED <<shell, cmdTally>> /\ StoreRests
WritesFile(p) ==
    /\ shell[p].at = "write"
    /\ LET d == Head(shell[p].files) IN
       /\ doc4' = [doc4 EXCEPT ![d] = shell[p].put]
       /\ Becomes(p, IF Len(shell[p].files) = 1
                     THEN [at |-> "exited", what |-> shell[p].what, code |-> 0,
                           did |-> shell[p].did \cup {d}, run |-> shell[p].put.run]
                     ELSE [shell[p] EXCEPT !.at = "open", !.files = Tail(@), !.did = @ \cup {d}])
    /\ UNCHANGED cmdTally /\ StoreRests

(***************************************************************************)
(* elicit: load the store, act on the copy, write it beside, move it over. *)
(***************************************************************************)
ElicitLoads(p, v) ==
    /\ Launches(p, "elicit", MaxElicits)
    /\ Becomes(p, IF facts.is = "whole" THEN [at |-> "elicit", voices |-> facts.voices \cup {v}, voice |-> v]
                  ELSE Exited("elicit", 1))
    /\ UNCHANGED <<doc4, facts, factsTmp, said>>

Aside(p, content) == factsTmp' = content /\ UNCHANGED facts

ElicitOpens(p) ==
    /\ shell[p].at = "elicit" /\ Aside(p, [is |-> "empty"])
    /\ Becomes(p, [shell[p] EXCEPT !.at = "elicitWrite"])
    /\ UNCHANGED <<doc4, said, cmdTally>>
ElicitWrites(p) ==
    /\ shell[p].at = "elicitWrite" /\ Aside(p, [is |-> "whole", voices |-> shell[p].voices])
    /\ Becomes(p, [shell[p] EXCEPT !.at = "elicitMove"])
    /\ UNCHANGED <<doc4, said, cmdTally>>
\* os.replace; another command may have moved the file away
ElicitMoves(p) ==
    /\ shell[p].at = "elicitMove"
    /\ IF factsTmp.is = "absent" THEN Becomes(p, Exited("elicit", 1)) /\ UNCHANGED <<facts, said>>
       ELSE facts' = factsTmp /\ said' = said \cup {shell[p].voice} /\ Becomes(p, Exited("elicit", 0))
    /\ factsTmp' = [is |-> "absent"]
    /\ UNCHANGED <<doc4, cmdTally>>

\* a command dies: what it wrote so far stays
IsKilled(p) ==
    /\ ~AtPrompt(p) /\ cmdTally.cut < MaxCuts
    /\ cmdTally' = [cmdTally EXCEPT !.cut = @ + 1]
    /\ Becomes(p, Prompt)
    /\ UNCHANGED doc4 /\ StoreRests

(***************************************************************************)
(* The readers: a command reads its file, or the first of its two, in one  *)
(* step.                                                                   *)
(***************************************************************************)
ReadsDoc(p, d) ==
    /\ AtPrompt(p)
    /\ Becomes(p, IF Parses(d) THEN [at |-> "exited", what |-> "read", code |-> 0, saw |-> doc4[d]]
                  ELSE Exited("read", 1))
    /\ UNCHANGED <<doc4, cmdTally>> /\ StoreRests

CmdNext ==
    \E p \in Shell :
        \/ \E companion, layers \in BOOLEAN : PackBegins(p, companion, layers)
        \/ PackRefuses(p)
        \/ \E d \in Doc : FmtReads(p, d) \/ ReadsDoc(p, d)
        \/ OpensFile(p) \/ WritesPart(p) \/ WritesFile(p)
        \/ \E v \in Voice : ElicitLoads(p, v)
        \/ ElicitOpens(p) \/ ElicitWrites(p) \/ ElicitMoves(p)
        \/ IsKilled(p)

-----------------------------------------------------------------------------
Succeeded(p, what) == shell[p].at = "exited" /\ shell[p].what = what /\ shell[p].code = 0

(* A pack that reports success has replaced every file it was to write,    *)
(* those included that an earlier death left empty or short.               *)
SuccessIsWhole ==
    [][~Parallel => \A p \in Shell : ~Succeeded(p, "pack") /\ Succeeded(p, "pack")' =>
          \A d \in shell'[p].did : doc4'[d] = WholeDoc(shell'[p].run)]_cmdVars

(* A death leaves one file torn at most, and what describes a document is  *)
(* never newer than the document: after a death in between, the            *)
(* provenance, gist and manifest are of the pack before.                   *)
CompanionsTrail ==
    ~Parallel =>
        /\ Cardinality({d \in Doc : doc4[d].is \in {"empty", "short"}}) <= cmdTally.cut + 1
        /\ \A d \in Doc \ {"out"} : Parses("out") => doc4[d].run <= doc4["out"].run
        /\ Parses("L3") => doc4["MANIFEST"].run <= doc4["L3"].run

(* No command puts back what an older pack said: what is truncated is no   *)
(* newer than what its writer is about to put there, though that was read  *)
(* or packed some steps before.                                            *)
NothingIsPutBack ==
    [][~Parallel => \A p \in Shell : OpensFile(p) =>
          doc4[Head(shell[p].files)].run <= shell[p].put.run]_cmdVars

(* "Atomically write": whichever command dies at whichever step, the store *)
(* can be read, and holds what every command that reported success said.   *)
VoicesAreStored ==
    ~Parallel => facts.is = "whole" /\ said \subseteq facts.voices

(* The files a command leaves are those of one pack, read or put back as a *)
(* whole, and the store is never half written.                             *)
CommandsLeaveWholeFiles ==
    /\ [](CompanionsTrail /\ VoicesAreStored)
    /\ SuccessIsWhole
    /\ NothingIsPutBack

(* Stated and refuted: a reader that succeeds has read all of a document   *)
(* (one that was cut behind its header parses).                            *)
ReadersSeeAll ==
    \A p \in Shell : Succeeded(p, "read") => shell[p].saw.is = "whole"

(* Stated and refuted: companions are of the pack of their document (a     *)
(* pack without them leaves the earlier ones beside the new document).     *)
CompanionsAgree ==
    (\A p \in Shell : AtPrompt(p)) => \A d \in Doc \ {"out"} : Parses(d) => doc4[d].run = doc4["out"].run

=============================================================================
