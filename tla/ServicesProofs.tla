---------------------------- MODULE ServicesProofs ----------------------------
(***************************************************************************)
(* What the smaller services guarantee for every value of their constants: *)
(* the commands that write files, the scorecard and its check, the two     *)
(* searches of the entity graph, the server and the session queries.       *)
(***************************************************************************)
EXTENDS Commands, Scorecard, EntityGraph, McpServer, SessionQuery, PositionLemmas, FiniteSetTheorems, SequenceTheorems, TLAPS

-----------------------------------------------------------------------------
(***************************************************************************)
(* Commands.                                                               *)
(***************************************************************************)
CmdSpec == CmdInit /\ [][CmdNext]_cmdVars

DocState == [is : {"absent", "empty", "short", "whole"}, run : Nat]
PutState == [is : {"short", "whole"}, run : Nat]
StoreState == [is : {"whole"}, voices : SUBSET Voice] \cup [is : {"empty"}]
ExitedJobs ==
    [at : {"exited"}, what : {"pack", "fmt", "read", "elicit"}, code : {0, 1}]
      \cup [at : {"exited"}, what : {"pack", "fmt"}, code : {0}, did : SUBSET Doc, run : Nat]
      \cup [at : {"exited"}, what : {"read"}, code : {0}, saw : DocState]
WriterJobs == [at : {"open", "write"}, what : {"pack", "fmt"}, put : PutState,
               files : Seq(Doc), did : SUBSET Doc]
ElicitJobs == [at : {"elicit", "elicitWrite", "elicitMove"}, voices : SUBSET Voice, voice : Voice]

CmdTypeOK ==
    /\ doc4 \in [Doc -> DocState]
    /\ facts \in StoreState
    /\ factsTmp \in StoreState \cup [is : {"absent"}]
    /\ shell \in [Shell -> {Prompt} \cup ExitedJobs \cup WriterJobs \cup ElicitJobs]
    /\ \A p \in Shell : shell[p].at \in {"open", "write"} => shell[p].files # <<>>
    /\ said \in SUBSET Voice
    /\ cmdTally \in [pack : Nat, fmt : Nat, elicit : Nat, cut : Nat]

Writer(p) == shell[p].at \in {"open", "write"}
Teller(p) == shell[p].at \in {"elicit", "elicitWrite", "elicitMove"}

LEMMA JobShapes ==
    ASSUME CmdTypeOK, NEW p \in Shell
    PROVE  /\ Writer(p) => shell[p] \in WriterJobs /\ shell[p].files # <<>>
           /\ Teller(p) => shell[p] \in ElicitJobs
           /\ AtPrompt(p) \/ Writer(p) \/ Teller(p)
           /\ ~(AtPrompt(p) /\ Writer(p)) /\ ~(AtPrompt(p) /\ Teller(p)) /\ ~(Writer(p) /\ Teller(p))
<1>1. shell[p] \in {Prompt} \cup ExitedJobs \cup WriterJobs \cup ElicitJobs
  BY DEF CmdTypeOK
<1>2. CASE shell[p] \in {Prompt} \cup ExitedJobs
  BY <1>2 DEF Prompt, ExitedJobs, Writer, Teller, AtPrompt
<1>3. CASE shell[p] \in WriterJobs
  BY <1>3 DEF WriterJobs, Writer, Teller, AtPrompt, CmdTypeOK
<1>4. CASE shell[p] \in ElicitJobs
  BY <1>4 DEF ElicitJobs, Writer, Teller, AtPrompt
<1> QED BY <1>1, <1>2, <1>3, <1>4

LEMMA FilesOfIsASeq ==
    ASSUME NEW companion \in BOOLEAN, NEW layers \in BOOLEAN
    PROVE  /\ FilesOf(companion, layers) \in Seq(Doc) /\ FilesOf(companion, layers) # <<>>
           /\ FilesOf(companion, layers)[1] = "out"
           /\ Len(FilesOf(companion, layers)) = 1 + (IF companion THEN 1 ELSE 0) + (IF layers THEN 2 ELSE 0)
           /\ companion => FilesOf(companion, layers)[2] = "prov"
           /\ layers => LET n == IF companion THEN 3 ELSE 2
                        IN  FilesOf(companion, layers)[n] = "L3" /\ FilesOf(companion, layers)[n + 1] = "MANIFEST"
<1> DEFINE c == IF companion THEN <<"prov">> ELSE <<>>
           l == IF layers THEN <<"L3", "MANIFEST">> ELSE <<>>
           o == <<"out">>
<1>1. /\ o \in Seq(Doc) /\ Len(o) = 1 /\ o[1] = "out"
      /\ c \in Seq(Doc) /\ Len(c) = (IF companion THEN 1 ELSE 0) /\ (companion => c[1] = "prov")
      /\ l \in Seq(Doc) /\ Len(l) = (IF layers THEN 2 ELSE 0)
      /\ (layers => l[1] = "L3" /\ l[2] = "MANIFEST")
  <2>1. o \in Seq(Doc) /\ Len(o) = 1 /\ o[1] = "out"
    BY DEF Doc
  <2>2. c \in Seq(Doc) /\ Len(c) = (IF companion THEN 1 ELSE 0) /\ (companion => c[1] = "prov")
    <3>1. <<"prov">> \in Seq(Doc) /\ Len(<<"prov">>) = 1 /\ <<"prov">>[1] = "prov"
      BY DEF Doc
    <3>2. <<>> \in Seq(Doc) /\ Len(<<>>) = 0
      OBVIOUS
    <3>3. CASE companion
      BY <3>1, <3>3
    <3>4. CASE ~companion
      BY <3>2, <3>4
    <3> QED BY <3>3, <3>4
  <2>3. CASE layers
    <3>1. l = <<"L3", "MANIFEST">>
      BY <2>3
    <3> HIDE DEF l
    <3>2. l \in Seq(Doc) /\ Len(l) = 2 /\ l[1] = "L3" /\ l[2] = "MANIFEST"
      BY <3>1 DEF Doc
    <3> HIDE DEF c, o
    <3> QED BY <2>1, <2>2, <2>3, <3>2
  <2>4. CASE ~layers
    <3>1. l = <<>>
      BY <2>4
    <3> HIDE DEF l, c, o
    <3>2. l \in Seq(Doc) /\ Len(l) = 0
      BY <3>1
    <3> QED BY <2>1, <2>2, <2>4, <3>2
  <2> QED BY <2>3, <2>4
<1>2. FilesOf(companion, layers) = (o \o c) \o l
  BY DEF FilesOf
<1> HIDE DEF c, l, o
<1>3. /\ o \o c \in Seq(Doc) /\ Len(o \o c) = 1 + Len(c) /\ (o \o c)[1] = "out"
      /\ companion => (o \o c)[2] = "prov"
  <2>1. /\ o \o c \in Seq(Doc) /\ Len(o \o c) = Len(o) + Len(c)
        /\ \A i \in 1..Len(o) + Len(c) : (o \o c)[i] = IF i <= Len(o) THEN o[i] ELSE c[i - Len(o)]
    BY <1>1, ConcatProperties
  <2> QED BY <1>1, <2>1
<1> DEFINE h == o \o c
<1> HIDE DEF h
<1>4. /\ h \in Seq(Doc) /\ Len(h) = 1 + Len(c) /\ h[1] = "out" /\ (companion => h[2] = "prov")
  BY <1>3 DEF h
<1>5. /\ h \o l \in Seq(Doc) /\ Len(h \o l) = Len(h) + Len(l)
      /\ \A i \in 1..Len(h) + Len(l) : (h \o l)[i] = IF i <= Len(h) THEN h[i] ELSE l[i - Len(h)]
  BY <1>1, <1>4, ConcatProperties
<1>6. FilesOf(companion, layers) = h \o l
  BY <1>2 DEF h
<1>7. h \o l # <<>> /\ (h \o l)[1] = "out" /\ (companion => (h \o l)[2] = "prov")
  BY <1>1, <1>4, <1>5
<1>8. layers => LET n == IF companion THEN 3 ELSE 2
                IN  (h \o l)[n] = "L3" /\ (h \o l)[n + 1] = "MANIFEST"
  BY <1>1, <1>4, <1>5
<1> QED BY <1>1, <1>4, <1>5, <1>6, <1>7, <1>8

\* A launch is counted.
LEMMA LaunchIsCounted ==
    ASSUME CmdTypeOK, NEW p \in Shell, NEW k \in {"pack", "fmt", "elicit"}, NEW max, Launches(p, k, max)
    PROVE  cmdTally' \in [pack : Nat, fmt : Nat, elicit : Nat, cut : Nat]
<1>1. CASE k = "pack"
  BY <1>1 DEF Launches, CmdTypeOK
<1>2. CASE k = "fmt"
  BY <1>2 DEF Launches, CmdTypeOK
<1>3. CASE k = "elicit"
  BY <1>3 DEF Launches, CmdTypeOK
<1> QED BY <1>1, <1>2, <1>3

LEMMA CmdTypeStep == CmdTypeOK /\ [CmdNext]_cmdVars => CmdTypeOK'
<1> SUFFICES ASSUME CmdTypeOK, [CmdNext]_cmdVars PROVE CmdTypeOK'
  OBVIOUS
<1> USE DEF CmdTypeOK, Becomes
<1>1. CASE UNCHANGED cmdVars
  BY <1>1 DEF cmdVars
<1>2. ASSUME NEW p \in Shell, NEW companion \in BOOLEAN, NEW layers \in BOOLEAN,
             PackBegins(p, companion, layers)
      PROVE  CmdTypeOK'
  <2> DEFINE j == [at |-> "open", what |-> "pack", put |-> WholeDoc(cmdTally.pack + 1),
                   files |-> FilesOf(companion, layers), did |-> {}]
  <2>1. j \in WriterJobs /\ j.files # <<>>
    BY FilesOfIsASeq DEF WriterJobs, WholeDoc, PutState
  <2>2. shell' = [shell EXCEPT ![p] = j]
    BY <1>2 DEF PackBegins
  <2> HIDE DEF j
  <2>3. cmdTally' \in [pack : Nat, fmt : Nat, elicit : Nat, cut : Nat]
    BY <1>2, LaunchIsCounted DEF PackBegins
  <2> QED BY <1>2, <2>1, <2>2, <2>3 DEF PackBegins, StoreRests
<1>3. ASSUME NEW p \in Shell, PackRefuses(p)
      PROVE  CmdTypeOK'
  <2>1. cmdTally' \in [pack : Nat, fmt : Nat, elicit : Nat, cut : Nat]
    BY <1>3, LaunchIsCounted DEF PackRefuses
  <2>2. Exited("pack", 1) \in ExitedJobs /\ Exited("pack", 1).at = "exited"
    BY DEF Exited, ExitedJobs
  <2> QED BY <1>3, <2>1, <2>2 DEF PackRefuses, StoreRests
<1>4. ASSUME NEW p \in Shell, NEW d \in Doc, FmtReads(p, d)
      PROVE  CmdTypeOK'
  <2> DEFINE j == IF Parses(d) THEN [at |-> "open", what |-> "fmt", put |-> doc4[d], files |-> <<d>>, did |-> {}]
                  ELSE Exited("fmt", 1)
  <2>1. j \in WriterJobs \cup ExitedJobs /\ (j.at \in {"open", "write"} => j.files # <<>>)
    <3>1. CASE Parses(d)
      <4>1. doc4[d] \in PutState
        BY <3>1 DEF Parses, DocState, PutState
      <4> QED BY <3>1, <4>1 DEF WriterJobs
    <3>2. CASE ~Parses(d)
      BY <3>2 DEF Exited, ExitedJobs
    <3> QED BY <3>1, <3>2
  <2>2. shell' = [shell EXCEPT ![p] = j]
    BY <1>4 DEF FmtReads
  <2> HIDE DEF j
  <2>3. cmdTally' \in [pack : Nat, fmt : Nat, elicit : Nat, cut : Nat]
    BY <1>4, LaunchIsCounted DEF FmtReads
  <2> QED BY <1>4, <2>1, <2>2, <2>3 DEF FmtReads, StoreRests
<1>5. ASSUME NEW p \in Shell, NEW d \in Doc, ReadsDoc(p, d)
      PROVE  CmdTypeOK'
  <2> DEFINE j == IF Parses(d) THEN [at |-> "exited", what |-> "read", code |-> 0, saw |-> doc4[d]]
                  ELSE Exited("read", 1)
  <2>1. j \in ExitedJobs /\ j.at = "exited"
    <3>1. CASE Parses(d)
      BY <3>1 DEF ExitedJobs
    <3>2. CASE ~Parses(d)
      BY <3>2 DEF Exited, ExitedJobs
    <3> QED BY <3>1, <3>2
  <2>2. shell' = [shell EXCEPT ![p] = j]
    BY <1>5 DEF ReadsDoc
  <2> HIDE DEF j
  <2> QED BY <1>5, <2>1, <2>2 DEF ReadsDoc, StoreRests
<1>6. ASSUME NEW p \in Shell, OpensFile(p)
      PROVE  CmdTypeOK'
  <2>1. shell[p] \in WriterJobs /\ shell[p].files # <<>>
    BY <1>6, JobShapes DEF OpensFile, Writer
  <2>2. [shell[p] EXCEPT !.at = "write"] \in WriterJobs /\ [shell[p] EXCEPT !.at = "write"].files # <<>>
    BY <2>1 DEF WriterJobs
  <2>3. doc4' \in [Doc -> DocState]
    BY <1>6, <2>1 DEF OpensFile, WriterJobs, EmptyDoc, DocState
  <2> QED BY <1>6, <2>2, <2>3 DEF OpensFile, StoreRests
<1>7. ASSUME NEW p \in Shell, WritesPart(p)
      PROVE  CmdTypeOK'
  <2>1. shell[p] \in WriterJobs /\ shell[p].files # <<>>
    BY <1>7, JobShapes DEF WritesPart, Writer
  <2>2. doc4' \in [Doc -> DocState]
    BY <1>7, <2>1 DEF WritesPart, WriterJobs, ShortDoc, DocState, PutState
  <2> QED BY <1>7, <2>2 DEF WritesPart, StoreRests
<1>8. ASSUME NEW p \in Shell, WritesFile(p)
      PROVE  CmdTypeOK'
  <2>1. shell[p] \in WriterJobs /\ shell[p].files # <<>>
    BY <1>8, JobShapes DEF WritesFile, Writer
  <2> DEFINE d == Head(shell[p].files)
             j == IF Len(shell[p].files) = 1
                  THEN [at |-> "exited", what |-> shell[p].what, code |-> 0,
                        did |-> shell[p].did \cup {d}, run |-> shell[p].put.run]
                  ELSE [shell[p] EXCEPT !.at = "open", !.files = Tail(@), !.did = @ \cup {d}]
  <2>2. d \in Doc /\ Tail(shell[p].files) \in Seq(Doc)
        /\ (Len(shell[p].files) # 1 => Tail(shell[p].files) # <<>>)
    <3>1. shell[p].files \in Seq(Doc)
      BY <2>1 DEF WriterJobs
    <3>2. /\ Head(shell[p].files) \in Doc /\ Tail(shell[p].files) \in Seq(Doc)
          /\ Len(Tail(shell[p].files)) = Len(shell[p].files) - 1
      BY <2>1, <3>1, HeadTailProperties
    <3>3. Len(shell[p].files) # 1 => Len(Tail(shell[p].files)) # 0
      BY <3>1, <3>2
    <3>4. Len(shell[p].files) # 1 => Tail(shell[p].files) # <<>>
      BY <3>3
    <3> QED BY <3>2, <3>4
  <2>3. j \in WriterJobs \cup ExitedJobs /\ (j.at \in {"open", "write"} => j.files # <<>>)
    <3>1. CASE Len(shell[p].files) = 1
      <4>1. /\ shell[p].what \in {"pack", "fmt"} /\ shell[p].did \cup {d} \in SUBSET Doc
            /\ shell[p].put.run \in Nat
        BY <2>1, <2>2 DEF WriterJobs, PutState
      <4> HIDE DEF d
      <4> QED BY <3>1, <4>1 DEF ExitedJobs
    <3>2. CASE Len(shell[p].files) # 1
      BY <2>1, <2>2, <3>2 DEF WriterJobs
    <3> QED BY <3>1, <3>2
  <2>4. shell' = [shell EXCEPT ![p] = j]
    BY <1>8 DEF WritesFile
  <2>5. doc4' \in [Doc -> DocState]
    BY <1>8, <2>1, <2>2 DEF WritesFile, WriterJobs, DocState, PutState
  <2> HIDE DEF j, d
  <2> QED BY <1>8, <2>3, <2>4, <2>5 DEF WritesFile, StoreRests
<1>9. ASSUME NEW p \in Shell, NEW v \in Voice, ElicitLoads(p, v)
      PROVE  CmdTypeOK'
  <2> DEFINE j == IF facts.is = "whole" THEN [at |-> "elicit", voices |-> facts.voices \cup {v}, voice |-> v]
                  ELSE Exited("elicit", 1)
  <2>1. j \in ElicitJobs \cup ExitedJobs /\ j.at \notin {"open", "write"}
    <3>1. CASE facts.is = "whole"
      <4>1. facts.voices \in SUBSET Voice
        BY <3>1 DEF StoreState
      <4> QED BY <3>1, <4>1 DEF ElicitJobs
    <3>2. CASE facts.is # "whole"
      BY <3>2 DEF Exited, ExitedJobs
    <3> QED BY <3>1, <3>2
  <2>2. shell' = [shell EXCEPT ![p] = j]
    BY <1>9 DEF ElicitLoads
  <2> HIDE DEF j
  <2>3. cmdTally' \in [pack : Nat, fmt : Nat, elicit : Nat, cut : Nat]
    BY <1>9, LaunchIsCounted DEF ElicitLoads
  <2>4. UNCHANGED <<doc4, facts, factsTmp, said>>
    BY <1>9 DEF ElicitLoads
  <2> QED BY <2>1, <2>2, <2>3, <2>4
<1>10. ASSUME NEW p \in Shell, ElicitOpens(p) \/ ElicitWrites(p)
       PROVE  CmdTypeOK'
  <2>1. shell[p] \in ElicitJobs
    BY <1>10, JobShapes DEF ElicitOpens, ElicitWrites, Teller
  <2>2. \A at \in {"elicitWrite", "elicitMove"} : [shell[p] EXCEPT !.at = at] \in ElicitJobs
        /\ [shell[p] EXCEPT !.at = at].at \notin {"open", "write"}
    BY <2>1 DEF ElicitJobs
  <2>3. factsTmp' \in StoreState
    BY <1>10, <2>1 DEF ElicitOpens, ElicitWrites, Aside, StoreState, ElicitJobs
  <2> QED BY <1>10, <2>2, <2>3 DEF ElicitOpens, ElicitWrites, Aside
<1>11. ASSUME NEW p \in Shell, ElicitMoves(p)
       PROVE  CmdTypeOK'
  <2>1. shell[p] \in ElicitJobs
    BY <1>11, JobShapes DEF ElicitMoves, Teller
  <2>2. \A c \in {0, 1} : Exited("elicit", c) \in ExitedJobs /\ Exited("elicit", c).at = "exited"
    BY DEF Exited, ExitedJobs
  <2>3. facts' \in StoreState /\ said' \in SUBSET Voice /\ factsTmp' \in [is : {"absent"}]
    BY <1>11, <2>1 DEF ElicitMoves, ElicitJobs, StoreState
  <2> QED BY <1>11, <2>2, <2>3 DEF ElicitMoves
<1>12. ASSUME NEW p \in Shell, IsKilled(p)
       PROVE  CmdTypeOK'
  BY <1>12 DEF IsKilled, StoreRests, Prompt
<1> QED
  BY <1>1, <1>2, <1>3, <1>4, <1>5, <1>6, <1>7, <1>8, <1>9, <1>10, <1>11, <1>12 DEF CmdNext

-----------------------------------------------------------------------------
Alone == \A p, q \in Shell : ~AtPrompt(p) /\ ~AtPrompt(q) => p = q

RunsInv == \A d \in Doc : doc4[d].run <= cmdTally.pack

TrailInv ==
    /\ \A d \in Doc : Parses("out") => doc4[d].run <= doc4["out"].run
    /\ Parses("L3") => doc4["MANIFEST"].run <= doc4["L3"].run

\* Text of pack r may be put into f.
Fits(f, r) ==
    /\ f = "out" => \A d \in Doc : doc4[d].run <= r
    /\ f # "out" /\ Parses("out") => r <= doc4["out"].run
    /\ f = "L3" => doc4["MANIFEST"].run <= r
    /\ f = "MANIFEST" /\ Parses("L3") => r <= doc4["L3"].run

\* What is left of a pack's files: each once, the document first, and the
\* manifest behind the gist.
Lined(files, did) ==
    /\ files[1] # "out" => "out" \in did
    /\ files[1] = "MANIFEST" => "L3" \in did
    /\ \A i \in 1..Len(files) : files[i] \notin did
    /\ \A i \in 2..Len(files) : files[i] # "out" /\ (files[i] = "MANIFEST" => files[i - 1] = "L3")
    /\ \A i, j \in 1..Len(files) : files[i] = files[j] => i = j

WriterInv(p) ==
    LET j == shell[p]
        f == Head(j.files)
    IN /\ j.put.run <= cmdTally.pack
       /\ Fits(f, j.put.run)
       /\ j.at = "open" /\ j.what = "fmt" => doc4[f] = j.put
       /\ j.at = "write" => doc4[f] \in {EmptyDoc, ShortDoc(j.put.run)}
       /\ j.what = "fmt" => Len(j.files) = 1
       /\ j.what = "pack" => /\ j.put = WholeDoc(cmdTally.pack)
                             /\ \A d \in j.did : doc4[d] = j.put
                             /\ Lined(j.files, j.did)
WritersInv == \A p \in Shell : Writer(p) => WriterInv(p)

\* The files that are torn, or will be by what is being written into them.
Torn == {d \in Doc : doc4[d].is \in {"empty", "short"}}
Writing(p, d) == shell[p].at = "write" /\ Head(shell[p].files) = d
Meant == {d \in Doc : \/ d \in Torn /\ \A p \in Shell : ~Writing(p, d)
                      \/ \E p \in Shell : Writing(p, d) /\ shell[p].put.is = "short"}
TornInv == Cardinality(Meant) <= cmdTally.cut

StoreInv ==
    /\ facts.is = "whole" /\ said \subseteq facts.voices
    /\ \A p \in Shell : Teller(p) =>
         /\ shell[p].voices = facts.voices \cup {shell[p].voice}
         /\ shell[p].at = "elicitMove" => factsTmp = [is |-> "whole", voices |-> shell[p].voices]

CmdInv == Alone /\ RunsInv /\ TrailInv /\ WritersInv /\ TornInv /\ StoreInv

LEMMA DocsAreFinite == \A S \in SUBSET Doc : IsFiniteSet(S) /\ Cardinality(S) \in Nat
<1>1. IsFiniteSet({"out"}) /\ IsFiniteSet({"out"} \cup {"prov"})
  <2>1. IsFiniteSet({} \cup {"out"})
    BY FS_EmptySet, FS_AddElement
  <2>2. {} \cup {"out"} = {"out"}
    OBVIOUS
  <2> QED BY <2>1, <2>2, FS_AddElement
<1>2. IsFiniteSet((({"out"} \cup {"prov"}) \cup {"L3"}) \cup {"MANIFEST"})
  <2>1. IsFiniteSet(({"out"} \cup {"prov"}) \cup {"L3"})
    BY <1>1, FS_AddElement
  <2> QED BY <2>1, FS_AddElement
<1>3. Doc = (({"out"} \cup {"prov"}) \cup {"L3"}) \cup {"MANIFEST"}
  BY DEF Doc
<1>4. IsFiniteSet(Doc)
  BY <1>2, <1>3
<1> QED BY <1>4, FS_Subset, FS_CardinalityType

LEMMA OneMoreDoc ==
    ASSUME NEW S \in SUBSET Doc, NEW T \in SUBSET Doc, NEW x, T \subseteq S \cup {x}
    PROVE  Cardinality(T) <= Cardinality(S) + 1
<1>1. IsFiniteSet(S) /\ Cardinality(S) \in Nat
  BY DocsAreFinite
<1>2. /\ IsFiniteSet(S \cup {x})
      /\ Cardinality(S \cup {x}) = IF x \in S THEN Cardinality(S) ELSE Cardinality(S) + 1
  BY <1>1, FS_AddElement
<1>3. Cardinality(T) <= Cardinality(S \cup {x}) /\ Cardinality(T) \in Nat
  BY <1>2, DocsAreFinite, FS_Subset
<1> QED BY <1>1, <1>2, <1>3

LEMMA FilesOfIsLined ==
    ASSUME NEW companion \in BOOLEAN, NEW layers \in BOOLEAN
    PROVE  Lined(FilesOf(companion, layers), {})
<1> DEFINE s == FilesOf(companion, layers)
<1> SUFFICES Lined(s, {})
  OBVIOUS
<1>1. /\ s \in Seq(Doc) /\ s # <<>> /\ s[1] = "out"
      /\ Len(s) = 1 + (IF companion THEN 1 ELSE 0) + (IF layers THEN 2 ELSE 0)
      /\ companion => s[2] = "prov"
      /\ layers => LET n == IF companion THEN 3 ELSE 2 IN s[n] = "L3" /\ s[n + 1] = "MANIFEST"
  BY FilesOfIsASeq
<1> HIDE DEF s
<1>2. CASE companion /\ layers
  <2>1. Len(s) = 4 /\ s[1] = "out" /\ s[2] = "prov" /\ s[3] = "L3" /\ s[4] = "MANIFEST"
    BY <1>1, <1>2
  <2> QED BY <2>1 DEF Lined
<1>3. CASE companion /\ ~layers
  <2>1. Len(s) = 2 /\ s[1] = "out" /\ s[2] = "prov"
    BY <1>1, <1>3
  <2> QED BY <2>1 DEF Lined
<1>4. CASE ~companion /\ layers
  <2>1. Len(s) = 3 /\ s[1] = "out" /\ s[2] = "L3" /\ s[3] = "MANIFEST"
    BY <1>1, <1>4
  <2> QED BY <2>1 DEF Lined
<1>5. CASE ~companion /\ ~layers
  <2>1. Len(s) = 1 /\ s[1] = "out"
    BY <1>1, <1>5
  <2> QED BY <2>1 DEF Lined
<1> QED BY <1>2, <1>3, <1>4, <1>5

LEMMA TailIsLined ==
    ASSUME NEW files \in Seq(Doc), NEW did \in SUBSET Doc, files # <<>>, Len(files) # 1,
           Lined(files, did)
    PROVE  Lined(Tail(files), did \cup {Head(files)})
<1>1. /\ Len(files) \in Nat /\ Len(files) >= 2 /\ Len(Tail(files)) = Len(files) - 1
      /\ \A i \in 1..Len(files) - 1 : Tail(files)[i] = files[i + 1]
      /\ Head(files) = files[1]
  <2>1. Len(files) \in Nat /\ Len(files) # 0 /\ Head(files) = files[1]
    OBVIOUS
  <2>2. /\ Len(Tail(files)) = Len(files) - 1
        /\ \A i \in 1..Len(Tail(files)) : Tail(files)[i] = files[i + 1]
    BY HeadTailProperties
  <2> QED BY <2>1, <2>2
<1>2. /\ Tail(files)[1] = files[2] /\ files[2] # "out"
      /\ "out" \in did \cup {Head(files)}
      /\ files[2] = "MANIFEST" => files[1] = "L3"
  BY <1>1 DEF Lined
<1>3. \A i \in 1..Len(Tail(files)) : Tail(files)[i] \notin did \cup {Head(files)}
  BY <1>1 DEF Lined
<1>4. \A i \in 2..Len(Tail(files)) : Tail(files)[i] # "out"
          /\ (Tail(files)[i] = "MANIFEST" => Tail(files)[i - 1] = "L3")
  <2> SUFFICES ASSUME NEW i \in 2..Len(Tail(files))
               PROVE  Tail(files)[i] # "out" /\ (Tail(files)[i] = "MANIFEST" => Tail(files)[i - 1] = "L3")
    OBVIOUS
  <2>1. i + 1 \in 2..Len(files) /\ Tail(files)[i] = files[i + 1] /\ Tail(files)[i - 1] = files[i]
    BY <1>1
  <2> QED BY <2>1, (i + 1) - 1 = i DEF Lined
<1>5. \A i, j \in 1..Len(Tail(files)) : Tail(files)[i] = Tail(files)[j] => i = j
  <2> SUFFICES ASSUME NEW i \in 1..Len(Tail(files)), NEW j \in 1..Len(Tail(files)),
                      Tail(files)[i] = Tail(files)[j]
               PROVE  i = j
    OBVIOUS
  <2>1. i + 1 \in 1..Len(files) /\ j + 1 \in 1..Len(files) /\ files[i + 1] = files[j + 1]
    BY <1>1
  <2>2. i + 1 = j + 1
    BY <2>1 DEF Lined
  <2> QED BY <2>2
<1> QED BY <1>1, <1>2, <1>3, <1>4, <1>5 DEF Lined

\* A step that leaves the files alone, and every writer where it is.
LEMMA FilesRestStep ==
    ASSUME CmdTypeOK, WritersInv, RunsInv, TrailInv, TornInv,
           doc4' = doc4, cmdTally'.pack = cmdTally.pack, cmdTally'.cut = cmdTally.cut,
           \A q \in Shell : Writer(q) \/ Writer(q)' => shell'[q] = shell[q]
    PROVE  WritersInv' /\ RunsInv' /\ TrailInv' /\ TornInv'
<1>1. \A q \in Shell : Writer(q)' => Writer(q) /\ shell'[q] = shell[q]
  BY DEF Writer
<1>2. \A f, r : Fits(f, r)' = Fits(f, r)
  BY DEF Fits, Parses
<1>3. WritersInv'
  BY <1>1, <1>2 DEF WritersInv, WriterInv
<1>4. \A q \in Shell, d \in Doc : /\ Writing(q, d)' = Writing(q, d)
                                  /\ Writing(q, d) => shell'[q].put = shell[q].put
  BY <1>1 DEF Writing, Writer
<1>5. Meant' = Meant
  BY <1>4 DEF Meant, Torn
<1>6. TrailInv' /\ RunsInv'
  BY DEF TrailInv, RunsInv, Parses
<1> QED BY <1>3, <1>5, <1>6 DEF TornInv

\* Nobody writes while one command starts, and a writer is alone.
LEMMA LonelyWriter ==
    ASSUME CmdTypeOK, Alone, NEW p \in Shell, ~AtPrompt(p)
    PROVE  \A q \in Shell : q # p => AtPrompt(q) /\ ~Writer(q) /\ ~Teller(q)
  BY JobShapes DEF Alone

\* Each step keeps one command at a time, if one starts only at its end.
LEMMA AloneStep ==
    ASSUME CmdTypeOK, ~Parallel, Alone, [CmdNext]_cmdVars
    PROVE  Alone'
<1> DEFINE Idle(p) == \A q \in Shell : AtPrompt(q)
<1>1. CASE UNCHANGED cmdVars
  BY <1>1 DEF cmdVars, Alone, AtPrompt
<1>2. ASSUME NEW p \in Shell, NEW j, shell' = [shell EXCEPT ![p] = j],
             ~AtPrompt(p) \/ (\A q \in Shell : AtPrompt(q)) \/ j.at \in {"prompt", "exited"}
      PROVE  Alone'
  <2>1. \A q \in Shell : q # p => shell'[q] = shell[q]
    BY <1>2 DEF CmdTypeOK
  <2>2. shell'[p] = j
    BY <1>2 DEF CmdTypeOK
  <2>3. CASE j.at \in {"prompt", "exited"}
    BY <2>1, <2>2, <2>3 DEF Alone, AtPrompt
  <2>4. CASE \A q \in Shell : AtPrompt(q)
    BY <2>1, <2>2, <2>4 DEF Alone, AtPrompt
  <2>5. CASE ~AtPrompt(p)
    BY <2>1, <2>2, <2>5 DEF Alone, AtPrompt
  <2> QED BY <1>2, <2>3, <2>4, <2>5
<1>3. ASSUME NEW p \in Shell, NEW companion \in BOOLEAN, NEW layers \in BOOLEAN,
             PackBegins(p, companion, layers)
      PROVE  Alone'
  BY <1>2, <1>3 DEF PackBegins, Launches, Becomes
<1>4. ASSUME NEW p \in Shell, PackRefuses(p)
      PROVE  Alone'
  BY <1>2, <1>4 DEF PackRefuses, Launches, Becomes
<1>5. ASSUME NEW p \in Shell, NEW d \in Doc, FmtReads(p, d)
      PROVE  Alone'
  BY <1>2, <1>5 DEF FmtReads, Launches, Becomes
<1>6. ASSUME NEW p \in Shell, NEW d \in Doc, ReadsDoc(p, d)
      PROVE  Alone'
  <2> DEFINE j == IF Parses(d) THEN [at |-> "exited", what |-> "read", code |-> 0, saw |-> doc4[d]]
                  ELSE Exited("read", 1)
  <2>1. shell' = [shell EXCEPT ![p] = j] /\ j.at = "exited"
    BY <1>6 DEF ReadsDoc, Becomes, Exited
  <2> QED BY <1>2, <2>1
<1>7. ASSUME NEW p \in Shell, OpensFile(p) \/ WritesFile(p)
      PROVE  Alone'
  BY <1>2, <1>7 DEF OpensFile, WritesFile, Becomes, AtPrompt
<1>8. ASSUME NEW p \in Shell, WritesPart(p)
      PROVE  Alone'
  BY <1>8 DEF WritesPart, Alone, AtPrompt
<1>9. ASSUME NEW p \in Shell, NEW v \in Voice, ElicitLoads(p, v)
      PROVE  Alone'
  BY <1>2, <1>9 DEF ElicitLoads, Launches, Becomes
<1>10. ASSUME NEW p \in Shell, ElicitOpens(p) \/ ElicitWrites(p)
       PROVE  Alone'
  BY <1>2, <1>10 DEF ElicitOpens, ElicitWrites, Becomes, AtPrompt
<1>11. ASSUME NEW p \in Shell, ElicitMoves(p)
       PROVE  Alone'
  <2>1. CASE factsTmp.is = "absent"
    BY <1>2, <1>11, <2>1 DEF ElicitMoves, Becomes, AtPrompt
  <2>2. CASE factsTmp.is # "absent"
    BY <1>2, <1>11, <2>2 DEF ElicitMoves, Becomes, AtPrompt
  <2> QED BY <2>1, <2>2
<1>12. ASSUME NEW p \in Shell, IsKilled(p)
       PROVE  Alone'
  BY <1>2, <1>12 DEF IsKilled, Becomes
<1> QED
  BY <1>1, <1>3, <1>4, <1>5, <1>6, <1>7, <1>8, <1>9, <1>10, <1>11, <1>12 DEF CmdNext

\* A command that writes starts: its text fits what is on disk.
LEMMA LaunchStep ==
    ASSUME CmdTypeOK, CmdInv, CmdTypeOK', NEW p \in Shell, \A q \in Shell : AtPrompt(q),
           NEW j \in WriterJobs, j.at = "open", j.did = {},
           shell' = [shell EXCEPT ![p] = j], doc4' = doc4,
           cmdTally'.cut = cmdTally.cut, cmdTally'.pack >= cmdTally.pack,
           j.put.run <= cmdTally'.pack,
           Fits(Head(j.files), j.put.run),
           j.what = "fmt" => Len(j.files) = 1 /\ doc4[Head(j.files)] = j.put,
           j.what = "pack" => j.put = WholeDoc(cmdTally'.pack) /\ Lined(j.files, {})
    PROVE  WritersInv' /\ RunsInv' /\ TrailInv' /\ TornInv'
<1>1. /\ shell'[p] = j
      /\ \A q \in Shell : q # p => shell'[q] = shell[q]
      /\ \A q \in Shell : ~Writer(q)
  BY JobShapes DEF CmdTypeOK
<1>2. RunsInv' /\ TrailInv'
  BY DEF CmdInv, RunsInv, TrailInv, Parses, CmdTypeOK, DocState
<1>3. Fits(Head(j.files), j.put.run)'
  BY DEF Fits, Parses
<1>4. WriterInv(p)'
  BY <1>1, <1>3 DEF WriterInv, WriterJobs
<1>5. WritersInv'
  BY <1>1, <1>4 DEF WritersInv, Writer
<1>6. \A q \in Shell, d \in Doc : ~Writing(q, d) /\ ~Writing(q, d)'
  BY <1>1 DEF Writing, Writer
<1>7. Meant' = Meant
  BY <1>6 DEF Meant, Torn
<1> QED BY <1>2, <1>5, <1>7 DEF TornInv, CmdInv

LEMMA OpensStep ==
    ASSUME CmdTypeOK, CmdInv, NEW p \in Shell, OpensFile(p)
    PROVE  WritersInv' /\ RunsInv' /\ TrailInv' /\ TornInv'
<1> DEFINE f == Head(shell[p].files)
           r == shell[p].put.run
<1>1. /\ Writer(p) /\ shell[p] \in WriterJobs /\ shell[p].files # <<>> /\ f \in Doc /\ r \in Nat
      /\ WriterInv(p) /\ f = shell[p].files[1] /\ 1 \in 1..Len(shell[p].files)
  BY JobShapes DEF OpensFile, Writer, CmdInv, WritersInv, WriterJobs, PutState
<1>2. \A q \in Shell : q # p => ~Writer(q)
  BY <1>1, LonelyWriter, JobShapes DEF CmdInv
<1>3. /\ shell'[p] = [shell[p] EXCEPT !.at = "write"]
      /\ \A q \in Shell : q # p => shell'[q] = shell[q]
      /\ doc4' = [doc4 EXCEPT ![f] = EmptyDoc] /\ cmdTally' = cmdTally
  BY DEF OpensFile, Becomes, CmdTypeOK
<1>4. /\ doc4'[f] = EmptyDoc /\ EmptyDoc.run = 0 /\ EmptyDoc.is = "empty"
      /\ \A d \in Doc : d # f => doc4'[d] = doc4[d]
      /\ \A d \in Doc : doc4[d].run \in Nat /\ doc4'[d].run <= doc4[d].run
  BY <1>1, <1>3 DEF CmdTypeOK, EmptyDoc, DocState
<1> HIDE DEF f, r
<1>5. RunsInv'
  BY <1>3, <1>4 DEF RunsInv, CmdInv, CmdTypeOK
<1>6. TrailInv'
  BY <1>4 DEF TrailInv, CmdInv, Parses, Doc
<1>7. Fits(f, r)'
  <2>1. Fits(f, r)
    BY <1>1 DEF WriterInv, f, r
  <2>2. r' = r /\ f' = f
    BY <1>3, <1>1 DEF f, r, WriterJobs
  <2> QED BY <1>1, <1>4, <2>1, <2>2 DEF Fits, Parses, Doc
<1>8. WriterInv(p)'
  <2>1. /\ shell'[p].files = shell[p].files /\ shell'[p].put = shell[p].put /\ shell'[p].did = shell[p].did
        /\ shell'[p].at = "write" /\ shell'[p].what = shell[p].what
    BY <1>1, <1>3 DEF WriterJobs
  <2>2. shell[p].what = "pack" => \A d \in shell[p].did : d \in Doc /\ d # f
    BY <1>1 DEF WriterInv, Lined, WriterJobs
  <2> QED BY <1>1, <1>3, <1>4, <1>7, <2>1, <2>2 DEF WriterInv, f, r
<1>9. WritersInv'
  BY <1>2, <1>3, <1>8 DEF WritersInv, Writer
<1>10. Meant' \subseteq Meant
  <2>1. \A q \in Shell, d \in Doc : ~Writing(q, d)
    BY <1>2 DEF Writing, Writer, OpensFile
  <2>2. \A q \in Shell, d \in Doc : Writing(q, d)' => q = p /\ d = f
    BY <1>1, <1>2, <1>3 DEF Writing, Writer, f, WriterJobs
  <2>3. shell'[p].put = shell[p].put
    BY <1>1, <1>3 DEF WriterJobs
  <2>4. shell[p].put.is = "short" => f \in Torn
    BY <1>1 DEF WriterInv, Torn, WholeDoc, OpensFile, f, WriterJobs
  <2>5. shell'[p].at = "write" /\ Head(shell'[p].files) = f
    BY <1>1, <1>3 DEF f, WriterJobs
  <2> SUFFICES ASSUME NEW d \in Doc, d \in Meant' PROVE d \in Meant
    BY DEF Meant
  <2>6. CASE d = f
    <3>1. Writing(p, d)'
      BY <2>5, <2>6 DEF Writing
    <3>2. shell'[p].put.is = "short"
      BY <2>2, <3>1 DEF Meant
    <3> QED BY <2>1, <2>3, <2>4, <2>6, <3>2 DEF Meant
  <2>7. CASE d # f
    <3>1. d \in Torn'
      BY <2>2, <2>7 DEF Meant
    <3>2. d \in Torn
      BY <1>4, <2>7, <3>1 DEF Torn
    <3> QED BY <2>1, <3>2 DEF Meant
  <2> QED BY <2>6, <2>7
<1>11. TornInv'
  BY <1>3, <1>10, DocsAreFinite, FS_Subset DEF TornInv, CmdInv, Meant, CmdTypeOK
<1> QED BY <1>5, <1>6, <1>9, <1>11

LEMMA PartStep ==
    ASSUME CmdTypeOK, CmdInv, NEW p \in Shell, WritesPart(p)
    PROVE  WritersInv' /\ RunsInv' /\ TrailInv' /\ TornInv'
<1> DEFINE f == Head(shell[p].files)
           r == shell[p].put.run
<1>1. /\ Writer(p) /\ shell[p] \in WriterJobs /\ shell[p].files # <<>> /\ f \in Doc /\ r \in Nat
      /\ WriterInv(p) /\ f = shell[p].files[1] /\ 1 \in 1..Len(shell[p].files)
  BY JobShapes DEF WritesPart, Writer, CmdInv, WritersInv, WriterJobs, PutState
<1>2. \A q \in Shell : q # p => ~Writer(q)
  BY <1>1, LonelyWriter, JobShapes DEF CmdInv
<1>3. shell' = shell /\ doc4' = [doc4 EXCEPT ![f] = ShortDoc(r)] /\ cmdTally' = cmdTally
  BY DEF WritesPart
<1>4. /\ doc4'[f] = ShortDoc(r) /\ ShortDoc(r).run = r /\ ShortDoc(r).is = "short"
      /\ \A d \in Doc : d # f => doc4'[d] = doc4[d]
      /\ \A d \in Doc : doc4[d].run \in Nat
  BY <1>1, <1>3 DEF CmdTypeOK, ShortDoc, DocState
<1> HIDE DEF f, r
<1>5. RunsInv'
  BY <1>1, <1>3, <1>4 DEF RunsInv, CmdInv, WriterInv, r
<1>6. TrailInv'
  BY <1>1, <1>4 DEF TrailInv, CmdInv, Parses, Doc, WriterInv, Fits, f, r
<1>7. Fits(f, r)'
  <2>1. Fits(f, r)
    BY <1>1 DEF WriterInv, f, r
  <2>2. r' = r /\ f' = f
    BY <1>3, <1>1 DEF f, r, WriterJobs
  <2> QED BY <1>1, <1>4, <2>1, <2>2 DEF Fits, Parses, Doc
<1>8. WriterInv(p)'
  <2>2. shell[p].what = "pack" => \A d \in shell[p].did : d \in Doc /\ d # f
    BY <1>1 DEF WriterInv, Lined, WriterJobs
  <2>3. shell[p].at = "write"
    BY DEF WritesPart
  <2> QED BY <1>1, <1>3, <1>4, <1>7, <2>2, <2>3 DEF WriterInv, f, r
<1>9. WritersInv'
  BY <1>2, <1>3, <1>8 DEF WritersInv, Writer
<1>10. Meant' = Meant
  <2>1. Writing(p, f) /\ \A q \in Shell, d \in Doc : Writing(q, d)' = Writing(q, d)
    BY <1>3 DEF Writing, WritesPart, f
  <2>2. \A d \in Doc : d # f => d \in Torn' <=> d \in Torn
    BY <1>4 DEF Torn
  <2> QED BY <1>3, <2>1, <2>2 DEF Meant
<1>11. TornInv'
  BY <1>3, <1>10 DEF TornInv, CmdInv
<1> QED BY <1>5, <1>6, <1>9, <1>11

LEMMA FileStep ==
    ASSUME CmdTypeOK, CmdInv, NEW p \in Shell, WritesFile(p)
    PROVE  /\ WritersInv' /\ RunsInv' /\ TrailInv' /\ TornInv'
           /\ Succeeded(p, "pack")' => \A d \in shell'[p].did : doc4'[d] = WholeDoc(shell'[p].run)
<1> DEFINE f == Head(shell[p].files)
           put == shell[p].put
           r == put.run
           rest == Tail(shell[p].files)
<1>1. /\ Writer(p) /\ shell[p] \in WriterJobs /\ shell[p].files # <<>> /\ f \in Doc /\ r \in Nat
      /\ WriterInv(p) /\ f = shell[p].files[1] /\ 1 \in 1..Len(shell[p].files)
      /\ put.is \in {"short", "whole"}
  BY JobShapes DEF WritesFile, Writer, CmdInv, WritersInv, WriterJobs, PutState
<1>2. \A q \in Shell : q # p => ~Writer(q)
  BY <1>1, LonelyWriter, JobShapes DEF CmdInv
<1>3. /\ \A q \in Shell : q # p => shell'[q] = shell[q]
      /\ doc4' = [doc4 EXCEPT ![f] = put] /\ cmdTally' = cmdTally
  BY DEF WritesFile, Becomes, CmdTypeOK
<1>4. /\ doc4'[f] = put
      /\ \A d \in Doc : d # f => doc4'[d] = doc4[d]
      /\ \A d \in Doc : doc4[d].run \in Nat
  BY <1>1, <1>3 DEF CmdTypeOK, DocState
<1> HIDE DEF f, put, r
<1>5. RunsInv'
  BY <1>1, <1>3, <1>4 DEF RunsInv, CmdInv, WriterInv, r, put
<1>6. TrailInv'
  BY <1>1, <1>4 DEF TrailInv, CmdInv, Parses, Doc, WriterInv, Fits, f, r, put
<1>7. Writing(p, f) /\ \A q \in Shell, d \in Doc : Writing(q, d) => q = p /\ d = f
  BY <1>2 DEF Writing, Writer, WritesFile, f
<1>8. shell'[p].at # "write"
  BY <1>1 DEF WritesFile, Becomes, CmdTypeOK, WriterJobs
<1>9. Meant' = Meant
  <2>1. \A q \in Shell, d \in Doc : ~Writing(q, d)'
    BY <1>2, <1>3, <1>8 DEF Writing, Writer
  <2>2. \A d \in Doc : d # f => d \in Torn' <=> d \in Torn
    BY <1>4 DEF Torn
  <2>3. f \in Torn' <=> put.is = "short"
    BY <1>1, <1>4 DEF Torn
  <2>4. ASSUME NEW d \in Doc PROVE d \in Meant' <=> d \in Meant
    <3>1. d \in Meant' <=> d \in Torn'
      BY <2>1 DEF Meant
    <3>2. CASE d = f
      <4>1. d \in Meant <=> shell[p].put.is = "short"
        BY <1>7, <3>2 DEF Meant
      <4> QED BY <2>3, <3>1, <3>2, <4>1 DEF put
    <3>3. CASE d # f
      <4>1. d \in Meant <=> d \in Torn
        BY <1>7, <3>3 DEF Meant
      <4> QED BY <2>2, <3>1, <3>3, <4>1
    <3> QED BY <3>2, <3>3
  <2> QED BY <2>4 DEF Meant
<1>10. TornInv'
  BY <1>3, <1>9 DEF TornInv, CmdInv
<1>11. shell[p].what = "pack" => \A d \in shell[p].did \cup {f} : doc4'[d] = put
  BY <1>1, <1>4 DEF WriterInv, Lined, WriterJobs, put
<1>12. CASE Len(shell[p].files) = 1
  <2>1. shell'[p] = [at |-> "exited", what |-> shell[p].what, code |-> 0,
                     did |-> shell[p].did \cup {f}, run |-> put.run]
    BY <1>12 DEF WritesFile, Becomes, CmdTypeOK, f, put
  <2>2. WritersInv'
    BY <1>2, <1>3, <2>1 DEF WritersInv, Writer
  <2>3. Succeeded(p, "pack")' => \A d \in shell'[p].did : doc4'[d] = WholeDoc(shell'[p].run)
    BY <1>1, <1>11, <2>1 DEF Succeeded, WriterInv, WholeDoc, put
  <2> QED BY <1>5, <1>6, <1>10, <2>2, <2>3
<1>13. CASE Len(shell[p].files) # 1
  <2>1. shell'[p] = [shell[p] EXCEPT !.at = "open", !.files = rest, !.did = @ \cup {f}]
    BY <1>13 DEF WritesFile, Becomes, CmdTypeOK, f
  <2>2. /\ shell'[p].at = "open" /\ shell'[p].files = rest /\ shell'[p].did = shell[p].did \cup {f}
        /\ shell'[p].put = put /\ shell'[p].what = shell[p].what
    BY <1>1, <2>1 DEF WriterJobs, put
  <2>3. shell[p].what = "pack"
    BY <1>1, <1>13 DEF WriterInv, WriterJobs
  <2>4. Lined(rest, shell[p].did \cup {f})
    BY <1>1, <1>13, <2>3, TailIsLined DEF WriterInv, WriterJobs, f
  <2>5. rest \in Seq(Doc) /\ rest # <<>> /\ Head(rest) = rest[1] /\ rest[1] \in Doc /\ rest[1] = shell[p].files[2]
    <3>1. shell[p].files \in Seq(Doc) /\ Len(shell[p].files) \in Nat /\ Len(shell[p].files) # 0
      BY <1>1 DEF WriterJobs
    <3>2. /\ rest \in Seq(Doc) /\ Len(rest) = Len(shell[p].files) - 1
          /\ \A i \in 1..Len(rest) : rest[i] = shell[p].files[i + 1]
      BY <1>1, <3>1, HeadTailProperties
    <3> HIDE DEF rest
    <3>3. Len(rest) \in Nat /\ Len(rest) >= 1
      <4>1. ASSUME NEW n \in Nat, n # 0, n # 1 PROVE n - 1 \in Nat /\ n - 1 >= 1
        BY <4>1
      <4> QED BY <1>13, <3>1, <3>2, <4>1
    <3>4. rest # <<>> /\ Head(rest) = rest[1] /\ rest[1] \in Doc
      BY <3>2, <3>3
    <3> QED BY <3>2, <3>3, <3>4
  <2>6. put = WholeDoc(cmdTally.pack) /\ r = cmdTally.pack
    BY <1>1, <2>3 DEF WriterInv, put, r, WholeDoc
  <2>7. Fits(Head(shell[p].files), shell[p].put.run)'
    <3>1. rest[1] # "out"
      <4>1. 2 \in 2..Len(shell[p].files)
        <5>1. ASSUME NEW n \in Nat, n # 0, n # 1 PROVE 2 \in 2..n
          BY <5>1
        <5>2. Len(shell[p].files) \in Nat /\ Len(shell[p].files) # 0
          BY <1>1 DEF WriterJobs
        <5> QED BY <1>13, <5>1, <5>2
      <4> QED BY <1>1, <2>3, <2>5, <4>1 DEF WriterInv, Lined
    <3>2. doc4'["out"] = put
      BY <1>11, <2>3, <2>4, <3>1 DEF Lined
    <3>3. rest[1] = "MANIFEST" => doc4'["L3"] = put
      BY <1>11, <2>3, <2>4 DEF Lined
    <3>4. doc4'["MANIFEST"].run <= r
      BY <1>3, <1>5, <2>6 DEF RunsInv, Doc
    <3>5. Head(shell'[p].files) = rest[1] /\ shell'[p].put.run = r
      BY <2>2, <2>5 DEF r
    <3>6. r <= r /\ put.run = r
      BY <1>1 DEF r
    <3> QED BY <3>1, <3>2, <3>3, <3>4, <3>5, <3>6 DEF Fits
  <2>8. WriterInv(p)'
    <3>1. put.run <= cmdTally'.pack
      BY <1>3, <2>6, <1>1 DEF r
    <3> HIDE DEF rest
    <3> QED BY <1>3, <1>11, <2>2, <2>3, <2>4, <2>6, <2>7, <3>1 DEF WriterInv
  <2>9. WritersInv'
    BY <1>2, <1>3, <2>8 DEF WritersInv, Writer
  <2> QED BY <1>5, <1>6, <1>10, <2>2, <2>9 DEF Succeeded
<1> QED BY <1>12, <1>13

LEMMA KillStep ==
    ASSUME CmdTypeOK, CmdInv, NEW p \in Shell, IsKilled(p)
    PROVE  WritersInv' /\ RunsInv' /\ TrailInv' /\ TornInv'
<1>1. /\ shell'[p] = Prompt /\ doc4' = doc4
      /\ \A q \in Shell : q # p => shell'[q] = shell[q]
      /\ cmdTally'.pack = cmdTally.pack /\ cmdTally'.cut = cmdTally.cut + 1
  BY DEF IsKilled, Becomes, CmdTypeOK
<1>2. \A q \in Shell : q # p => ~Writer(q)
  BY LonelyWriter DEF CmdInv, IsKilled
<1>3. WritersInv'
  BY <1>1, <1>2 DEF WritersInv, Writer, Prompt
<1>4. RunsInv' /\ TrailInv'
  BY <1>1 DEF CmdInv, RunsInv, TrailInv, Parses
<1>5. \A q \in Shell, d \in Doc : ~Writing(q, d)'
  BY <1>1, <1>2 DEF Writing, Writer, Prompt
<1>6. Meant' \subseteq Meant \cup {Head(shell[p].files)}
  <2> SUFFICES ASSUME NEW d \in Doc, d \in Torn, d # Head(shell[p].files)
               PROVE  d \in Meant
    BY <1>1, <1>5 DEF Meant, Torn
  <2>1. \A q \in Shell : ~Writing(q, d)
    BY <1>2 DEF Writing, Writer
  <2> QED BY <2>1 DEF Meant
<1>7. Cardinality(Meant') <= Cardinality(Meant) + 1
  BY <1>6, OneMoreDoc DEF Meant
<1>8. TornInv'
  <2>1. Cardinality(Meant) \in Nat /\ cmdTally.cut \in Nat /\ Cardinality(Meant) <= cmdTally.cut
    BY DocsAreFinite DEF Meant, CmdTypeOK, TornInv, CmdInv
  <2>2. Cardinality(Meant') \in Nat
    BY <1>6, DocsAreFinite DEF Meant
  <2> QED BY <1>1, <1>7, <2>1, <2>2 DEF TornInv
<1> QED BY <1>3, <1>4, <1>8

\* A step on the documents leaves the store alone, and starts no elicitation.
LEMMA StoreRestStep ==
    ASSUME StoreInv, StoreRests, \A q \in Shell : Teller(q)' => shell'[q] = shell[q]
    PROVE  StoreInv'
<1>1. facts' = facts /\ factsTmp' = factsTmp /\ said' = said
  BY DEF StoreRests
<1>2. \A q \in Shell : Teller(q)' => Teller(q) /\ shell'[q] = shell[q]
  BY DEF Teller
<1> QED BY <1>1, <1>2 DEF StoreInv

\* A step on the store leaves the documents alone.
LEMMA ElicitStep ==
    ASSUME CmdTypeOK, CmdInv, CmdTypeOK', NEW p \in Shell,
           \/ ElicitOpens(p) \/ ElicitWrites(p) \/ ElicitMoves(p)
    PROVE  WritersInv' /\ RunsInv' /\ TrailInv' /\ TornInv' /\ StoreInv'
<1>1. /\ Teller(p) /\ shell[p] \in ElicitJobs /\ ~AtPrompt(p)
      /\ shell[p].voices = facts.voices \cup {shell[p].voice}
  BY JobShapes DEF ElicitOpens, ElicitWrites, ElicitMoves, Teller, CmdInv, StoreInv
<1>2. \A q \in Shell : q # p => ~Writer(q) /\ ~Teller(q)
  BY <1>1, LonelyWriter DEF CmdInv
<1>3. /\ \A q \in Shell : q # p => shell'[q] = shell[q]
      /\ doc4' = doc4 /\ cmdTally' = cmdTally
  BY DEF ElicitOpens, ElicitWrites, ElicitMoves, Becomes, CmdTypeOK
<1>4. shell'[p].at \in {"elicitWrite", "elicitMove", "exited"}
  BY <1>1 DEF ElicitOpens, ElicitWrites, ElicitMoves, Becomes, CmdTypeOK, ElicitJobs, Exited
<1>5. \A q \in Shell : ~Writer(q) /\ ~Writer(q)'
  BY <1>1, <1>2, <1>3, <1>4, JobShapes DEF Writer
<1>6. WritersInv' /\ RunsInv' /\ TrailInv' /\ TornInv'
  BY <1>3, <1>5, FilesRestStep DEF CmdInv
<1>7. StoreInv'
  <2>1. \A q \in Shell : Teller(q)' => q = p
    BY <1>2, <1>3 DEF Teller
  <2>2. CASE ElicitOpens(p)
    <3>1. /\ facts' = facts /\ said' = said
          /\ shell'[p] = [shell[p] EXCEPT !.at = "elicitWrite"]
      BY <2>2 DEF ElicitOpens, Aside, Becomes, CmdTypeOK
    <3>2. /\ shell'[p].voices = shell[p].voices /\ shell'[p].voice = shell[p].voice
          /\ shell'[p].at = "elicitWrite"
      BY <1>1, <3>1 DEF ElicitJobs
    <3> QED BY <1>1, <2>1, <3>1, <3>2 DEF StoreInv, CmdInv
  <2>3. CASE ElicitWrites(p)
    <3>1. /\ facts' = facts /\ said' = said /\ factsTmp' = [is |-> "whole", voices |-> shell[p].voices]
          /\ shell'[p] = [shell[p] EXCEPT !.at = "elicitMove"]
      BY <2>3 DEF ElicitWrites, Aside, Becomes, CmdTypeOK
    <3>2. /\ shell'[p].voices = shell[p].voices /\ shell'[p].voice = shell[p].voice
          /\ shell'[p].at = "elicitMove"
      BY <1>1, <3>1 DEF ElicitJobs
    <3> QED BY <1>1, <2>1, <3>1, <3>2 DEF StoreInv, CmdInv
  <2>4. CASE ElicitMoves(p)
    <3>1. factsTmp = [is |-> "whole", voices |-> shell[p].voices]
      BY <1>1, <2>4 DEF ElicitMoves, StoreInv, CmdInv
    <3>2. facts' = factsTmp /\ said' = said \cup {shell[p].voice} /\ shell'[p] = Exited("elicit", 0)
      BY <2>4, <3>1 DEF ElicitMoves, Becomes, CmdTypeOK
    <3>3. \A q \in Shell : ~Teller(q)'
      BY <2>1, <3>2 DEF Teller, Exited
    <3>4. facts'.is = "whole" /\ facts'.voices = facts.voices \cup {shell[p].voice}
      BY <1>1, <3>1, <3>2
    <3> QED BY <3>2, <3>3, <3>4 DEF StoreInv, CmdInv
  <2> QED BY <2>2, <2>3, <2>4
<1> QED BY <1>6, <1>7

\* A launch that writes nothing, and the readers.
LEMMA QuietStep ==
    ASSUME CmdTypeOK, CmdInv, NEW p \in Shell, NEW j, AtPrompt(p),
           shell' = [shell EXCEPT ![p] = j], j.at \notin {"open", "write"},
           doc4' = doc4, cmdTally'.pack = cmdTally.pack, cmdTally'.cut = cmdTally.cut
    PROVE  WritersInv' /\ RunsInv' /\ TrailInv' /\ TornInv'
<1>1. /\ shell'[p] = j
      /\ \A q \in Shell : q # p => shell'[q] = shell[q]
  BY DEF CmdTypeOK
<1>2. \A q \in Shell : Writer(q) \/ Writer(q)' => shell'[q] = shell[q]
  BY <1>1, JobShapes DEF Writer
<1> QED BY <1>2, FilesRestStep DEF CmdInv

\* The step of a command, one case per action.
LEMMA CmdInvStep ==
    ASSUME CmdTypeOK, CmdInv, ~Parallel, [CmdNext]_cmdVars
    PROVE  CmdInv'
<1>1. CmdTypeOK'
  BY CmdTypeStep
<1>2. Alone'
  BY AloneStep DEF CmdInv
<1> SUFFICES WritersInv' /\ RunsInv' /\ TrailInv' /\ TornInv' /\ StoreInv'
  BY <1>2 DEF CmdInv
<1>3. CASE UNCHANGED cmdVars
  <2>1. StoreRests /\ doc4' = doc4 /\ cmdTally' = cmdTally /\ shell' = shell
    BY <1>3 DEF cmdVars, StoreRests
  <2> QED BY <2>1, FilesRestStep, StoreRestStep DEF CmdInv
<1>4. ASSUME NEW p \in Shell, NEW companion \in BOOLEAN, NEW layers \in BOOLEAN,
             PackBegins(p, companion, layers)
      PROVE  WritersInv' /\ RunsInv' /\ TrailInv' /\ TornInv' /\ StoreInv'
  <2> DEFINE j == [at |-> "open", what |-> "pack", put |-> WholeDoc(cmdTally.pack + 1),
                   files |-> FilesOf(companion, layers), did |-> {}]
  <2>1. /\ \A q \in Shell : AtPrompt(q)
        /\ cmdTally' = [cmdTally EXCEPT !["pack"] = @ + 1]
        /\ shell' = [shell EXCEPT ![p] = j] /\ doc4' = doc4 /\ StoreRests
    BY <1>4 DEF PackBegins, Launches, Becomes
  <2>2. /\ cmdTally'.pack = cmdTally.pack + 1 /\ cmdTally'.cut = cmdTally.cut
        /\ cmdTally.pack \in Nat
    BY <2>1 DEF CmdTypeOK
  <2>3. j \in WriterJobs /\ j.put.run = cmdTally.pack + 1
    BY FilesOfIsASeq DEF WriterJobs, WholeDoc, PutState, CmdTypeOK
  <2>4. Head(j.files) = "out"
    BY DEF FilesOf
  <2>5. Fits(Head(j.files), j.put.run)
    BY <2>2, <2>3, <2>4 DEF Fits, CmdInv, RunsInv, CmdTypeOK, DocState
  <2>6. j.at = "open" /\ j.did = {} /\ j.what = "pack" /\ j.put = WholeDoc(cmdTally'.pack) /\ Lined(j.files, {})
    BY <2>2, FilesOfIsLined
  <2> HIDE DEF j
  <2>7. WritersInv' /\ RunsInv' /\ TrailInv' /\ TornInv'
    <3>1. cmdTally'.pack >= cmdTally.pack /\ j.put.run <= cmdTally'.pack
      BY <2>2, <2>3
    <3>2. j.what # "fmt"
      BY <2>6
    <3> QED BY <1>1, <2>1, <2>2, <2>3, <2>5, <2>6, <3>1, <3>2, LaunchStep
  <2>8. shell'[p] = j /\ \A q \in Shell : q # p => shell'[q] = shell[q]
    BY <2>1 DEF CmdTypeOK
  <2>9. StoreInv'
    BY <2>1, <2>6, <2>8, StoreRestStep DEF CmdInv, Teller
  <2> QED BY <2>7, <2>9
<1>5. ASSUME NEW p \in Shell, PackRefuses(p)
      PROVE  WritersInv' /\ RunsInv' /\ TrailInv' /\ TornInv' /\ StoreInv'
  <2>1. /\ \A q \in Shell : AtPrompt(q)
        /\ cmdTally' = [cmdTally EXCEPT !["pack"] = @ + 1]
        /\ shell' = [shell EXCEPT ![p] = Exited("pack", 1)] /\ doc4' = doc4 /\ StoreRests
    BY <1>5 DEF PackRefuses, Launches, Becomes
  <2>2. /\ cmdTally'.pack = cmdTally.pack + 1 /\ cmdTally'.cut = cmdTally.cut
        /\ cmdTally.pack \in Nat
    BY <2>1 DEF CmdTypeOK
  <2>3. \A q \in Shell : ~Writer(q) /\ ~Writer(q)' /\ ~Teller(q)'
    BY <2>1, JobShapes DEF Writer, Teller, Exited, CmdTypeOK
  <2>4. \A q \in Shell, d \in Doc : ~Writing(q, d) /\ ~Writing(q, d)'
    BY <2>3 DEF Writing, Writer
  <2>5. Meant' = Meant
    BY <2>1, <2>4 DEF Meant, Torn
  <2>6. RunsInv' /\ TrailInv' /\ TornInv' /\ WritersInv'
    BY <2>1, <2>2, <2>3, <2>5 DEF CmdInv, RunsInv, TrailInv, Parses, CmdTypeOK, DocState, TornInv, WritersInv
  <2>7. StoreInv'
    BY <2>1, <2>3, StoreRestStep DEF CmdInv
  <2> QED BY <2>6, <2>7
<1>6. ASSUME NEW p \in Shell, NEW d \in Doc, FmtReads(p, d)
      PROVE  WritersInv' /\ RunsInv' /\ TrailInv' /\ TornInv' /\ StoreInv'
  <2> DEFINE j == IF Parses(d) THEN [at |-> "open", what |-> "fmt", put |-> doc4[d], files |-> <<d>>, did |-> {}]
                  ELSE Exited("fmt", 1)
  <2>1. /\ \A q \in Shell : AtPrompt(q)
        /\ cmdTally' = [cmdTally EXCEPT !["fmt"] = @ + 1]
        /\ shell' = [shell EXCEPT ![p] = j] /\ doc4' = doc4 /\ StoreRests
    BY <1>6 DEF FmtReads, Launches, Becomes
  <2>2. /\ cmdTally'.pack = cmdTally.pack /\ cmdTally'.cut = cmdTally.cut
        /\ cmdTally.pack \in Nat
    BY <2>1 DEF CmdTypeOK
  <2>3. shell'[p] = j /\ \A q \in Shell : q # p => shell'[q] = shell[q]
    BY <2>1 DEF CmdTypeOK
  <2>4. ~Teller(p)'
    BY <2>3 DEF Teller, Exited
  <2>5. StoreInv'
    BY <2>1, <2>3, <2>4, StoreRestStep DEF CmdInv
  <2>6. CASE ~Parses(d)
    <3>1. j.at = "exited"
      BY <2>6 DEF Exited
    <3> HIDE DEF j
    <3>2. WritersInv' /\ RunsInv' /\ TrailInv' /\ TornInv'
      BY <2>1, <2>2, <3>1, QuietStep
    <3> QED BY <2>5, <3>2
  <2>7. CASE Parses(d)
    <3>1. /\ j \in WriterJobs /\ j.at = "open" /\ j.did = {} /\ j.what = "fmt"
          /\ j.put = doc4[d] /\ j.files = <<d>> /\ Head(j.files) = d /\ Len(j.files) = 1
      BY <2>7 DEF WriterJobs, Parses, CmdTypeOK, DocState, PutState
    <3>2. Fits(d, doc4[d].run)
      BY <2>7 DEF Fits, CmdInv, TrailInv
    <3>3. doc4[d].run <= cmdTally'.pack
      BY <2>2 DEF CmdInv, RunsInv
    <3>4. cmdTally'.pack >= cmdTally.pack
      BY <2>2
    <3> HIDE DEF j
    <3>5. WritersInv' /\ RunsInv' /\ TrailInv' /\ TornInv'
      BY <1>1, <2>1, <2>2, <3>1, <3>2, <3>3, <3>4, LaunchStep
    <3> QED BY <2>5, <3>5
  <2> QED BY <2>6, <2>7
<1>7. ASSUME NEW p \in Shell, NEW d \in Doc, ReadsDoc(p, d)
      PROVE  WritersInv' /\ RunsInv' /\ TrailInv' /\ TornInv' /\ StoreInv'
  <2> DEFINE j == IF Parses(d) THEN [at |-> "exited", what |-> "read", code |-> 0, saw |-> doc4[d]]
                  ELSE Exited("read", 1)
  <2>1. /\ j.at = "exited" /\ AtPrompt(p)
        /\ shell' = [shell EXCEPT ![p] = j] /\ doc4' = doc4 /\ cmdTally' = cmdTally /\ StoreRests
    BY <1>7 DEF ReadsDoc, Becomes, Exited
  <2> HIDE DEF j
  <2>2. WritersInv' /\ RunsInv' /\ TrailInv' /\ TornInv'
    BY <2>1, QuietStep
  <2>3. shell'[p] = j /\ \A q \in Shell : q # p => shell'[q] = shell[q]
    BY <2>1 DEF CmdTypeOK
  <2>4. StoreInv'
    BY <2>1, <2>3, StoreRestStep DEF CmdInv, Teller
  <2> QED BY <2>2, <2>4
<1>8. ASSUME NEW p \in Shell, OpensFile(p) \/ WritesPart(p) \/ WritesFile(p) \/ IsKilled(p)
      PROVE  WritersInv' /\ RunsInv' /\ TrailInv' /\ TornInv' /\ StoreInv'
  <2>1. WritersInv' /\ RunsInv' /\ TrailInv' /\ TornInv'
    BY <1>8, OpensStep, PartStep, FileStep, KillStep
  <2>2. StoreRests /\ \A q \in Shell : q # p => shell'[q] = shell[q]
    BY <1>8 DEF OpensFile, WritesPart, WritesFile, IsKilled, Becomes, CmdTypeOK
  <2>3. ~Teller(p)'
    <3>1. CASE IsKilled(p)
      BY <3>1 DEF IsKilled, Becomes, CmdTypeOK, Teller, Prompt
    <3>2. CASE ~IsKilled(p)
      <4>1. shell[p] \in WriterJobs
        BY <1>8, <3>2, JobShapes DEF OpensFile, WritesPart, WritesFile, Writer
      <4>2. CASE OpensFile(p) \/ WritesPart(p)
        BY <4>1, <4>2 DEF OpensFile, WritesPart, Becomes, CmdTypeOK, Teller, WriterJobs
      <4>3. CASE WritesFile(p)
        BY <4>1, <4>3 DEF WritesFile, Becomes, CmdTypeOK, Teller, WriterJobs
      <4> QED BY <1>8, <3>2, <4>2, <4>3
    <3> QED BY <3>1, <3>2
  <2>4. StoreInv'
    BY <2>2, <2>3, StoreRestStep DEF CmdInv
  <2> QED BY <2>1, <2>4
<1>9. ASSUME NEW p \in Shell, NEW v \in Voice, ElicitLoads(p, v)
      PROVE  WritersInv' /\ RunsInv' /\ TrailInv' /\ TornInv' /\ StoreInv'
  <2> DEFINE j == [at |-> "elicit", voices |-> facts.voices \cup {v}, voice |-> v]
  <2>1. /\ \A q \in Shell : AtPrompt(q)
        /\ cmdTally' = [cmdTally EXCEPT !["elicit"] = @ + 1]
        /\ shell' = [shell EXCEPT ![p] = j] /\ doc4' = doc4
        /\ facts' = facts /\ said' = said
    BY <1>9 DEF ElicitLoads, Launches, Becomes, CmdInv, StoreInv
  <2>2. cmdTally'.pack = cmdTally.pack /\ cmdTally'.cut = cmdTally.cut
    BY <2>1 DEF CmdTypeOK
  <2>3. shell'[p] = j /\ \A q \in Shell : q # p => shell'[q] = shell[q]
    BY <2>1 DEF CmdTypeOK
  <2>4. WritersInv' /\ RunsInv' /\ TrailInv' /\ TornInv'
    BY <2>1, <2>2, QuietStep
  <2>5. \A q \in Shell : Teller(q)' => q = p
    BY <2>1, <2>3, JobShapes DEF Teller
  <2>6. StoreInv'
    BY <2>1, <2>3, <2>5 DEF StoreInv, CmdInv
  <2> QED BY <2>4, <2>6
<1>10. ASSUME NEW p \in Shell, ElicitOpens(p) \/ ElicitWrites(p) \/ ElicitMoves(p)
       PROVE  WritersInv' /\ RunsInv' /\ TrailInv' /\ TornInv' /\ StoreInv'
  BY <1>1, <1>10, ElicitStep
<1> QED
  BY <1>3, <1>4, <1>5, <1>6, <1>7, <1>8, <1>9, <1>10 DEF CmdNext

LEMMA CmdInvInit == CmdInit => CmdTypeOK /\ CmdInv
<1> SUFFICES ASSUME CmdInit PROVE CmdTypeOK /\ CmdInv
  OBVIOUS
<1>1. /\ \A p \in Shell : shell[p] = Prompt
      /\ \A d \in Doc : doc4[d] = NoDoc
  BY DEF CmdInit
<1>2. CmdTypeOK
  BY <1>1 DEF CmdInit, CmdTypeOK, NoDoc, DocState, StoreState, Prompt
<1>3. Alone /\ WritersInv /\ StoreInv
  BY <1>1 DEF Alone, WritersInv, StoreInv, AtPrompt, Writer, Teller, Prompt, CmdInit
<1>4. RunsInv /\ TrailInv
  BY <1>1 DEF RunsInv, TrailInv, Parses, Doc, NoDoc, CmdInit
<1>5. Meant = {}
  BY <1>1 DEF Meant, Torn, Writing, Prompt, NoDoc
<1>6. TornInv
  BY <1>5, FS_EmptySet DEF TornInv, CmdInit
<1> QED BY <1>2, <1>3, <1>4, <1>6 DEF CmdInv

LEMMA TrailHolds == CmdTypeOK /\ CmdInv => CompanionsTrail
<1> SUFFICES ASSUME CmdTypeOK, CmdInv PROVE CompanionsTrail
  OBVIOUS
<1>1. \A d \in Doc \ {"out"} : Parses("out") => doc4[d].run <= doc4["out"].run
  BY DEF CmdInv, TrailInv
<1>2. Cardinality(Torn) <= cmdTally.cut + 1
  <2>1. /\ IsFiniteSet(Meant) /\ Cardinality(Meant) \in Nat
        /\ IsFiniteSet(Torn) /\ Cardinality(Torn) \in Nat
        /\ Cardinality(Meant) <= cmdTally.cut /\ cmdTally.cut \in Nat
    BY DocsAreFinite DEF Meant, Torn, CmdInv, TornInv, CmdTypeOK
  <2>2. CASE \A p \in Shell : shell[p].at # "write"
    <3>1. Torn \subseteq Meant
      BY <2>2 DEF Meant, Torn, Writing
    <3> QED BY <2>1, <3>1, FS_Subset
  <2>3. CASE \E p \in Shell : shell[p].at = "write"
    <3>1. PICK p \in Shell : shell[p].at = "write"
      BY <2>3
    <3>2. \A q \in Shell : q # p => ~Writer(q)
      BY <3>1, LonelyWriter, JobShapes DEF CmdInv, Writer
    <3>3. Torn \subseteq Meant \cup {Head(shell[p].files)}
      BY <3>2 DEF Meant, Torn, Writing, Writer
    <3>4. Cardinality(Torn) <= Cardinality(Meant) + 1
      BY <3>3, OneMoreDoc DEF Meant, Torn
    <3> QED BY <2>1, <3>4
  <2> QED BY <2>2, <2>3
<1> QED BY <1>1, <1>2 DEF CompanionsTrail, CmdInv, TrailInv, Torn

\* Only the step that writes its last file makes a pack succeed.
LEMMA OnlyWritingSucceeds ==
    ASSUME CmdTypeOK, [CmdNext]_cmdVars, NEW p \in Shell,
           ~Succeeded(p, "pack"), Succeeded(p, "pack")'
    PROVE  WritesFile(p)
<1>1. ASSUME NEW q \in Shell, NEW j, shell' = [shell EXCEPT ![q] = j],
             j.at # "exited" \/ j.what # "pack" \/ j.code # 0
      PROVE  FALSE
  BY <1>1 DEF Succeeded, CmdTypeOK
<1>2. ASSUME NEW q \in Shell, NEW companion \in BOOLEAN, NEW layers \in BOOLEAN,
             PackBegins(q, companion, layers)
      PROVE  FALSE
  BY <1>1, <1>2 DEF PackBegins, Becomes
<1>3. ASSUME NEW q \in Shell, PackRefuses(q)
      PROVE  FALSE
  <2>1. shell' = [shell EXCEPT ![q] = Exited("pack", 1)]
    BY <1>3 DEF PackRefuses, Becomes
  <2>2. Exited("pack", 1).code # 0
    BY DEF Exited
  <2> QED BY <1>1, <2>1, <2>2
<1>4. ASSUME NEW q \in Shell, NEW d \in Doc, FmtReads(q, d)
      PROVE  FALSE
  <2>1. CASE Parses(d)
    BY <1>1, <1>4, <2>1 DEF FmtReads, Becomes
  <2>2. CASE ~Parses(d)
    BY <1>1, <1>4, <2>2 DEF FmtReads, Becomes, Exited
  <2> QED BY <2>1, <2>2
<1>5. ASSUME NEW q \in Shell, NEW d \in Doc, ReadsDoc(q, d)
      PROVE  FALSE
  <2>1. CASE Parses(d)
    BY <1>1, <1>5, <2>1 DEF ReadsDoc, Becomes
  <2>2. CASE ~Parses(d)
    BY <1>1, <1>5, <2>2 DEF ReadsDoc, Becomes, Exited
  <2> QED BY <2>1, <2>2
<1>6. ASSUME NEW q \in Shell, OpensFile(q) \/ ElicitOpens(q) \/ ElicitWrites(q) \/ IsKilled(q)
      PROVE  FALSE
  <2>1. OpensFile(q) => shell[q] \in WriterJobs
    BY JobShapes DEF OpensFile, Writer
  <2>2. ElicitOpens(q) \/ ElicitWrites(q) => shell[q] \in ElicitJobs
    BY JobShapes DEF ElicitOpens, ElicitWrites, Teller
  <2> QED
    BY <1>1, <1>6, <2>1, <2>2
    DEF OpensFile, ElicitOpens, ElicitWrites, IsKilled, Becomes, Prompt, WriterJobs, ElicitJobs
<1>7. ASSUME NEW q \in Shell, WritesPart(q) \/ UNCHANGED cmdVars
      PROVE  FALSE
  BY <1>7 DEF WritesPart, cmdVars, Succeeded
<1>8. ASSUME NEW q \in Shell, NEW v \in Voice, ElicitLoads(q, v)
      PROVE  FALSE
  <2>1. CASE facts.is = "whole"
    BY <1>1, <1>8, <2>1 DEF ElicitLoads, Becomes
  <2>2. CASE facts.is # "whole"
    BY <1>1, <1>8, <2>2 DEF ElicitLoads, Becomes, Exited
  <2> QED BY <2>1, <2>2
<1>9. ASSUME NEW q \in Shell, ElicitMoves(q)
      PROVE  FALSE
  <2>1. CASE factsTmp.is = "absent"
    BY <1>1, <1>9, <2>1 DEF ElicitMoves, Becomes, Exited
  <2>2. CASE factsTmp.is # "absent"
    BY <1>1, <1>9, <2>2 DEF ElicitMoves, Becomes, Exited
  <2> QED BY <2>1, <2>2
<1>10. ASSUME NEW q \in Shell, WritesFile(q), q # p
       PROVE  FALSE
  BY <1>10 DEF WritesFile, Becomes, CmdTypeOK, Succeeded
<1> QED
  BY <1>2, <1>3, <1>4, <1>5, <1>6, <1>7, <1>8, <1>9, <1>10 DEF CmdNext

(***************************************************************************)
(* One command at a time, killed wherever: a pack that reports success has *)
(* written every one of its files, no companion is newer than its          *)
(* document, nothing newer is truncated for something older, and the store *)
(* holds every voice that was reported as kept.                            *)
(***************************************************************************)
THEOREM CommandsStayWhole == CmdSpec => CommandsLeaveWholeFiles
<1> DEFINE I == CmdTypeOK /\ (~Parallel => CmdInv)
<1>1. CmdInit => I
  BY CmdInvInit
<1>2. I /\ [CmdNext]_cmdVars => I'
  BY CmdTypeStep, CmdInvStep
<1>3. I => CompanionsTrail /\ VoicesAreStored
  BY TrailHolds DEF CompanionsTrail, VoicesAreStored, CmdInv, StoreInv
<1>4. I /\ [CmdNext]_cmdVars =>
        [~Parallel => \A p \in Shell : ~Succeeded(p, "pack") /\ Succeeded(p, "pack")' =>
            \A d \in shell'[p].did : doc4'[d] = WholeDoc(shell'[p].run)]_cmdVars
  BY OnlyWritingSucceeds, FileStep
<1>5. I /\ [CmdNext]_cmdVars =>
        [~Parallel => \A p \in Shell : OpensFile(p) =>
            doc4[Head(shell[p].files)].run <= shell[p].put.run]_cmdVars
  <2> SUFFICES ASSUME CmdTypeOK, CmdInv, NEW p \in Shell, OpensFile(p)
               PROVE  doc4[Head(shell[p].files)].run <= shell[p].put.run
    OBVIOUS
  <2>1. /\ shell[p] \in WriterJobs /\ shell[p].files # <<>> /\ Head(shell[p].files) \in Doc
        /\ WriterInv(p) /\ doc4[Head(shell[p].files)].run \in Nat
    BY JobShapes DEF OpensFile, Writer, CmdInv, WritersInv, WriterJobs, CmdTypeOK, DocState
  <2>2. CASE shell[p].what = "fmt"
    BY <2>1, <2>2 DEF WriterInv, OpensFile
  <2>3. CASE shell[p].what = "pack"
    BY <2>1, <2>3 DEF WriterInv, WholeDoc, CmdInv, RunsInv
  <2> QED BY <2>1, <2>2, <2>3 DEF WriterJobs
<1> QED BY <1>1, <1>2, <1>3, <1>4, <1>5, PTL
        DEF CmdSpec, CommandsLeaveWholeFiles, SuccessIsWhole, NothingIsPutBack
-----------------------------------------------------------------------------
(***************************************************************************)
(* The scorecard.                                                          *)
(***************************************************************************)
ScoreSpec == ScoreInit /\ [][ScoreNext]_scVars

FpT == [cp : Nat, inj : Nat]
CfgT == {Missing, Shorn} \cup [is : {"good"}, repos : SUBSET Repo, ext : SUBSET External]
RowT == [repo : Repo, status : {"path_missing", "active", "not_onboarded", "onboarded_no_data"},
         fp : FpT, of : FpT]
ArtT == [is : {"good"}, sha : CfgT, rows : SUBSET RowT, ext : SUBSET External]

IdleJob == {OffDuty} \cup [pc : {"done"}, what : {"build"}, exit : {0, 1}]
GivenJob == [pc : {"saveRead", "external"}, repos : SUBSET Repo]
SaveJob == [pc : {"saveOpen", "saveWrite", "sha"}, repos : SUBSET Repo, ext : SUBSET External]
RowJob == [pc : {"row"}, ext : SUBSET External, sha : CfgT, todo : SUBSET Repo, rows : Seq(RowT)]
StatsJob == [pc : {"stats"}, ext : SUBSET External, sha : CfgT, rows : Seq(RowT),
             todo : SUBSET Repo, repo : Repo, fp : FpT]
PutJob == [pc : {"openNew", "writeNew", "openLatest", "writeLatest"}, n : Nat \ {0}, art : ArtT]
CheckJob == [pc : {"check"}, art : ArtT, cfg : CfgT, ok : BOOLEAN, seen : Seq(Repo \X FpT),
             todo : SUBSET Repo, hashed : BOOLEAN]
VerdictJob == [pc : {"checked"}, ok : BOOLEAN, art : ArtT \cup {Missing, Shorn}, cfg : CfgT,
               seen : Seq(Repo \X FpT)]
ClerkT == IdleJob \cup GivenJob \cup SaveJob \cup RowJob \cup StatsJob \cup PutJob
            \cup CheckJob \cup VerdictJob

TallyT == [append : Nat, edit : Nat, build : Nat, halt : Nat]
\* a name is given out when it is the next one, and is there once it was opened
Numbered(arch, j) ==
    /\ j.pc = "openNew" => j.n <= Len(arch) + 1
    /\ j.pc \in {"writeNew", "openLatest", "writeLatest"} => j.n <= Len(arch)

ScTypeOK ==
    /\ ledgers \in [Repo -> FpT]
    /\ cohort \in CfgT
    /\ archive \in Seq(ArtT \cup {Shorn})
    /\ newest \in ArtT \cup {Missing, Shorn}
    /\ clerk \in [Clerk -> ClerkT]
    /\ \A p \in Clerk : Numbered(archive, clerk[p])
    /\ declared \in SUBSET External
    /\ unsettled \in BOOLEAN
    /\ scTally \in TallyT

-----------------------------------------------------------------------------
(***************************************************************************)
(* The invariant.  What a row was fingerprinted from is no more than what  *)
(* it was aggregated from, and that no more than what the ledgers hold: a  *)
(* fingerprint found unchanged leaves no room in between.                  *)
(***************************************************************************)
AtMost(a, b) == a.cp <= b.cp /\ a.inj <= b.inj
RowFits(led, row) == AtMost(row.fp, row.of) /\ AtMost(row.of, led[row.repo])
ArtFits(led, art) == art.rows # {} /\ \A row \in art.rows : RowFits(led, row)
Clean(art) == NamesIn(art) \cap Tainted = {}

Seen(j) == {j.seen[i][1] : i \in DOMAIN j.seen}
Matched(j) == \A i \in DOMAIN j.seen : \E row \in j.art.rows :
                 row.repo = j.seen[i][1] /\ row.of = j.seen[i][2]
WholeCohort(j) ==
    /\ j.cfg.is = "good"
    /\ j.cfg.repos \cap j.cfg.ext = {}
    /\ j.cfg.repos \subseteq {row.repo : row \in j.art.rows}
    /\ j.cfg.ext \subseteq NamesIn(j.art)

CheckFits(led, j) ==
    /\ ArtFits(led, j.art)
    /\ Seen(j) \cup j.todo = ReposOf(j.cfg)
    /\ ~j.hashed => j.seen = <<>>
    /\ j.ok => Matched(j)
    /\ j.hashed /\ j.ok => WholeCohort(j)

JobFits(led, j) ==
    /\ j.pc \in {"saveRead", "saveOpen", "saveWrite", "external", "sha"} => j.repos # {}
    /\ j.pc = "row" => j.todo # {} \/ j.rows # <<>>
    /\ j.pc \in {"row", "stats"} => \A i \in DOMAIN j.rows : RowFits(led, j.rows[i])
    /\ j.pc = "stats" => AtMost(j.fp, led[j.repo])
    /\ j.pc \in {"openNew", "writeNew", "openLatest", "writeLatest"} => ArtFits(led, j.art) /\ Clean(j.art)
    /\ j.pc = "check" => CheckFits(led, j)
    /\ j.pc = "checked" /\ j.ok =>
         j.art.is = "good" /\ Matched(j) /\ WholeCohort(j) /\ Seen(j) = j.cfg.repos

TrueInv ==
    /\ \A n \in DOMAIN archive : archive[n].is = "good" => ArtFits(ledgers, archive[n]) /\ Clean(archive[n])
    /\ newest.is = "good" => ArtFits(ledgers, newest)
    /\ \A p \in Clerk : JobFits(ledgers, clerk[p])

\* One build at a time: a name given out is still free, or holds what its
\* clerk put there, and a save carries what was last declared.
Builds(j) == j.pc \notin {"idle", "done", "checked", "check"}
Named(arch, j) ==
    /\ j.pc = "openNew" => j.n = Len(arch) + 1
    /\ j.pc = "writeNew" => arch[j.n] = Shorn
    /\ j.pc \in {"openLatest", "writeLatest"} => arch[j.n] = j.art
Carries(ext, j) == j.pc \in {"saveOpen", "saveWrite"} => j.ext = ext
OneBuild == \A p, q \in Clerk : Builds(clerk[p]) /\ Builds(clerk[q]) => p = q
NamesInv ==
    /\ \A p \in Clerk : Named(archive, clerk[p])
    /\ newest.is = "good" => \E n \in DOMAIN archive : archive[n] = newest
DeclaredInv ==
    ~unsettled =>
        /\ cohort.is = "good" => cohort.ext = declared
        /\ cohort.is = "absent" => declared = {}
        /\ cohort.is = "cut" => \E p \in Clerk : clerk[p].pc = "saveWrite"
        /\ \A p \in Clerk : Carries(declared, clerk[p])
QuietInv == OneBuild /\ NamesInv /\ DeclaredInv

ScInv == TrueInv /\ (~Overlap => QuietInv)

-----------------------------------------------------------------------------
LEMMA JobKinds ==
    ASSUME NEW j \in ClerkT
    PROVE  /\ j.pc \in {"idle", "done"} => j \in IdleJob
           /\ j.pc \in {"saveRead", "external"} => j \in GivenJob
           /\ j.pc \in {"saveOpen", "saveWrite", "sha"} => j \in SaveJob
           /\ j.pc = "row" => j \in RowJob
           /\ j.pc = "stats" => j \in StatsJob
           /\ j.pc \in {"openNew", "writeNew", "openLatest", "writeLatest"} => j \in PutJob
           /\ j.pc = "check" => j \in CheckJob
           /\ j.pc = "checked" => j \in VerdictJob
<1>1. CASE j \in IdleJob
  BY <1>1 DEF IdleJob, OffDuty
<1>2. CASE j \in GivenJob
  BY <1>2 DEF GivenJob
<1>3. CASE j \in SaveJob
  BY <1>3 DEF SaveJob
<1>4. CASE j \in RowJob
  BY <1>4 DEF RowJob
<1>5. CASE j \in StatsJob
  BY <1>5 DEF StatsJob
<1>6. CASE j \in PutJob
  BY <1>6 DEF PutJob
<1>7. CASE j \in CheckJob
  BY <1>7 DEF CheckJob
<1>8. CASE j \in VerdictJob
  BY <1>8 DEF VerdictJob
<1> QED BY <1>1, <1>2, <1>3, <1>4, <1>5, <1>6, <1>7, <1>8 DEF ClerkT

\* A counter is raised by one, and the others are left.
LEMMA Tallied ==
    ASSUME ScTypeOK, NEW k \in {"append", "edit", "build", "halt"}, Counted(k)
    PROVE  scTally' \in TallyT
<1>1. CASE k = "append"
  BY <1>1 DEF Counted, ScTypeOK, TallyT
<1>2. CASE k = "edit"
  BY <1>2 DEF Counted, ScTypeOK, TallyT
<1>3. CASE k = "build"
  BY <1>3 DEF Counted, ScTypeOK, TallyT
<1>4. CASE k = "halt"
  BY <1>4 DEF Counted, ScTypeOK, TallyT
<1> QED BY <1>1, <1>2, <1>3, <1>4

LEMMA ConfigIsRead ==
    ASSUME NEW c \in CfgT
    PROVE  /\ ReposOf(c) \in SUBSET Repo /\ ExternalOf(c) \in SUBSET External
           /\ c.is \in {"absent", "cut", "good"}
           /\ c.is = "cut" => c = Shorn
           /\ c.is = "absent" => c = Missing
           /\ c.is = "good" => /\ c \in [is : {"good"}, repos : SUBSET Repo, ext : SUBSET External]
                               /\ ReposOf(c) = c.repos /\ ExternalOf(c) = c.ext
           /\ c.is # "good" => ReposOf(c) = {} /\ ExternalOf(c) = {}
  BY DEF CfgT, Missing, Shorn, ReposOf, ExternalOf

\* The clerk p goes on to j, and the files stay as they are.
LEMMA ClerkMoves ==
    ASSUME ScTypeOK, ScInv, NEW p \in Clerk, NEW j \in ClerkT, Goes(p, j),
           UNCHANGED ledgers, FilesRest, ConfigRests, scTally' \in TallyT,
           Numbered(archive, j), JobFits(ledgers, j),
           ~Overlap => /\ Builds(j) => Builds(clerk[p]) \/ \A q \in Clerk : ~Builds(clerk[q])
                       /\ Named(archive, j)
                       /\ ~unsettled => Carries(declared, j)
                       /\ clerk[p].pc # "saveWrite"
    PROVE  ScTypeOK' /\ ScInv'
<1>1. clerk'[p] = j /\ \A q \in Clerk : q # p => clerk'[q] = clerk[q]
  BY DEF Goes, ScTypeOK
<1>2. UNCHANGED <<ledgers, archive, newest, cohort, declared, unsettled>>
  BY DEF FilesRest, ConfigRests
<1>3. ScTypeOK'
  <2>1. \A q \in Clerk : Numbered(archive', clerk'[q])
    BY <1>1, <1>2 DEF ScTypeOK
  <2> QED BY <1>2, <2>1 DEF ScTypeOK, Goes
<1>4. TrueInv'
  <2>1. \A q \in Clerk : JobFits(ledgers', clerk'[q])
    BY <1>1, <1>2 DEF ScInv, TrueInv
  <2> QED BY <1>2, <2>1 DEF ScInv, TrueInv
<1>5. ASSUME ~Overlap PROVE QuietInv'
  <2>1. OneBuild'
    BY <1>1, <1>5 DEF ScInv, QuietInv, OneBuild
  <2>2. \A q \in Clerk : Named(archive', clerk'[q])
    BY <1>1, <1>2, <1>5 DEF ScInv, QuietInv, NamesInv
  <2>3. NamesInv'
    BY <1>2, <1>5, <2>2 DEF ScInv, QuietInv, NamesInv
  <2>4. ~unsettled => \A q \in Clerk : Carries(declared', clerk'[q])
    BY <1>1, <1>2, <1>5 DEF ScInv, QuietInv, DeclaredInv
  <2>5. cohort.is = "cut" /\ ~unsettled => \E q \in Clerk : clerk'[q].pc = "saveWrite"
    BY <1>1, <1>5 DEF ScInv, QuietInv, DeclaredInv
  <2>6. DeclaredInv'
    BY <1>2, <1>5, <2>4, <2>5 DEF ScInv, QuietInv, DeclaredInv
  <2> QED BY <2>1, <2>3, <2>6 DEF QuietInv
<1> QED BY <1>3, <1>4, <1>5 DEF ScInv

\* Journals only grow, so what fits them goes on to.
LEMMA GrowthKeepsFits ==
    ASSUME NEW a \in [Repo -> FpT], NEW b \in [Repo -> FpT], \A r \in Repo : AtMost(a[r], b[r])
    PROVE  /\ \A row \in RowT : RowFits(a, row) => RowFits(b, row)
           /\ \A art \in ArtT : ArtFits(a, art) => ArtFits(b, art)
           /\ \A j \in ClerkT : JobFits(a, j) => JobFits(b, j)
<1>1. ASSUME NEW row \in RowT, RowFits(a, row) PROVE RowFits(b, row)
  <2>1. row.repo \in Repo /\ row.of \in FpT
    BY DEF RowT
  <2>2. AtMost(row.of, a[row.repo]) /\ AtMost(a[row.repo], b[row.repo])
    BY <1>1, <2>1 DEF RowFits
  <2>3. AtMost(row.of, b[row.repo])
    BY <2>1, <2>2 DEF AtMost, FpT
  <2> QED BY <1>1, <2>3 DEF RowFits
<1>2. ASSUME NEW art \in ArtT, ArtFits(a, art) PROVE ArtFits(b, art)
  <2>1. art.rows \in SUBSET RowT
    BY DEF ArtT
  <2> QED BY <1>1, <1>2, <2>1 DEF ArtFits
<1>3. ASSUME NEW j \in ClerkT, JobFits(a, j) PROVE JobFits(b, j)
  <2>1. j.pc \in {"row", "stats"} => \A i \in DOMAIN j.rows : j.rows[i] \in RowT
    BY JobKinds DEF RowJob, StatsJob
  <2>2. j.pc \in {"row", "stats"} => \A i \in DOMAIN j.rows : RowFits(b, j.rows[i])
    BY <1>1, <1>3, <2>1 DEF JobFits
  <2>3. j.pc = "stats" => AtMost(j.fp, b[j.repo])
    <3> SUFFICES ASSUME j.pc = "stats" PROVE AtMost(j.fp, b[j.repo])
      OBVIOUS
    <3>1. j.fp \in FpT /\ j.repo \in Repo
      BY JobKinds DEF StatsJob
    <3>2. AtMost(j.fp, a[j.repo]) /\ AtMost(a[j.repo], b[j.repo])
      BY <1>3, <3>1 DEF JobFits
    <3> QED BY <3>1, <3>2 DEF AtMost, FpT
  <2>4. j.pc \in {"openNew", "writeNew", "openLatest", "writeLatest"} => ArtFits(b, j.art)
    <3>1. j.pc \in {"openNew", "writeNew", "openLatest", "writeLatest"} => j.art \in ArtT
      BY JobKinds DEF PutJob
    <3> QED BY <1>2, <1>3, <3>1 DEF JobFits
  <2>5. j.pc = "check" => CheckFits(b, j)
    <3>1. j.pc = "check" => j.art \in ArtT
      BY JobKinds DEF CheckJob
    <3> QED BY <1>2, <1>3, <3>1 DEF JobFits, CheckFits
  <2> QED BY <1>3, <2>2, <2>3, <2>4, <2>5 DEF JobFits
<1> QED BY <1>1, <1>2, <1>3

LEMMA GrowsStep ==
    ASSUME ScTypeOK, ScInv, NEW r \in Repo, NEW file \in {"cp", "inj"}, LedgerGrows(r, file)
    PROVE  ScTypeOK' /\ ScInv'
<1>1. ledgers' \in [Repo -> FpT] /\ \A x \in Repo : AtMost(ledgers[x], ledgers'[x])
  <2> DEFINE grown == [ledgers[r] EXCEPT ![file] = @ + 1]
  <2>1. ledgers \in [Repo -> FpT] /\ ledgers[r] \in FpT
    BY DEF ScTypeOK
  <2>2. ledgers' = [ledgers EXCEPT ![r] = grown]
    BY DEF LedgerGrows
  <2>3. grown \in FpT /\ AtMost(ledgers[r], grown)
    <3>1. CASE file = "cp"
      BY <2>1, <3>1 DEF FpT, AtMost
    <3>2. CASE file = "inj"
      BY <2>1, <3>2 DEF FpT, AtMost
    <3> QED BY <3>1, <3>2
  <2>4. \A x \in Repo : AtMost(ledgers[x], ledgers[x])
    BY <2>1 DEF FpT, AtMost
  <2> HIDE DEF grown
  <2>5. \A x \in Repo : ledgers'[x] = IF x = r THEN grown ELSE ledgers[x]
    BY <2>1, <2>2
  <2>6. ledgers' \in [Repo -> FpT]
    BY <2>1, <2>2, <2>3
  <2> QED BY <2>3, <2>4, <2>5, <2>6
<1>2. UNCHANGED <<clerk, archive, newest, cohort, declared, unsettled>>
  BY DEF LedgerGrows, FilesRest, ConfigRests
<1>3. ScTypeOK'
  <2>1. scTally' \in TallyT
    BY Tallied DEF LedgerGrows
  <2> QED BY <1>1, <1>2, <2>1 DEF ScTypeOK
<1>4. TrueInv'
  <2>1. ledgers \in [Repo -> FpT] /\ clerk \in [Clerk -> ClerkT] /\ archive \in Seq(ArtT \cup {Shorn})
        /\ newest \in ArtT \cup {Missing, Shorn}
    BY DEF ScTypeOK
  <2>2. \A n \in DOMAIN archive : archive[n].is = "good" => archive[n] \in ArtT
    BY <2>1 DEF Shorn
  <2>3. newest.is = "good" => newest \in ArtT
    BY <2>1 DEF Shorn, Missing
  <2>4. \A n \in DOMAIN archive : archive[n].is = "good" => ArtFits(ledgers', archive[n])
    BY <1>1, <2>1, <2>2, GrowthKeepsFits DEF ScInv, TrueInv
  <2>5. newest.is = "good" => ArtFits(ledgers', newest)
    BY <1>1, <2>1, <2>3, GrowthKeepsFits DEF ScInv, TrueInv
  <2>6. \A p \in Clerk : JobFits(ledgers', clerk[p])
    BY <1>1, <2>1, GrowthKeepsFits DEF ScInv, TrueInv
  <2> QED BY <1>2, <2>4, <2>5, <2>6 DEF ScInv, TrueInv
<1>5. QuietInv => QuietInv'
  BY <1>2 DEF QuietInv, OneBuild, NamesInv, DeclaredInv
<1> QED BY <1>3, <1>4, <1>5 DEF ScInv

LEMMA EditedStep ==
    ASSUME ScTypeOK, ScInv, NEW repos \in SUBSET Repo, NEW ext \in SUBSET External, ConfigEdited(repos, ext)
    PROVE  ScTypeOK' /\ ScInv'
<1>1. /\ cohort' = Config(repos, ext) /\ declared' = ext
      /\ unsettled' = \E p \in Clerk : clerk[p].pc \in {"saveOpen", "saveWrite"}
      /\ UNCHANGED <<ledgers, clerk, archive, newest>>
  BY DEF ConfigEdited, FilesRest
<1>2. ScTypeOK'
  <2>1. scTally' \in TallyT
    BY Tallied DEF ConfigEdited
  <2>2. cohort' \in CfgT /\ unsettled' \in BOOLEAN
    BY <1>1 DEF Config, CfgT
  <2> QED BY <1>1, <2>1, <2>2 DEF ScTypeOK
<1>3. TrueInv'
  BY <1>1 DEF ScInv, TrueInv
<1>4. QuietInv => QuietInv'
  <2>1. OneBuild' = OneBuild /\ NamesInv' = NamesInv
    BY <1>1 DEF OneBuild, NamesInv
  <2>2. DeclaredInv'
    <3> SUFFICES ASSUME ~unsettled' PROVE DeclaredInv'
      BY DEF DeclaredInv
    <3>1. \A p \in Clerk : clerk[p].pc \notin {"saveOpen", "saveWrite"}
      BY <1>1
    <3>2. cohort'.is = "good" /\ cohort'.ext = declared'
      BY <1>1 DEF Config
    <3> QED BY <1>1, <3>1, <3>2 DEF DeclaredInv, Carries
  <2> QED BY <2>1, <2>2 DEF QuietInv
<1> QED BY <1>2, <1>3, <1>4 DEF ScInv

\* Where a build may start, nobody builds.
LEMMA BuildStarts ==
    ASSUME ScTypeOK, NEW p \in Clerk, MayBuild(p)
    PROVE  /\ clerk[p].pc # "saveWrite"
           /\ ~Overlap => \A q \in Clerk : ~Builds(clerk[q])
           /\ UNCHANGED ledgers /\ FilesRest /\ ConfigRests /\ scTally' \in TallyT
<1>1. scTally' \in TallyT
  BY Tallied DEF MayBuild
<1> QED BY <1>1 DEF MayBuild, Free, Builds

\* A command that has ended fits everything.
LEMMA EndedFits ==
    ASSUME NEW exit \in {0, 1}
    PROVE  /\ Built(exit) \in ClerkT /\ ~Builds(Built(exit))
           /\ \A arch, led, ext : /\ Numbered(arch, Built(exit)) /\ Named(arch, Built(exit))
                                  /\ JobFits(led, Built(exit)) /\ Carries(ext, Built(exit))
  BY DEF Built, ClerkT, IdleJob, Builds, Numbered, Named, JobFits, Carries

LEMMA BeginStep ==
    ASSUME ScTypeOK, ScInv, NEW p \in Clerk,
           (\E repos \in (SUBSET Repo) \ {{}} : BuildGiven(p, repos)) \/ BuildSaved(p)
    PROVE  ScTypeOK' /\ ScInv'
<1>1. CASE \E repos \in (SUBSET Repo) \ {{}} : BuildGiven(p, repos)
  <2>1. PICK repos \in (SUBSET Repo) \ {{}} : BuildGiven(p, repos)
    BY <1>1
  <2>2. MayBuild(p)
    BY <2>1 DEF BuildGiven
  <2>3. CASE ValidConfig(repos, ExternalOf(cohort))
    <3> DEFINE j == [pc |-> "saveRead", repos |-> repos]
    <3>1. Goes(p, j)
      BY <2>1, <2>3 DEF BuildGiven
    <3>2. repos \in SUBSET Repo /\ repos # {}
      OBVIOUS
    <3>3. j \in GivenJob /\ j.pc = "saveRead" /\ j.repos # {}
      BY <3>2 DEF GivenJob
    <3>4. j \in ClerkT
      BY <3>3 DEF ClerkT
    <3> HIDE DEF j
    <3>5. Numbered(archive, j) /\ JobFits(ledgers, j) /\ Named(archive, j) /\ Carries(declared, j)
      BY <3>3 DEF Numbered, JobFits, Named, Carries
    <3> QED BY <2>2, <3>1, <3>4, <3>5, BuildStarts, ClerkMoves
  <2>4. CASE ~ValidConfig(repos, ExternalOf(cohort))
    <3>1. Goes(p, Built(1))
      BY <2>1, <2>4 DEF BuildGiven
    <3> QED BY <2>2, <3>1, EndedFits, BuildStarts, ClerkMoves
  <2> QED BY <2>3, <2>4
<1>2. CASE BuildSaved(p)
  <2>1. MayBuild(p)
    BY <1>2 DEF BuildSaved
  <2>2. CASE Readable /\ ValidConfig(cohort.repos, cohort.ext) /\ cohort.repos # {}
    <3> DEFINE j == [pc |-> "external", repos |-> cohort.repos]
    <3>1. Goes(p, j)
      BY <1>2, <2>2 DEF BuildSaved
    <3>2. cohort.repos \in SUBSET Repo
      BY <2>2 DEF Readable, ScTypeOK, CfgT, Missing, Shorn
    <3>3. j \in ClerkT /\ j.pc = "external" /\ j.repos # {}
      BY <2>2, <3>2 DEF ClerkT, GivenJob
    <3> HIDE DEF j
    <3>4. Numbered(archive, j) /\ JobFits(ledgers, j) /\ Named(archive, j) /\ Carries(declared, j)
      BY <3>3 DEF Numbered, JobFits, Named, Carries
    <3> QED BY <2>1, <3>1, <3>3, <3>4, BuildStarts, ClerkMoves
  <2>3. CASE ~(Readable /\ ValidConfig(cohort.repos, cohort.ext) /\ cohort.repos # {})
    <3>1. Goes(p, Built(1))
      BY <1>2, <2>3 DEF BuildSaved
    <3> QED BY <2>1, <3>1, EndedFits, BuildStarts, ClerkMoves
  <2> QED BY <2>2, <2>3
<1> QED BY <1>1, <1>2

\* A step that moves only the clerk p, who was building or checking.
LEMMA ReadStep ==
    ASSUME ScTypeOK, ScInv, NEW p \in Clerk,
           \/ SaveReads(p) \/ ReadsExternals(p) \/ HashesConfig(p) \/ Fingerprints(p)
           \/ Aggregates(p) \/ AuditRefuses(p) \/ PicksName(p)
    PROVE  ScTypeOK' /\ ScInv'
<1> DEFINE Suits(j) == /\ j \in ClerkT /\ Numbered(archive, j) /\ JobFits(ledgers, j) /\ Named(archive, j)
                       /\ ~Overlap /\ ~unsettled => Carries(declared, j)
<1>1. /\ UNCHANGED ledgers /\ FilesRest /\ ConfigRests /\ scTally' \in TallyT
      /\ clerk[p] \in ClerkT /\ JobFits(ledgers, clerk[p])
      /\ clerk[p].pc # "saveWrite" /\ Builds(clerk[p])
      /\ cohort \in CfgT /\ ledgers \in [Repo -> FpT] /\ archive \in Seq(ArtT \cup {Shorn})
  BY DEF SaveReads, ReadsExternals, HashesConfig, Fingerprints, Aggregates, AuditRefuses, PicksName,
     Doing, Builds, ScTypeOK, ScInv, TrueInv
<1>2. ASSUME NEW j, Goes(p, j), Suits(j)
      PROVE  ScTypeOK' /\ ScInv'
  BY <1>1, <1>2, ClerkMoves
<1>3. CASE SaveReads(p)
  <2> DEFINE j == [pc |-> "saveOpen", repos |-> clerk[p].repos, ext |-> KeptExternals]
  <2>1. Goes(p, j) /\ clerk[p].pc = "saveRead"
    BY <1>3 DEF SaveReads, Doing
  <2>2. clerk[p].repos \in SUBSET Repo /\ clerk[p].repos # {} /\ ExternalOf(cohort) \in SUBSET External
    BY <1>1, <2>1, JobKinds, ConfigIsRead DEF GivenJob, JobFits
  <2>3. j \in ClerkT /\ j.pc = "saveOpen" /\ j.repos # {} /\ j.ext = ExternalOf(cohort)
    BY <2>2 DEF ClerkT, SaveJob, KeptExternals
  <2>4. ~Overlap /\ ~unsettled => ExternalOf(cohort) = declared
    <3> SUFFICES ASSUME ~Overlap, ~unsettled PROVE ExternalOf(cohort) = declared
      OBVIOUS
    <3>1. cohort.is # "cut"
      <4>1. ASSUME NEW q \in Clerk, clerk[q].pc = "saveWrite" PROVE FALSE
        <5>1. Builds(clerk[q])
          BY <4>1 DEF Builds
        <5>2. q = p
          BY <1>1, <5>1 DEF ScInv, QuietInv, OneBuild
        <5> QED BY <1>1, <4>1, <5>2
      <4> QED BY <4>1 DEF ScInv, QuietInv, DeclaredInv
    <3>2. CASE cohort.is = "good"
      BY <1>1, <3>2, ConfigIsRead DEF ScInv, QuietInv, DeclaredInv
    <3>3. CASE cohort.is = "absent"
      BY <1>1, <3>3, ConfigIsRead DEF ScInv, QuietInv, DeclaredInv
    <3> QED BY <1>1, <3>1, <3>2, <3>3, ConfigIsRead
  <2> HIDE DEF j
  <2>5. Suits(j)
    BY <2>3, <2>4 DEF Numbered, JobFits, Named, Carries
  <2> QED BY <1>2, <2>1, <2>5
<1>4. CASE ReadsExternals(p)
  <2> DEFINE j == [pc |-> "sha", repos |-> clerk[p].repos, ext |-> ExternalOf(cohort)]
  <2>1. Goes(p, j) /\ clerk[p].pc = "external"
    BY <1>4 DEF ReadsExternals, Doing
  <2>2. clerk[p].repos \in SUBSET Repo /\ clerk[p].repos # {} /\ ExternalOf(cohort) \in SUBSET External
    BY <1>1, <2>1, JobKinds, ConfigIsRead DEF GivenJob, JobFits
  <2>3. j \in ClerkT /\ j.pc = "sha" /\ j.repos # {}
    BY <2>2 DEF ClerkT, SaveJob
  <2> HIDE DEF j
  <2>4. Suits(j)
    BY <2>3 DEF Numbered, JobFits, Named, Carries
  <2> QED BY <1>2, <2>1, <2>4
<1>5. CASE HashesConfig(p)
  <2> DEFINE j == [pc |-> "row", ext |-> clerk[p].ext, sha |-> cohort, todo |-> clerk[p].repos, rows |-> <<>>]
  <2>1. Goes(p, j) /\ clerk[p].pc = "sha"
    BY <1>5 DEF HashesConfig, Doing
  <2>2. clerk[p].repos \in SUBSET Repo /\ clerk[p].repos # {} /\ clerk[p].ext \in SUBSET External
    BY <1>1, <2>1, JobKinds DEF SaveJob, JobFits
  <2>3. j \in ClerkT /\ j.pc = "row" /\ j.todo # {} /\ j.rows = <<>>
    BY <1>1, <2>2 DEF ClerkT, RowJob
  <2> HIDE DEF j
  <2>4. Suits(j)
    BY <2>3 DEF Numbered, JobFits, Named, Carries
  <2> QED BY <1>2, <2>1, <2>4
<1>6. CASE Fingerprints(p)
  <2>1. PICK r \in clerk[p].todo :
          Goes(p, [pc |-> "stats", ext |-> clerk[p].ext, sha |-> clerk[p].sha, rows |-> clerk[p].rows,
                   todo |-> clerk[p].todo \ {r}, repo |-> r, fp |-> ledgers[r]])
    BY <1>6 DEF Fingerprints
  <2> DEFINE j == [pc |-> "stats", ext |-> clerk[p].ext, sha |-> clerk[p].sha, rows |-> clerk[p].rows,
                   todo |-> clerk[p].todo \ {r}, repo |-> r, fp |-> ledgers[r]]
  <2>2. clerk[p].pc = "row" /\ clerk[p] \in RowJob
    BY <1>1, <1>6, JobKinds DEF Fingerprints, Doing
  <2>3. r \in Repo /\ ledgers[r] \in FpT
    BY <1>1, <2>1, <2>2 DEF RowJob
  <2>4. j \in ClerkT /\ j.pc = "stats" /\ j.rows = clerk[p].rows /\ j.fp = ledgers[r] /\ j.repo = r
    BY <2>2, <2>3 DEF ClerkT, StatsJob, RowJob
  <2>5. AtMost(ledgers[r], ledgers[r])
    BY <2>3 DEF AtMost, FpT
  <2>6. Goes(p, j)
    BY <2>1
  <2> HIDE DEF j
  <2>7. Suits(j)
    BY <1>1, <2>2, <2>4, <2>5 DEF Numbered, JobFits, Named, Carries
  <2> QED BY <1>2, <2>6, <2>7
<1>7. CASE Aggregates(p)
  <2> DEFINE row == RowOf(clerk[p].repo, clerk[p].fp, ledgers[clerk[p].repo])
             j == [pc |-> "row", ext |-> clerk[p].ext, sha |-> clerk[p].sha, todo |-> clerk[p].todo,
                   rows |-> Append(clerk[p].rows, row)]
  <2>1. Goes(p, j) /\ clerk[p].pc = "stats" /\ clerk[p] \in StatsJob
    BY <1>1, <1>7, JobKinds DEF Aggregates, Doing
  <2>2. clerk[p].repo \in Repo /\ clerk[p].fp \in FpT /\ clerk[p].rows \in Seq(RowT) /\ ledgers[clerk[p].repo] \in FpT
    BY <1>1, <2>1 DEF StatsJob
  <2>3. row \in RowT /\ row.fp = clerk[p].fp /\ row.of = ledgers[clerk[p].repo] /\ row.repo = clerk[p].repo
    BY <2>2 DEF RowOf, RowT, StatusOf
  <2>4. AtMost(clerk[p].fp, ledgers[clerk[p].repo]) /\ AtMost(ledgers[clerk[p].repo], ledgers[clerk[p].repo])
    BY <1>1, <2>1, <2>2 DEF JobFits, AtMost, FpT
  <2>5. RowFits(ledgers, row)
    BY <2>3, <2>4 DEF RowFits
  <2> HIDE DEF row
  <2>6. j \in ClerkT /\ j.pc = "row" /\ j.rows = Append(clerk[p].rows, row)
    BY <2>1, <2>2, <2>3 DEF ClerkT, RowJob, StatsJob
  <2> HIDE DEF j
  <2>7. j.rows # <<>> /\ \A i \in DOMAIN j.rows : RowFits(ledgers, j.rows[i])
    <3>1. \A i \in DOMAIN clerk[p].rows : RowFits(ledgers, clerk[p].rows[i])
      BY <1>1, <2>1 DEF JobFits
    <3> QED BY <2>2, <2>3, <2>5, <2>6, <3>1
  <2>8. Suits(j)
    BY <2>6, <2>7 DEF Numbered, JobFits, Named, Carries
  <2> QED BY <1>2, <2>1, <2>8
<1>8. CASE AuditRefuses(p)
  <2>1. Goes(p, Built(1))
    BY <1>8 DEF AuditRefuses
  <2> QED BY <1>2, <2>1, EndedFits
<1>9. CASE PicksName(p)
  <2> DEFINE art == Artifact(clerk[p])
             j == [pc |-> "openNew", n |-> Len(archive) + 1, art |-> art]
  <2>1. Goes(p, j) /\ clerk[p].pc = "row" /\ clerk[p].todo = {} /\ Clean(art) /\ clerk[p] \in RowJob
    BY <1>1, <1>9, JobKinds DEF PicksName, Doing, Clean
  <2>2. clerk[p].rows \in Seq(RowT) /\ clerk[p].rows # <<>>
        /\ \A i \in DOMAIN clerk[p].rows : clerk[p].rows[i] \in RowT /\ RowFits(ledgers, clerk[p].rows[i])
    BY <1>1, <2>1 DEF JobFits, RowJob
  <2>3. art.rows = {clerk[p].rows[i] : i \in DOMAIN clerk[p].rows}
    BY DEF Artifact
  <2>4. art \in ArtT
    BY <2>1, <2>2 DEF Artifact, ArtT, RowJob
  <2> HIDE DEF art
  <2>5. ArtFits(ledgers, art)
    <3>1. 1 \in DOMAIN clerk[p].rows
      BY <2>2
    <3> QED BY <2>2, <2>3, <3>1 DEF ArtFits
  <2>6. Len(archive) \in Nat
    BY <1>1
  <2>7. j \in ClerkT /\ j.pc = "openNew" /\ j.art = art /\ j.n = Len(archive) + 1
    BY <2>4, <2>6 DEF ClerkT, PutJob
  <2> HIDE DEF j
  <2>8. Suits(j)
    BY <2>1, <2>5, <2>6, <2>7 DEF Numbered, JobFits, Named, Carries
  <2> QED BY <1>2, <2>1, <2>8
<1> QED BY <1>3, <1>4, <1>5, <1>6, <1>7, <1>8, <1>9

LEMMA AppendedAt ==
    ASSUME NEW S, NEW s \in Seq(S), NEW x \in S
    PROVE  /\ DOMAIN Append(s, x) = DOMAIN s \cup {Len(s) + 1}
           /\ \A i \in DOMAIN s : Append(s, x)[i] = s[i]
           /\ Append(s, x)[Len(s) + 1] = x
  OBVIOUS

LEMMA CheckStep ==
    ASSUME ScTypeOK, ScInv, NEW p \in Clerk,
           CheckReads(p) \/ CheckHashes(p) \/ CheckCompares(p) \/ CheckEnds(p)
    PROVE  ScTypeOK' /\ ScInv'
<1>1. /\ UNCHANGED ledgers /\ FilesRest /\ ConfigRests /\ scTally' \in TallyT
      /\ clerk[p] \in ClerkT /\ JobFits(ledgers, clerk[p]) /\ clerk[p].pc # "saveWrite"
      /\ cohort \in CfgT /\ ledgers \in [Repo -> FpT] /\ newest \in ArtT \cup {Missing, Shorn}
  BY DEF CheckReads, CheckHashes, CheckCompares, CheckEnds, Doing, Free, ScTypeOK, ScInv, TrueInv
<1>2. ASSUME NEW j, j \in ClerkT, Goes(p, j), j.pc \in {"check", "checked"}, JobFits(ledgers, j)
      PROVE  ScTypeOK' /\ ScInv'
  <2>1. ~Builds(j) /\ Numbered(archive, j) /\ Named(archive, j) /\ Carries(declared, j)
    BY <1>2 DEF Builds, Numbered, Named, Carries
  <2> QED BY <1>1, <1>2, <2>1, ClerkMoves
<1>3. CASE CheckReads(p)
  <2>1. CASE newest.is # "good"
    <3> DEFINE j == Checked(FALSE, newest, cohort, <<>>)
    <3>1. Goes(p, j)
      BY <1>3, <2>1 DEF CheckReads
    <3>2. j \in ClerkT /\ j.pc = "checked" /\ j.ok = FALSE
      BY <1>1 DEF Checked, ClerkT, VerdictJob
    <3> HIDE DEF j
    <3> QED BY <1>2, <3>1, <3>2 DEF JobFits
  <2>2. CASE newest.is = "good"
    <3> DEFINE j == [pc |-> "check", art |-> newest, cfg |-> cohort, ok |-> TRUE, seen |-> <<>>,
                     todo |-> ReposOf(cohort), hashed |-> FALSE]
    <3>1. Goes(p, j)
      BY <1>3, <2>2 DEF CheckReads
    <3>2. newest \in ArtT /\ ArtFits(ledgers, newest)
      BY <1>1, <2>2 DEF Missing, Shorn, ScInv, TrueInv
    <3>3. ReposOf(cohort) \in SUBSET Repo
      BY <1>1, ConfigIsRead
    <3>4. j \in ClerkT /\ j.pc = "check" /\ j.art = newest /\ j.seen = <<>> /\ j.hashed = FALSE
          /\ j.todo = ReposOf(cohort) /\ j.cfg = cohort
      BY <1>1, <3>2, <3>3 DEF ClerkT, CheckJob
    <3> HIDE DEF j
    <3>5. CheckFits(ledgers, j)
      BY <3>2, <3>4 DEF CheckFits, Seen, Matched
    <3> QED BY <1>2, <3>1, <3>4, <3>5 DEF JobFits
  <2> QED BY <2>1, <2>2
<1>4. ASSUME clerk[p].pc = "check"
      PROVE  clerk[p] \in CheckJob /\ CheckFits(ledgers, clerk[p])
  BY <1>1, <1>4, JobKinds DEF JobFits
<1>5. CASE CheckHashes(p)
  <2> DEFINE c == clerk[p]
             ok == /\ cohort = c.art.sha
                   /\ ValidConfig(ReposOf(c.cfg), ExternalOf(c.cfg))
                   /\ NothingMissing(c.art, c.cfg)
                   /\ c.cfg.is = "good" \/ c.art.rows = {}
             j == [c EXCEPT !.hashed = TRUE, !.ok = ok]
  <2>1. Goes(p, j) /\ c.pc = "check" /\ ~c.hashed
    BY <1>5 DEF CheckHashes, Doing
  <2>2. c \in CheckJob /\ CheckFits(ledgers, c) /\ c.cfg \in CfgT
    BY <1>4, <2>1 DEF CheckJob
  <2>3. ok \in BOOLEAN
    OBVIOUS
  <2>4. ok => WholeCohort(c)
    BY <2>2, ConfigIsRead DEF WholeCohort, NothingMissing, ValidConfig, CheckFits, ArtFits
  <2> HIDE DEF ok
  <2>5. /\ j \in CheckJob /\ j.pc = "check" /\ j.art = c.art /\ j.cfg = c.cfg /\ j.seen = c.seen
        /\ j.todo = c.todo /\ j.hashed = TRUE /\ j.ok = ok
    BY <2>2, <2>3 DEF CheckJob
  <2> HIDE DEF j, c
  <2>6. CheckFits(ledgers, j)
    <3>1. Seen(j) = Seen(c) /\ c.seen = <<>>
      BY <2>1, <2>2, <2>5 DEF Seen, CheckFits
    <3>2. Matched(j)
      BY <2>5, <3>1 DEF Matched
    <3>3. ok => WholeCohort(j)
      BY <2>4, <2>5 DEF WholeCohort
    <3> QED BY <2>2, <2>5, <3>1, <3>2, <3>3 DEF CheckFits
  <2> QED BY <1>2, <2>1, <2>5, <2>6 DEF JobFits, ClerkT
<1>6. CASE CheckCompares(p)
  <2> DEFINE c == clerk[p]
  <2>1. c.pc = "check" /\ c.hashed
    BY <1>6 DEF CheckCompares, Doing
  <2>2. PICK r \in c.todo :
          Goes(p, [c EXCEPT !.todo = @ \ {r}, !.seen = Append(@, <<r, ledgers[r]>>),
                     !.ok = @ /\ \A row \in c.art.rows : row.repo = r => row.fp = ledgers[r]])
    BY <1>6 DEF CheckCompares
  <2>3. c \in CheckJob /\ CheckFits(ledgers, c) /\ c.cfg \in CfgT
    BY <1>4, <2>1 DEF CheckJob
  <2> DEFINE same == \A row \in c.art.rows : row.repo = r => row.fp = ledgers[r]
             j == [c EXCEPT !.todo = @ \ {r}, !.seen = Append(@, <<r, ledgers[r]>>), !.ok = @ /\ same]
  <2>4. Goes(p, j)
    BY <2>2
  <2>5. r \in Repo /\ ledgers[r] \in FpT /\ c.seen \in Seq(Repo \X FpT) /\ c.art \in ArtT
    BY <1>1, <2>2, <2>3 DEF CheckJob
  <2>6. same \in BOOLEAN
    OBVIOUS
  <2>7. c.ok /\ same => \E row \in c.art.rows : row.repo = r /\ row.of = ledgers[r]
    <3> SUFFICES ASSUME c.ok, same PROVE \E row \in c.art.rows : row.repo = r /\ row.of = ledgers[r]
      OBVIOUS
    <3>1. WholeCohort(c) /\ r \in c.cfg.repos
      BY <2>1, <2>2, <2>3, ConfigIsRead DEF CheckFits, WholeCohort
    <3>2. PICK row \in c.art.rows : row.repo = r
      BY <3>1 DEF WholeCohort
    <3>3. row.fp = ledgers[r] /\ AtMost(row.fp, row.of) /\ AtMost(row.of, ledgers[r])
      BY <2>3, <3>2 DEF CheckFits, ArtFits, RowFits
    <3>4. row.of \in FpT
      BY <2>5, <3>2 DEF ArtT, RowT
    <3>5. /\ row.of.cp \in Nat /\ row.of.inj \in Nat /\ ledgers[r].cp \in Nat /\ ledgers[r].inj \in Nat
          /\ row.of = [cp |-> row.of.cp, inj |-> row.of.inj]
          /\ ledgers[r] = [cp |-> ledgers[r].cp, inj |-> ledgers[r].inj]
      BY <2>5, <3>4 DEF FpT
    <3>6. /\ ledgers[r].cp <= row.of.cp /\ row.of.cp <= ledgers[r].cp
          /\ ledgers[r].inj <= row.of.inj /\ row.of.inj <= ledgers[r].inj
      BY <3>3 DEF AtMost
    <3>7. row.of.cp = ledgers[r].cp /\ row.of.inj = ledgers[r].inj
      BY <3>5, <3>6, SMT
    <3>8. row.of = ledgers[r]
      BY <3>5, <3>7
    <3> QED BY <3>2, <3>8
  <2> HIDE DEF same
  <2>8. /\ j \in CheckJob /\ j.pc = "check" /\ j.art = c.art /\ j.cfg = c.cfg
        /\ j.seen = Append(c.seen, <<r, ledgers[r]>>) /\ j.todo = c.todo \ {r}
        /\ j.hashed /\ j.ok = (c.ok /\ same)
    <3> HIDE DEF c
    <3>1. <<r, ledgers[r]>> \in Repo \X FpT
      BY <2>5
    <3>2. Append(c.seen, <<r, ledgers[r]>>) \in Seq(Repo \X FpT)
      BY <2>5, <3>1, AppendProperties
    <3>3. c.todo \ {r} \in SUBSET Repo /\ (c.ok /\ same) \in BOOLEAN
      BY <2>3, <2>6 DEF CheckJob
    <3> DEFINE seen == Append(c.seen, <<r, ledgers[r]>>)
               todo == c.todo \ {r}
               ok == c.ok /\ same
    <3>4. j = [c EXCEPT !.todo = todo, !.seen = seen, !.ok = ok]
      OBVIOUS
    <3> HIDE DEF seen, todo, ok, j
    <3>5. /\ j \in CheckJob /\ j.pc = "check" /\ j.art = c.art /\ j.cfg = c.cfg
          /\ j.seen = seen /\ j.todo = todo /\ j.hashed = c.hashed /\ j.ok = ok
      <4>1. seen \in Seq(Repo \X FpT) /\ todo \in SUBSET Repo /\ ok \in BOOLEAN
        BY <3>2, <3>3 DEF seen, todo, ok
      <4> QED BY <2>3, <3>4, <4>1 DEF CheckJob
    <3> QED BY <2>1, <3>5 DEF seen, todo, ok
  <2> HIDE DEF j, c
  <2>9. /\ DOMAIN j.seen = DOMAIN c.seen \cup {Len(c.seen) + 1}
        /\ \A i \in DOMAIN c.seen : j.seen[i] = c.seen[i]
        /\ j.seen[Len(c.seen) + 1] = <<r, ledgers[r]>>
    <3>1. <<r, ledgers[r]>> \in Repo \X FpT
      BY <2>5
    <3> QED BY <2>5, <2>8, <3>1, AppendedAt
  <2>10. CheckFits(ledgers, j)
    <3>1. Seen(j) = Seen(c) \cup {r}
      BY <2>9 DEF Seen
    <3>2. Seen(j) \cup j.todo = ReposOf(j.cfg)
      BY <2>2, <2>3, <2>8, <3>1 DEF CheckFits
    <3>3. j.ok => Matched(j)
      <4> SUFFICES ASSUME j.ok, NEW i \in DOMAIN j.seen
                   PROVE  \E row \in j.art.rows : row.repo = j.seen[i][1] /\ row.of = j.seen[i][2]
        BY DEF Matched
      <4>1. j.art.rows = c.art.rows /\ c.ok /\ same
        BY <2>8
      <4>2. CASE i \in DOMAIN c.seen
        <5>1. j.seen[i] = c.seen[i]
          BY <2>9, <4>2
        <5>2. Matched(c)
          BY <2>3, <4>1 DEF CheckFits
        <5> QED BY <4>1, <4>2, <5>1, <5>2 DEF Matched
      <4>3. CASE i = Len(c.seen) + 1
        <5>1. j.seen[i] = <<r, ledgers[r]>>
          BY <2>9, <4>3
        <5>2. j.seen[i][1] = r /\ j.seen[i][2] = ledgers[r]
          BY <5>1
        <5> QED BY <2>7, <4>1, <5>2
      <4> QED BY <2>9, <4>2, <4>3
    <3>4. j.ok => WholeCohort(j)
      BY <2>1, <2>3, <2>8 DEF CheckFits, WholeCohort
    <3> QED BY <2>3, <2>8, <3>2, <3>3, <3>4 DEF CheckFits
  <2> QED BY <1>2, <2>4, <2>8, <2>10 DEF JobFits, ClerkT
<1>7. CASE CheckEnds(p)
  <2> DEFINE c == clerk[p]
             j == Checked(c.ok, c.art, c.cfg, c.seen)
  <2>1. Goes(p, j) /\ c.pc = "check" /\ c.hashed /\ c.todo = {}
    BY <1>7 DEF CheckEnds, Doing
  <2>2. c \in CheckJob /\ CheckFits(ledgers, c) /\ c.cfg \in CfgT
    BY <1>4, <2>1 DEF CheckJob
  <2>3. j \in ClerkT /\ j.pc = "checked" /\ j.ok = c.ok /\ j.art = c.art /\ j.cfg = c.cfg /\ j.seen = c.seen
    BY <2>2 DEF Checked, ClerkT, VerdictJob, CheckJob
  <2>4. c.art.is = "good"
    BY <2>2 DEF CheckJob, ArtT
  <2> HIDE DEF j, c
  <2>5. j.ok => Matched(j) /\ WholeCohort(j) /\ Seen(j) = j.cfg.repos
    BY <2>1, <2>2, <2>3, ConfigIsRead DEF CheckFits, Matched, WholeCohort, Seen
  <2> QED BY <1>2, <2>1, <2>3, <2>4, <2>5 DEF JobFits
<1> QED BY <1>3, <1>5, <1>6, <1>7

\* The configuration is cut and written by the one clerk who saves.
LEMMA SaveStep ==
    ASSUME ScTypeOK, ScInv, NEW p \in Clerk, SaveOpens(p) \/ SaveWrites(p)
    PROVE  ScTypeOK' /\ ScInv'
<1>1. /\ UNCHANGED <<ledgers, archive, newest, declared, unsettled, scTally>>
      /\ clerk[p] \in SaveJob /\ clerk[p].pc \in {"saveOpen", "saveWrite"} /\ clerk[p].repos # {}
      /\ Builds(clerk[p])
  BY JobKinds DEF SaveOpens, SaveWrites, Doing, FilesRest, ScTypeOK, ScInv, TrueInv, JobFits, Builds
<1>2. \A q \in Clerk : q # p => clerk'[q] = clerk[q]
  BY DEF SaveOpens, SaveWrites, Goes, ScTypeOK
<1>3. /\ clerk'[p] \in ClerkT /\ clerk'[p].pc \in {"saveWrite", "external"} /\ clerk'[p].repos # {}
      /\ clerk'[p].pc = "saveWrite" => clerk'[p].ext = clerk[p].ext
      /\ cohort' \in CfgT
      /\ SaveOpens(p) => clerk'[p].pc = "saveWrite" /\ cohort'.is = "cut"
      /\ SaveWrites(p) => cohort'.is = "good" /\ cohort'.ext = clerk[p].ext
  <2>1. CASE SaveOpens(p)
    <3>1. clerk'[p] = [clerk[p] EXCEPT !.pc = "saveWrite"] /\ cohort' = Shorn /\ clerk[p].pc = "saveOpen"
      BY <2>1 DEF SaveOpens, Goes, Doing, ScTypeOK
    <3>2. [clerk[p] EXCEPT !.pc = "saveWrite"] \in SaveJob
      BY <1>1 DEF SaveJob
    <3>3. ~SaveWrites(p)
      BY <3>1 DEF SaveWrites, Doing
    <3> QED BY <1>1, <2>1, <3>1, <3>2, <3>3 DEF ClerkT, SaveJob, CfgT, Shorn
  <2>2. CASE SaveWrites(p)
    <3>1. /\ clerk'[p] = [pc |-> "external", repos |-> clerk[p].repos]
          /\ cohort' = Config(clerk[p].repos, clerk[p].ext) /\ clerk[p].pc = "saveWrite"
      BY <2>2 DEF SaveWrites, Goes, Doing, ScTypeOK
    <3>2. ~SaveOpens(p)
      BY <3>1 DEF SaveOpens, Doing
    <3> QED BY <1>1, <2>2, <3>1, <3>2 DEF ClerkT, GivenJob, SaveJob, CfgT, Config
  <2> QED BY <2>1, <2>2
<1>4. JobFits(ledgers, clerk'[p]) /\ Numbered(archive, clerk'[p]) /\ Named(archive, clerk'[p])
  BY <1>3 DEF JobFits, Numbered, Named
<1>5. clerk' \in [Clerk -> ClerkT]
  BY <1>3 DEF SaveOpens, SaveWrites, Goes, ScTypeOK
<1>6. ScTypeOK'
  <2>1. \A q \in Clerk : Numbered(archive', clerk'[q])
    BY <1>1, <1>2, <1>4 DEF ScTypeOK
  <2> QED BY <1>1, <1>3, <1>5, <2>1 DEF ScTypeOK
<1>7. TrueInv'
  <2>1. \A q \in Clerk : JobFits(ledgers', clerk'[q])
    BY <1>1, <1>2, <1>4 DEF ScInv, TrueInv
  <2> QED BY <1>1, <2>1 DEF ScInv, TrueInv
<1>8. QuietInv => QuietInv'
  <2> SUFFICES ASSUME QuietInv PROVE QuietInv'
    OBVIOUS
  <2>1. OneBuild'
    BY <1>1, <1>2 DEF QuietInv, OneBuild
  <2>2. \A q \in Clerk : Named(archive', clerk'[q])
    BY <1>1, <1>2, <1>4 DEF QuietInv, NamesInv
  <2>3. NamesInv'
    BY <1>1, <2>2 DEF QuietInv, NamesInv
  <2>4. \A q \in Clerk : q # p => clerk'[q].pc \notin {"saveOpen", "saveWrite"}
    BY <1>1, <1>2 DEF QuietInv, OneBuild, Builds
  <2>5. DeclaredInv'
    <3> SUFFICES ASSUME ~unsettled PROVE DeclaredInv'
      BY <1>1 DEF DeclaredInv
    <3>1. clerk[p].ext = declared
      BY <1>1 DEF QuietInv, DeclaredInv, Carries
    <3>2. \A q \in Clerk : Carries(declared', clerk'[q])
      BY <1>1, <1>3, <2>4, <3>1 DEF Carries
    <3>3. CASE SaveOpens(p)
      BY <1>3, <3>2, <3>3 DEF DeclaredInv
    <3>4. CASE SaveWrites(p)
      BY <1>1, <1>3, <3>1, <3>2, <3>4 DEF DeclaredInv
    <3> QED BY <3>3, <3>4
  <2> QED BY <2>1, <2>3, <2>5 DEF QuietInv
<1> QED BY <1>6, <1>7, <1>8 DEF ScInv

Longer(n, m) == IF n > m THEN n ELSE m

\* `placed` is `file` with `art` in place n, the last or one of its own.
HoldsAt(placed, S, file, n, art) ==
    /\ placed \in Seq(S)
    /\ placed[n] = art
    /\ Len(placed) = Longer(n, Len(file))
    /\ \A k \in DOMAIN file : k # n => placed[k] = file[k]

LEMMA PlacedAt ==
    ASSUME NEW S, NEW file \in Seq(S), NEW n \in Nat \ {0}, n <= Len(file) + 1, NEW art \in S
    PROVE  HoldsAt(Placed(file, n, art), S, file, n, art)
<1> DEFINE m == Longer(n, Len(file))
           s == Placed(file, n, art)
<1>1. m \in Nat /\ n \in 1..m /\ 1..m = (1..Len(file)) \cup {n} /\ Len(file) \in Nat
  BY DEF Longer
<1>2. s = [k \in 1..m |-> IF k = n THEN art ELSE file[k]]
  BY DEF Placed, Longer
<1>3. \A k \in 1..m : k # n => k \in 1..Len(file) /\ file[k] \in S
  BY <1>1
<1> HIDE DEF m, s
<1>4. s \in [1..m -> S] /\ Len(s) = m /\ s \in Seq(S) /\ DOMAIN s = 1..m
  BY <1>1, <1>2, <1>3
<1>5. s[n] = art /\ \A k \in 1..Len(file) : k # n => s[k] = file[k]
  BY <1>1, <1>2
<1>6. DOMAIN file = 1..Len(file)
  OBVIOUS
<1> QED BY <1>1, <1>4, <1>5, <1>6 DEF m, s, HoldsAt

\* An artifact goes under its name: nobody else's name is touched.
LEMMA ArchiveStep ==
    ASSUME ScTypeOK, ScInv, NEW p \in Clerk, OpensNew(p) \/ WritesNew(p)
    PROVE  /\ ScTypeOK' /\ ScInv'
           /\ ~Overlap => \A n \in DOMAIN archive : archive[n].is = "good" => archive'[n] = archive[n]
<1> DEFINE n == clerk[p].n
           art == clerk[p].art
           put == IF clerk[p].pc = "openNew" THEN Shorn ELSE art
           to == IF clerk[p].pc = "openNew" THEN "writeNew" ELSE "openLatest"
<1>1. /\ UNCHANGED <<ledgers, newest, cohort, declared, unsettled, scTally>>
      /\ clerk[p] \in PutJob /\ clerk[p].pc \in {"openNew", "writeNew"} /\ Builds(clerk[p])
      /\ Numbered(archive, clerk[p]) /\ JobFits(ledgers, clerk[p])
      /\ archive \in Seq(ArtT \cup {Shorn})
  BY JobKinds DEF OpensNew, WritesNew, Doing, ConfigRests, ScTypeOK, ScInv, TrueInv, Builds
<1>2. archive' = Placed(archive, n, put) /\ clerk' = [clerk EXCEPT ![p] = [clerk[p] EXCEPT !.pc = to]]
  BY DEF OpensNew, WritesNew, Doing, Goes
<1>3. n \in Nat \ {0} /\ art \in ArtT /\ Len(archive) \in Nat /\ ArtFits(ledgers, art) /\ Clean(art)
  BY <1>1 DEF PutJob, JobFits
<1>4. n <= Len(archive) + 1 /\ put \in ArtT \cup {Shorn}
  BY <1>1, <1>3 DEF Numbered
<1>5. /\ clerk'[p] \in ClerkT /\ clerk'[p].pc = to /\ clerk'[p].n = n /\ clerk'[p].art = art
      /\ \A q \in Clerk : q # p => clerk'[q] = clerk[q]
      /\ clerk' \in [Clerk -> ClerkT]
  <2>1. [clerk[p] EXCEPT !.pc = to] \in PutJob
    BY <1>1 DEF PutJob
  <2> QED BY <1>1, <1>2, <2>1 DEF ClerkT, PutJob, ScTypeOK
<1>6. put.is = "good" => put = art
  BY <1>3 DEF Shorn, ArtT
<1>7. to \in {"writeNew", "openLatest"} /\ to = "writeNew" => put = Shorn
  OBVIOUS
<1>8. to = "openLatest" => put = art
  BY <1>1
<1>9. clerk[p].pc = "openNew" => to = "writeNew"
  OBVIOUS
<1>10. to \in {"writeNew", "openLatest"}
  OBVIOUS
<1> HIDE DEF n, art, put, to
<1>11. /\ archive' \in Seq(ArtT \cup {Shorn}) /\ archive'[n] = put
       /\ Len(archive') = Longer(n, Len(archive)) /\ Len(archive') >= Len(archive)
       /\ Len(archive') >= n
       /\ \A k \in DOMAIN archive : k # n => archive'[k] = archive[k]
       /\ DOMAIN archive' = DOMAIN archive \cup {n}
  <2>1. archive' = Placed(archive, n, put)
    BY <1>2
  <2>2. /\ Placed(archive, n, put) \in Seq(ArtT \cup {Shorn})
        /\ Placed(archive, n, put)[n] = put
        /\ Len(Placed(archive, n, put)) = Longer(n, Len(archive))
        /\ \A k \in DOMAIN archive : k # n => Placed(archive, n, put)[k] = archive[k]
    <3> DEFINE S == ArtT \cup {Shorn}
    <3>1. archive \in Seq(S) /\ put \in S /\ n \in Nat \ {0} /\ n <= Len(archive) + 1
      BY <1>1, <1>3, <1>4
    <3> HIDE DEF S
    <3>2. HoldsAt(Placed(archive, n, put), S, archive, n, put)
      BY <3>1, PlacedAt
    <3> QED BY <3>2 DEF S, HoldsAt
  <2>3. Longer(n, Len(archive)) >= Len(archive) /\ Longer(n, Len(archive)) >= n
    BY <1>3 DEF Longer
  <2>4. DOMAIN archive' = 1..Longer(n, Len(archive)) /\ DOMAIN archive = 1..Len(archive)
    BY <1>1, <2>1, <2>2
  <2>5. 1..Longer(n, Len(archive)) = (1..Len(archive)) \cup {n}
    BY <1>3, <1>4 DEF Longer
  <2> QED BY <2>1, <2>2, <2>3, <2>4, <2>5
<1>12. ScTypeOK'
  <2>1. \A q \in Clerk : clerk[q].pc \in {"openNew", "writeNew", "openLatest", "writeLatest"} => clerk[q].n \in Nat
    BY JobKinds DEF ScTypeOK, PutJob
  <2>2. \A q \in Clerk : q # p => Numbered(archive', clerk'[q])
    BY <1>3, <1>5, <1>11, <2>1 DEF ScTypeOK, Numbered
  <2>3. Numbered(archive', clerk'[p])
    BY <1>5, <1>10, <1>11 DEF Numbered
  <2> QED BY <1>1, <1>5, <1>11, <2>2, <2>3 DEF ScTypeOK
<1>13. TrueInv'
  <2>1. \A k \in DOMAIN archive' : archive'[k].is = "good" => ArtFits(ledgers, archive'[k]) /\ Clean(archive'[k])
    BY <1>3, <1>6, <1>11 DEF ScInv, TrueInv
  <2>2. JobFits(ledgers, clerk'[p])
    BY <1>3, <1>5, <1>10 DEF JobFits
  <2>3. \A q \in Clerk : JobFits(ledgers', clerk'[q])
    BY <1>1, <1>5, <2>2 DEF ScInv, TrueInv
  <2> QED BY <1>1, <2>1, <2>3 DEF ScInv, TrueInv
<1>14. ASSUME ~Overlap, NEW k \in DOMAIN archive, archive[k].is = "good"
       PROVE  k # n
  <2>1. Named(archive, clerk[p])
    BY <1>14 DEF ScInv, QuietInv, NamesInv
  <2>2. CASE clerk[p].pc = "openNew"
    BY <1>1, <1>3, <1>14, <2>1, <2>2 DEF Named, n
  <2>3. CASE clerk[p].pc = "writeNew"
    BY <1>14, <2>1, <2>3 DEF Named, n, Shorn
  <2> QED BY <1>1, <2>2, <2>3
<1>15. ASSUME ~Overlap PROVE QuietInv'
  <2>1. OneBuild'
    <3>1. Builds(clerk[p]) /\ \A q \in Clerk : Builds(clerk'[q]) => Builds(clerk[q])
      BY <1>1, <1>5
    <3> QED BY <1>15, <3>1 DEF ScInv, QuietInv, OneBuild
  <2>2. \A q \in Clerk : q # p => ~Builds(clerk'[q])
    BY <1>1, <1>5, <1>15 DEF ScInv, QuietInv, OneBuild
  <2>3. \A q \in Clerk : Named(archive', clerk'[q])
    <3>1. \A q \in Clerk : q # p => Named(archive', clerk'[q])
      BY <2>2 DEF Builds, Named
    <3>2. Named(archive', clerk'[p])
      BY <1>5, <1>7, <1>8, <1>10, <1>11 DEF Named
    <3> QED BY <3>1, <3>2
  <2>4. newest.is = "good" => \E k \in DOMAIN archive' : archive'[k] = newest
    BY <1>11, <1>14, <1>15 DEF ScInv, QuietInv, NamesInv
  <2>5. DeclaredInv'
    <3>1. \A q \in Clerk : clerk'[q].pc \in {"saveOpen", "saveWrite"} <=> clerk[q].pc \in {"saveOpen", "saveWrite"}
      BY <1>1, <1>5, <1>10
    <3>2. \A q \in Clerk : clerk'[q].pc = "saveWrite" <=> clerk[q].pc = "saveWrite"
      BY <1>1, <1>5, <1>10
    <3>3. \A q \in Clerk : Carries(declared, clerk[q]) => Carries(declared', clerk'[q])
      BY <1>1, <1>5, <1>10 DEF Carries
    <3> QED BY <1>1, <1>15, <3>2, <3>3 DEF ScInv, QuietInv, DeclaredInv
  <2> QED BY <1>1, <2>1, <2>3, <2>4, <2>5 DEF QuietInv, NamesInv
<1> QED BY <1>11, <1>12, <1>13, <1>14, <1>15 DEF ScInv

\* The pointer is cut, and then shows what its clerk put under its name.
LEMMA LatestStep ==
    ASSUME ScTypeOK, ScInv, NEW p \in Clerk, OpensLatest(p) \/ WritesLatest(p)
    PROVE  ScTypeOK' /\ ScInv'
<1>1. /\ UNCHANGED <<ledgers, archive, cohort, declared, unsettled, scTally>>
      /\ clerk[p] \in PutJob /\ clerk[p].pc \in {"openLatest", "writeLatest"} /\ Builds(clerk[p])
      /\ Numbered(archive, clerk[p]) /\ JobFits(ledgers, clerk[p])
  BY JobKinds DEF OpensLatest, WritesLatest, Doing, ConfigRests, ScTypeOK, ScInv, TrueInv, Builds
<1>2. /\ clerk[p].n \in Nat \ {0} /\ clerk[p].n <= Len(archive) /\ clerk[p].n \in DOMAIN archive
      /\ clerk[p].art \in ArtT /\ ArtFits(ledgers, clerk[p].art) /\ Clean(clerk[p].art)
  BY <1>1 DEF PutJob, JobFits, Numbered, ScTypeOK
<1>3. \A q \in Clerk : q # p => clerk'[q] = clerk[q]
  BY DEF OpensLatest, WritesLatest, Goes, ScTypeOK
<1>4. /\ clerk'[p] \in ClerkT /\ clerk'[p].pc \in {"writeLatest", "done"}
      /\ clerk'[p].pc = "writeLatest" => clerk'[p].art = clerk[p].art /\ clerk'[p].n = clerk[p].n
      /\ newest' = Shorn \/ newest' = clerk[p].art
  <2>1. CASE OpensLatest(p)
    <3>1. clerk'[p] = [clerk[p] EXCEPT !.pc = "writeLatest"] /\ newest' = Shorn
      BY <2>1 DEF OpensLatest, Goes, ScTypeOK
    <3>2. [clerk[p] EXCEPT !.pc = "writeLatest"] \in PutJob
      BY <1>1 DEF PutJob
    <3> QED BY <1>1, <3>1, <3>2 DEF ClerkT, PutJob
  <2>2. CASE WritesLatest(p)
    <3>1. clerk'[p] = Built(0) /\ newest' = clerk[p].art
      BY <2>2 DEF WritesLatest, Goes, ScTypeOK
    <3> QED BY <3>1, EndedFits DEF Built
  <2> QED BY <2>1, <2>2
<1>5. clerk' \in [Clerk -> ClerkT]
  BY <1>4 DEF OpensLatest, WritesLatest, Goes, ScTypeOK
<1>6. ScTypeOK'
  <2>1. \A q \in Clerk : Numbered(archive', clerk'[q])
    BY <1>1, <1>2, <1>3, <1>4 DEF ScTypeOK, Numbered
  <2>2. newest' \in ArtT \cup {Missing, Shorn}
    BY <1>2, <1>4
  <2> QED BY <1>1, <1>5, <2>1, <2>2 DEF ScTypeOK
<1>7. TrueInv'
  <2>1. JobFits(ledgers, clerk'[p])
    BY <1>2, <1>4 DEF JobFits
  <2>2. \A q \in Clerk : JobFits(ledgers', clerk'[q])
    BY <1>1, <1>3, <2>1 DEF ScInv, TrueInv
  <2>3. newest'.is = "good" => ArtFits(ledgers, newest')
    BY <1>2, <1>4 DEF Shorn
  <2> QED BY <1>1, <2>2, <2>3 DEF ScInv, TrueInv
<1>8. ASSUME ~Overlap PROVE QuietInv'
  <2>1. \A q \in Clerk : q # p => ~Builds(clerk'[q])
    BY <1>1, <1>3, <1>8 DEF ScInv, QuietInv, OneBuild
  <2>2. OneBuild'
    BY <2>1 DEF OneBuild
  <2>3. Named(archive, clerk[p]) /\ archive[clerk[p].n] = clerk[p].art
    BY <1>1, <1>8 DEF ScInv, QuietInv, NamesInv, Named
  <2>4. \A q \in Clerk : Named(archive', clerk'[q])
    BY <1>1, <1>4, <2>1, <2>3 DEF Named, Builds
  <2>5. NamesInv'
    BY <1>1, <1>2, <1>4, <2>3, <2>4 DEF NamesInv, Shorn
  <2>6. \A q \in Clerk : clerk'[q].pc = "saveWrite" <=> clerk[q].pc = "saveWrite"
    BY <1>1, <1>3, <1>4
  <2>7. \A q \in Clerk : Carries(declared, clerk[q]) => Carries(declared', clerk'[q])
    BY <1>1, <1>3, <1>4 DEF Carries
  <2>8. DeclaredInv'
    BY <1>1, <1>8, <2>6, <2>7 DEF ScInv, QuietInv, DeclaredInv
  <2> QED BY <2>2, <2>5, <2>8 DEF QuietInv
<1> QED BY <1>6, <1>7, <1>8 DEF ScInv

LEMMA HaltStep ==
    ASSUME ScTypeOK, ScInv, NEW p \in Clerk, Halts(p)
    PROVE  ScTypeOK' /\ ScInv'
<1>1. /\ UNCHANGED <<ledgers, archive, newest, cohort, declared>>
      /\ unsettled' = (unsettled \/ clerk[p].pc = "saveWrite")
      /\ clerk'[p] = OffDuty /\ \A q \in Clerk : q # p => clerk'[q] = clerk[q]
  BY DEF Halts, FilesRest, Doing, Goes, ScTypeOK
<1>2. /\ OffDuty \in ClerkT /\ ~Builds(OffDuty) /\ OffDuty.pc = "idle"
      /\ Numbered(archive, OffDuty) /\ Named(archive, OffDuty) /\ JobFits(ledgers, OffDuty)
      /\ Carries(declared, OffDuty)
  BY DEF OffDuty, ClerkT, IdleJob, Builds, Numbered, Named, JobFits, Carries
<1>3. ScTypeOK'
  <2>1. scTally' \in TallyT
    BY Tallied DEF Halts
  <2>2. clerk' \in [Clerk -> ClerkT]
    BY <1>2 DEF Halts, Goes, ScTypeOK
  <2>3. \A q \in Clerk : Numbered(archive', clerk'[q])
    BY <1>1, <1>2 DEF ScTypeOK
  <2>4. unsettled' \in BOOLEAN
    BY <1>1
  <2> QED BY <1>1, <2>1, <2>2, <2>3, <2>4 DEF ScTypeOK
<1>4. TrueInv'
  <2>1. \A q \in Clerk : JobFits(ledgers', clerk'[q])
    BY <1>1, <1>2 DEF ScInv, TrueInv
  <2> QED BY <1>1, <2>1 DEF ScInv, TrueInv
<1>5. QuietInv => QuietInv'
  <2> SUFFICES ASSUME QuietInv PROVE QuietInv'
    OBVIOUS
  <2>1. OneBuild'
    BY <1>1, <1>2 DEF QuietInv, OneBuild
  <2>2. \A q \in Clerk : Named(archive', clerk'[q])
    BY <1>1, <1>2 DEF QuietInv, NamesInv
  <2>3. NamesInv'
    BY <1>1, <2>2 DEF QuietInv, NamesInv
  <2>4. DeclaredInv'
    <3> SUFFICES ASSUME ~unsettled, clerk[p].pc # "saveWrite" PROVE DeclaredInv'
      BY <1>1 DEF DeclaredInv
    <3>1. \A q \in Clerk : Carries(declared', clerk'[q])
      BY <1>1, <1>2 DEF QuietInv, DeclaredInv
    <3>2. \A q \in Clerk : clerk[q].pc = "saveWrite" => clerk'[q].pc = "saveWrite"
      BY <1>1
    <3> QED BY <1>1, <3>1, <3>2 DEF QuietInv, DeclaredInv
  <2> QED BY <2>1, <2>3, <2>4 DEF QuietInv
<1> QED BY <1>3, <1>4, <1>5 DEF ScInv

\* The step, and what was published stays.
LEMMA ScoreStep ==
    ASSUME ScTypeOK, ScInv, [ScoreNext]_scVars
    PROVE  /\ ScTypeOK' /\ ScInv'
           /\ ~Overlap => \A n \in DOMAIN archive : archive[n].is = "good" => archive'[n] = archive[n]
<1>1. CASE UNCHANGED scVars
  BY <1>1 DEF scVars, ScTypeOK, ScInv, TrueInv, QuietInv, OneBuild, NamesInv, DeclaredInv
<1>2. CASE \E r \in Repo, file \in {"cp", "inj"} : LedgerGrows(r, file)
  BY <1>2, GrowsStep DEF LedgerGrows, FilesRest
<1>3. CASE \E repos \in SUBSET Repo, ext \in SUBSET External : ConfigEdited(repos, ext)
  BY <1>3, EditedStep DEF ConfigEdited, FilesRest
<1>4. ASSUME NEW p \in Clerk, (\E repos \in (SUBSET Repo) \ {{}} : BuildGiven(p, repos)) \/ BuildSaved(p)
      PROVE  ScTypeOK' /\ ScInv' /\ archive' = archive
  BY <1>4, BeginStep DEF BuildGiven, BuildSaved, MayBuild, FilesRest
<1>5. ASSUME NEW p \in Clerk,
             \/ SaveReads(p) \/ ReadsExternals(p) \/ HashesConfig(p) \/ Fingerprints(p)
             \/ Aggregates(p) \/ AuditRefuses(p) \/ PicksName(p)
      PROVE  ScTypeOK' /\ ScInv' /\ archive' = archive
  <2>1. archive' = archive
    BY <1>5 DEF SaveReads, ReadsExternals, HashesConfig, Fingerprints, Aggregates, AuditRefuses, PicksName, FilesRest
  <2> QED BY <1>5, <2>1, ReadStep
<1>6. ASSUME NEW p \in Clerk, SaveOpens(p) \/ SaveWrites(p) \/ OpensLatest(p) \/ WritesLatest(p) \/ Halts(p)
      PROVE  ScTypeOK' /\ ScInv' /\ archive' = archive
  <2>1. archive' = archive
    BY <1>6 DEF SaveOpens, SaveWrites, OpensLatest, WritesLatest, Halts, FilesRest
  <2> QED BY <1>6, <2>1, SaveStep, LatestStep, HaltStep
<1>7. ASSUME NEW p \in Clerk, CheckReads(p) \/ CheckHashes(p) \/ CheckCompares(p) \/ CheckEnds(p)
      PROVE  ScTypeOK' /\ ScInv' /\ archive' = archive
  <2>1. archive' = archive
    BY <1>7 DEF CheckReads, CheckHashes, CheckCompares, CheckEnds, FilesRest
  <2> QED BY <1>7, <2>1, CheckStep
<1> QED
  BY <1>1, <1>2, <1>3, <1>4, <1>5, <1>6, <1>7, ArchiveStep DEF ScoreNext

LEMMA ScoreStarts == ScoreInit => ScTypeOK /\ ScInv
<1> SUFFICES ASSUME ScoreInit PROVE ScTypeOK /\ ScInv
  OBVIOUS
<1>1. /\ archive = <<>> /\ newest = Missing /\ cohort = Missing /\ declared = {} /\ unsettled = FALSE
      /\ \A p \in Clerk : clerk[p] = OffDuty
  BY DEF ScoreInit
<1>2. /\ OffDuty \in ClerkT /\ ~Builds(OffDuty)
      /\ Numbered(archive, OffDuty) /\ Named(archive, OffDuty) /\ JobFits(ledgers, OffDuty)
      /\ Carries(declared, OffDuty)
  BY DEF OffDuty, ClerkT, IdleJob, Builds, Numbered, Named, JobFits, Carries
<1>3. ScTypeOK
  <2>1. ledgers \in [Repo -> FpT] /\ scTally \in TallyT
    BY DEF ScoreInit, FpT, TallyT
  <2>2. clerk \in [Clerk -> ClerkT]
    BY <1>2 DEF ScoreInit
  <2>3. archive \in Seq(ArtT \cup {Shorn})
    BY <1>1
  <2>4. cohort \in CfgT
    BY <1>1 DEF CfgT
  <2> QED BY <1>1, <1>2, <2>1, <2>2, <2>3, <2>4 DEF ScTypeOK
<1>4. TrueInv
  BY <1>1, <1>2 DEF TrueInv, Missing
<1>5. QuietInv
  BY <1>1, <1>2 DEF QuietInv, OneBuild, NamesInv, DeclaredInv, Missing
<1> QED BY <1>3, <1>4, <1>5 DEF ScInv

LEMMA ScoreHolds ==
    ScTypeOK /\ ScInv =>
        PassMeansSameInputs /\ PassMeansWholeCohort /\ LatestIsArchived /\ ExternalsStay /\ NothingTainted
<1> SUFFICES ASSUME ScTypeOK, ScInv
             PROVE  PassMeansSameInputs /\ PassMeansWholeCohort /\ LatestIsArchived /\ ExternalsStay /\ NothingTainted
  OBVIOUS
<1>1. \A p \in Clerk : Passed(p) =>
         clerk[p].art.is = "good" /\ Matched(clerk[p]) /\ WholeCohort(clerk[p]) /\ Seen(clerk[p]) = clerk[p].cfg.repos
  BY DEF Passed, Doing, ScInv, TrueInv, JobFits
<1>2. PassMeansSameInputs
  BY <1>1 DEF PassMeansSameInputs, Matched
<1>3. PassMeansWholeCohort
  BY <1>1 DEF PassMeansWholeCohort, WholeCohort, Seen, NamesIn
<1>4. LatestIsArchived
  BY DEF LatestIsArchived, ScInv, QuietInv, NamesInv
<1>5. ExternalsStay
  BY DEF ExternalsStay, Readable, ScInv, QuietInv, DeclaredInv
<1>6. NothingTainted
  BY DEF NothingTainted, ScInv, TrueInv, Clean
<1> QED BY <1>2, <1>3, <1>4, <1>5, <1>6

(***************************************************************************)
(* Whatever hooks append and operators edit while a scorecard is built or  *)
(* checked: a check that passes compared the very ledgers the numbers came *)
(* from and missed no member of the cohort, and nothing tainted is         *)
(* published.  With one build at a time, what was published and declared   *)
(* stays.                                                                  *)
(***************************************************************************)
THEOREM ScorecardStaysSound == ScoreSpec => ScorecardIsSound
<1> DEFINE I == ScTypeOK /\ ScInv
<1>1. ScoreInit => I
  BY ScoreStarts
<1>2. I /\ [ScoreNext]_scVars => I'
  BY ScoreStep
<1>3. I => PassMeansSameInputs /\ PassMeansWholeCohort /\ LatestIsArchived /\ ExternalsStay /\ NothingTainted
  BY ScoreHolds
<1>4. I /\ [ScoreNext]_scVars =>
        [~Overlap => \A n \in DOMAIN archive : archive[n].is = "good" => archive'[n] = archive[n]]_scVars
  BY ScoreStep
<1> QED BY <1>1, <1>2, <1>3, <1>4, PTL DEF ScoreSpec, ScorecardIsSound, PriorScorecardsStay

-----------------------------------------------------------------------------
(***************************************************************************)
(* Entity graph.                                                           *)
(***************************************************************************)
GraphSpec == GraphInit /\ [][GraphNext]_graphVars

\* The references R read in a direction, and where walks along them end.
Linked(R, dir) == {e \in Node \X Node :
    CASE dir = "out" -> e \in R
      [] dir = "in" -> <<e[2], e[1]>> \in R
      [] OTHER -> e \in R \/ <<e[2], e[1]>> \in R}
Walks(L, n) == {v \in [1..n + 1 -> Node] : v[1] = Start /\ \A i \in 1..n : <<v[i], v[i + 1]>> \in L}
Ends(L, n) == {w[n + 1] : w \in Walks(L, n)}
Far(L, v, d) == v \in Ends(L, d) /\ \A k \in Nat : k < d => v \notin Ends(L, k)
Closed(L, V, v) == \A u \in Node : <<v, u>> \in L => u \in V

(***************************************************************************)
(* What holds of a queue of nodes with their distances and of the visited  *)
(* nodes: the queue is in the order of the distances, which are those of   *)
(* the shortest walks; and a visited node still waits, or was expanded, or *)
(* is as far as the search may go.                                         *)
(***************************************************************************)
Entry == [n : Node, d : Nat]
Opened(L, capped, lim, q, V) ==
    /\ q \in Seq(Entry) /\ V \in SUBSET Node /\ Start \in V
    /\ \A i \in 1..Len(q) : q[i].n \in V /\ Far(L, q[i].n, q[i].d) /\ (capped => q[i].d <= lim)
    /\ \A i, j \in 1..Len(q) : i <= j => q[i].d <= q[j].d
    /\ \A j \in 1..Len(q) : q[j].d <= q[1].d + 1
    /\ \A v \in V : \E k \in Nat : v \in Ends(L, k) /\ (capped => k <= lim)
    /\ \A v \in V : \/ \E i \in 1..Len(q) : q[i].n = v
                    \/ Closed(L, V, v)
                    \/ capped /\ \A j \in Nat : j < lim => v \notin Ends(L, j)

Trail(L, p) ==
    /\ p \in Seq(Node) /\ Len(p) >= 1 /\ p[1] = Start
    /\ \A i \in 1..Len(p) - 1 : <<p[i], p[i + 1]>> \in L
Nodes(q) == [i \in 1..Len(q) |-> [n |-> q[i][Len(q[i])], d |-> Len(q[i]) - 1]]
PathDir(dir) == IF dir = "out" THEN "out" ELSE "both"
BfsAnswer(L, depth, result) == result = (UNION {Ends(L, n) : n \in 0..depth}) \ {Start}
PathAnswer(L, p) ==
    /\ p = <<>> => \A n \in Nat : Goal \notin Ends(L, n)
    /\ p # <<>> => /\ Trail(L, p) /\ p[Len(p)] = Goal
                   /\ \A n \in Nat : Goal \in Ends(L, n) => Len(p) - 1 <= n

Asked == [op : {"bfs", "path"}, depth : Nat, dir : {"out", "in", "both"}]
Finding == {"bfs", "path"}
GraphInv ==
    /\ refs \in SUBSET (Node \X Node)
    /\ search.pc \in {"ask", "unknown", "bfs", "path", "done"}
    /\ search.pc = "ask" \/ ask \in Asked
    /\ search.pc \in Finding => /\ search = [pc |-> ask.op, queue |-> search.queue, visited |-> search.visited]
    /\ search.pc = "bfs" => Opened(Linked(refs, ask.dir), TRUE, ask.depth, search.queue, search.visited)
    /\ search.pc = "path" =>
         LET L == Linked(refs, PathDir(ask.dir)) IN
         /\ Start # Goal /\ Goal \notin search.visited
         /\ search.queue \in Seq(Seq(Node))
         /\ \A i \in 1..Len(search.queue) : Trail(L, search.queue[i])
         /\ Opened(L, FALSE, 0, Nodes(search.queue), search.visited)
    /\ search.pc = "done" /\ ask.op = "bfs" => BfsAnswer(Linked(refs, ask.dir), ask.depth, search.result)
    /\ search.pc = "done" /\ ask.op = "path" => PathAnswer(Linked(refs, PathDir(ask.dir)), search.result)

-----------------------------------------------------------------------------
LEMMA EndsAreWalked ==
    ASSUME NEW dir, NEW n \in Nat
    PROVE  WalkEnds(dir, n) = Ends(Linked(refs, dir), n)
  BY DEF WalkEnds, Steps, Ends, Walks, Linked

LEMMA EndsAtStart ==
    ASSUME NEW L
    PROVE  Ends(L, 0) = {Start}
<1>1. 0 + 1 = 1
  OBVIOUS
<1>2. ASSUME NEW x \in Ends(L, 0) PROVE x = Start
  BY <1>1 DEF Ends, Walks
<1>3. Start \in Ends(L, 0)
  <2> DEFINE w == [i \in 1..1 |-> Start]
  <2>1. w \in [1..1 -> Node] /\ w[1] = Start
    BY GraphAssumption
  <2> HIDE DEF w
  <2>2. w \in Walks(L, 0)
    BY <1>1, <2>1 DEF Walks
  <2> QED BY <1>1, <2>1, <2>2 DEF Ends
<1> QED BY <1>2, <1>3

LEMMA EndsAreNodes ==
    ASSUME NEW L, NEW n \in Nat
    PROVE  Ends(L, n) \subseteq Node
<1>1. n + 1 \in 1..n + 1
  OBVIOUS
<1> QED BY <1>1 DEF Ends, Walks

\* A walk of one edge more ends one edge further, and nothing else does.
LEMMA EndsGoOn ==
    ASSUME NEW L, NEW n \in Nat, NEW m
    PROVE  m \in Ends(L, n + 1) <=> m \in Node /\ \E u \in Ends(L, n) : <<u, m>> \in L
<1>1. ASSUME m \in Ends(L, n + 1)
      PROVE  m \in Node /\ \E u \in Ends(L, n) : <<u, m>> \in L
  <2>1. PICK w \in Walks(L, n + 1) : m = w[n + 1 + 1]
    BY <1>1 DEF Ends
  <2>2. /\ w \in [1..n + 2 -> Node] /\ w[1] = Start /\ m = w[n + 2]
        /\ \A i \in 1..n + 1 : <<w[i], w[i + 1]>> \in L
    <3>1. n + 1 + 1 = n + 2
      OBVIOUS
    <3> QED BY <2>1, <3>1 DEF Walks
  <2> DEFINE v == [i \in 1..n + 1 |-> w[i]]
  <2>3. v \in [1..n + 1 -> Node] /\ v[1] = Start /\ v[n + 1] = w[n + 1]
    BY <2>2
  <2>4. \A i \in 1..n : v[i] = w[i] /\ v[i + 1] = w[i + 1] /\ i \in 1..n + 1
    OBVIOUS
  <2> HIDE DEF v
  <2>5. v \in Walks(L, n)
    BY <2>2, <2>3, <2>4 DEF Walks
  <2>6. w[n + 1] \in Ends(L, n)
    BY <2>3, <2>5 DEF Ends
  <2>7. <<w[n + 1], m>> \in L
    <3>1. n + 1 \in 1..n + 1 /\ (n + 1) + 1 = n + 2
      OBVIOUS
    <3> QED BY <2>2, <3>1
  <2>8. m \in Node
    BY <2>2
  <2> QED BY <2>6, <2>7, <2>8
<1>2. ASSUME m \in Node, NEW u \in Ends(L, n), <<u, m>> \in L
      PROVE  m \in Ends(L, n + 1)
  <2>1. PICK v \in Walks(L, n) : u = v[n + 1]
    BY DEF Ends
  <2>2. /\ v \in [1..n + 1 -> Node] /\ v[1] = Start
        /\ \A i \in 1..n : <<v[i], v[i + 1]>> \in L
    BY <2>1 DEF Walks
  <2> DEFINE w == [i \in 1..n + 2 |-> IF i = n + 2 THEN m ELSE v[i]]
  <2>3. w \in [1..n + 2 -> Node] /\ w[1] = Start /\ w[n + 2] = m /\ w[n + 1] = u
    BY <1>2, <2>1, <2>2
  <2>4. \A i \in 1..n : w[i] = v[i] /\ w[i + 1] = v[i + 1]
    OBVIOUS
  <2> HIDE DEF w
  <2>5. \A i \in 1..n + 1 : <<w[i], w[i + 1]>> \in L
    <3> TAKE i \in 1..n + 1
    <3>1. CASE i \in 1..n
      BY <2>2, <2>4, <3>1
    <3>2. CASE i = n + 1
      <4>1. i + 1 = n + 2
        BY <3>2
      <4> QED BY <1>2, <2>3, <3>2, <4>1
    <3> QED BY <3>1, <3>2
  <2>6. n + 1 + 1 = n + 2
    OBVIOUS
  <2>7. w \in Walks(L, n + 1)
    BY <2>3, <2>5, <2>6 DEF Walks
  <2> QED BY <2>3, <2>6, <2>7 DEF Ends
<1> QED BY <1>1, <1>2

\* A trail is a walk.
LEMMA TrailsEnd ==
    ASSUME NEW L, NEW p, Trail(L, p)
    PROVE  p[Len(p)] \in Ends(L, Len(p) - 1)
<1>1. p \in Seq(Node) /\ Len(p) \in Nat /\ Len(p) >= 1 /\ p \in [1..Len(p) -> Node]
  BY DEF Trail
<1>2. Len(p) - 1 \in Nat /\ (Len(p) - 1) + 1 = Len(p)
  BY <1>1
<1>3. p \in Walks(L, Len(p) - 1)
  BY <1>1, <1>2 DEF Walks, Trail
<1> QED BY <1>2, <1>3 DEF Ends

-----------------------------------------------------------------------------
LEMMA EntriesAreTyped ==
    ASSUME NEW q \in Seq(Entry), NEW i \in 1..Len(q)
    PROVE  q[i] \in Entry /\ q[i].n \in Node /\ q[i].d \in Nat
<1>1. q[i] \in Entry
  OBVIOUS
<1> QED BY <1>1 DEF Entry

LEMMA ListingIsSequence ==
    ASSUME NEW S, NEW n \in Nat, NEW f \in [1..n -> S]
    PROVE  f \in Seq(S) /\ Len(f) = n
  OBVIOUS

LEMMA Concatenated ==
    ASSUME NEW S, NEW s \in Seq(S), NEW t \in Seq(S)
    PROVE  /\ s \o t \in Seq(S) /\ Len(s \o t) = Len(s) + Len(t)
           /\ \A i \in 1..Len(s) : (s \o t)[i] = s[i]
           /\ \A i \in 1..Len(t) : (s \o t)[Len(s) + i] = t[i]
  OBVIOUS

\* The head leaves the queue and others line up behind.
LEMMA Shifted ==
    ASSUME NEW S, NEW q \in Seq(S), q # <<>>, NEW t \in Seq(S)
    PROVE  /\ Tail(q) \o t \in Seq(S) /\ Len(Tail(q) \o t) = Len(q) - 1 + Len(t)
           /\ \A i \in 1..Len(q) - 1 : (Tail(q) \o t)[i] = q[i + 1]
           /\ \A i \in 1..Len(t) : (Tail(q) \o t)[Len(q) - 1 + i] = t[i]
<1> DEFINE s == Tail(q)
<1>1. s \in Seq(S) /\ Len(s) = Len(q) - 1 /\ \A i \in 1..Len(s) : s[i] = q[i + 1]
  BY HeadTailProperties
<1> HIDE DEF s
<1>2. /\ s \o t \in Seq(S) /\ Len(s \o t) = Len(s) + Len(t)
      /\ \A i \in 1..Len(s) : (s \o t)[i] = s[i]
      /\ \A i \in 1..Len(t) : (s \o t)[Len(s) + i] = t[i]
  <2>1. s \in Seq(S) /\ t \in Seq(S)
    BY <1>1
  <2> QED BY ONLY <2>1, Concatenated
<1> QED BY <1>1, <1>2 DEF s

\* An order of a finite set has each of its elements.
LEMMA OrderLists ==
    ASSUME NEW S, IsFiniteSet(S), NEW o \in SetToSeqs(S)
    PROVE  /\ o \in Seq(S) /\ Len(o) \in Nat /\ DOMAIN o = 1..Len(o)
           /\ \A i \in 1..Len(o) : o[i] \in S
           /\ \A x \in S : \E i \in 1..Len(o) : o[i] = x
<1>1. o \in [1..Cardinality(S) -> S] /\ \A i, j \in 1..Cardinality(S) : i # j => o[i] # o[j]
  BY DEF SetToSeqs
<1>2. /\ o \in Seq(S) /\ DOMAIN o = 1..Len(o)
      /\ \A x \in S : \E i \in DOMAIN o : o[i] = x
  BY <1>1, ListingIsWhole
<1> QED BY <1>2

\* A node within reach that was not visited lies behind one that waits nearer.
LEMMA Frontier ==
    ASSUME NEW L \in SUBSET (Node \X Node), NEW capped \in BOOLEAN, NEW lim \in Nat, NEW q, NEW V,
           Opened(L, capped, lim, q, V),
           NEW k \in Nat, capped => k <= lim, NEW m \in Ends(L, k), m \notin V
    PROVE  \E i \in 1..Len(q) : q[i].d < k
<1> DEFINE S == {j \in Nat : \E x \in Ends(L, j) : x \notin V}
<1>1. k \in S /\ S \in SUBSET Nat
  OBVIOUS
<1>2. PICK j \in S : \A h \in S : j <= h
  <2> HIDE DEF S
  <2> QED BY <1>1, LeastNatural
<1>3. j \in Nat /\ j <= k
  BY <1>1, <1>2
<1>4. PICK x \in Ends(L, j) : x \notin V
  BY <1>2
<1>5. Start \in V /\ V \in SUBSET Node
  BY DEF Opened
<1>6. j # 0
  BY <1>4, <1>5, EndsAtStart
<1>7. j - 1 \in Nat /\ (j - 1) + 1 = j /\ j - 1 < k
  BY <1>3, <1>6
<1>8. x \in Node /\ \E u \in Ends(L, j - 1) : <<u, x>> \in L
  <2>1. x \in Ends(L, (j - 1) + 1)
    BY <1>4, <1>7
  <2> QED BY <1>7, <2>1, EndsGoOn
<1>9. PICK u \in Ends(L, j - 1) : <<u, x>> \in L
  BY <1>8
<1>10. u \in V
  <2>1. j - 1 \notin S
    <3> HIDE DEF S
    <3> QED BY <1>2, <1>3, <1>7
  <2> QED BY <1>7, <1>9, <2>1
<1>11. ~Closed(L, V, u)
  BY <1>4, <1>8, <1>9 DEF Closed
<1>12. ~(capped /\ \A h \in Nat : h < lim => u \notin Ends(L, h))
  <2> SUFFICES ASSUME capped PROVE ~(\A h \in Nat : h < lim => u \notin Ends(L, h))
    OBVIOUS
  <2>1. j - 1 < lim
    BY <1>3, <1>7
  <2> QED BY <1>7, <1>9, <2>1
<1>13. PICK i \in 1..Len(q) : q[i].n = u
  BY <1>10, <1>11, <1>12 DEF Opened
<1>14. Far(L, u, q[i].d) /\ q[i].d \in Nat
  BY <1>13, EntriesAreTyped DEF Opened
<1>15. ~(j - 1 < q[i].d)
  BY <1>7, <1>9, <1>14 DEF Far
<1>16. q[i].d < k
  BY <1>3, <1>7, <1>14, <1>15
<1> QED BY <1>16

\* The head of the queue is expanded.
LEMMA Expands ==
    ASSUME NEW L \in SUBSET (Node \X Node), NEW capped \in BOOLEAN, NEW lim \in Nat,
           NEW q, NEW V, Opened(L, capped, lim, q, V), q # <<>>,
           NEW new \in SUBSET Node, NEW order \in SetToSeqs(new),
           new = IF capped /\ q[1].d >= lim THEN {} ELSE {u \in Node : <<q[1].n, u>> \in L} \ V,
           NEW q2 \in Seq(Entry), Len(q2) = Len(q) - 1 + Len(order),
           \A i \in 1..Len(q) - 1 : q2[i] = q[i + 1],
           \A i \in 1..Len(order) : q2[Len(q) - 1 + i].n = order[i] /\ q2[Len(q) - 1 + i].d = q[1].d + 1
    PROVE  Opened(L, capped, lim, q2, V \cup new)
<1> DEFINE a == q[1].d
           at == q[1].n
           n == Len(q) - 1
           e == Len(order)
<1>1. q \in Seq(Entry) /\ Len(q) \in Nat /\ Len(q) >= 1
  BY DEF Opened
<1>2. q[1] \in Entry /\ a \in Nat /\ at \in Node /\ at \in V /\ Far(L, at, a) /\ (capped => a <= lim)
  <2>1. 1 \in 1..Len(q)
    BY <1>1
  <2>2. q[1] \in Entry
    BY <1>1, <2>1
  <2> QED BY <2>1, <2>2 DEF Opened, Entry
<1>3. /\ order \in Seq(new) /\ Len(order) \in Nat /\ DOMAIN order = 1..Len(order)
      /\ \A x \in new : \E i \in 1..Len(order) : order[i] = x
      /\ \A i \in 1..Len(order) : order[i] \in new
  <2>1. IsFiniteSet(new)
    BY GraphAssumption, FS_Subset
  <2>2. order \in SetToSeqs(new)
    OBVIOUS
  <2> QED BY ONLY <2>1, <2>2, OrderLists
<1>4. \A i \in 1..Len(order) : order[i] \in new
  BY <1>3
<1>9. n \in Nat /\ e \in Nat /\ n + 1 = Len(q)
  BY <1>1, <1>3
<1>10. Len(q2) = n + e
  OBVIOUS
<1>11. \A i \in 1..n : i \in 1..n + e /\ i + 1 \in 1..Len(q) /\ q2[i] = q[i + 1]
  BY <1>9
<1>12. \A i \in 1..n + e : i \notin 1..n => i - n \in 1..e /\ q2[i].n = order[i - n] /\ q2[i].d = a + 1
  <2> TAKE i \in 1..n + e
  <2> HAVE i \notin 1..n
  <2>1. i - n \in 1..e /\ n + (i - n) = i
    BY <1>9
  <2> QED BY <2>1
<1> HIDE DEF n, e
<1>13. \A m \in new : Far(L, m, a + 1) /\ m \notin V /\ (capped => a + 1 <= lim)
  <2> TAKE m \in new
  <2>1. m \in Node /\ <<at, m>> \in L /\ m \notin V /\ ~(capped /\ a >= lim)
    OBVIOUS
  <2>2. capped => a + 1 <= lim
    BY <1>2, <2>1
  <2>3. m \in Ends(L, a + 1)
    BY <1>2, <2>1, EndsGoOn DEF Far
  <2>4. ASSUME NEW k \in Nat, k < a + 1, m \in Ends(L, k)
        PROVE  FALSE
    <3>1. k <= a /\ (capped => k <= lim)
      BY <1>2, <2>4
    <3>2. PICK i \in 1..Len(q) : q[i].d < k
      BY <2>1, <2>4, <3>1, Frontier
    <3>3. q[1].d <= q[i].d /\ q[i].d \in Nat
      <4>1. 1 \in 1..Len(q) /\ 1 <= i
        BY <1>1
      <4>2. q \in Seq(Entry)
        BY <1>1
      <4> QED BY <4>1, <4>2, EntriesAreTyped DEF Opened
    <3> QED BY <1>2, <3>1, <3>2, <3>3
  <2> QED BY <2>1, <2>2, <2>3, <2>4 DEF Far
<1>14. V \cup new \in SUBSET Node /\ Start \in V \cup new
  BY DEF Opened
<1>15. \A i \in 1..Len(q2) : q2[i].n \in V \cup new /\ Far(L, q2[i].n, q2[i].d) /\ (capped => q2[i].d <= lim)
  <2> TAKE i \in 1..Len(q2)
  <2>1. CASE i \in 1..n
    BY <1>11, <2>1 DEF Opened
  <2>2. CASE i \notin 1..n
    <3>1. q2[i].n \in new /\ q2[i].d = a + 1
      BY <1>4, <1>10, <1>12, <2>2 DEF e
    <3> QED BY <1>13, <3>1
  <2> QED BY <2>1, <2>2
<1>16. \A i \in 1..Len(q2) : q2[i].d \in Nat /\ a <= q2[i].d /\ q2[i].d <= a + 1
  <2> TAKE i \in 1..Len(q2)
  <2>1. q2[i].d \in Nat
    BY EntriesAreTyped
  <2>2. CASE i \in 1..n
    <3>1. i + 1 \in 1..Len(q) /\ 1 \in 1..Len(q) /\ 1 <= i + 1 /\ q2[i] = q[i + 1]
      BY <1>1, <1>9, <1>11, <2>2
    <3>2. q[1].d <= q[i + 1].d /\ q[i + 1].d <= q[1].d + 1
      BY <3>1 DEF Opened
    <3> QED BY <2>1, <3>1, <3>2
  <2>3. CASE i \notin 1..n
    <3>1. i \in 1..n + e
      BY <1>10
    <3>2. q2[i].d = a + 1
      BY <1>12, <2>3, <3>1
    <3> QED BY <1>2, <3>2
  <2> QED BY <2>1, <2>2, <2>3
<1>17. \A i, j \in 1..Len(q2) : i <= j => q2[i].d <= q2[j].d
  <2> TAKE i, j \in 1..Len(q2)
  <2> HAVE i <= j
  <2>1. CASE j \in 1..n
    <3>1. i \in 1..n
      BY <1>9, <2>1
    <3>2. /\ i + 1 \in 1..Len(q) /\ j + 1 \in 1..Len(q) /\ i + 1 <= j + 1
          /\ q2[i] = q[i + 1] /\ q2[j] = q[j + 1]
      BY <1>11, <2>1, <3>1
    <3> QED BY <3>2 DEF Opened
  <2>2. CASE j \notin 1..n
    <3>1. q2[j].d = a + 1
      BY <1>10, <1>12, <2>2
    <3> QED BY <1>2, <1>16, <3>1
  <2> QED BY <2>1, <2>2
<1>18. \A j \in 1..Len(q2) : q2[j].d <= q2[1].d + 1
  <2> TAKE j \in 1..Len(q2)
  <2>1. 1 \in 1..Len(q2)
    BY <1>9, <1>10
  <2>2. q2[1].d \in Nat /\ a <= q2[1].d
    BY <1>16, <2>1
  <2>3. q2[j].d \in Nat /\ q2[j].d <= a + 1
    BY <1>16
  <2> HIDE DEF a
  <2> QED BY <1>2, <2>2, <2>3
<1>19. \A v \in V \cup new : \E k \in Nat : v \in Ends(L, k) /\ (capped => k <= lim)
  <2> TAKE v \in V \cup new
  <2>1. CASE v \in V
    BY <2>1 DEF Opened
  <2>2. CASE v \in new
    <3>1. a + 1 \in Nat
      BY <1>2
    <3> QED BY <1>13, <2>2, <3>1 DEF Far
  <2> QED BY <2>1, <2>2
<1>20. \A v \in V \cup new : \/ \E i \in 1..Len(q2) : q2[i].n = v
                             \/ Closed(L, V \cup new, v)
                             \/ capped /\ \A j \in Nat : j < lim => v \notin Ends(L, j)
  <2> TAKE v \in V \cup new
  <2>1. CASE v \in new
    <3>1. PICK x \in 1..Len(order) : order[x] = v
      BY <1>3, <2>1
    <3>2. n + x \in 1..n + e /\ n + x \notin 1..n /\ (n + x) - n = x
      BY <1>9, <3>1 DEF e
    <3> QED BY <1>10, <1>12, <3>1, <3>2
  <2>2. CASE v \in V /\ Closed(L, V, v)
    BY <2>2 DEF Closed
  <2>3. CASE capped /\ \A j \in Nat : j < lim => v \notin Ends(L, j)
    BY <2>3
  <2>4. ASSUME NEW i \in 1..Len(q), q[i].n = v, v \in V
        PROVE  \/ \E j \in 1..Len(q2) : q2[j].n = v
               \/ Closed(L, V \cup new, v)
               \/ capped /\ \A j \in Nat : j < lim => v \notin Ends(L, j)
    <3>1. CASE i = 1
      <4>1. v = at
        BY <2>4, <3>1
      <4>2. CASE capped /\ a >= lim
        <5>1. \A j \in Nat : j < lim => j < a
          BY <1>2, <4>2
        <5> QED BY <1>2, <4>1, <4>2, <5>1 DEF Far
      <4>3. CASE ~(capped /\ a >= lim)
        <5>1. new = {u \in Node : <<at, u>> \in L} \ V
          BY <4>3
        <5> QED BY <4>1, <5>1 DEF Closed
      <4> QED BY <4>2, <4>3
    <3>2. CASE i # 1
      <4>1. i - 1 \in 1..n /\ (i - 1) + 1 = i
        BY <1>9, <3>2
      <4>2. i - 1 \in 1..Len(q2) /\ q2[i - 1] = q[i]
        BY <1>10, <1>11, <4>1
      <4> QED BY <2>4, <4>2
    <3> QED BY <3>1, <3>2
  <2> QED BY <2>1, <2>2, <2>3, <2>4 DEF Opened
<1> QED BY <1>14, <1>15, <1>17, <1>18, <1>19, <1>20 DEF Opened

LEMMA LinkedIsReferred ==
    ASSUME NEW R \in SUBSET (Node \X Node), NEW dir
    PROVE  Linked(R, dir) \in SUBSET (Node \X Node)
  BY DEF Linked

LEMMA NeighboursAreLinked ==
    ASSUME NEW n \in Node, NEW dir \in {"out", "in", "both"}
    PROVE  Neighbours(n, dir) = {u \in Node : <<n, u>> \in Linked(refs, dir)}
<1>1. ASSUME NEW u \in Node
      PROVE  /\ <<n, u>> \in Node \X Node /\ <<n, u>>[1] = n /\ <<n, u>>[2] = u
             /\ u \in Out(n) <=> <<n, u>> \in refs
             /\ u \in In(n) <=> <<u, n>> \in refs
  BY DEF Out, In
<1>2. CASE dir = "out"
  BY <1>1, <1>2 DEF Neighbours, Linked, Out
<1>3. CASE dir = "in"
  BY <1>1, <1>3 DEF Neighbours, Linked, In
<1>4. CASE dir = "both"
  BY <1>1, <1>4 DEF Neighbours, Linked, Adjacent, Out, In
<1> QED BY <1>2, <1>3, <1>4

\* A search begins at the start, which has no distance from itself.
LEMMA SearchBegins ==
    ASSUME NEW L \in SUBSET (Node \X Node), NEW capped \in BOOLEAN, NEW lim \in Nat,
           NEW q \in Seq(Entry), Len(q) = 1, q[1].n = Start, q[1].d = 0
    PROVE  Opened(L, capped, lim, q, {Start})
<1>1. Start \in Ends(L, 0) /\ Far(L, Start, 0)
  BY EndsAtStart DEF Far
<1>2. \A i \in 1..Len(q) : i = 1
  OBVIOUS
<1>3. 0 <= lim
  OBVIOUS
<1> QED BY <1>1, <1>2, <1>3, GraphAssumption DEF Opened

\* Once nobody waits, everything within reach was visited.
LEMMA NobodyWaits ==
    ASSUME NEW L \in SUBSET (Node \X Node), NEW capped \in BOOLEAN, NEW lim \in Nat, NEW q, NEW V,
           Opened(L, capped, lim, q, V), q = <<>>,
           NEW k \in Nat, capped => k <= lim, NEW m \in Ends(L, k)
    PROVE  m \in V
<1> SUFFICES ASSUME m \notin V PROVE FALSE
  OBVIOUS
<1>1. \E i \in 1..Len(q) : q[i].d < k
  BY Frontier
<1>2. 1..Len(q) = {}
  OBVIOUS
<1> QED BY <1>1, <1>2

LEMMA LinedUp ==
    ASSUME NEW L, NEW q \in Seq(Seq(Node)),
           \A i \in 1..Len(q) : Trail(L, q[i])
    PROVE  /\ Nodes(q) \in Seq(Entry) /\ Len(Nodes(q)) = Len(q)
           /\ \A i \in 1..Len(q) : Nodes(q)[i].n = q[i][Len(q[i])] /\ Nodes(q)[i].d = Len(q[i]) - 1
<1>1. Len(q) \in Nat
  OBVIOUS
<1>2. ASSUME NEW i \in 1..Len(q)
      PROVE  q[i][Len(q[i])] \in Node /\ Len(q[i]) - 1 \in Nat
  <2>1. Trail(L, q[i])
    OBVIOUS
  <2> DEFINE p == q[i]
  <2>2. p \in Seq(Node) /\ Len(p) >= 1
    BY <2>1 DEF Trail
  <2> HIDE DEF p
  <2>3. p[Len(p)] \in Node /\ Len(p) - 1 \in Nat
    BY <2>2
  <2> QED BY <2>3 DEF p
<1>3. Nodes(q) \in [1..Len(q) -> Entry]
  <2>1. \A i \in 1..Len(q) : [n |-> q[i][Len(q[i])], d |-> Len(q[i]) - 1] \in Entry
    BY <1>2 DEF Entry
  <2> QED BY <2>1 DEF Nodes
<1>4. Nodes(q) \in Seq(Entry) /\ Len(Nodes(q)) = Len(q)
  BY <1>1, <1>3, ListingIsSequence
<1>5. \A i \in 1..Len(q) : Nodes(q)[i].n = q[i][Len(q[i])] /\ Nodes(q)[i].d = Len(q[i]) - 1
  BY DEF Nodes
<1> QED BY <1>4, <1>5

\* A trail goes on along an edge.
LEMMA TrailGoesOn ==
    ASSUME NEW L \in SUBSET (Node \X Node), NEW p, Trail(L, p), NEW m \in Node, <<p[Len(p)], m>> \in L
    PROVE  /\ Append(p, m) \in Seq(Node) /\ Trail(L, Append(p, m))
           /\ Append(p, m)[Len(Append(p, m))] = m /\ Len(Append(p, m)) = Len(p) + 1
<1> DEFINE w == Append(p, m)
<1>1. p \in Seq(Node) /\ Len(p) \in Nat /\ Len(p) >= 1
  BY DEF Trail
<1>2. /\ w \in Seq(Node) /\ Len(w) = Len(p) + 1 /\ w[Len(p) + 1] = m
      /\ \A i \in 1..Len(p) : w[i] = p[i]
  BY <1>1
<1> HIDE DEF w
<1>3. w[1] = Start
  BY <1>1, <1>2 DEF Trail
<1>4. \A i \in 1..Len(w) - 1 : <<w[i], w[i + 1]>> \in L
  <2> TAKE i \in 1..Len(w) - 1
  <2>1. i \in 1..Len(p)
    BY <1>1, <1>2
  <2>2. CASE i = Len(p)
    BY <1>2, <2>1, <2>2
  <2>3. CASE i # Len(p)
    <3>1. i \in 1..Len(p) - 1 /\ i + 1 \in 1..Len(p)
      BY <1>1, <2>1, <2>3
    <3> QED BY <1>2, <2>1, <3>1 DEF Trail
  <2> QED BY <2>2, <2>3
<1>5. Trail(L, w) /\ w[Len(w)] = m
  BY <1>1, <1>2, <1>3, <1>4 DEF Trail
<1> QED BY <1>2, <1>5 DEF w

-----------------------------------------------------------------------------
LEMMA AskStep ==
    ASSUME GraphInv,
           \/ \E depth \in 0..MaxDepth, direction \in {"out", "in", "both"} : Bfs(depth, direction)
           \/ \E direction \in {"out", "in"} : Path(direction)
    PROVE  GraphInv'
<1>1. refs' = refs /\ refs \in SUBSET (Node \X Node)
  BY DEF Bfs, Path, GraphInv
<1>2. ASSUME NEW depth \in 0..MaxDepth, NEW direction \in {"out", "in", "both"}, Bfs(depth, direction)
      PROVE  GraphInv'
  <2>1. ask' = [op |-> "bfs", depth |-> depth, dir |-> direction] /\ depth \in Nat
    BY <1>2, GraphAssumption DEF Bfs
  <2>2. ask' \in Asked /\ ask'.op = "bfs" /\ ask'.dir = direction /\ ask'.depth = depth
    BY <2>1 DEF Asked
  <2>3. CASE InGraph(Start)
    <3> DEFINE q == <<[n |-> Start, d |-> 0]>>
    <3>1. search' = [pc |-> "bfs", queue |-> q, visited |-> {Start}]
      BY <1>2, <2>3 DEF Bfs
    <3>2. q \in Seq(Entry) /\ Len(q) = 1 /\ q[1].n = Start /\ q[1].d = 0
      BY GraphAssumption DEF Entry
    <3> HIDE DEF q
    <3>3. Opened(Linked(refs, direction), TRUE, depth, q, {Start})
      BY <1>1, <2>1, <3>2, LinkedIsReferred, SearchBegins
    <3> QED BY <1>1, <2>2, <3>1, <3>3 DEF GraphInv, Finding
  <2>4. CASE ~InGraph(Start)
    <3>1. search' = [pc |-> "unknown"]
      BY <1>2, <2>4 DEF Bfs, UnknownEntity
    <3> QED BY <1>1, <2>2, <3>1 DEF GraphInv, Finding
  <2> QED BY <2>3, <2>4
<1>3. ASSUME NEW direction \in {"out", "in"}, Path(direction)
      PROVE  GraphInv'
  <2> DEFINE L == Linked(refs, PathDir(direction))
  <2>1. ask' = [op |-> "path", depth |-> 0, dir |-> direction]
    BY <1>3 DEF Path
  <2>2. ask' \in Asked /\ ask'.op = "path" /\ ask'.dir = direction
    BY <2>1 DEF Asked
  <2>3. L \in SUBSET (Node \X Node)
    BY <1>1, LinkedIsReferred
  <2> HIDE DEF L
  <2>4. ASSUME NEW p, search' = [pc |-> "done", result |-> p], PathAnswer(L, p)
        PROVE  GraphInv'
    <3>1. search'.pc = "done" /\ search'.result = p
      BY <2>4
    <3>2. Linked(refs', PathDir(ask'.dir)) = L
      BY <1>1, <2>2 DEF L
    <3> QED BY <1>1, <2>2, <2>4, <3>1, <3>2 DEF GraphInv, Finding
  <2>5. CASE ~InGraph(Start)
    <3>1. search' = [pc |-> "unknown"]
      BY <1>3, <2>5 DEF Path, UnknownEntity
    <3> QED BY <1>1, <2>2, <3>1 DEF GraphInv, Finding
  <2>6. CASE InGraph(Start) /\ Start = Goal
    <3>1. search' = [pc |-> "done", result |-> <<Start>>]
      BY <1>3, <2>6 DEF Path, Answers
    <3>2. Trail(L, <<Start>>)
      BY GraphAssumption DEF Trail
    <3>3. PathAnswer(L, <<Start>>)
      BY <2>6, <3>2 DEF PathAnswer
    <3> QED BY <2>4, <3>1, <3>3
  <2>7. CASE InGraph(Start) /\ Start # Goal /\ ~InGraph(Goal)
    <3>1. search' = [pc |-> "done", result |-> <<>>]
      BY <1>3, <2>7 DEF Path, Answers
    <3>2. ASSUME NEW n \in Nat, Goal \in Ends(L, n) PROVE FALSE
      <4>1. n # 0
        BY <2>7, <3>2, EndsAtStart
      <4>2. n - 1 \in Nat /\ (n - 1) + 1 = n
        BY <4>1
      <4>3. Goal \in Ends(L, (n - 1) + 1)
        BY <3>2, <4>2
      <4>4. Goal \in Node /\ \E u \in Ends(L, n - 1) : <<u, Goal>> \in L
        BY <4>2, <4>3, EndsGoOn
      <4>5. PICK u \in Ends(L, n - 1) : <<u, Goal>> \in L
        BY <4>4
      <4>6. u \in Node /\ (<<u, Goal>> \in refs \/ <<Goal, u>> \in refs)
        BY <2>3, <4>4, <4>5 DEF L, Linked, PathDir
      <4> QED BY <2>7, <4>6 DEF InGraph, Adjacent, Out, In
    <3>3. PathAnswer(L, <<>>)
      BY <3>2 DEF PathAnswer
    <3> QED BY <2>4, <3>1, <3>3
  <2>8. CASE InGraph(Start) /\ Start # Goal /\ InGraph(Goal)
    <3> DEFINE q == <<<<Start>>>>
    <3>1. search' = [pc |-> "path", queue |-> q, visited |-> {Start}]
      BY <1>3, <2>8 DEF Path
    <3>2. <<Start>> \in Seq(Node) /\ Trail(L, <<Start>>)
      BY GraphAssumption DEF Trail
    <3>3. q \in Seq(Seq(Node)) /\ Len(q) = 1 /\ q[1] = <<Start>>
      BY <3>2
    <3> HIDE DEF q
    <3>4. \A i \in 1..Len(q) : i = 1
      BY <3>3
    <3>5. \A i \in 1..Len(q) : Trail(L, q[i])
      BY <3>2, <3>3, <3>4
    <3>6. Nodes(q) \in Seq(Entry) /\ Len(Nodes(q)) = 1 /\ Nodes(q)[1].n = Start /\ Nodes(q)[1].d = 0
      <4>1. 1 \in 1..Len(q) /\ Len(<<Start>>) = 1 /\ <<Start>>[1] = Start
        BY <3>3
      <4>2. /\ Nodes(q) \in Seq(Entry) /\ Len(Nodes(q)) = Len(q)
            /\ \A i \in 1..Len(q) : Nodes(q)[i].n = q[i][Len(q[i])] /\ Nodes(q)[i].d = Len(q[i]) - 1
        <5>1. q \in Seq(Seq(Node))
          BY <3>3
        <5> QED BY ONLY <3>5, <5>1, LinedUp
      <4>3. Nodes(q)[1].n = q[1][Len(q[1])] /\ Nodes(q)[1].d = Len(q[1]) - 1
        BY <4>1, <4>2
      <4> DEFINE first == <<Start>>
      <4>4. q[1] = first /\ Len(first) = 1 /\ first[1] = Start
        BY <3>3
      <4> HIDE DEF first
      <4>5. Nodes(q)[1].n = Start /\ Nodes(q)[1].d = 0
        BY <4>3, <4>4
      <4> QED BY <3>3, <4>2, <4>5
    <3>7. Opened(L, FALSE, 0, Nodes(q), {Start})
      BY <2>3, <3>6, SearchBegins
    <3> QED BY <1>1, <2>2, <2>8, <3>1, <3>3, <3>5, <3>7 DEF GraphInv, Finding, L
  <2> QED BY <2>5, <2>6, <2>7, <2>8
<1> QED BY <1>2, <1>3

LEMMA BfsFinds ==
    ASSUME GraphInv, BfsStep \/ BfsEnds
    PROVE  GraphInv'
<1> DEFINE L == Linked(refs, ask.dir)
           q == search.queue
           V == search.visited
<1>1. /\ refs' = refs /\ ask' = ask /\ refs \in SUBSET (Node \X Node) /\ search.pc = "bfs"
      /\ ask \in Asked /\ search = [pc |-> ask.op, queue |-> q, visited |-> V]
      /\ Opened(L, TRUE, ask.depth, q, V)
  BY DEF BfsStep, BfsEnds, GraphInv, Finding
<1>2. ask.op = "bfs" /\ ask.depth \in Nat /\ ask.dir \in {"out", "in", "both"} /\ L \in SUBSET (Node \X Node)
  BY <1>1, LinkedIsReferred DEF Asked
<1>3. CASE BfsEnds
  <2>1. search' = [pc |-> "done", result |-> V \ {Start}] /\ q = <<>>
    BY <1>3 DEF BfsEnds, Answers
  <2> HIDE DEF L, q, V
  <2>2. \A n \in 0..ask.depth : n \in Nat /\ n <= ask.depth
    BY <1>2
  <2>3. \A n \in 0..ask.depth : Ends(L, n) \subseteq V
    BY <1>1, <1>2, <2>1, <2>2, NobodyWaits
  <2>4. \A v \in V : \E n \in 0..ask.depth : v \in Ends(L, n)
    BY <1>1, <1>2 DEF Opened
  <2>5. BfsAnswer(L, ask.depth, V \ {Start})
    BY <2>3, <2>4 DEF BfsAnswer
  <2> QED BY <1>1, <1>2, <2>1, <2>5 DEF GraphInv, Finding, L
<1>4. CASE BfsStep
  <2> DEFINE at == Head(q)
             new == IF TooDeep(at.d) THEN {} ELSE Neighbours(at.n, ask.dir) \ V
  <2>1. PICK order \in SetToSeqs(new) :
          search' = [search EXCEPT !.visited = @ \cup new,
                !.queue = Tail(@) \o [i \in DOMAIN order |-> [n |-> order[i], d |-> at.d + 1]]]
    BY <1>4 DEF BfsStep
  <2>2. q # <<>>
    BY <1>4 DEF BfsStep
  <2> DEFINE t == [i \in DOMAIN order |-> [n |-> order[i], d |-> at.d + 1]]
  <2>3. search' = [pc |-> "bfs", queue |-> Tail(q) \o t, visited |-> V \cup new]
    BY <1>1, <1>2, <2>1
  <2>4. q \in Seq(Entry) /\ at = q[1] /\ at.n \in Node /\ at.d \in Nat /\ V \in SUBSET Node
    <3>1. q \in Seq(Entry) /\ V \in SUBSET Node
      BY <1>1 DEF Opened
    <3>2. at = q[1] /\ 1 \in 1..Len(q)
      BY <2>2, <3>1
    <3> QED BY <3>1, <3>2, EntriesAreTyped
  <2>5. new = IF TRUE /\ q[1].d >= ask.depth THEN {} ELSE {u \in Node : <<q[1].n, u>> \in L} \ V
    BY <1>2, <2>4, NeighboursAreLinked DEF TooDeep
  <2>6. new \in SUBSET Node
    BY <2>5
  <2> HIDE DEF L, q, V, at, new
  <2>7. /\ order \in Seq(new) /\ DOMAIN order = 1..Len(order) /\ Len(order) \in Nat
        /\ \A i \in 1..Len(order) : order[i] \in new
    <3>1. IsFiniteSet(new)
      BY <2>6, GraphAssumption, FS_Subset
    <3> QED BY <3>1, OrderLists
  <2>8. /\ t \in Seq(Entry) /\ Len(t) = Len(order)
        /\ \A i \in 1..Len(order) : t[i].n = order[i] /\ t[i].d = at.d + 1
    <3>1. t = [i \in 1..Len(order) |-> [n |-> order[i], d |-> at.d + 1]]
      BY <2>7
    <3>2. at.d + 1 \in Nat
      BY <2>4
    <3>3. \A i \in 1..Len(order) : order[i] \in Node
      BY ONLY <2>6, <2>7
    <3>4. \A i \in 1..Len(order) : [n |-> order[i], d |-> at.d + 1] \in Entry
      BY <3>2, <3>3 DEF Entry
    <3> HIDE DEF t
    <3>5. t \in [1..Len(order) -> Entry]
      BY <3>1, <3>4
    <3>6. t \in Seq(Entry) /\ Len(t) = Len(order)
      BY <2>7, <3>5
    <3> QED BY <3>1, <3>6
  <2> HIDE DEF t
  <2> DEFINE q2 == Tail(q) \o t
  <2>9. /\ q2 \in Seq(Entry) /\ Len(q2) = Len(q) - 1 + Len(order)
        /\ \A i \in 1..Len(q) - 1 : q2[i] = q[i + 1]
        /\ \A i \in 1..Len(order) : q2[Len(q) - 1 + i] = t[i]
    <3>1. q \in Seq(Entry) /\ t \in Seq(Entry)
      BY <2>4, <2>8
    <3>2. /\ q2 \in Seq(Entry) /\ Len(q2) = Len(q) - 1 + Len(t)
          /\ \A i \in 1..Len(q) - 1 : q2[i] = q[i + 1]
          /\ \A i \in 1..Len(t) : q2[Len(q) - 1 + i] = t[i]
      BY ONLY <2>2, <3>1, Shifted
    <3> HIDE DEF q2
    <3> QED BY <2>8, <3>2
  <2> HIDE DEF q2
  <2>10. \A i \in 1..Len(order) : q2[Len(q) - 1 + i].n = order[i] /\ q2[Len(q) - 1 + i].d = q[1].d + 1
    BY <2>4, <2>8, <2>9
  <2>11. Opened(L, TRUE, ask.depth, q2, V \cup new)
    BY <1>1, <1>2, <2>2, <2>5, <2>6, <2>9, <2>10, Expands
  <2>12. search' = [pc |-> "bfs", queue |-> q2, visited |-> V \cup new]
    BY <2>3 DEF q2
  <2> QED BY <1>1, <1>2, <2>11, <2>12 DEF GraphInv, Finding, L
<1> QED BY <1>3, <1>4

LEMMA PathFinds ==
    ASSUME GraphInv, PathStep \/ PathEnds
    PROVE  GraphInv'
<1> DEFINE L == Linked(refs, PathDir(ask.dir))
           q == search.queue
           V == search.visited
<1>1. /\ refs' = refs /\ ask' = ask /\ refs \in SUBSET (Node \X Node) /\ search.pc = "path"
      /\ ask \in Asked /\ search = [pc |-> ask.op, queue |-> q, visited |-> V]
      /\ Start # Goal /\ Goal \notin V
      /\ q \in Seq(Seq(Node)) /\ \A i \in 1..Len(q) : Trail(L, q[i])
      /\ Opened(L, FALSE, 0, Nodes(q), V)
  BY DEF PathStep, PathEnds, GraphInv, Finding
<1>2. ask.op = "path" /\ PathDir(ask.dir) \in {"out", "in", "both"} /\ L \in SUBSET (Node \X Node)
  BY <1>1, LinkedIsReferred DEF PathDir
<1>3. /\ Nodes(q) \in Seq(Entry) /\ Len(Nodes(q)) = Len(q)
      /\ \A i \in 1..Len(q) : Nodes(q)[i].n = q[i][Len(q[i])] /\ Nodes(q)[i].d = Len(q[i]) - 1
  <2>1. q \in Seq(Seq(Node)) /\ \A i \in 1..Len(q) : Trail(L, q[i])
    BY <1>1
  <2> HIDE DEF L, q
  <2> QED BY ONLY <2>1, LinedUp
<1>4. V \in SUBSET Node
  BY <1>1 DEF Opened
<1>5. \A n \in Node : Around(n) = {u \in Node : <<n, u>> \in L}
  BY <1>2, NeighboursAreLinked DEF Around, PathDir
<1>6. ASSUME NEW p, search' = [pc |-> "done", result |-> p], PathAnswer(L, p)
      PROVE  GraphInv'
  <2> HIDE DEF L
  <2>1. search'.pc = "done" /\ search'.result = p
    BY <1>6
  <2>2. Linked(refs', PathDir(ask'.dir)) = L
    BY <1>1 DEF L
  <2> QED BY <1>1, <1>2, <1>6, <2>1, <2>2 DEF GraphInv, Finding
<1>7. CASE PathEnds
  <2>1. search' = [pc |-> "done", result |-> <<>>] /\ q = <<>>
    BY <1>7 DEF PathEnds, Answers
  <2>2. Nodes(q) = <<>>
    BY <1>3, <2>1
  <2> HIDE DEF L, q, V
  <2>3. \A n \in Nat : Goal \notin Ends(L, n)
    <3> SUFFICES ASSUME NEW n \in Nat, Goal \in Ends(L, n) PROVE FALSE
      OBVIOUS
    <3>1. Goal \in V
      BY <1>1, <1>2, <2>2, NobodyWaits
    <3> QED BY <1>1, <3>1
  <2>4. PathAnswer(L, <<>>)
    BY <2>3 DEF PathAnswer
  <2> QED BY <1>6, <2>1, <2>4
<1>8. CASE PathStep
  <2> DEFINE at == Head(q)
             n == at[Len(at)]
             new == Around(n) \ V
  <2>1. q # <<>>
    BY <1>8 DEF PathStep
  <2>2. at = q[1] /\ 1 \in 1..Len(q)
    BY <1>1, <2>1
  <2>3. Trail(L, at)
    BY <1>1, <2>2
  <2>4. at \in Seq(Node) /\ Len(at) \in Nat /\ Len(at) >= 1 /\ n \in Node
    <3> HIDE DEF at, q, L
    <3>1. at \in Seq(Node) /\ Len(at) >= 1
      BY <2>3 DEF Trail
    <3> QED BY <3>1
  <2>5. Nodes(q)[1].n = n /\ Nodes(q)[1].d = Len(at) - 1
    BY <1>3, <2>2
  <2>6. CASE Goal \in Around(n)
    <3>1. search' = [pc |-> "done", result |-> Append(at, Goal)]
      BY <1>8, <2>6 DEF PathStep, Answers
    <3>2. Goal \in Node /\ <<n, Goal>> \in L
      BY <1>5, <2>4, <2>6
    <3> DEFINE p == Append(at, Goal)
    <3> HIDE DEF at, q, V, L
    <3>3. Trail(L, p) /\ p[Len(p)] = Goal /\ Len(p) = Len(at) + 1
      BY <1>2, <2>3, <3>2, TrailGoesOn
    <3> HIDE DEF p
    <3>4. p # <<>>
      BY <2>4, <3>3
    <3>5. ASSUME NEW k \in Nat, Goal \in Ends(L, k), ~(Len(p) - 1 <= k)
          PROVE  FALSE
      <4>1. PICK i \in 1..Len(Nodes(q)) : Nodes(q)[i].d < k
        BY <1>1, <1>2, <3>5, Frontier
      <4>2. Nodes(q)[1].d <= Nodes(q)[i].d
        <5>1. 1 \in 1..Len(Nodes(q)) /\ 1 <= i
          BY <1>3, <2>2
        <5> QED BY <1>1, <5>1 DEF Opened
      <4>3. Nodes(q)[i].d \in Nat
        BY <1>3, EntriesAreTyped
      <4> QED BY <2>4, <2>5, <3>3, <3>5, <4>1, <4>2, <4>3
    <3>6. PathAnswer(L, p)
      BY <3>3, <3>4, <3>5 DEF PathAnswer
    <3> QED BY <1>6, <3>1, <3>6 DEF p
  <2>7. CASE Goal \notin Around(n)
    <3>1. PICK order \in SetToSeqs(new) :
            search' = [search EXCEPT !.visited = @ \cup new,
                  !.queue = Tail(@) \o [i \in DOMAIN order |-> Append(at, order[i])]]
      BY <1>8, <2>7 DEF PathStep
    <3> DEFINE t == [i \in DOMAIN order |-> Append(at, order[i])]
    <3>2. search' = [pc |-> "path", queue |-> Tail(q) \o t, visited |-> V \cup new]
      BY <1>1, <1>2, <3>1
    <3>3. new = {u \in Node : <<n, u>> \in L} \ V /\ new \in SUBSET Node
      BY <1>5, <2>4
    <3>4. Goal \notin V \cup new
      BY <1>1, <2>7
    <3> HIDE DEF L, q, V, at, n, new
    <3>5. /\ order \in Seq(new) /\ DOMAIN order = 1..Len(order) /\ Len(order) \in Nat
          /\ \A i \in 1..Len(order) : order[i] \in new
      <4>1. IsFiniteSet(new)
        BY <3>3, GraphAssumption, FS_Subset
      <4> QED BY <4>1, OrderLists
    <3>6. ASSUME NEW i \in 1..Len(order)
          PROVE  /\ Append(at, order[i]) \in Seq(Node) /\ Trail(L, Append(at, order[i]))
                 /\ Append(at, order[i])[Len(Append(at, order[i]))] = order[i]
                 /\ Len(Append(at, order[i])) = Len(at) + 1
      <4>1. order[i] \in Node /\ <<n, order[i]>> \in L
        BY <3>3, <3>5
      <4> QED BY <1>2, <2>3, <4>1, TrailGoesOn DEF n
    <3>7. t \in Seq(Seq(Node)) /\ Len(t) = Len(order) /\ \A i \in 1..Len(order) : t[i] = Append(at, order[i])
      <4>1. t = [i \in 1..Len(order) |-> Append(at, order[i])]
        BY <3>5
      <4> HIDE DEF t
      <4>2. t \in [1..Len(order) -> Seq(Node)]
        BY <3>6, <4>1
      <4> QED BY <3>5, <4>1, <4>2, ListingIsSequence
    <3> HIDE DEF t
    <3> DEFINE q2 == Tail(q) \o t
    <3>8. /\ q2 \in Seq(Seq(Node)) /\ Len(q2) = Len(q) - 1 + Len(order)
          /\ \A i \in 1..Len(q) - 1 : q2[i] = q[i + 1]
          /\ \A i \in 1..Len(order) : q2[Len(q) - 1 + i] = t[i]
      <4>1. q \in Seq(Seq(Node)) /\ t \in Seq(Seq(Node))
        BY <1>1, <3>7
      <4>2. /\ q2 \in Seq(Seq(Node)) /\ Len(q2) = Len(q) - 1 + Len(t)
            /\ \A i \in 1..Len(q) - 1 : q2[i] = q[i + 1]
            /\ \A i \in 1..Len(t) : q2[Len(q) - 1 + i] = t[i]
        BY ONLY <2>1, <4>1, Shifted
      <4> HIDE DEF q2
      <4> QED BY <3>7, <4>2
    <3>9. search' = [pc |-> "path", queue |-> q2, visited |-> V \cup new]
      BY <3>2
    <3> HIDE DEF q2
    <3>10. Len(q) \in Nat /\ Len(q) >= 1
      BY <1>1, <2>2
    <3>11. \A i \in 1..Len(q2) : i \in 1..Len(q) - 1 \/ (i - (Len(q) - 1) \in 1..Len(order)
                                     /\ Len(q) - 1 + (i - (Len(q) - 1)) = i)
      BY <3>5, <3>8, <3>10
    <3>12. \A i \in 1..Len(q2) : Trail(L, q2[i])
      <4> TAKE i \in 1..Len(q2)
      <4>1. CASE i \in 1..Len(q) - 1
        <5>1. i + 1 \in 1..Len(q)
          BY <3>10, <4>1
        <5>2. q2[i] = q[i + 1]
          BY <3>8, <4>1
        <5> QED BY <1>1, <5>1, <5>2
      <4>2. CASE i \notin 1..Len(q) - 1
        <5> DEFINE j == i - (Len(q) - 1)
        <5>1. j \in 1..Len(order) /\ Len(q) - 1 + j = i
          BY <3>11, <4>2
        <5> HIDE DEF j
        <5>2. q2[i] = Append(at, order[j])
          BY <3>7, <3>8, <5>1
        <5> QED BY <3>6, <5>1, <5>2
      <4> QED BY <4>1, <4>2
    <3>13. /\ Nodes(q2) \in Seq(Entry) /\ Len(Nodes(q2)) = Len(q2)
           /\ \A i \in 1..Len(q2) : Nodes(q2)[i].n = q2[i][Len(q2[i])] /\ Nodes(q2)[i].d = Len(q2[i]) - 1
      <4>1. q2 \in Seq(Seq(Node))
        BY <3>8
      <4> QED BY ONLY <3>12, <4>1, LinedUp
    <3>14. \A i \in 1..Len(q) - 1 : Nodes(q2)[i] = Nodes(q)[i + 1]
      <4> TAKE i \in 1..Len(q) - 1
      <4>1. i \in 1..Len(q2) /\ i + 1 \in 1..Len(q) /\ q2[i] = q[i + 1]
        BY <3>5, <3>8, <3>10
      <4> QED BY <4>1 DEF Nodes
    <3>15. \A i \in 1..Len(order) : /\ Nodes(q2)[Len(q) - 1 + i].n = order[i]
                                    /\ Nodes(q2)[Len(q) - 1 + i].d = Nodes(q)[1].d + 1
      <4> TAKE i \in 1..Len(order)
      <4> DEFINE k == Len(q) - 1 + i
      <4>1. k \in 1..Len(q2)
        BY <3>5, <3>8, <3>10
      <4>2. q2[k] = Append(at, order[i])
        BY <3>7, <3>8
      <4> HIDE DEF k
      <4>3. Nodes(q2)[k].n = q2[k][Len(q2[k])] /\ Nodes(q2)[k].d = Len(q2[k]) - 1
        BY <3>13, <4>1
      <4>4. Nodes(q2)[k].n = order[i] /\ Nodes(q2)[k].d = Nodes(q)[1].d + 1
        BY <2>4, <2>5, <3>6, <4>2, <4>3
      <4> QED BY <4>4 DEF k
    <3>16. new = IF FALSE /\ Nodes(q)[1].d >= 0 THEN {} ELSE {u \in Node : <<Nodes(q)[1].n, u>> \in L} \ V
      BY <2>5, <3>3
    <3>17. Nodes(q) # <<>> /\ Len(Nodes(q2)) = Len(Nodes(q)) - 1 + Len(order)
      BY <1>3, <3>8, <3>10, <3>13
    <3>18. Opened(L, FALSE, 0, Nodes(q2), V \cup new)
      <4> DEFINE a == Nodes(q)
                 b == Nodes(q2)
      <4>1. /\ Opened(L, FALSE, 0, a, V) /\ a # <<>> /\ b \in Seq(Entry)
            /\ Len(b) = Len(a) - 1 + Len(order)
            /\ \A i \in 1..Len(a) - 1 : b[i] = a[i + 1]
            /\ \A i \in 1..Len(order) : b[Len(a) - 1 + i].n = order[i] /\ b[Len(a) - 1 + i].d = a[1].d + 1
            /\ new = IF FALSE /\ a[1].d >= 0 THEN {} ELSE {u \in Node : <<a[1].n, u>> \in L} \ V
        BY <1>1, <1>3, <3>13, <3>14, <3>15, <3>16, <3>17
      <4> HIDE DEF a, b
      <4>2. Opened(L, FALSE, 0, b, V \cup new)
        BY <1>2, <3>3, <4>1, Expands
      <4> QED BY <4>2 DEF b
    <3>19. Linked(refs', PathDir(ask'.dir)) = L
      BY <1>1 DEF L
    <3> QED BY <1>1, <1>2, <3>4, <3>8, <3>9, <3>12, <3>18, <3>19 DEF GraphInv, Finding
  <2> QED BY <2>6, <2>7
<1> QED BY <1>7, <1>8

LEMMA GraphStarts ==
    ASSUME GraphInit
    PROVE  GraphInv
<1>1. refs \in SUBSET (Node \X Node)
  BY DEF GraphInit, kSubset
<1>2. search.pc = "ask"
  BY DEF GraphInit, NoSearch
<1> QED BY <1>1, <1>2 DEF GraphInv, Finding

LEMMA GraphSteps ==
    ASSUME GraphInv, [GraphNext]_graphVars
    PROVE  GraphInv'
<1>1. CASE UNCHANGED graphVars
  BY <1>1 DEF graphVars, GraphInv
<1>2. CASE GraphNext
  BY <1>2, AskStep, BfsFinds, PathFinds DEF GraphNext
<1> QED BY <1>1, <1>2

LEMMA GraphHolds ==
    ASSUME GraphInv
    PROVE  SearchIsExact
<1>1. BfsIsExact
  <2> SUFFICES ASSUME search.pc = "done", ask.op = "bfs"
               PROVE  search.result = Within(ask.dir, ask.depth)
    BY DEF BfsIsExact
  <2>1. BfsAnswer(Linked(refs, ask.dir), ask.depth, search.result) /\ ask \in Asked
    BY DEF GraphInv
  <2>2. \A n \in 0..ask.depth : WalkEnds(ask.dir, n) = Ends(Linked(refs, ask.dir), n)
    BY <2>1, EndsAreWalked DEF Asked
  <2> QED BY <2>1, <2>2 DEF BfsAnswer, Within
<1>2. PathIsShortest
  <2> SUFFICES ASSUME search.pc = "done", ask.op = "path"
               PROVE  LET p == search.result
                          dir == IF ask.dir = "out" THEN "out" ELSE "both"
                          reached == {n \in 0..Cardinality(Node) : Goal \in WalkEnds(dir, n)}
                      IN IF p = <<>> THEN reached = {}
                         ELSE /\ p[1] = Start /\ p[Len(p)] = Goal
                              /\ \A i \in 1..Len(p) - 1 : <<p[i], p[i + 1]>> \in Steps(dir)
                              /\ \A n \in reached : Len(p) - 1 <= n
    BY DEF PathIsShortest
  <2> DEFINE dir == PathDir(ask.dir)
             p == search.result
  <2>1. PathAnswer(Linked(refs, dir), p)
    BY DEF GraphInv
  <2>2. \A n \in 0..Cardinality(Node) : n \in Nat /\ WalkEnds(dir, n) = Ends(Linked(refs, dir), n)
    BY EndsAreWalked, GraphAssumption, FS_CardinalityType
  <2>3. Steps(dir) = Linked(refs, dir)
    BY DEF Steps, Linked
  <2>4. dir = IF ask.dir = "out" THEN "out" ELSE "both"
    BY DEF PathDir
  <2> HIDE DEF dir, p
  <2>5. p = <<>> => {n \in 0..Cardinality(Node) : Goal \in WalkEnds(dir, n)} = {}
    BY <2>1, <2>2 DEF PathAnswer
  <2>6. p # <<>> => /\ p[1] = Start /\ p[Len(p)] = Goal
                    /\ \A i \in 1..Len(p) - 1 : <<p[i], p[i + 1]>> \in Steps(dir)
                    /\ \A n \in {k \in 0..Cardinality(Node) : Goal \in WalkEnds(dir, k)} : Len(p) - 1 <= n
    BY <2>1, <2>2, <2>3 DEF PathAnswer, Trail
  <2> QED BY <2>4, <2>5, <2>6 DEF p
<1> QED BY <1>1, <1>2 DEF SearchIsExact

(***************************************************************************)
(* For every document, entity and depth: a traversal answers with exactly  *)
(* the entities a walk of references within the depth reaches, and a path  *)
(* with a shortest one, or with none where there is none.                  *)
(***************************************************************************)
THEOREM SearchStaysExact == GraphSpec => []SearchIsExact
  BY GraphStarts, GraphSteps, GraphHolds, PTL DEF GraphSpec

-----------------------------------------------------------------------------
(***************************************************************************)
(* The server.                                                             *)
(***************************************************************************)
McpSpec == McpInit /\ [][McpNext]_mcpVars

JournalRow == [turns : Nat, raced : BOOLEAN, new : Int]
CheckpointCalls == [pc : {"parse", "ledger", "row"}, raced : BOOLEAN, before : Nat, rows : Nat, turns : Nat, prev : Nat]
ReadCalls == [pc : {"read"}, tool : LedgerReaders] \cup [pc : {"leave"}, tool : LedgerReaders, found : BOOLEAN]
McpTypeOK ==
    /\ talk \in [turns : Nat, is : {"good", "hollow", "gone"}]
    /\ ledger \in Nat /\ published \in Seq(JournalRow)
    /\ server \in {Waiting} \cup CheckpointCalls \cup [pc : {"pack", "tell", "code"}] \cup ReadCalls

(***************************************************************************)
(* A checkpoint in progress, as long as no hook has run in it, knows the   *)
(* ledger and the journal it began with, then the last row's turns; and    *)
(* nothing that was journaled is ahead of the transcript.                  *)
(***************************************************************************)
CallInv ==
    /\ InCheckpoint => server.rows <= Len(published)
    /\ InCheckpoint /\ ~server.raced => server.rows = Len(published)
    /\ server.pc = "parse" /\ ~server.raced => server.before = ledger
    /\ server.pc \in {"ledger", "row"} => server.turns <= talk.turns
    /\ server.pc \in {"ledger", "row"} /\ ~server.raced => Prev <= server.turns
    /\ server.pc = "row" /\ ~server.raced => server.prev = Prev
RowsBehind == \A i \in DOMAIN published : published[i].turns <= talk.turns
ReplyInv ==
    /\ server.pc # "tell" => sink = codePack
    /\ reply.tool = "code_read" /\ reply.code = "ok" => reply.counted = reply.version
McpInv == CallInv /\ RowsBehind /\ ReplyInv /\ LedgerBytesAreScanned /\ NewTurnsCountOnce

\* what the steps that leave the journal and the ledger alone preserve
LEMMA RowWritten ==
    ASSUME McpTypeOK, McpInv, NEW row \in JournalRow, published' = Append(published, row),
           row.turns <= talk.turns, talk' = talk,
           ~row.raced => row.new = row.turns - Prev
    PROVE  /\ published' \in Seq(JournalRow) /\ RowsBehind' /\ NewTurnsCountOnce'
           /\ Len(published') = Len(published) + 1 /\ published'[Len(published')] = row
           /\ Prev' = row.turns
<1> DEFINE n == Len(published)
<1>1. n \in Nat /\ DOMAIN published = 1..n /\ published \in Seq(JournalRow)
  BY DEF McpTypeOK
<1>2. /\ DOMAIN published' = 1..n + 1 /\ Len(published') = n + 1 /\ published' \in Seq(JournalRow)
      /\ \A i \in 1..n : published'[i] = published[i]
      /\ published'[n + 1] = row
  BY <1>1
<1> HIDE DEF n
<1>3. RowsBehind'
  BY <1>1, <1>2 DEF McpInv, RowsBehind
<1>4. Prev' = row.turns
  <2>1. published' # <<>>
    BY <1>1, <1>2
  <2> QED BY <1>2, <2>1 DEF Prev
<1>5. NewTurnsCountOnce'
  <2> SUFFICES ASSUME NEW i \in 1..n + 1, ~published'[i].raced
               PROVE  published'[i].new = published'[i].turns - (IF i = 1 THEN 0 ELSE published'[i - 1].turns)
    BY <1>2 DEF NewTurnsCountOnce
  <2>1. CASE i \in 1..n
    <3>1. i # 1 => i - 1 \in 1..n
      BY <1>1, <2>1
    <3> QED BY <1>1, <1>2, <2>1, <3>1 DEF McpInv, NewTurnsCountOnce
  <2>2. CASE i = n + 1
    <3>1. Prev = IF i = 1 THEN 0 ELSE published'[i - 1].turns
      <4>1. i = 1 <=> published = <<>>
        BY <1>1, <2>2 DEF n
      <4>2. i # 1 => published'[i - 1] = published[Len(published)]
        <5> SUFFICES ASSUME i # 1 PROVE published'[i - 1] = published[Len(published)]
          OBVIOUS
        <5>1. i - 1 = n /\ n \in 1..n
          BY <1>1, <2>2
        <5> QED BY <1>2, <5>1 DEF n
      <4> QED BY <4>1, <4>2 DEF Prev
    <3> QED BY <1>2, <2>2, <3>1
  <2> QED BY <1>1, <2>1, <2>2
<1> QED BY <1>2, <1>3, <1>4, <1>5

\* the steps that write neither file
LEMMA FilesKept ==
    ASSUME McpTypeOK, McpInv, UNCHANGED published, talk' \in [turns : Nat, is : {"good", "hollow", "gone"}],
           talk'.turns >= talk.turns
    PROVE  RowsBehind' /\ NewTurnsCountOnce' /\ Prev' = Prev
<1>1. NewTurnsCountOnce' /\ Prev' = Prev
  BY DEF McpInv, NewTurnsCountOnce, Prev
<1>2. RowsBehind'
  <2> SUFFICES ASSUME NEW i \in DOMAIN published PROVE published[i].turns <= talk'.turns
    BY DEF RowsBehind
  <2>1. published[i].turns \in Nat /\ talk.turns \in Nat /\ talk'.turns \in Nat
    <3>1. published \in Seq(JournalRow) /\ talk.turns \in Nat
      BY DEF McpTypeOK
    <3>2. published[i] \in JournalRow
      BY <3>1
    <3> QED BY <3>1, <3>2 DEF JournalRow
  <2>2. published[i].turns <= talk.turns
    BY DEF McpInv, RowsBehind
  <2> QED BY <2>1, <2>2
<1> QED BY <1>1, <1>2

LEMMA LastRowKnown ==
    ASSUME McpTypeOK, McpInv
    PROVE  Prev \in Nat /\ Prev <= talk.turns /\ talk.turns \in Nat
<1>1. talk.turns \in Nat /\ published \in Seq(JournalRow)
  BY DEF McpTypeOK
<1>2. CASE published = <<>>
  BY <1>1, <1>2 DEF Prev
<1>3. CASE published # <<>>
  <2>1. Len(published) \in DOMAIN published /\ published[Len(published)] \in JournalRow
    BY <1>1, <1>3
  <2>2. Prev = published[Len(published)].turns
    BY <1>3 DEF Prev
  <2>3. Prev \in Nat
    BY <2>1, <2>2 DEF JournalRow
  <2>4. Prev <= talk.turns
    BY <2>1, <2>2 DEF McpInv, RowsBehind
  <2> QED BY <1>1, <2>3, <2>4
<1> QED BY <1>2, <1>3

LEMMA McpStarts == McpInit => McpTypeOK /\ McpInv
<1> SUFFICES ASSUME McpInit PROVE McpTypeOK /\ McpInv
  OBVIOUS
<1>1. McpTypeOK
  BY DEF McpInit, McpTypeOK
<1>2. CallInv
  BY DEF McpInit, CallInv, InCheckpoint, Waiting
<1>3. RowsBehind /\ NewTurnsCountOnce
  BY DEF McpInit, RowsBehind, NewTurnsCountOnce
<1>4. ReplyInv /\ LedgerBytesAreScanned
  BY DEF McpInit, ReplyInv, LedgerBytesAreScanned, NoReply, LedgerReaders
<1> QED BY <1>1, <1>2, <1>3, <1>4 DEF McpInv

\* what comes from outside
LEMMA WorldStep ==
    ASSUME McpTypeOK, McpInv,
           Talk \/ CodeChanges \/ HookRuns \/ Dies \/ (\E how \in {"hollow", "gone"} : TalkBreaks(how))
    PROVE  McpTypeOK' /\ McpInv'
<1>1. CASE Talk \/ \E how \in {"hollow", "gone"} : TalkBreaks(how)
  <2>1. talk' \in [turns : Nat, is : {"good", "hollow", "gone"}] /\ talk'.turns >= talk.turns
    BY <1>1 DEF Talk, TalkBreaks, McpTypeOK
  <2>2. UNCHANGED <<ledger, published, server, codePack, sink, reply>>
    BY <1>1 DEF Talk, TalkBreaks, ledgerVars, memory
  <2>3. RowsBehind' /\ NewTurnsCountOnce' /\ Prev' = Prev
    BY <2>1, <2>2, FilesKept
  <2>4. CallInv'
    <3>1. server.pc \in {"ledger", "row"} => server.turns \in Nat
      BY DEF McpTypeOK, CheckpointCalls, ReadCalls, Waiting
    <3> QED BY <2>1, <2>2, <2>3, <3>1 DEF McpInv, CallInv, InCheckpoint, McpTypeOK
  <2> QED BY <2>1, <2>2, <2>3, <2>4 DEF McpTypeOK, McpInv, ReplyInv, LedgerBytesAreScanned
<1>2. CASE CodeChanges
  <2>1. UNCHANGED <<talk, ledger, published, server, codePack, sink, reply>>
    BY <1>2 DEF CodeChanges, ledgerVars, memory
  <2>2. RowsBehind' /\ NewTurnsCountOnce' /\ Prev' = Prev
    BY <2>1, FilesKept DEF McpTypeOK
  <2> QED BY <2>1, <2>2 DEF McpTypeOK, McpInv, CallInv, InCheckpoint, ReplyInv, LedgerBytesAreScanned
<1>3. CASE HookRuns
  <2> DEFINE row == [turns |-> talk.turns, raced |-> FALSE, new |-> talk.turns - Prev]
  <2>1. /\ published' = Append(published, row) /\ ledger' = talk.turns
        /\ server' = IF InCheckpoint THEN [server EXCEPT !.raced = TRUE] ELSE server
        /\ UNCHANGED <<talk, codePack, sink, reply>>
    BY <1>3 DEF HookRuns, memory, Prev
  <2>2. Prev \in Nat /\ talk.turns \in Nat
    BY LastRowKnown
  <2>3. row \in JournalRow /\ row.turns = talk.turns /\ row.new = row.turns - Prev
    BY <2>2 DEF JournalRow
  <2> HIDE DEF row
  <2>4. /\ published' \in Seq(JournalRow) /\ RowsBehind' /\ NewTurnsCountOnce'
        /\ Len(published') = Len(published) + 1
    BY <2>1, <2>2, <2>3, RowWritten
  <2>5. /\ McpTypeOK'
        /\ server'.pc = server.pc /\ InCheckpoint' = InCheckpoint
    <3>1. CASE InCheckpoint
      <4>1. server \in CheckpointCalls
        BY <3>1 DEF InCheckpoint, McpTypeOK, ReadCalls, Waiting
      <4>2. server' \in CheckpointCalls /\ server'.pc = server.pc
        BY <2>1, <3>1, <4>1 DEF CheckpointCalls
      <4> QED BY <2>1, <2>2, <2>4, <4>2 DEF McpTypeOK, InCheckpoint
    <3>2. CASE ~InCheckpoint
      BY <2>1, <2>2, <2>4, <3>2 DEF McpTypeOK, InCheckpoint
    <3> QED BY <3>1, <3>2
  <2>6. CallInv'
    <3>1. CASE InCheckpoint
      <4>1. server \in CheckpointCalls
        BY <3>1 DEF InCheckpoint, McpTypeOK, ReadCalls, Waiting
      <4>2. server'.raced /\ server'.rows = server.rows /\ server'.turns = server.turns /\ server.rows \in Nat
        BY <2>1, <3>1, <4>1 DEF CheckpointCalls
      <4>3. Len(published) \in Nat
        BY DEF McpTypeOK
      <4> QED BY <2>1, <2>4, <2>5, <4>2, <4>3 DEF McpInv, CallInv, InCheckpoint
    <3>2. CASE ~InCheckpoint
      BY <2>5, <3>2 DEF CallInv, InCheckpoint
    <3> QED BY <3>1, <3>2
  <2>7. ReplyInv' /\ LedgerBytesAreScanned'
    BY <2>1, <2>5 DEF McpInv, ReplyInv, LedgerBytesAreScanned
  <2> QED BY <2>4, <2>5, <2>6, <2>7 DEF McpInv
<1>4. CASE Dies
  <2>1. /\ UNCHANGED <<talk, ledger, published>> /\ server' = Waiting /\ codePack' = 0 /\ sink' = 0
        /\ reply' = [tool |-> "", code |-> "died"]
    BY <1>4 DEF Dies, ledgerVars, NoReply
  <2>2. RowsBehind' /\ NewTurnsCountOnce'
    <3>1. talk \in [turns : Nat, is : {"good", "hollow", "gone"}] /\ talk.turns \in Nat
      BY DEF McpTypeOK
    <3>2. /\ UNCHANGED published /\ talk'.turns >= talk.turns
          /\ talk' \in [turns : Nat, is : {"good", "hollow", "gone"}]
      <4>1. talk' = talk /\ published' = published
        BY <2>1
      <4> QED BY <3>1, <4>1
    <3> QED BY ONLY <3>2, McpTypeOK, McpInv, FilesKept
  <2>3. McpTypeOK' /\ CallInv'
    BY <2>1 DEF McpTypeOK, CallInv, InCheckpoint, Waiting
  <2>4. ReplyInv' /\ LedgerBytesAreScanned'
    BY <2>1 DEF ReplyInv, LedgerBytesAreScanned, LedgerReaders
  <2> QED BY <2>2, <2>3, <2>4 DEF McpInv
<1> QED BY <1>1, <1>2, <1>3, <1>4

\* the steps of a call but those of a checkpoint
LEMMA CallStep ==
    ASSUME McpTypeOK, McpInv,
           \/ CodePackCall \/ Packs \/ CodeRead \/ CodeReads \/ CheckpointCall
           \/ (\E written \in BOOLEAN : Tells(written))
           \/ (\E tool \in LedgerReaders : SessionRead(tool))
           \/ Reads \/ (\E works \in BOOLEAN : Leaves(works)) \/ Raises
    PROVE  McpTypeOK' /\ McpInv'
<1>1. UNCHANGED <<talk, ledger, published>>
  BY DEF CodePackCall, Packs, CodeRead, CodeReads, CheckpointCall, Tells, SessionRead, Reads, Leaves, Raises,
         Begins, ledgerVars
<1>2. RowsBehind' /\ NewTurnsCountOnce' /\ Prev' = Prev
  BY <1>1, FilesKept DEF McpTypeOK
<1>3. ASSUME NEW to \in {Waiting} \cup [pc : {"pack", "tell", "code"}] \cup ReadCalls, server' = to
      PROVE  McpTypeOK' /\ CallInv'
  <2>1. to.pc \notin {"parse", "ledger", "row"}
    BY <1>3 DEF ReadCalls, Waiting
  <2>2. CallInv'
    BY <1>3, <2>1 DEF CallInv, InCheckpoint
  <2> QED BY <1>1, <1>3, <2>2 DEF McpTypeOK
<1>4. CASE CodePackCall \/ CodeRead \/ \E tool \in LedgerReaders : SessionRead(tool)
  <2>1. /\ UNCHANGED <<codePack, sink, reply>> /\ server = Waiting
        /\ server' \in [pc : {"pack", "code"}] \cup [pc : {"read"}, tool : LedgerReaders]
    <3>1. CASE CodePackCall \/ CodeRead
      BY <3>1 DEF CodePackCall, CodeRead, Begins, memory
    <3>2. CASE \E tool \in LedgerReaders : SessionRead(tool)
      BY <3>2 DEF SessionRead, Begins, memory
    <3> QED BY <1>4, <3>1, <3>2
  <2>2. McpTypeOK' /\ CallInv'
    BY <2>1, <1>3 DEF ReadCalls
  <2>3. ReplyInv' /\ LedgerBytesAreScanned'
    BY <2>1 DEF McpInv, ReplyInv, LedgerBytesAreScanned, Waiting
  <2> QED BY <1>2, <2>2, <2>3 DEF McpInv
<1>5. CASE CheckpointCall
  <2>1. /\ UNCHANGED <<codePack, sink, reply>> /\ server = Waiting
        /\ server' = [pc |-> "parse", raced |-> FALSE, before |-> ledger, rows |-> Len(published),
                      turns |-> 0, prev |-> 0]
    BY <1>5 DEF CheckpointCall, Begins, memory
  <2>2. Len(published) \in Nat /\ ledger \in Nat
    BY DEF McpTypeOK
  <2>3. server' \in CheckpointCalls
    BY <2>1, <2>2 DEF CheckpointCalls
  <2>4. McpTypeOK'
    BY <1>1, <2>3 DEF McpTypeOK
  <2>5. CallInv'
    BY <1>1, <2>1, <2>2 DEF CallInv, InCheckpoint
  <2>6. ReplyInv' /\ LedgerBytesAreScanned'
    BY <2>1 DEF McpInv, ReplyInv, LedgerBytesAreScanned, Waiting
  <2> QED BY <1>2, <2>4, <2>5, <2>6 DEF McpInv
<1>6. CASE Packs
  <2>1. server' = [pc |-> "tell"] /\ UNCHANGED reply
    BY <1>6 DEF Packs
  <2>2. McpTypeOK' /\ CallInv'
    BY <2>1, <1>3
  <2>3. ReplyInv' /\ LedgerBytesAreScanned'
    BY <2>1 DEF McpInv, ReplyInv, LedgerBytesAreScanned
  <2> QED BY <1>2, <2>2, <2>3 DEF McpInv
<1>7. CASE \E written \in BOOLEAN : Tells(written)
  <2>1. /\ server' = Waiting /\ sink' = codePack /\ UNCHANGED codePack
        /\ reply'.tool = "code_pack"
    BY <1>7 DEF Tells, Answer, SinkBeforeWrite, Coded
  <2>2. McpTypeOK' /\ CallInv'
    BY <2>1, <1>3
  <2>3. ReplyInv' /\ LedgerBytesAreScanned'
    BY <2>1 DEF McpInv, ReplyInv, LedgerBytesAreScanned, Waiting, LedgerReaders
  <2> QED BY <1>2, <2>2, <2>3 DEF McpInv
<1>8. CASE CodeReads
  <2>1. /\ server' = Waiting /\ UNCHANGED <<codePack, sink>> /\ server.pc = "code"
        /\ reply' = IF codePack = 0 THEN Coded("code_read", "pack_not_loaded") ELSE CodeAnswer
    BY <1>8 DEF CodeReads, Answer, memory
  <2>2. McpTypeOK' /\ CallInv'
    BY <2>1, <1>3
  <2>3. sink = codePack
    BY <2>1 DEF McpInv, ReplyInv
  <2>4. ReplyInv' /\ LedgerBytesAreScanned'
    BY <2>1, <2>3 DEF ReplyInv, LedgerBytesAreScanned, Coded, CodeAnswer, LedgerReaders
  <2> QED BY <1>2, <2>2, <2>4 DEF McpInv
<1>9. CASE Reads
  <2>1. /\ server.pc = "read" /\ server' = [pc |-> "leave", tool |-> server.tool, found |-> ledger > 0]
        /\ UNCHANGED <<codePack, sink, reply>>
    BY <1>9 DEF Reads, memory
  <2>2. server.tool \in LedgerReaders
    BY <2>1 DEF McpTypeOK, Waiting, CheckpointCalls, ReadCalls
  <2>3. server' \in ReadCalls
    BY <2>1, <2>2 DEF ReadCalls
  <2>4. McpTypeOK' /\ CallInv'
    BY <2>3, <1>3
  <2>5. ReplyInv' /\ LedgerBytesAreScanned'
    BY <2>1 DEF McpInv, ReplyInv, LedgerBytesAreScanned
  <2> QED BY <1>2, <2>4, <2>5 DEF McpInv
<1>10. CASE \E works \in BOOLEAN : Leaves(works)
  <2>1. /\ server' = Waiting /\ server.pc = "leave" /\ UNCHANGED <<codePack, sink>>
        /\ reply'.tool = server.tool /\ reply'.body # "ledger"
    <3>1. PICK works \in BOOLEAN : Leaves(works)
      BY <1>10
    <3>2. server.pc = "leave"
      BY <3>1 DEF Leaves
    <3>3. server.tool \in SESSION_READ_TOOLS
      BY <3>2 DEF McpTypeOK, Waiting, CheckpointCalls, ReadCalls, LedgerReaders, SESSION_READ_TOOLS
    <3>4. /\ server' = Waiting /\ UNCHANGED <<codePack, sink>>
          /\ reply' = IF ~works THEN Coded(server.tool, "egress_scan_failed")
                      ELSE IF ~server.found THEN Coded(server.tool, "ledger_not_found")
                      ELSE [Coded(server.tool, "ok") EXCEPT !.body =
                                IF server.tool \in SESSION_READ_TOOLS THEN "scanned" ELSE "ledger"]
      BY <3>1 DEF Leaves, Answer, memory
    <3>5. reply'.tool = server.tool /\ reply'.body \in {"bounded", "scanned"}
      BY <3>3, <3>4 DEF Coded
    <3> QED BY <3>2, <3>4, <3>5
  <2>2. McpTypeOK' /\ CallInv'
    BY <2>1, <1>3
  <2>3. server.tool \in LedgerReaders
    BY <2>1 DEF McpTypeOK, Waiting, CheckpointCalls, ReadCalls
  <2>4. ReplyInv' /\ LedgerBytesAreScanned'
    BY <2>1, <2>3 DEF McpInv, ReplyInv, LedgerBytesAreScanned, LedgerReaders
  <2> QED BY <1>2, <2>2, <2>4 DEF McpInv
<1>11. CASE Raises
  <2>1. /\ server' = Waiting /\ UNCHANGED <<codePack, sink>> /\ server.pc # "tell"
        /\ reply'.tool \in {"checkpoint", "pack", "read"}
    <3>1. /\ server.pc \in {"parse", "ledger", "row", "pack", "read"} /\ UNCHANGED <<codePack, sink>>
          /\ server' = Waiting
          /\ reply' = IF InCheckpoint THEN Rejection(RaisedCode) ELSE Coded(server.pc, "tool_failed")
      BY <1>11 DEF Raises, Answer, memory
    <3> QED BY <3>1 DEF Rejection, Coded, InCheckpoint
  <2>2. McpTypeOK' /\ CallInv'
    BY <2>1, <1>3
  <2>3. ReplyInv' /\ LedgerBytesAreScanned'
    BY <2>1 DEF McpInv, ReplyInv, LedgerBytesAreScanned, LedgerReaders
  <2> QED BY <1>2, <2>2, <2>3 DEF McpInv
<1> QED BY <1>4, <1>5, <1>6, <1>7, <1>8, <1>9, <1>10, <1>11

\* the steps of a checkpoint
LEMMA BankStep ==
    ASSUME McpTypeOK, McpInv, CkptParses \/ CkptWrites \/ CkptJournals
    PROVE  McpTypeOK' /\ McpInv'
<1>1. server \in CheckpointCalls /\ InCheckpoint
  BY DEF CkptParses, CkptWrites, CkptJournals, McpTypeOK, ReadCalls, Waiting, InCheckpoint
<1>2. /\ server.raced \in BOOLEAN /\ server.before \in Nat /\ server.rows \in Nat /\ server.turns \in Nat
      /\ server.prev \in Nat /\ talk.turns \in Nat /\ Len(published) \in Nat
  BY <1>1 DEF CheckpointCalls, McpTypeOK
<1>3. Prev \in Nat /\ Prev <= talk.turns
  BY LastRowKnown
<1>4. server.pc # "tell" /\ sink = codePack
  BY <1>1 DEF InCheckpoint, McpInv, ReplyInv
<1>5. UNCHANGED <<talk, codePack, sink>>
  BY DEF CkptParses, CkptWrites, CkptJournals, memory
<1>6. CASE CkptParses
  <2>1. UNCHANGED <<ledger, published>> /\ server.pc = "parse"
    BY <1>6 DEF CkptParses, ledgerVars
  <2>2. RowsBehind' /\ NewTurnsCountOnce' /\ Prev' = Prev
    BY <1>5, <2>1, FilesKept DEF McpTypeOK
  <2>3. CASE talk.is \in {"gone", "hollow"}
    <3>1. server' = Waiting /\ reply'.tool = "checkpoint"
      BY <1>6, <2>3 DEF CkptParses, Answer, Rejection
    <3>2. McpTypeOK' /\ CallInv'
      BY <1>5, <2>1, <3>1 DEF McpTypeOK, CallInv, InCheckpoint, Waiting
    <3>3. ReplyInv' /\ LedgerBytesAreScanned'
      BY <1>4, <1>5, <3>1 DEF ReplyInv, LedgerBytesAreScanned, LedgerReaders
    <3> QED BY <2>2, <3>2, <3>3 DEF McpInv
  <2>4. CASE talk.is \notin {"gone", "hollow"}
    <3>1. server' = [server EXCEPT !.pc = "ledger", !.turns = talk.turns] /\ UNCHANGED reply
      BY <1>6, <2>4 DEF CkptParses
    <3>2. /\ server' \in CheckpointCalls /\ server'.pc = "ledger" /\ server'.turns = talk.turns
          /\ server'.raced = server.raced /\ server'.rows = server.rows
      BY <1>1, <1>2, <3>1 DEF CheckpointCalls
    <3>3. CallInv'
      BY <1>1, <1>2, <1>3, <1>5, <2>1, <2>2, <3>2 DEF McpInv, CallInv, InCheckpoint
    <3>4. McpTypeOK'
      BY <1>5, <2>1, <3>2 DEF McpTypeOK
    <3>5. ReplyInv' /\ LedgerBytesAreScanned'
      BY <1>4, <1>5, <3>1 DEF McpInv, ReplyInv, LedgerBytesAreScanned
    <3> QED BY <2>2, <3>3, <3>4, <3>5 DEF McpInv
  <2> QED BY <2>3, <2>4
<1>7. CASE CkptWrites
  <2>1. /\ ledger' = server.turns /\ UNCHANGED <<published, reply>> /\ server.pc = "ledger"
        /\ server' = [server EXCEPT !.pc = "row", !.prev = Prev]
    BY <1>7 DEF CkptWrites
  <2>2. RowsBehind' /\ NewTurnsCountOnce' /\ Prev' = Prev
    BY <1>5, <2>1, FilesKept DEF McpTypeOK
  <2>3. /\ server' \in CheckpointCalls /\ server'.pc = "row" /\ server'.prev = Prev
        /\ server'.turns = server.turns /\ server'.raced = server.raced /\ server'.rows = server.rows
    BY <1>1, <1>3, <2>1 DEF CheckpointCalls
  <2>4. CallInv'
    BY <1>1, <1>2, <1>3, <1>5, <2>1, <2>2, <2>3 DEF McpInv, CallInv, InCheckpoint
  <2>5. McpTypeOK'
    BY <1>2, <1>5, <2>1, <2>3 DEF McpTypeOK
  <2>6. ReplyInv' /\ LedgerBytesAreScanned'
    BY <1>4, <1>5, <2>1 DEF McpInv, ReplyInv, LedgerBytesAreScanned
  <2> QED BY <2>2, <2>4, <2>5, <2>6 DEF McpInv
<1>8. CASE CkptJournals
  <2> DEFINE row == [turns |-> server.turns, raced |-> server.raced, new |-> New]
  <2>1. /\ published' = Append(published, row) /\ UNCHANGED ledger /\ server.pc = "row"
        /\ server' = Waiting /\ reply' = Receipt(New)
    BY <1>8 DEF CkptJournals, Answer
  <2>2. server.turns <= talk.turns /\ (~server.raced => New = server.turns - Prev) /\ New \in Int
    BY <1>2, <1>3, <2>1 DEF McpInv, CallInv, New
  <2>3. row \in JournalRow /\ row.turns = server.turns /\ row.raced = server.raced /\ row.new = New
    BY <1>2, <2>2 DEF JournalRow
  <2> HIDE DEF row
  <2>4. published' \in Seq(JournalRow) /\ RowsBehind' /\ NewTurnsCountOnce'
    BY <1>5, <2>1, <2>2, <2>3, RowWritten
  <2>5. McpTypeOK' /\ CallInv'
    BY <1>5, <2>1, <2>4 DEF McpTypeOK, CallInv, InCheckpoint, Waiting
  <2>6. ReplyInv' /\ LedgerBytesAreScanned'
    BY <1>4, <1>5, <2>1 DEF ReplyInv, LedgerBytesAreScanned, LedgerReaders, Receipt
  <2> QED BY <2>4, <2>5, <2>6 DEF McpInv
<1> QED BY <1>6, <1>7, <1>8

LEMMA McpStep == McpTypeOK /\ McpInv /\ [McpNext]_mcpVars => McpTypeOK' /\ McpInv'
<1> SUFFICES ASSUME McpTypeOK, McpInv, [McpNext]_mcpVars PROVE McpTypeOK' /\ McpInv'
  OBVIOUS
<1>1. CASE UNCHANGED mcpVars
  BY <1>1 DEF mcpVars, McpTypeOK, McpInv, CallInv, InCheckpoint, Prev, RowsBehind, ReplyInv, LedgerBytesAreScanned,
              NewTurnsCountOnce
<1>2. CASE McpNext
  BY <1>2, WorldStep, CallStep, BankStep DEF McpNext
<1> QED BY <1>1, <1>2

LEMMA RepliesAreTrue ==
    McpTypeOK /\ McpInv /\ [McpNext]_mcpVars =>
        [reply' # reply /\ reply'.tool = "checkpoint" =>
            /\ reply'.code \in {"transcript_rejected", "transcript_not_found"} /\ ~reply'.raced =>
                ledger' = reply'.before /\ Len(published') = reply'.rows
            /\ reply'.code = "ok" =>
                \E i \in DOMAIN published' : i > reply'.rows /\ published'[i].turns = reply'.turns]_mcpVars
<1> SUFFICES ASSUME McpTypeOK, McpInv, McpNext, reply' # reply, reply'.tool = "checkpoint"
             PROVE  /\ reply'.code \in {"transcript_rejected", "transcript_not_found"} /\ ~reply'.raced =>
                        ledger' = reply'.before /\ Len(published') = reply'.rows
                    /\ reply'.code = "ok" =>
                        \E i \in DOMAIN published' : i > reply'.rows /\ published'[i].turns = reply'.turns
  BY DEF mcpVars
<1>1. CkptParses \/ CkptJournals \/ Raises
  <2>1. CASE Talk \/ CodeChanges \/ HookRuns \/ (\E how \in {"hollow", "gone"} : TalkBreaks(how)) \/ CheckpointCall
               \/ CkptWrites \/ CodePackCall \/ Packs \/ CodeRead \/ (\E tool \in LedgerReaders : SessionRead(tool)) \/ Reads
    BY <2>1 DEF Talk, CodeChanges, HookRuns, TalkBreaks, CheckpointCall, CkptWrites, CodePackCall, Packs, CodeRead,
                SessionRead, Reads, Begins
  <2>2. CASE Dies
    BY <2>2 DEF Dies, NoReply
  <2>3. CASE CodeReads
    <3>1. reply'.tool = "code_read"
      BY <2>3 DEF CodeReads, Answer, Coded, CodeAnswer
    <3> QED BY <3>1
  <2>4. CASE \E written \in BOOLEAN : Tells(written)
    <3>1. reply'.tool = "code_pack"
      BY <2>4 DEF Tells, Answer, Coded
    <3> QED BY <3>1
  <2>5. CASE \E works \in BOOLEAN : Leaves(works)
    <3>1. PICK works \in BOOLEAN : Leaves(works)
      BY <2>5
    <3>2. server.tool \in LedgerReaders
      BY <3>1 DEF Leaves, McpTypeOK, Waiting, CheckpointCalls, ReadCalls
    <3>3. reply'.tool = server.tool
      BY <3>1 DEF Leaves, Answer, Coded
    <3> QED BY <3>2, <3>3 DEF LedgerReaders
  <2> QED BY <2>1, <2>2, <2>3, <2>4, <2>5 DEF McpNext
<1>2. CASE CkptParses
  <2>1. talk.is \in {"gone", "hollow"}
    BY <1>2 DEF CkptParses
  <2>2. /\ reply'.code \in {"transcript_rejected", "transcript_not_found"}
        /\ reply'.before = server.before /\ reply'.rows = server.rows /\ reply'.raced = server.raced
        /\ UNCHANGED <<ledger, published>> /\ server.pc = "parse"
    BY <1>2, <2>1 DEF CkptParses, Answer, Rejection, ledgerVars
  <2> QED BY <2>2 DEF McpInv, CallInv, InCheckpoint
<1>3. CASE CkptJournals
  <2> DEFINE row == [turns |-> server.turns, raced |-> server.raced, new |-> New]
  <2>1. /\ published' = Append(published, row) /\ reply'.code = "ok" /\ reply'.rows = server.rows
        /\ reply'.turns = server.turns /\ server.pc = "row" /\ server \in CheckpointCalls
    BY <1>3 DEF CkptJournals, Answer, Receipt, McpTypeOK, ReadCalls, Waiting
  <2>2. server.rows <= Len(published) /\ server.rows \in Nat /\ Len(published) \in Nat
    BY <2>1 DEF McpInv, CallInv, InCheckpoint, CheckpointCalls, McpTypeOK
  <2>3. New \in Int /\ row \in JournalRow /\ row.turns = server.turns
    BY <2>1 DEF New, JournalRow, CheckpointCalls
  <2> HIDE DEF row
  <2>4. Len(published) + 1 \in DOMAIN published' /\ published'[Len(published) + 1] = row
    BY <2>1, <2>3, AppendedAt DEF McpTypeOK
  <2> QED BY <2>1, <2>2, <2>3, <2>4
<1>4. CASE Raises
  <2>1. reply'.code = "tool_failed"
    BY <1>4 DEF Raises, Answer, Rejection, RaisedCode, Coded
  <2> QED BY <2>1
<1> QED BY <1>1, <1>2, <1>3, <1>4

(***************************************************************************)
(* For any transcript, number of calls, faults and hooks: no ledger byte   *)
(* leaves the server unscanned, a rejected checkpoint wrote nothing and a  *)
(* receipt stands for its row, new turns count once unless a hook raced    *)
(* the call, and the code tools and the telemetry are of one pack.         *)
(***************************************************************************)
THEOREM RepliesStayTrue == McpSpec => RepliesAttest
<1>1. McpTypeOK /\ McpInv => LedgerBytesAreScanned /\ OneSnapshot /\ NewTurnsCountOnce
  BY DEF McpInv, ReplyInv, OneSnapshot, Waiting
<1> QED BY <1>1, McpStarts, McpStep, RepliesAreTrue, PTL DEF McpSpec, RepliesAttest, RepliesTellTheTruth

-----------------------------------------------------------------------------
(***************************************************************************)
(* The session queries.                                                    *)
(***************************************************************************)
QuerySpecification == QueryInit /\ [][QueryNext]_queryVars

SessionDoc == [is : {"absent", "bad", "good"}, secs : SUBSET Section]
Hit == [s : Sid, idx : Nat, sec : Section]
Searches ==
    [pc : {"search"}, order : Seq(Sid), next : Nat, hits : SUBSET Hit, read : SUBSET Sid,
     was : [Sid -> SessionDoc], touched : SUBSET Sid]
WhyAnswers ==
    [pc : {"done"}, what : {"why"}, found : BOOLEAN, matches : Seq(Hit), conflict : BOOLEAN,
     truncated : BOOLEAN, searched : Nat, order : SUBSET Sid, read : SUBSET Sid,
     was : [Sid -> SessionDoc], touched : SUBSET Sid]
Resumes ==
    [pc : {"gist"}, sid : Sid, touched : SUBSET Sid]
      \cup [pc : {"done"}, what : {"resume"}, sid : Sid, gist : Sid \cup {NoSid}, touched : SUBSET Sid]
QueryTypeOK ==
    /\ doc \in [Sid -> SessionDoc]
    /\ rows \in Seq([s : Sid, archive : BOOLEAN])
    /\ latestGist \in Sid \cup {NoSid}
    /\ query \in {NoQuery} \cup Searches \cup WhyAnswers \cup Resumes \cup [pc : {"done"}, what : {"error"}]

(***************************************************************************)
(* A search knows every session that nobody touched as it was when it      *)
(* began, and holds all matches of those it has read; the hits of one      *)
(* session have names of their own, so their order is total.  The gist is  *)
(* the last live row's; a resume that nothing raced still faces the gist   *)
(* of the session it loaded.                                               *)
(***************************************************************************)
NamesApart(secs) == \A x, y \in secs : x.name = y.name => x = y
LedgersInv == \A s \in Sid : NamesApart(doc[s].secs)
LiveRows == {i \in DOMAIN rows : ~rows[i].archive}
LiveGistInv == latestGist = IF LiveRows = {} THEN NoSid ELSE rows[LastOf(LiveRows)].s
SearchInv ==
    query.pc = "search" =>
        /\ query.next \in 1..Len(query.order) + 1
        /\ \A s \in Sid \ query.touched : doc[s] = query.was[s]
        /\ \A h \in query.hits :
             /\ h.idx \in 1..query.next - 1 /\ h.s = query.order[h.idx]
             /\ h.s \notin query.touched => h.sec \in Matches(query.was[h.s].secs)
        /\ \A h, g \in query.hits : h.idx = g.idx /\ h.sec.name = g.sec.name => h = g
        /\ \A i \in 1..query.next - 1 :
             query.order[i] \notin query.touched /\ query.was[query.order[i]].is = "good" =>
                 \A x \in Matches(query.was[query.order[i]].secs) :
                     [s |-> query.order[i], idx |-> i, sec |-> x] \in query.hits
ResumeInv == query.pc = "gist" /\ query.touched = {} => latestGist \in {NoSid, query.sid}
QueryInv ==
    /\ LedgersInv /\ LiveGistInv /\ SearchInv /\ ResumeInv
    /\ FoundThroughout /\ SameAsSingle /\ ResumeIsOneSession

\* a tuple of a turn and a name orders the sections of one ledger
LEMMA OrderedLists ==
    ASSUME NEW secs \in SUBSET Section, NamesApart(secs)
    PROVE  LET f == Ordered(secs) IN
           /\ f \in Seq(secs) /\ DOMAIN f = 1..Len(f) /\ Len(f) \in Nat
           /\ \A x \in secs : \E i \in DOMAIN f : f[i] = x
           /\ \A i, j \in DOMAIN f : i < j => Earlier(f[i], f[j])
<1> DEFINE f == Ordered(secs)
           before == [x \in secs |-> {y \in secs : Earlier(y, x)}]
<1>1. IsFiniteSet(secs)
  BY QueryAssumption, FS_Subset
<1>2. \A x \in secs : x.turn \in Int /\ x.name \in Int
  BY QueryAssumption
<1>3. f = [i \in 1..Cardinality(secs) |-> CHOOSE x \in secs : Cardinality({y \in secs : Earlier(y, x)}) = i - 1]
  BY DEF Ordered, ListedBy
<1>4. before \in [secs -> SUBSET secs] /\ \A x \in secs : before[x] = {y \in secs : Earlier(y, x)}
  OBVIOUS
<1>5. \A x \in secs : x \notin before[x]
  BY <1>2 DEF Earlier
<1>6. \A x, y \in secs : x \in before[y] => before[x] \subseteq before[y]
  BY <1>2 DEF Earlier
<1>7. \A x, y \in secs : x # y => x \in before[y] \/ y \in before[x]
  BY <1>2 DEF Earlier, NamesApart
<1> HIDE DEF before, f
<1>8. /\ \A x \in secs : Cardinality(before[x]) \in 0..Cardinality(secs) - 1
      /\ \A x, y \in secs : x \in before[y] <=> Cardinality(before[x]) < Cardinality(before[y])
      /\ \A i \in 1..Cardinality(secs) : \E x \in secs : Cardinality(before[x]) = i - 1
  BY <1>1, <1>4, <1>5, <1>6, <1>7, RanksAreTaken
<1>9. /\ f \in [1..Cardinality(secs) -> secs]
      /\ \A i \in 1..Cardinality(secs) : Cardinality(before[f[i]]) = i - 1
  <2> SUFFICES ASSUME NEW i \in 1..Cardinality(secs) PROVE f[i] \in secs /\ Cardinality(before[f[i]]) = i - 1
    BY <1>3
  <2>1. f[i] = CHOOSE x \in secs : Cardinality({y \in secs : Earlier(y, x)}) = i - 1
    BY <1>3
  <2>2. \E x \in secs : Cardinality({y \in secs : Earlier(y, x)}) = i - 1
    <3>1. PICK x \in secs : Cardinality(before[x]) = i - 1
      BY <1>8
    <3> QED BY <1>4, <3>1
  <2>3. f[i] \in secs /\ Cardinality({y \in secs : Earlier(y, f[i])}) = i - 1
    BY ONLY <2>1, <2>2
  <2> QED BY <1>4, <2>3
<1>10. /\ f \in Seq(secs) /\ Len(f) = Cardinality(secs) /\ DOMAIN f = 1..Len(f) /\ Len(f) \in Nat
       /\ \A x \in secs : \E i \in DOMAIN f : f[i] = x
       /\ \A i, j \in DOMAIN f : i < j => f[i] \in before[f[j]]
  BY <1>1, <1>4, <1>7, <1>8, <1>9, RankingLists
<1>11. ASSUME NEW i \in DOMAIN f, NEW j \in DOMAIN f, i < j PROVE Earlier(f[i], f[j])
  <2>1. f[i] \in before[f[j]] /\ f[j] \in secs
    BY <1>10, <1>11
  <2> QED BY <1>4, <2>1
<1> QED BY <1>10, <1>11 DEF f

\* by the number of its first row, each session has a place
LEMMA SessionsHavePlaces ==
    ASSUME QueryTypeOK
    PROVE  Order \in Seq(Sid)
<1> DEFINE S == {rows[i].s : i \in DOMAIN rows}
           before == [x \in S |-> {y \in S : Sooner(y, x)}]
<1>1. rows \in Seq([s : Sid, archive : BOOLEAN]) /\ DOMAIN rows = 1..Len(rows) /\ Len(rows) \in Nat
  BY DEF QueryTypeOK
<1>2. S \subseteq Sid
  <2>1. \A i \in 1..Len(rows) : rows[i] \in [s : Sid, archive : BOOLEAN]
    BY <1>1, ElementOfSeq
  <2> QED BY <1>1, <2>1
<1>3. IsFiniteSet(S)
  <2> DEFINE g == [i \in 1..Len(rows) |-> rows[i].s]
  <2>1. g \in Surjection(1..Len(rows), S)
    BY <1>1 DEF Surjection
  <2>2. IsFiniteSet(1..Len(rows))
    BY <1>1, FS_Interval
  <2> HIDE DEF g, S
  <2> QED BY <2>1, <2>2, FS_Surjection
<1>4. ASSUME NEW x \in S PROVE First(x) \in DOMAIN rows /\ rows[First(x)].s = x
  <2> DEFINE P == {i \in DOMAIN rows : rows[i].s = x}
  <2>1. P \in SUBSET Nat /\ P # {}
    BY <1>1
  <2> HIDE DEF P
  <2>2. PICK i \in P : \A j \in P : i <= j
    BY <2>1, LeastNatural
  <2> USE DEF P
  <2>3. i \in DOMAIN rows /\ rows[i].s = x /\ \A k \in 1..i - 1 : rows[k].s # x
    <3> SUFFICES ASSUME NEW k \in 1..i - 1, rows[k].s = x PROVE FALSE
      BY <2>2
    <3>1. k \in P /\ ~(i <= k)
      BY <1>1, <2>2
    <3> QED BY <2>2, <3>1
  <2> HIDE DEF P
  <2> QED BY <2>3 DEF First
<1>5. \A x, y \in S : First(x) \in Int /\ (x # y => First(x) # First(y))
  BY <1>1, <1>4
<1> HIDE DEF S
<1>6. Order = [i \in 1..Cardinality(S) |-> CHOOSE x \in S : Cardinality({y \in S : Sooner(y, x)}) = i - 1]
  BY DEF Order, ListedBy, S
<1>7. before \in [S -> SUBSET S] /\ \A x \in S : before[x] = {y \in S : Sooner(y, x)}
  OBVIOUS
<1>8. \A x \in S : x \notin before[x]
  BY <1>5 DEF Sooner
<1>9. \A x, y \in S : x \in before[y] => before[x] \subseteq before[y]
  BY <1>5 DEF Sooner
<1>10. \A x, y \in S : x # y => x \in before[y] \/ y \in before[x]
  BY <1>5 DEF Sooner
<1> DEFINE f == Order
<1> HIDE DEF before, f
<1>11. /\ \A x \in S : Cardinality(before[x]) \in 0..Cardinality(S) - 1
       /\ \A x, y \in S : x \in before[y] <=> Cardinality(before[x]) < Cardinality(before[y])
       /\ \A i \in 1..Cardinality(S) : \E x \in S : Cardinality(before[x]) = i - 1
  BY <1>3, <1>7, <1>8, <1>9, <1>10, RanksAreTaken
<1>12. /\ f \in [1..Cardinality(S) -> S]
       /\ \A i \in 1..Cardinality(S) : Cardinality(before[f[i]]) = i - 1
  <2> SUFFICES ASSUME NEW i \in 1..Cardinality(S) PROVE f[i] \in S /\ Cardinality(before[f[i]]) = i - 1
    BY <1>6 DEF f
  <2>1. f[i] = CHOOSE x \in S : Cardinality({y \in S : Sooner(y, x)}) = i - 1
    BY <1>6 DEF f
  <2>2. \E x \in S : Cardinality({y \in S : Sooner(y, x)}) = i - 1
    <3>1. PICK x \in S : Cardinality(before[x]) = i - 1
      BY <1>11
    <3> QED BY <1>7, <3>1
  <2>3. f[i] \in S /\ Cardinality({y \in S : Sooner(y, f[i])}) = i - 1
    BY ONLY <2>1, <2>2
  <2> QED BY <1>7, <2>3
<1>13. f \in Seq(S)
  BY <1>3, <1>7, <1>10, <1>11, <1>12, RankingLists
<1> QED BY <1>2, <1>13 DEF f

\* a hit is known by its session's place and its section's name
LEMMA HitsAreListed ==
    ASSUME QueryTypeOK, SearchInv, query.pc = "search"
    PROVE  LET f == ListedBy(query.hits, Before) IN
           /\ f \in Seq(query.hits) /\ DOMAIN f = 1..Len(f) /\ Len(f) \in Nat
           /\ \A h \in query.hits : \E i \in DOMAIN f : f[i] = h
           /\ \A i, j \in DOMAIN f : i < j => Before(f[i], f[j])
<1> DEFINE S == query.hits
           f == ListedBy(S, Before)
           before == [h \in S |-> {g \in S : Before(g, h)}]
<1>1. query \in Searches
  BY DEF QueryTypeOK, NoQuery, WhyAnswers, Resumes
<1>2. S \subseteq Hit /\ query.order \in Seq(Sid) /\ Len(query.order) \in Nat
  BY <1>1 DEF Searches
<1>3. /\ \A h \in S : h.idx \in 1..Len(query.order) /\ h.sec \in Section
      /\ \A h, g \in S : h.idx = g.idx /\ h.sec.name = g.sec.name => h = g
  BY <1>2 DEF SearchInv, Hit
<1> HIDE DEF S
<1>4. IsFiniteSet(S)
  <2> DEFINE T == (1..Len(query.order)) \X Section
             m == [h \in S |-> <<h.idx, h.sec>>]
  <2>1. IsFiniteSet(T)
    <3>1. IsFiniteSet(1..Len(query.order)) /\ IsFiniteSet(Section)
      BY <1>2, FS_Interval, QueryAssumption
    <3> QED BY <3>1, FS_Product
  <2>2. m \in Injection(S, T)
    BY <1>3 DEF Injection, IsInjective
  <2> HIDE DEF T, m
  <2> QED BY <2>1, <2>2, FS_Injection
<1>5. \A h \in S : h.idx \in Int /\ h.sec.tier \in Int /\ h.sec.turn \in Int /\ h.sec.name \in Int
  BY <1>2, <1>3, QueryAssumption
<1>6. f = [i \in 1..Cardinality(S) |-> CHOOSE h \in S : Cardinality({g \in S : Before(g, h)}) = i - 1]
  BY DEF ListedBy
<1>7. before \in [S -> SUBSET S] /\ \A h \in S : before[h] = {g \in S : Before(g, h)}
  OBVIOUS
<1>8. \A h \in S : h \notin before[h]
  BY <1>5 DEF Before, Earlier
<1>9. \A h, g \in S : h \in before[g] => before[h] \subseteq before[g]
  <2> SUFFICES ASSUME NEW g \in S, NEW h \in S, NEW k \in S, Before(k, h), Before(h, g) PROVE Before(k, g)
    BY <1>7
  <2> QED BY <1>5 DEF Before, Earlier
<1>10. \A h, g \in S : h # g => h \in before[g] \/ g \in before[h]
  <2> SUFFICES ASSUME NEW h \in S, NEW g \in S, ~Before(h, g), ~Before(g, h) PROVE h = g
    BY <1>7
  <2>1. h.idx = g.idx /\ h.sec.name = g.sec.name
    BY <1>5 DEF Before, Earlier
  <2> QED BY <1>3, <2>1
<1> HIDE DEF f, before
<1>11. /\ \A h \in S : Cardinality(before[h]) \in 0..Cardinality(S) - 1
       /\ \A h, g \in S : h \in before[g] <=> Cardinality(before[h]) < Cardinality(before[g])
       /\ \A i \in 1..Cardinality(S) : \E h \in S : Cardinality(before[h]) = i - 1
  BY <1>4, <1>7, <1>8, <1>9, <1>10, RanksAreTaken
<1>12. /\ f \in [1..Cardinality(S) -> S]
       /\ \A i \in 1..Cardinality(S) : Cardinality(before[f[i]]) = i - 1
  <2> SUFFICES ASSUME NEW i \in 1..Cardinality(S) PROVE f[i] \in S /\ Cardinality(before[f[i]]) = i - 1
    BY <1>6
  <2>1. f[i] = CHOOSE h \in S : Cardinality({g \in S : Before(g, h)}) = i - 1
    BY <1>6
  <2>2. \E h \in S : Cardinality({g \in S : Before(g, h)}) = i - 1
    <3>1. PICK h \in S : Cardinality(before[h]) = i - 1
      BY <1>11
    <3> QED BY <1>7, <3>1
  <2>3. f[i] \in S /\ Cardinality({g \in S : Before(g, f[i])}) = i - 1
    BY ONLY <2>1, <2>2
  <2> QED BY <1>7, <2>3
<1>13. /\ f \in Seq(S) /\ Len(f) = Cardinality(S) /\ DOMAIN f = 1..Len(f) /\ Len(f) \in Nat
       /\ \A h \in S : \E i \in DOMAIN f : f[i] = h
       /\ \A i, j \in DOMAIN f : i < j => f[i] \in before[f[j]]
  <2>1. before \in [S -> SUBSET S] /\ f \in [1..Cardinality(S) -> S]
    BY <1>7, <1>12
  <2>2. /\ \A x \in S : Cardinality(before[x]) \in 0..Cardinality(S) - 1
        /\ \A x, y \in S : x \in before[y] <=> Cardinality(before[x]) < Cardinality(before[y])
        /\ \A i \in 1..Cardinality(S) : Cardinality(before[f[i]]) = i - 1
    BY <1>11, <1>12
  <2> QED BY ONLY <1>4, <1>10, <2>1, <2>2, RankingLists
<1>14. ASSUME NEW i \in DOMAIN f, NEW j \in DOMAIN f, i < j PROVE Before(f[i], f[j])
  <2>1. f[i] \in before[f[j]] /\ f[j] \in S
    BY <1>13, <1>14
  <2> QED BY <1>7, <2>1
<1> QED BY <1>13, <1>14 DEF f, S

\* resume resolves to the session whose gist is there, when there is one
LEMMA LastRowResolves ==
    ASSUME QueryTypeOK, LiveGistInv, rows # <<>>
    PROVE  Resolved \in Sid /\ latestGist \in {NoSid, Resolved}
<1>1. rows \in Seq([s : Sid, archive : BOOLEAN]) /\ DOMAIN rows = 1..Len(rows) /\ Len(rows) \in Nat /\ Len(rows) # 0
  BY DEF QueryTypeOK
<1>2. ASSUME NEW S \in SUBSET DOMAIN rows, S # {} PROVE rows[LastOf(S)].s \in Sid
  <2>1. \E i \in S : \A j \in S : j <= i
    BY <1>1, <1>2, GreatestPosition
  <2>2. LastOf(S) \in S
    BY <2>1 DEF LastOf
  <2>3. \A i \in DOMAIN rows : rows[i] \in [s : Sid, archive : BOOLEAN]
    BY <1>1, ElementOfSeq
  <2>4. rows[LastOf(S)] \in [s : Sid, archive : BOOLEAN]
    BY <2>2, <2>3
  <2> QED BY <2>4
<1>3. DOMAIN rows # {} /\ LiveRows \subseteq DOMAIN rows
  <2>1. 1 \in DOMAIN rows
    BY <1>1
  <2> QED BY <2>1 DEF LiveRows
<1>4. Resolved = rows[LastOf(IF LiveRows = {} THEN DOMAIN rows ELSE LiveRows)].s
  BY DEF Resolved, LiveRows
<1>5. Resolved \in Sid
  BY <1>2, <1>3, <1>4
<1>6. latestGist \in {NoSid, Resolved}
  BY <1>4 DEF LiveGistInv
<1> QED BY <1>5, <1>6

\* whatever changes one ledger spoils no answer and is noticed by a query in progress
LEMMA ChangesAreSeen ==
    ASSUME QueryTypeOK, QueryInv, NEW s \in Sid, NEW d \in SessionDoc, NamesApart(d.secs), Changes(s, d)
    PROVE  /\ doc' \in [Sid -> SessionDoc] /\ LedgersInv'
           /\ (query \in {NoQuery} \cup Searches \cup WhyAnswers \cup Resumes \cup [pc : {"done"}, what : {"error"}])'
           /\ SearchInv' /\ ResumeInv' /\ FoundThroughout' /\ SameAsSingle' /\ ResumeIsOneSession'
<1>1. doc' = [doc EXCEPT ![s] = d] /\ query' = Touched(s) /\ doc \in [Sid -> SessionDoc]
  BY DEF Changes, QueryTypeOK
<1>2. doc' \in [Sid -> SessionDoc]
  BY <1>1
<1>3. LedgersInv'
  BY <1>1 DEF LedgersInv, NamesApart, QueryInv
<1>4. CASE query.pc = "search"
  <2>1. query \in Searches
    BY <1>4 DEF QueryTypeOK, NoQuery, WhyAnswers, Resumes
  <2>2. query' = [query EXCEPT !.touched = @ \cup {s}]
    BY <1>1, <1>4 DEF Touched
  <2>3. /\ query' \in Searches /\ query'.pc = "search" /\ query'.order = query.order /\ query'.next = query.next
        /\ query'.hits = query.hits /\ query'.was = query.was /\ query'.touched = query.touched \cup {s}
    BY <2>1, <2>2 DEF Searches
  <2>4. SearchInv'
    <3>1. SearchInv
      BY DEF QueryInv
    <3>2. \A t \in Sid \ query'.touched : doc'[t] = query'.was[t]
      BY <1>1, <1>4, <2>3, <3>1 DEF SearchInv
    <3> QED BY <1>4, <2>3, <3>1, <3>2 DEF SearchInv
  <2>5. ResumeInv' /\ FoundThroughout' /\ SameAsSingle' /\ ResumeIsOneSession'
    BY <2>3 DEF ResumeInv, FoundThroughout, SameAsSingle, ResumeIsOneSession, Replied
  <2> QED BY <1>2, <1>3, <2>3, <2>4, <2>5
<1>5. CASE query.pc = "gist"
  <2>1. query \in [pc : {"gist"}, sid : Sid, touched : SUBSET Sid]
    BY <1>5 DEF QueryTypeOK, NoQuery, WhyAnswers, Resumes, Searches
  <2>2. query' = [query EXCEPT !.touched = @ \cup {s}]
    BY <1>1, <1>5 DEF Touched
  <2>3. query' \in [pc : {"gist"}, sid : Sid, touched : SUBSET Sid] /\ query'.pc = "gist" /\ s \in query'.touched
    BY <2>1, <2>2
  <2>4. SearchInv' /\ ResumeInv' /\ FoundThroughout' /\ SameAsSingle' /\ ResumeIsOneSession'
    BY <2>3 DEF SearchInv, ResumeInv, FoundThroughout, SameAsSingle, ResumeIsOneSession, Replied
  <2> QED BY <1>2, <1>3, <2>3, <2>4 DEF Resumes
<1>6. CASE query.pc \notin {"search", "gist"}
  <2>1. query' = query
    BY <1>1, <1>6 DEF Touched
  <2>2. SearchInv' /\ ResumeInv'
    BY <1>6, <2>1 DEF SearchInv, ResumeInv
  <2>3. FoundThroughout' /\ SameAsSingle' /\ ResumeIsOneSession'
    BY <2>1 DEF QueryInv, FoundThroughout, SameAsSingle, ResumeIsOneSession, Replied, MatchSet
  <2> QED BY <1>2, <1>3, <2>1, <2>2, <2>3 DEF QueryTypeOK
<1> QED BY <1>4, <1>5, <1>6

LEMMA QueryRepack ==
    ASSUME QueryTypeOK, QueryInv, NEW s \in Sid, NEW secs \in SUBSET Section, NEW late \in BOOLEAN,
           Repack(s, secs, late)
    PROVE  QueryTypeOK' /\ QueryInv'
<1> DEFINE row == [s |-> s, archive |-> late]
           n == Len(rows)
<1>1. NamesApart(secs) /\ Changes(s, Good(secs)) /\ rows' = Append(rows, row)
      /\ latestGist' = IF late THEN latestGist ELSE s
  BY DEF Repack, NamesApart
<1>2. Good(secs) \in SessionDoc /\ NamesApart(Good(secs).secs)
  BY <1>1 DEF Good, SessionDoc, NamesApart
<1>3. rows \in Seq([s : Sid, archive : BOOLEAN]) /\ n \in Nat /\ DOMAIN rows = 1..n
  BY DEF QueryTypeOK
<1>4. /\ rows' \in Seq([s : Sid, archive : BOOLEAN]) /\ DOMAIN rows' = 1..n + 1
      /\ \A i \in 1..n : rows'[i] = rows[i]
      /\ rows'[n + 1] = row
  BY <1>1, <1>3
<1> HIDE DEF n
<1>5. LiveGistInv'
  <2>1. CASE late
    <3>1. LiveRows' = LiveRows
      BY <1>3, <1>4, <2>1 DEF LiveRows
    <3>2. CASE LiveRows = {}
      BY <1>1, <2>1, <3>1, <3>2 DEF QueryInv, LiveGistInv
    <3>3. CASE LiveRows # {}
      <4>1. \E i \in LiveRows : \A j \in LiveRows : j <= i
        BY <1>3, <3>3, GreatestPosition DEF LiveRows
      <4>2. LastOf(LiveRows) \in 1..n
        BY <1>3, <4>1 DEF LastOf, LiveRows
      <4>3. LastOf(LiveRows') = LastOf(LiveRows)
        BY <3>1
      <4> QED BY <1>1, <1>4, <2>1, <3>1, <3>3, <4>2, <4>3 DEF QueryInv, LiveGistInv
    <3> QED BY <3>2, <3>3
  <2>2. CASE ~late
    <3>1. n + 1 \in LiveRows' /\ LiveRows' \subseteq 1..n + 1
      BY <1>3, <1>4, <2>2 DEF LiveRows
    <3>2. \E i \in LiveRows' : \A k \in LiveRows' : k <= i
      BY <1>3, <3>1
    <3>3. LastOf(LiveRows') \in LiveRows' /\ \A k \in LiveRows' : k <= LastOf(LiveRows')
      BY <3>2 DEF LastOf
    <3>4. LastOf(LiveRows') = n + 1
      <4>1. \A i \in 1..n + 1 : n + 1 <= i => i = n + 1
        BY <1>3
      <4> QED BY <3>1, <3>3, <4>1
    <3>5. LiveRows' # {} /\ rows'[n + 1].s = s /\ latestGist' = s
      <4>1. rows'[n + 1] = row /\ row.s = s
        BY <1>4
      <4>2. LiveRows' # {}
        BY <3>1
      <4>3. latestGist' = s
        BY <1>1, <2>2
      <4> QED BY <4>1, <4>2, <4>3
    <3> QED BY <3>4, <3>5 DEF LiveGistInv
  <2> QED BY <2>1, <2>2
<1>6. latestGist' \in Sid \cup {NoSid}
  BY <1>1 DEF QueryTypeOK
<1> QED BY <1>1, <1>2, <1>4, <1>5, <1>6, ChangesAreSeen DEF QueryTypeOK, QueryInv

LEMMA QueryDamage ==
    ASSUME QueryTypeOK, QueryInv, NEW s \in Sid, Spoil(s) \/ Prune(s)
    PROVE  QueryTypeOK' /\ QueryInv'
<1>1. PICK d \in {BadDoc, AbsentDoc} : Changes(s, d)
  BY DEF Spoil, Prune
<1>2. d \in SessionDoc /\ NamesApart(d.secs)
  BY DEF BadDoc, AbsentDoc, SessionDoc, NamesApart
<1>3. UNCHANGED <<rows, latestGist>>
  BY DEF Spoil, Prune
<1>4. LiveGistInv'
  BY <1>3 DEF QueryInv, LiveGistInv, LiveRows, LastOf
<1> QED BY <1>1, <1>2, <1>3, <1>4, ChangesAreSeen DEF QueryTypeOK, QueryInv

LEMMA QueryBegins ==
    ASSUME QueryTypeOK, QueryInv, WhyBegins
    PROVE  QueryTypeOK' /\ QueryInv'
<1> DEFINE q == [pc |-> "search", order |-> Order, next |-> 1, hits |-> {}, read |-> {},
                 was |-> doc, touched |-> {}]
<1>1. query' = q /\ UNCHANGED <<doc, rows, latestGist>>
  BY DEF WhyBegins, Ask
<1>2. Order \in Seq(Sid) /\ Len(Order) \in Nat
  BY SessionsHavePlaces
<1>3. q \in Searches
  BY <1>2 DEF QueryTypeOK, Searches
<1>4. /\ query'.pc = "search" /\ query'.next = 1 /\ query'.hits = {} /\ query'.was = doc
      /\ query'.touched = {} /\ query'.order = Order
  BY <1>1
<1>5. SearchInv'
  BY <1>1, <1>2, <1>4 DEF SearchInv
<1>6. LedgersInv' /\ LiveGistInv'
  BY <1>1 DEF QueryInv, LedgersInv, NamesApart, LiveGistInv, LiveRows, LastOf
<1>7. ResumeInv' /\ FoundThroughout' /\ SameAsSingle' /\ ResumeIsOneSession'
  BY <1>4 DEF ResumeInv, FoundThroughout, SameAsSingle, ResumeIsOneSession, Replied
<1> QED BY <1>1, <1>3, <1>5, <1>6, <1>7 DEF QueryTypeOK, QueryInv

LEMMA QueryReads ==
    ASSUME QueryTypeOK, QueryInv, WhyReads
    PROVE  QueryTypeOK' /\ QueryInv'
<1> DEFINE i == query.next
           s == query.order[query.next]
           found == {[s |-> s, idx |-> i, sec |-> x] : x \in Matches(doc[s].secs)}
<1>1. query.pc = "search" /\ query.next <= Len(query.order) /\ UNCHANGED <<doc, rows, latestGist>>
  BY DEF WhyReads
<1>2. query \in Searches
  BY <1>1 DEF QueryTypeOK, NoQuery, WhyAnswers, Resumes
<1>3. /\ SearchInv /\ query.order \in Seq(Sid) /\ Len(query.order) \in Nat /\ i \in 1..Len(query.order)
      /\ query.hits \subseteq Hit /\ query.was \in [Sid -> SessionDoc]
  BY <1>1, <1>2 DEF QueryInv, SearchInv, Searches
<1>4. s \in Sid /\ doc[s] \in SessionDoc /\ doc[s].secs \subseteq Section /\ NamesApart(doc[s].secs)
  BY <1>3 DEF QueryTypeOK, SessionDoc, QueryInv, LedgersInv
<1>5. LedgersInv' /\ LiveGistInv'
  BY <1>1 DEF QueryInv, LedgersInv, NamesApart, LiveGistInv, LiveRows, LastOf
<1>6. CASE doc[s].is # "good"
  <2>1. query' = [query EXCEPT !.next = i + 1]
    BY <1>6 DEF WhyReads, NextAfterSkip
  <2>2. /\ query' \in Searches /\ query'.pc = "search" /\ query'.next = i + 1 /\ query'.order = query.order
        /\ query'.hits = query.hits /\ query'.was = query.was /\ query'.touched = query.touched
    BY <1>2, <2>1 DEF Searches
  <2>3. query.order[i] \notin query.touched => query.was[query.order[i]].is # "good"
    BY <1>1, <1>3, <1>4, <1>6 DEF SearchInv
  <2>4. \A j \in 1..i : j \in 1..i - 1 \/ j = i
    BY <1>3
  <2>5. SearchInv'
    <3>1. query'.next \in 1..Len(query'.order) + 1 /\ \A h \in query'.hits : h.idx \in 1..query'.next - 1
      BY <1>1, <1>3, <2>2 DEF SearchInv
    <3>2. query'.next - 1 = i
      BY <1>3, <2>2
    <3> QED BY <1>1, <1>3, <2>2, <2>3, <2>4, <3>1, <3>2 DEF SearchInv
  <2>6. ResumeInv' /\ FoundThroughout' /\ SameAsSingle' /\ ResumeIsOneSession'
    BY <2>2 DEF ResumeInv, FoundThroughout, SameAsSingle, ResumeIsOneSession, Replied
  <2> QED BY <1>1, <1>5, <2>2, <2>5, <2>6 DEF QueryTypeOK, QueryInv
<1>7. CASE doc[s].is = "good"
  <2>1. query' = [query EXCEPT !.next = @ + 1, !.read = @ \cup {s}, !.hits = @ \cup found]
    BY <1>7 DEF WhyReads
  <2>2. found \subseteq Hit
    BY <1>3, <1>4 DEF Hit, Matches
  <2> HIDE DEF found
  <2>3. /\ query' \in Searches /\ query'.pc = "search" /\ query'.next = i + 1 /\ query'.order = query.order
        /\ query'.hits = query.hits \cup found /\ query'.was = query.was /\ query'.touched = query.touched
    <3>1. /\ query' = [query EXCEPT !.next = i + 1, !.read = query.read \cup {s}, !.hits = query.hits \cup found]
          /\ query.read \cup {s} \subseteq Sid /\ query.hits \cup found \subseteq Hit /\ i + 1 \in Nat
      BY <1>2, <1>3, <1>4, <2>1, <2>2 DEF Searches
    <3> QED BY <1>2, <3>1 DEF Searches
  <2>4. \A h \in found : h.s = s /\ h.idx = i /\ h.sec \in Matches(doc[s].secs) /\ h = [s |-> s, idx |-> i, sec |-> h.sec]
    BY DEF found
  <2>5. \A x \in Matches(doc[s].secs) : [s |-> s, idx |-> i, sec |-> x] \in found
    BY DEF found
  <2>6. s \notin query.touched => doc[s] = query.was[s]
    BY <1>1, <1>3, <1>4 DEF SearchInv
  <2>7. \A h \in query.hits : /\ h.idx \in 1..i - 1 /\ h.s = query.order[h.idx]
                              /\ h.s \notin query.touched => h.sec \in Matches(query.was[h.s].secs)
    BY <1>1, <1>3 DEF SearchInv
  <2>8. SearchInv'
    <3>1. query'.next \in 1..Len(query'.order) + 1 /\ query'.next - 1 = i
      BY <1>3, <2>3
    <3>2. \A t \in Sid \ query'.touched : doc'[t] = query'.was[t]
      BY <1>1, <1>3, <2>3 DEF SearchInv
    <3>3. ASSUME NEW h \in query'.hits
          PROVE  /\ h.idx \in 1..i /\ h.s = query.order[h.idx]
                 /\ h.s \notin query.touched => h.sec \in Matches(query.was[h.s].secs)
      <4>1. CASE h \in query.hits
        BY <1>3, <2>7, <4>1
      <4>2. CASE h \in found
        BY <1>3, <2>4, <2>6, <4>2
      <4> QED BY <2>3, <4>1, <4>2
    <3>4. ASSUME NEW h \in query'.hits, NEW g \in query'.hits, h.idx = g.idx, h.sec.name = g.sec.name
          PROVE  h = g
      <4>1. CASE h \in query.hits /\ g \in query.hits
        BY <1>1, <1>3, <3>4, <4>1 DEF SearchInv
      <4>2. CASE h \in found /\ g \in found
        <5>1. h.sec \in doc[s].secs /\ g.sec \in doc[s].secs
          BY <2>4, <4>2 DEF Matches
        <5>2. h.sec = g.sec
          BY <1>4, <3>4, <5>1 DEF NamesApart
        <5> QED BY <2>4, <4>2, <5>2
      <4>3. \A k \in query.hits, f \in found : k.idx # f.idx
        BY <1>3, <2>4, <2>7
      <4> QED BY <2>3, <3>4, <4>1, <4>2, <4>3
    <3>5. ASSUME NEW j \in 1..i, query.order[j] \notin query.touched, query.was[query.order[j]].is = "good",
                 NEW x \in Matches(query.was[query.order[j]].secs)
          PROVE  [s |-> query.order[j], idx |-> j, sec |-> x] \in query'.hits
      <4>1. CASE j \in 1..i - 1
        BY <1>1, <1>3, <2>3, <3>5, <4>1 DEF SearchInv
      <4>2. CASE j = i
        BY <2>3, <2>5, <2>6, <3>5, <4>2
      <4> QED BY <1>3, <4>1, <4>2
    <3> QED BY <2>3, <3>1, <3>2, <3>3, <3>4, <3>5 DEF SearchInv
  <2>9. ResumeInv' /\ FoundThroughout' /\ SameAsSingle' /\ ResumeIsOneSession'
    BY <2>3 DEF ResumeInv, FoundThroughout, SameAsSingle, ResumeIsOneSession, Replied
  <2> QED BY <1>1, <1>5, <2>3, <2>8, <2>9 DEF QueryTypeOK, QueryInv
<1> QED BY <1>6, <1>7

LEMMA QueryReplies ==
    ASSUME QueryTypeOK, QueryInv, WhyReplies
    PROVE  QueryTypeOK' /\ QueryInv'
<1> DEFINE ranked == ListedBy(query.hits, Before)
           k == IF Len(ranked) < WhyMax THEN Len(ranked) ELSE WhyMax
           kept == SubSeq(ranked, 1, k)
<1>1. query.pc = "search" /\ query.next > Len(query.order) /\ UNCHANGED <<doc, rows, latestGist>>
  BY DEF WhyReplies
<1>2. query \in Searches
  BY <1>1 DEF QueryTypeOK, NoQuery, WhyAnswers, Resumes
<1>3. /\ SearchInv /\ query.order \in Seq(Sid) /\ Len(query.order) \in Nat /\ query.hits \subseteq Hit
      /\ query.was \in [Sid -> SessionDoc] /\ query.touched \subseteq Sid /\ query.read \subseteq Sid
  BY <1>2 DEF QueryInv, Searches
<1>4. /\ ranked \in Seq(query.hits) /\ DOMAIN ranked = 1..Len(ranked) /\ Len(ranked) \in Nat
      /\ \A h \in query.hits : \E i \in DOMAIN ranked : ranked[i] = h
      /\ \A i, j \in DOMAIN ranked : i < j => Before(ranked[i], ranked[j])
  BY <1>1, <1>3, HitsAreListed
<1>5. query' = [pc |-> "done", what |-> "why", found |-> query.hits # {}, matches |-> kept,
                conflict |-> \E i \in DOMAIN kept : kept[i].sec.fact \in Forked,
                truncated |-> Len(ranked) > WhyMax, searched |-> Len(query.order),
                order |-> Members(query.order), read |-> query.read,
                was |-> query.was, touched |-> query.touched]
  BY DEF WhyReplies
<1> HIDE DEF ranked
<1>6. k \in Nat /\ k <= Len(ranked) /\ (k < Len(ranked) => Len(ranked) > WhyMax)
  BY <1>4, QueryAssumption
<1>7. /\ kept \in Seq(query.hits) /\ DOMAIN kept = 1..k /\ Len(kept) = k
      /\ \A i \in 1..k : kept[i] = ranked[i] /\ ranked[i] \in query.hits
  BY <1>4, <1>6, FrontIsKept
<1>8. kept \in Seq(Hit)
  <2> HIDE DEF kept, k
  <2>1. kept \in [1..k -> Hit]
    BY <1>3, <1>6, <1>7
  <2> QED BY <1>6, <2>1
<1> HIDE DEF kept, k
<1>9. Members(query.order) \subseteq Sid
  BY <1>3 DEF Members
<1>10. query' \in WhyAnswers
  BY <1>3, <1>4, <1>5, <1>8, <1>9, QueryAssumption DEF WhyAnswers
<1>11. /\ query'.pc = "done" /\ query'.what = "why" /\ query'.matches = kept /\ query'.was = query.was
       /\ query'.touched = query.touched /\ query'.order = Members(query.order)
       /\ query'.truncated = (Len(ranked) > WhyMax)
  BY <1>5
<1>12. MatchSet' = {[s |-> kept[i].s, sec |-> kept[i].sec] : i \in 1..k}
  BY <1>7, <1>11 DEF MatchSet
<1>13. ASSUME NEW m \in MatchSet'
       PROVE  \E i \in 1..k : m.s = ranked[i].s /\ m.sec = ranked[i].sec /\ ranked[i] \in query.hits
  BY <1>7, <1>12
<1>14. FoundThroughout'
  <2> SUFFICES ASSUME NEW s \in Members(query.order) \ query.touched, query.was[s].is = "good",
                      NEW x \in query.was[s].secs, x.tier = Best(query.was[s].secs), x.tier # NoMatch
               PROVE  \/ [s |-> s, sec |-> x] \in MatchSet'
                      \/ Len(ranked) > WhyMax /\ \A m \in MatchSet' : m.sec.tier <= x.tier
    BY <1>11 DEF FoundThroughout, Best
  <2>1. PICK i \in DOMAIN query.order : query.order[i] = s
    BY DEF Members
  <2>2. i \in 1..query.next - 1
    BY <1>1, <1>2, <1>3 DEF Searches
  <2>3. x \in Matches(query.was[s].secs)
    BY DEF Matches
  <2> DEFINE h == [s |-> s, idx |-> i, sec |-> x]
  <2>4. h \in query.hits
    BY <1>1, <1>3, <2>1, <2>2, <2>3 DEF SearchInv
  <2>5. PICK j \in DOMAIN ranked : ranked[j] = h
    BY <1>4, <2>4
  <2>6. CASE j <= k
    <3>1. j \in 1..k /\ kept[j] = h
      BY <1>4, <1>7, <2>5, <2>6
    <3> QED BY <1>12, <3>1
  <2>7. CASE j > k
    <3>1. Len(ranked) > WhyMax
      BY <1>4, <1>6, <2>7
    <3>2. ASSUME NEW m \in MatchSet' PROVE m.sec.tier <= x.tier
      <4>1. PICK n \in 1..k : m.sec = ranked[n].sec /\ ranked[n] \in query.hits
        BY <1>13
      <4>2. Before(ranked[n], h)
        BY <1>4, <1>6, <2>5, <2>7, <4>1
      <4>3. ranked[n].sec.tier \in Int /\ h.sec.tier \in Int
        BY <1>3, <2>4, <4>1, QueryAssumption DEF Hit
      <4> QED BY <4>1, <4>2, <4>3 DEF Before
    <3> QED BY <3>1, <3>2
  <2> QED BY <1>4, <1>6, <2>6, <2>7
<1>15. SameAsSingle'
  <2> SUFFICES ASSUME NEW m \in MatchSet', m.s \notin query.touched
               PROVE  m.sec \in query.was[m.s].secs /\ m.sec.tier = Best(query.was[m.s].secs)
    BY <1>11 DEF SameAsSingle, Best
  <2>1. PICK i \in 1..k : m.s = ranked[i].s /\ m.sec = ranked[i].sec /\ ranked[i] \in query.hits
    BY <1>13
  <2>2. m.sec \in Matches(query.was[m.s].secs)
    BY <1>1, <1>3, <2>1 DEF SearchInv
  <2> QED BY <2>2 DEF Matches
<1>16. LedgersInv' /\ LiveGistInv'
  BY <1>1 DEF QueryInv, LedgersInv, NamesApart, LiveGistInv, LiveRows, LastOf
<1>17. SearchInv' /\ ResumeInv' /\ ResumeIsOneSession'
  BY <1>11 DEF SearchInv, ResumeInv, ResumeIsOneSession, Replied
<1> QED BY <1>1, <1>10, <1>14, <1>15, <1>16, <1>17 DEF QueryTypeOK, QueryInv

LEMMA QueryResumes ==
    ASSUME QueryTypeOK, QueryInv, ResumeLoads \/ ResumeReplies
    PROVE  QueryTypeOK' /\ QueryInv'
<1>1. UNCHANGED <<doc, rows, latestGist>>
  BY DEF ResumeLoads, ResumeReplies, Ask
<1>2. LedgersInv' /\ LiveGistInv'
  BY <1>1 DEF QueryInv, LedgersInv, NamesApart, LiveGistInv, LiveRows, LastOf
<1>3. CASE ResumeLoads
  <2>1. Resolved \in Sid /\ latestGist \in {NoSid, Resolved}
    BY <1>3, LastRowResolves DEF ResumeLoads, QueryInv
  <2>2. CASE query' = [pc |-> "gist", sid |-> Resolved, touched |-> {}]
    <3>1. query' \in Resumes
      BY <2>1, <2>2 DEF Resumes
    <3>2. query'.pc = "gist" /\ query'.sid = Resolved
      BY <2>2
    <3>3. ResumeInv'
      BY <1>1, <2>1, <3>2 DEF ResumeInv
    <3>4. SearchInv' /\ FoundThroughout' /\ SameAsSingle' /\ ResumeIsOneSession'
      BY <3>2 DEF SearchInv, FoundThroughout, SameAsSingle, ResumeIsOneSession, Replied
    <3> QED BY <1>1, <1>2, <3>1, <3>3, <3>4 DEF QueryTypeOK, QueryInv
  <2>3. CASE query' = [pc |-> "done", what |-> "error"]
    <3>1. query'.pc = "done" /\ query'.what = "error"
      BY <2>3
    <3>2. ResumeInv' /\ SearchInv' /\ FoundThroughout' /\ SameAsSingle' /\ ResumeIsOneSession'
      BY <3>1 DEF ResumeInv, SearchInv, FoundThroughout, SameAsSingle, ResumeIsOneSession, Replied
    <3> QED BY <1>1, <1>2, <2>3, <3>2 DEF QueryTypeOK, QueryInv
  <2> QED BY <1>3, <2>2, <2>3 DEF ResumeLoads
<1>4. CASE ResumeReplies
  <2>1. query.pc = "gist"
    BY <1>4 DEF ResumeReplies
  <2>2. query \in [pc : {"gist"}, sid : Sid, touched : SUBSET Sid]
    BY <2>1 DEF QueryTypeOK, NoQuery, WhyAnswers, Resumes, Searches
  <2>3. query' = [pc |-> "done", what |-> "resume", sid |-> query.sid, gist |-> latestGist, touched |-> query.touched]
    BY <1>4 DEF ResumeReplies
  <2>4. query' \in Resumes
    BY <2>2, <2>3 DEF Resumes, QueryTypeOK
  <2>5. /\ query'.pc = "done" /\ query'.what = "resume" /\ query'.sid = query.sid /\ query'.gist = latestGist
        /\ query'.touched = query.touched
    BY <2>3
  <2>6. ResumeIsOneSession'
    BY <2>1, <2>5 DEF QueryInv, ResumeInv, ResumeIsOneSession
  <2>7. SearchInv' /\ ResumeInv' /\ FoundThroughout' /\ SameAsSingle'
    BY <2>5 DEF SearchInv, ResumeInv, FoundThroughout, SameAsSingle, Replied
  <2> QED BY <1>1, <1>2, <2>4, <2>6, <2>7 DEF QueryTypeOK, QueryInv
<1> QED BY <1>3, <1>4

LEMMA QueryStarts == QueryInit => QueryTypeOK /\ QueryInv
<1> SUFFICES ASSUME QueryInit PROVE QueryTypeOK /\ QueryInv
  OBVIOUS
<1>1. doc = [s \in Sid |-> AbsentDoc] /\ rows = <<>> /\ latestGist = NoSid /\ query = NoQuery
  BY DEF QueryInit
<1>2. doc \in [Sid -> SessionDoc]
  BY <1>1 DEF AbsentDoc, SessionDoc
<1>3. LedgersInv
  BY <1>1 DEF LedgersInv, NamesApart, AbsentDoc
<1>4. LiveRows = {}
  BY <1>1 DEF LiveRows
<1>5. query.pc = "idle"
  BY <1>1 DEF NoQuery
<1>6. SearchInv /\ ResumeInv /\ FoundThroughout /\ SameAsSingle /\ ResumeIsOneSession
  BY <1>5 DEF SearchInv, ResumeInv, FoundThroughout, SameAsSingle, ResumeIsOneSession, Replied
<1> QED BY <1>1, <1>2, <1>3, <1>4, <1>6 DEF QueryTypeOK, QueryInv, LiveGistInv

LEMMA QuerySteps == QueryTypeOK /\ QueryInv /\ [QueryNext]_queryVars => QueryTypeOK' /\ QueryInv'
<1> SUFFICES ASSUME QueryTypeOK, QueryInv, [QueryNext]_queryVars PROVE QueryTypeOK' /\ QueryInv'
  OBVIOUS
<1>1. CASE UNCHANGED queryVars
  <2>1. QueryTypeOK'
    BY <1>1 DEF queryVars, QueryTypeOK
  <2>2. LedgersInv' /\ LiveGistInv' /\ ResumeInv' /\ SearchInv'
    BY <1>1 DEF queryVars, QueryInv, LedgersInv, NamesApart, LiveGistInv, LiveRows, LastOf, ResumeInv, SearchInv
  <2>3. FoundThroughout' /\ SameAsSingle' /\ ResumeIsOneSession'
    BY <1>1 DEF queryVars, QueryInv, FoundThroughout, SameAsSingle, ResumeIsOneSession, Replied, MatchSet
  <2> QED BY <2>1, <2>2, <2>3 DEF QueryInv
<1>2. CASE \E s \in Sid, secs \in SUBSET Section, late \in BOOLEAN : Repack(s, secs, late)
  BY <1>2, QueryRepack
<1>3. CASE \E s \in Sid : Spoil(s) \/ Prune(s)
  BY <1>3, QueryDamage
<1>4. CASE WhyBegins
  BY <1>4, QueryBegins
<1>5. CASE WhyReads
  BY <1>5, QueryReads
<1>6. CASE WhyReplies
  BY <1>6, QueryReplies
<1>7. CASE ResumeLoads \/ ResumeReplies
  BY <1>7, QueryResumes
<1> QED BY <1>1, <1>2, <1>3, <1>4, <1>5, <1>6, <1>7 DEF QueryNext

\* some section's turn is the last
LEMMA LatestTurn ==
    ASSUME NEW secs \in SUBSET Section, NamesApart(secs), secs # {}
    PROVE  \E t \in {x.turn : x \in secs} : \A x \in secs : x.turn <= t
<1> DEFINE f == Ordered(secs)
           n == Len(f)
<1>1. /\ f \in Seq(secs) /\ DOMAIN f = 1..n /\ n \in Nat
      /\ \A x \in secs : \E i \in DOMAIN f : f[i] = x
      /\ \A i, j \in DOMAIN f : i < j => Earlier(f[i], f[j])
  BY OrderedLists
<1> HIDE DEF f, n
<1>2. n \in 1..n /\ f[n] \in secs
  <2>1. \E i : i \in 1..n
    BY <1>1
  <2>2. n \in 1..n
    BY <1>1, <2>1
  <2> QED BY <1>1, <2>2 DEF n
<1>3. \A x \in secs : x.turn \in Int
  BY QueryAssumption
<1>4. ASSUME NEW x \in secs PROVE x.turn <= f[n].turn
  <2>1. PICK i \in 1..n : f[i] = x
    BY <1>1
  <2>2. i = n \/ Earlier(x, f[n])
    BY <1>1, <1>2, <2>1
  <2> QED BY <1>2, <1>3, <2>1, <2>2 DEF Earlier
<1> QED BY <1>2, <1>4

\* the views are functions of one ledger: a kind's list is the timeline of that kind
LEMMA ViewsHold == QueryTypeOK /\ QueryInv => ViewsAgree
<1> SUFFICES ASSUME QueryTypeOK, QueryInv, NEW s \in Sid, doc[s].is = "good"
             PROVE  LET secs == doc[s].secs IN
        /\ \A k \in Stakes : Timeline(secs, {k}, 0) = Decisions(secs)[k]
        /\ Timeline(secs, {"LITERAL"}, 0) = Literals(secs)
        /\ \A shown \in {Members(Timeline(secs, {}, 1))} : \A x \in secs \ shown :
             \A y \in shown : x.turn <= y.turn
        /\ \A n \in Index(secs) : Recall(secs, {n}).found
        /\ \A x \in Why(secs).secs : x \in Recall(secs, {x.name}).secs
        /\ (\E x \in secs : x.tier = 0) => \A x \in Why(secs).secs : x.tier = 0
        /\ ~Why(secs).found => \A x \in secs : x.turn <= Why(secs).asOf
  BY DEF ViewsAgree
<1> DEFINE secs == doc[s].secs
<1>1. secs \in SUBSET Section /\ NamesApart(secs)
  BY DEF QueryTypeOK, SessionDoc, QueryInv, LedgersInv
<1> HIDE DEF secs
<1>2. ASSUME NEW k PROVE Timeline(secs, {k}, 0) = Ordered({x \in secs : x.kind = k})
  <2>1. {x \in secs : {k} = {} \/ x.kind \in {k}} = {x \in secs : x.kind = k}
    OBVIOUS
  <2> QED BY <2>1 DEF Timeline
<1>3. ASSUME NEW k \in Stakes PROVE Timeline(secs, {k}, 0) = Decisions(secs)[k]
  BY <1>2 DEF Decisions
<1>4. Timeline(secs, {"LITERAL"}, 0) = Literals(secs)
  BY <1>2 DEF Literals
<1>5. ASSUME NEW x \in secs \ Members(Timeline(secs, {}, 1)), NEW y \in Members(Timeline(secs, {}, 1))
      PROVE  x.turn <= y.turn
  <2> DEFINE all == Ordered(secs)
             n == Len(all)
  <2>1. {z \in secs : {} = {} \/ z.kind \in {}} = secs
    OBVIOUS
  <2>2. Timeline(secs, {}, 1) = IF 1 = 0 \/ 1 >= n THEN all ELSE SubSeq(all, n - 1 + 1, n)
    BY <2>1 DEF Timeline
  <2>3. /\ all \in Seq(secs) /\ DOMAIN all = 1..n /\ n \in Nat
        /\ \A z \in secs : \E i \in DOMAIN all : all[i] = z
        /\ \A i, j \in DOMAIN all : i < j => Earlier(all[i], all[j])
    BY <1>1, OrderedLists
  <2> HIDE DEF all, n
  <2>4. PICK i \in 1..n : all[i] = x
    BY <2>3
  <2>5. n > 1
    BY <1>5, <2>2, <2>3, <2>4 DEF Members
  <2>6. Timeline(secs, {}, 1) = SubSeq(all, n, n)
    BY <2>2, <2>3, <2>5
  <2>7. DOMAIN SubSeq(all, n, n) = 1..1 /\ SubSeq(all, n, n)[1] = all[n]
    BY <2>3, <2>5
  <2>8. y = all[n] /\ x # all[n]
    <3>1. Members(SubSeq(all, n, n)) = {all[n]}
      <4>1. \A j : j \in 1..1 <=> j = 1
        OBVIOUS
      <4> QED BY <2>7, <4>1 DEF Members
    <3> QED BY <1>5, <2>6, <3>1
  <2>9. Earlier(x, y)
    BY <2>3, <2>4, <2>5, <2>8
  <2>10. x.turn \in Int /\ y.turn \in Int
    BY <1>1, <2>3, <2>5, <2>8, QueryAssumption
  <2> QED BY <2>9, <2>10 DEF Earlier
<1>6. \A n \in Index(secs) : Recall(secs, {n}).found
  <2> SUFFICES ASSUME NEW x \in secs PROVE Recall(secs, {x.name}).found
    BY DEF Index
  <2>1. x \in {z \in secs : z.name \in {x.name}}
    OBVIOUS
  <2> QED BY <2>1 DEF Recall, Answered
<1>7. /\ Matches(secs) = {} => Why(secs) = Missed(secs)
      /\ Matches(secs) # {} => Why(secs) = [found |-> TRUE, secs |-> Matches(secs)]
  BY DEF Why, Answered
<1>8. ASSUME NEW x \in Why(secs).secs PROVE x \in Matches(secs)
  <2>1. Missed(secs).secs = {}
    BY DEF Missed
  <2> QED BY <1>7, <1>8, <2>1
<1>9. \A x \in Why(secs).secs : x \in Recall(secs, {x.name}).secs
  <2> SUFFICES ASSUME NEW x \in Why(secs).secs PROVE x \in Recall(secs, {x.name}).secs
    OBVIOUS
  <2>1. x \in {z \in secs : z.name \in {x.name}}
    BY <1>8 DEF Matches
  <2> QED BY <2>1 DEF Recall, Answered
<1>10. (\E x \in secs : x.tier = 0) => \A x \in Why(secs).secs : x.tier = 0
  <2> SUFFICES ASSUME NEW w \in secs, w.tier = 0, NEW x \in Why(secs).secs PROVE x.tier = 0
    OBVIOUS
  <2>1. \A z \in secs : z.tier \in 0..4
    BY <1>1, QueryAssumption
  <2>2. \E t \in {z.tier : z \in secs} : \A z \in secs : t <= z.tier
    BY <2>1
  <2>3. Best(secs) \in {z.tier : z \in secs} /\ \A z \in secs : Best(secs) <= z.tier
    BY <2>2 DEF Best
  <2>4. Best(secs) = 0
    BY <2>1, <2>3
  <2> QED BY <1>8, <2>4 DEF Matches
<1>11. ~Why(secs).found => \A x \in secs : x.turn <= Why(secs).asOf
  <2> SUFFICES ASSUME ~Why(secs).found, NEW x \in secs PROVE x.turn <= Why(secs).asOf
    OBVIOUS
  <2>1. Why(secs).asOf = AsOf(secs)
    BY <1>7 DEF Missed
  <2>2. IsFiniteSet(secs) /\ \A z \in secs : z.turn \in Int
    BY <1>1, QueryAssumption, FS_Subset
  <2>3. \E t \in {z.turn : z \in secs} : \A z \in secs : z.turn <= t
    BY <1>1, LatestTurn
  <2>4. \A z \in secs : z.turn <= AsOf(secs)
    BY <2>3 DEF AsOf
  <2> QED BY <2>1, <2>4
<1> QED BY <1>3, <1>4, <1>5, <1>6, <1>9, <1>10, <1>11 DEF secs

\* a fact is "user_stated" by that role and no other, and "ratified" by an event
LEMMA AxesHold == QueryTypeOK => AxesStaySeparate
<1> SUFFICES ASSUME QueryTypeOK, Replied("why"), NEW degraded \in BOOLEAN,
                    NEW state \in {<<>>} \cup [{x.fact : x \in Section} -> {"ratify", "reject"}],
                    NEW i \in DOMAIN query.matches
             PROVE  LET x == query.matches[i].sec
                        m == Stamped(x, [degraded |-> degraded, state |-> state])
                    IN /\ m.local = "ratified" => ~degraded /\ state # <<>>
                       /\ m.authority = "user_stated" => x.roles = {"user"}
  BY DEF AxesStaySeparate
<1> DEFINE x == query.matches[i].sec
           journal == [degraded |-> degraded, state |-> state]
<1>1. query \in WhyAnswers
  <2>1. query.pc = "done" /\ query.what = "why"
    BY DEF Replied
  <2>2. query \notin Searches /\ query # NoQuery
    BY <2>1 DEF Searches, NoQuery
  <2>3. query \notin Resumes /\ query \notin [pc : {"done"}, what : {"error"}]
    BY <2>1 DEF Resumes
  <2>4. query \in {NoQuery} \cup Searches \cup WhyAnswers \cup Resumes \cup [pc : {"done"}, what : {"error"}]
    BY DEF QueryTypeOK
  <2> QED BY ONLY <2>2, <2>3, <2>4, Zenon
<1>2. x \in Section
  <2>1. query.matches \in Seq(Hit)
    BY <1>1 DEF WhyAnswers
  <2>2. query.matches[i] \in Hit
    BY <2>1, ElementOfSeq
  <2> QED BY <2>2 DEF Hit
<1>3. IsFiniteSet(x.roles)
  BY <1>2, QueryAssumption
<1>4. Stamped(x, journal).local = Local(x, journal) /\ Stamped(x, journal).authority = Authority(x)
  BY DEF Stamped
<1>5. journal.degraded = degraded /\ journal.state = state
  OBVIOUS
<1> HIDE DEF x, journal
<1>6. Local(x, journal) = "ratified" => ~degraded /\ state # <<>>
  <2>1. CASE degraded
    BY <1>5, <2>1 DEF Local
  <2>2. CASE ~degraded /\ x.fact \in DOMAIN state
    BY <2>2
  <2>3. CASE ~degraded /\ x.fact \notin DOMAIN state
    BY <1>5, <2>3 DEF Local
  <2> QED BY <2>1, <2>2, <2>3
<1>7. Authority(x) = "user_stated" => x.roles = {"user"}
  <2>1. ASSUME NEW r, r # "user" PROVE DeriveAuthority(r) # "user_stated"
    <3>1. CASE r = "assistant"
      BY <3>1 DEF DeriveAuthority
    <3>2. CASE r = "tool"
      BY <3>2 DEF DeriveAuthority
    <3>3. CASE r \notin {"user", "assistant", "tool"}
      BY <3>3 DEF DeriveAuthority
    <3> QED BY <2>1, <3>1, <3>2, <3>3
  <2>2. CASE x.roles = {}
    <3>1. Authority(x) = DeriveAuthority("")
      <4>1. Cardinality(x.roles) # 1
        BY <2>2, FS_EmptySet
      <4> QED BY <2>2, <4>1 DEF Authority
    <3> QED BY <2>1, <3>1
  <2>3. CASE Cardinality(x.roles) = 1
    <3>1. PICK r : x.roles = {r}
      BY <1>3, <2>3, FS_Singleton
    <3>2. Authority(x) = DeriveAuthority(r)
      BY <2>3, <3>1 DEF Authority
    <3> QED BY <2>1, <3>1, <3>2
  <2>4. CASE x.roles # {} /\ Cardinality(x.roles) # 1
    BY <2>4 DEF Authority
  <2> QED BY <2>2, <2>3, <2>4
<1> QED BY <1>4, <1>6, <1>7 DEF x, journal

(***************************************************************************)
(* For any sessions, sections, queries and changes between their reads: an *)
(* answer over many sessions is neither short of what was banked nor more  *)
(* than one session held, and the views of each session agree.             *)
(***************************************************************************)
THEOREM AnswersStayComplete == QuerySpecification => []AnswersAreComplete
<1>1. QueryTypeOK /\ QueryInv => AnswersAreComplete
  BY ViewsHold, AxesHold DEF AnswersAreComplete, QueryInv
<1> QED BY <1>1, QueryStarts, QuerySteps, PTL DEF QuerySpecification

=============================================================================
