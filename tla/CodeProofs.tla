------------------------------ MODULE CodeProofs ------------------------------
(***************************************************************************)
(* What the tools for code guarantee for every tree, every pack and every  *)
(* sequence of calls: the incremental code pack, and the telemetry.        *)
(***************************************************************************)
EXTENDS CodePack, CodeTelemetry, PositionLemmas, FiniteSetTheorems, SequenceTheorems, TLAPS

-----------------------------------------------------------------------------
(***************************************************************************)
(* The code pack.                                                          *)
(***************************************************************************)
Symbols == Files \X Locals
Texts == {k[2] : k \in UNION {Calls[c] : c \in Source}}
JobEdges == [from : Symbols, to : Symbols \cup ({Nowhere} \X Texts)]
Entities == [file : Files, local : Locals, body : BOOLEAN, of : Source]
Hashes == UNION {[D -> Source] : D \in SUBSET Files}
PackStates ==
    [loaded : BOOLEAN, hashes : Hashes, ents : SUBSET Entities,
     edges : SUBSET [from : Symbols, to : Symbols]]
JobStates ==
    [pc : {"hash", "parse"}, body : BOOLEAN, at : Files \cup {Nowhere}, left : SUBSET Files,
     hashes : Hashes, ents : SUBSET Entities,
     edges : SUBSET JobEdges, raced : SUBSET Files]

\* The types, and a pack that is not there is empty.
PackTypeOK ==
    /\ disk \in [Files -> Source \cup {NoFile}]
    /\ raced \subseteq Files
    /\ pack \in PackStates /\ IsFiniteSet(pack.ents)
    /\ ~pack.loaded => pack = NoPack
    /\ job = NoJob \/ (job \in JobStates /\ IsFiniteSet(job.ents))

\* An edge is a call: by its text while it has no callee, by its callee's name afterwards.
CallOf(k, e) == k[1] = e.from[2] /\ IF e.to[1] = Nowhere THEN k[2] = e.to[2] ELSE Invokes(k[2], e.to)

\* What holds of a pack and of the part of one that is built: every entity is of a
\* file that was hashed and parsed, every edge starts at one, and the entities and
\* edges of a file that no edit overtook are those of the content that was hashed.
Faithful(hashes, ents, edges, dirty, at) ==
    /\ \A e \in ents : e.file \in DOMAIN hashes \ {at}
    /\ \A e \in edges : e.from \in Names(ents)
    /\ \A f \in DOMAIN hashes \ (dirty \cup {at}) :
         /\ {e.local : e \in {x \in ents : x.file = f}} = DefinedIn(hashes[f])
         /\ \A e \in edges : e.from[1] = f => \E k \in Calls[hashes[f]] : CallOf(k, e)

\* What the job holds of a file with the hash it had is what the pack holds of it.
Reused ==
    \A f \in DOMAIN job.hashes \cap DOMAIN pack.hashes : pack.hashes[f] = job.hashes[f] =>
        /\ {e \in job.ents : e.file = f} = {e \in pack.ents : e.file = f}
        /\ {e \in job.edges : e.from[1] = f} = {e \in pack.edges : e.from[1] = f}

\* The file between its hash and its parse has changed since the last pack, and is
\* on disk as it was hashed unless it was seen to change.
AtHand ==
    /\ job.pc = "hash" => job.at = Nowhere
    /\ job.pc = "parse" =>
         /\ job.at \in DOMAIN job.hashes
         /\ job.at \notin job.raced => disk[job.at] = job.hashes[job.at]
         /\ job.at \in DOMAIN pack.hashes => pack.hashes[job.at] # job.hashes[job.at]

JobInv ==
    /\ job.left \cap DOMAIN job.hashes = {}
    /\ Faithful(job.hashes, job.ents, job.edges, job.raced, job.at)
    /\ Reused
    /\ AtHand

PackInv ==
    /\ PackTypeOK
    /\ \A e \in pack.edges : e.to \in Names(pack.ents)
    /\ Faithful(pack.hashes, pack.ents, pack.edges, raced, Nowhere)
    /\ job # NoJob => JobInv

LEMMA NothingHashed == <<>> \in Hashes /\ DOMAIN <<>> = {}
<1>1. <<>> \in Seq(Source) /\ Len(<<>>) = 0
  BY EmptySeq
<1>2. DOMAIN <<>> = {}
  BY <1>1
<1>3. <<>> \in [{} -> Source]
  BY <1>2, <1>1
<1> QED BY <1>2, <1>3 DEF Hashes

LEMMA WithGives ==
    ASSUME NEW h \in Hashes, NEW f \in Files, NEW c \in Source
    PROVE  /\ With(h, f, c) \in Hashes
           /\ DOMAIN With(h, f, c) = DOMAIN h \cup {f}
           /\ With(h, f, c)[f] = c
           /\ \A g \in DOMAIN h \ {f} : With(h, f, c)[g] = h[g]
<1>1. PICK D \in SUBSET Files : h \in [D -> Source]
  BY DEF Hashes
<1>2. With(h, f, c) \in [D \cup {f} -> Source]
  BY <1>1 DEF With
<1>3. D \cup {f} \in SUBSET Files
  BY <1>1
<1> QED BY <1>1, <1>2, <1>3 DEF With, Hashes

LEMMA HashesAreOfFiles ==
    ASSUME NEW h \in Hashes
    PROVE  DOMAIN h \subseteq Files /\ \A f \in DOMAIN h : h[f] \in Source
BY DEF Hashes

\* The names of the entities are symbols, and finitely many.
LEMMA NamesAreSymbols ==
    ASSUME NEW ents \in SUBSET Entities, IsFiniteSet(ents)
    PROVE  Names(ents) \in SUBSET Symbols /\ IsFiniteSet(Names(ents))
<1>1. Names(ents) \in SUBSET Symbols
  BY DEF Names, Entities, Symbols
<1>2. IsFiniteSet(Names(ents))
  <2> DEFINE g == [e \in ents |-> <<e.file, e.local>>]
  <2>1. g \in Surjection(ents, Names(ents))
    BY DEF Surjection, Names
  <2> QED BY <2>1, FS_Surjection
<1> QED BY <1>1, <1>2

LEMMA FilesHaveNames == Nowhere \notin Files /\ \A n \in Symbols : n[1] \in Files /\ n[1] # Nowhere
BY PackAssumption DEF Symbols

\* A candidate for the callee of an edge is called by the text the edge began as,
\* or by its last part.
LEMMA CandidatesAreMeant ==
    ASSUME NEW k, NEW from, NEW to \in Symbols \cup ({Nowhere} \X Texts), NEW nodes \in SUBSET Symbols,
           NEW n \in Candidates(to, nodes), CallOf(k, [from |-> from, to |-> to])
    PROVE  n \in nodes /\ CallOf(k, [from |-> from, to |-> n])
<1>1. n \in nodes
  BY DEF Candidates, ByLocal
<1>2. n[1] # Nowhere
  BY <1>1, FilesHaveNames
<1>3. Invokes(k[2], n)
  <2>1. CASE to[1] = Nowhere
    <3>1. k[2] = to[2]
      BY <2>1 DEF CallOf
    <3> QED BY <2>1, <3>1 DEF Candidates, ByLocal, Invokes
  <2>2. CASE to[1] # Nowhere
    <3>1. to[2] \in DOMAIN TailOf /\ NamedBy(TailOf[to[2]], n)
      BY <2>2 DEF Candidates, ByLocal
    <3>2. Invokes(k[2], to)
      BY <2>2 DEF CallOf
    <3>3. TailOf[to[2]] \notin DOMAIN TailOf
      BY <3>1, PackAssumption
    <3>4. to[2] = k[2] \/ TailOf[to[2]] = k[2] \/ (k[2] \in DOMAIN TailOf /\ TailOf[to[2]] = TailOf[k[2]])
      <4>1. CASE NamedBy(k[2], to)
        BY <4>1 DEF NamedBy
      <4>2. CASE k[2] \in DOMAIN TailOf /\ NamedBy(TailOf[k[2]], to)
        BY <4>2, <3>1, PackAssumption DEF NamedBy
      <4> QED BY <3>2, <4>1, <4>2 DEF Invokes
    <3> QED BY <3>1, <3>4 DEF Invokes
  <2> QED BY <2>1, <2>2
<1>4. k[1] = from[2]
  BY DEF CallOf
<1> QED BY <1>1, <1>2, <1>3, <1>4 DEF CallOf

\* Resolving leaves edges between the symbols of the pack, each the call it was.
LEMMA ResolvedEdges ==
    ASSUME NEW nodes \in SUBSET Symbols, NEW edges \in SUBSET JobEdges,
           \A e \in edges : e.from \in nodes
    PROVE  /\ Resolve(edges, nodes) \in SUBSET [from : Symbols, to : Symbols]
           /\ \A e \in Resolve(edges, nodes) : e.from \in nodes /\ e.to \in nodes
           /\ \A e \in Resolve(edges, nodes) : \E x \in edges :
                x.from = e.from /\ \A k : CallOf(k, x) => CallOf(k, e)
<1> SUFFICES ASSUME NEW e \in Resolve(edges, nodes)
             PROVE  /\ e \in [from : Symbols, to : Symbols] /\ e.from \in nodes /\ e.to \in nodes
                    /\ \E x \in edges : x.from = e.from /\ \A k : CallOf(k, x) => CallOf(k, e)
  OBVIOUS
<1>1. CASE e \in edges /\ e.to \in nodes
  BY <1>1 DEF JobEdges
<1>2. CASE ~(e \in edges /\ e.to \in nodes)
  <2>1. PICK x \in edges :
          /\ Cardinality(Candidates(x.to, nodes)) = 1
          /\ e = [from |-> x.from, to |-> OneOf(Candidates(x.to, nodes))]
    BY <1>2 DEF Resolve
  <2>2. Candidates(x.to, nodes) # {}
    <3>1. ASSUME Candidates(x.to, nodes) = {} PROVE Cardinality(Candidates(x.to, nodes)) = 0
      BY <3>1, FS_EmptySet, Zenon
    <3> QED BY <2>1, <3>1
  <2>3. Candidates(x.to, nodes) \subseteq nodes
    BY DEF Candidates, ByLocal
  <2>4. e.from = x.from /\ e.to \in nodes /\ e.to \in Candidates(x.to, nodes)
    BY <2>1, <2>2, <2>3 DEF OneOf
  <2>5. x = [from |-> x.from, to |-> x.to] /\ x.from \in nodes /\ x.to \in Symbols \cup ({Nowhere} \X Texts)
    BY DEF JobEdges
  <2>6. e = [from |-> x.from, to |-> e.to]
    BY <2>1
  <2>7. ASSUME NEW k, CallOf(k, x) PROVE CallOf(k, e)
    <3>1. CallOf(k, [from |-> x.from, to |-> x.to])
      BY <2>7, <2>5
    <3>2. CallOf(k, [from |-> x.from, to |-> e.to])
      BY <3>1, <2>4, <2>5, CandidatesAreMeant
    <3> QED BY <3>2, <2>6
  <2> QED BY <2>4, <2>5, <2>6, <2>7
<1> QED BY <1>1, <1>2
LEMMA PackInitial == PackInit => PackInv
<1> SUFFICES ASSUME PackInit PROVE PackInv
  OBVIOUS
<1>1. NoPack \in PackStates /\ IsFiniteSet(NoPack.ents)
  BY NothingHashed, FS_EmptySet DEF NoPack, PackStates
<1>2. PackTypeOK
  BY <1>1 DEF PackInit, PackTypeOK
<1>3. Faithful(NoPack.hashes, NoPack.ents, NoPack.edges, raced, Nowhere)
  BY NothingHashed DEF NoPack, Faithful
<1> QED BY <1>2, <1>3 DEF PackInit, PackInv, NoPack

LEMMA IdleOrBusy ==
    ASSUME PackInv
    PROVE  /\ job.pc \in {"idle", "hash", "parse"}
           /\ job.pc = "idle" <=> job = NoJob
           /\ job.pc # "idle" => job \in JobStates /\ IsFiniteSet(job.ents) /\ JobInv
BY DEF PackInv, PackTypeOK, NoJob, JobStates

LEMMA FaithfulWidens ==
    ASSUME NEW h, NEW ents, NEW edges, NEW d, NEW d2, NEW at, d \subseteq d2,
           Faithful(h, ents, edges, d, at)
    PROVE  Faithful(h, ents, edges, d2, at)
BY DEF Faithful

LEMMA EditKeeps ==
    ASSUME PackInv, NEW f \in Files, NEW c \in Source \cup {NoFile}, Edit(f, c)
    PROVE  PackInv'
<1>1. UNCHANGED <<pack, raced>> /\ disk' = [disk EXCEPT ![f] = c]
  BY DEF Edit
<1>2. disk' \in [Files -> Source \cup {NoFile}]
  BY <1>1 DEF PackInv, PackTypeOK
<1>3. CASE job = NoJob
  <2>1. job' = NoJob
    BY <1>3 DEF Edit, NoJob
  <2> QED BY <1>1, <1>2, <2>1 DEF PackInv, PackTypeOK
<1>4. CASE job # NoJob
  <2>1. job \in JobStates /\ IsFiniteSet(job.ents) /\ JobInv
    BY <1>4, IdleOrBusy
  <2>2. PICK D \in SUBSET {f} :
          /\ job' \in JobStates /\ job'.pc = job.pc /\ job'.at = job.at /\ job'.left = job.left
          /\ job'.hashes = job.hashes /\ job'.ents = job.ents /\ job'.edges = job.edges
          /\ job'.raced = job.raced \cup D
          /\ job.pc = "parse" /\ job.at = f => f \in D
    <3>1. CASE job.pc = "parse" /\ job.at = f
      <4>1. job' = [job EXCEPT !.raced = @ \cup {f}]
        BY <3>1 DEF Edit
      <4>2. /\ job' \in JobStates /\ job'.pc = job.pc /\ job'.at = job.at /\ job'.left = job.left
            /\ job'.hashes = job.hashes /\ job'.ents = job.ents /\ job'.edges = job.edges
            /\ job'.raced = job.raced \cup {f}
        BY <2>1, <4>1 DEF JobStates
      <4> QED BY <4>2
    <3>2. CASE ~(job.pc = "parse" /\ job.at = f)
      <4>1. job' = job /\ job.raced \cup {} = job.raced
        BY <3>2 DEF Edit
      <4>2. /\ job' \in JobStates /\ job'.pc = job.pc /\ job'.at = job.at /\ job'.left = job.left
            /\ job'.hashes = job.hashes /\ job'.ents = job.ents /\ job'.edges = job.edges
            /\ job'.raced = job.raced \cup {} /\ {} \in SUBSET {f}
        BY <2>1, <4>1
      <4> QED BY <3>2, <4>2
    <3> QED BY <3>1, <3>2
  <2>4. Faithful(job'.hashes, job'.ents, job'.edges, job'.raced, job'.at)
    BY <2>1, <2>2, FaithfulWidens DEF JobInv
  <2>5. Reused'
    BY <1>1, <2>1, <2>2 DEF JobInv, Reused
  <2>6. AtHand'
    <3>1. ASSUME job.pc = "parse", job.at \notin job'.raced PROVE disk'[job.at] = job.hashes[job.at]
      <4>1. job.at # f /\ job.at \notin job.raced
        BY <3>1, <2>2
      <4>2. disk[job.at] = job.hashes[job.at] /\ job.at \in Files
        BY <3>1, <4>1, <2>1, HashesAreOfFiles DEF JobInv, AtHand, JobStates
      <4> QED BY <1>1, <4>1, <4>2 DEF PackInv, PackTypeOK
    <3> QED BY <1>1, <2>1, <2>2, <3>1 DEF JobInv, AtHand
  <2> QED BY <1>1, <1>2, <2>1, <2>2, <2>4, <2>5, <2>6 DEF PackInv, PackTypeOK, JobInv
<1> QED BY <1>3, <1>4

LEMMA BeginKeeps ==
    ASSUME PackInv, NEW body \in BOOLEAN, Begin(body)
    PROVE  PackInv'
<1>1. UNCHANGED <<disk, pack, raced>>
  BY DEF Begin
<1>2. job' = [pc |-> "hash", body |-> body, at |-> Nowhere, left |-> {f \in Files : disk[f] # NoFile},
              hashes |-> <<>>, ents |-> {}, edges |-> {}, raced |-> {}]
  BY DEF Begin
<1>3. job' \in JobStates /\ IsFiniteSet(job'.ents)
  BY <1>2, NothingHashed, FS_EmptySet DEF JobStates
<1>4. JobInv'
  <2>1. DOMAIN job'.hashes = {}
    BY <1>2, NothingHashed
  <2> QED BY <1>2, <2>1 DEF JobInv, Faithful, Reused, AtHand
<1> QED BY <1>1, <1>3, <1>4 DEF PackInv, PackTypeOK

\* What f's entities newE and edges newD make of what holds ents and edges.
Adds(ents, edges, f, newE, newD, ents2, edges2) ==
    /\ ents2 = ents \cup newE /\ edges2 = edges \cup newD
    /\ {e \in ents2 : e.file = f} = newE
    /\ {e \in edges2 : e.from[1] = f} = newD
    /\ \A g \in Files \ {f} :
         /\ {e \in ents2 : e.file = g} = {e \in ents : e.file = g}
         /\ {e \in edges2 : e.from[1] = g} = {e \in edges : e.from[1] = g}

\* What vouches for them: the content of f that was hashed, unless an edit overtook it.
Vouched(h2, f, newE, newD, d2) ==
    /\ \A e \in newE : e.file = f
    /\ \A e \in newD : e.from[1] = f /\ e.from \in Names(newE)
    /\ f \notin d2 => {e.local : e \in newE} = DefinedIn(h2[f])
                         /\ \A e \in newD : \E k \in Calls[h2[f]] : CallOf(k, e)

\* f is new in h2.
Rehashed(h, h2, f) ==
    /\ h2 \in Hashes /\ DOMAIN h2 = DOMAIN h \cup {f}
    /\ \A g \in DOMAIN h \ {f} : h2[g] = h[g]

\* Adding to a faithful part the entities and edges of one more file, in step with
\* its hash unless an edit overtook it, keeps it faithful and the other files alone.
LEMMA FileAdded ==
    ASSUME NEW h \in Hashes, NEW h2, NEW f \in Files, NEW at \in {Nowhere, f},
           NEW ents \in SUBSET Entities, NEW edges \in SUBSET JobEdges,
           NEW newE \in SUBSET Entities, NEW newD \in SUBSET JobEdges,
           NEW d, NEW d2, d \subseteq d2,
           Faithful(h, ents, edges, d, at), f \notin DOMAIN h \ {at},
           Rehashed(h, h2, f), Vouched(h2, f, newE, newD, d2)
    PROVE  /\ Faithful(h2, ents \cup newE, edges \cup newD, d2, Nowhere)
           /\ Adds(ents, edges, f, newE, newD, ents \cup newE, edges \cup newD)
<1> USE DEF Rehashed, Vouched
<1>1. \A e \in ents : e.file \in DOMAIN h /\ e.file # f /\ e.file \in Files
  BY DEF Faithful, Entities
<1>2. \A e \in edges : e.from \in Names(ents) /\ e.from[1] # f
  BY <1>1 DEF Faithful, Names
<1>3. Nowhere \notin Files
  BY FilesHaveNames
<1>4. /\ {e \in ents \cup newE : e.file = f} = newE
      /\ {e \in edges \cup newD : e.from[1] = f} = newD
  BY <1>1, <1>2
<1>5. ASSUME NEW g \in Files \ {f}
      PROVE  /\ {e \in ents \cup newE : e.file = g} = {e \in ents : e.file = g}
             /\ {e \in edges \cup newD : e.from[1] = g} = {e \in edges : e.from[1] = g}
  OBVIOUS
<1>6. \A e \in ents \cup newE : e.file \in DOMAIN h2 \ {Nowhere}
  BY <1>1, <1>3
<1>7. \A e \in edges \cup newD : e.from \in Names(ents \cup newE)
  BY <1>2 DEF Names
<1>8. ASSUME NEW g \in DOMAIN h2 \ (d2 \cup {Nowhere})
      PROVE  /\ {e.local : e \in {x \in ents \cup newE : x.file = g}} = DefinedIn(h2[g])
             /\ \A e \in edges \cup newD : e.from[1] = g => \E k \in Calls[h2[g]] : CallOf(k, e)
  <2>1. CASE g = f
    BY <2>1, <1>2, <1>4
  <2>2. CASE g # f
    <3>1. g \in DOMAIN h \ (d \cup {at}) /\ g \in Files \ {f} /\ h2[g] = h[g]
      BY <2>2, HashesAreOfFiles
    <3>2. /\ {e.local : e \in {x \in ents : x.file = g}} = DefinedIn(h[g])
          /\ \A e \in edges : e.from[1] = g => \E k \in Calls[h[g]] : CallOf(k, e)
      BY <3>1 DEF Faithful
    <3>3. {x \in ents \cup newE : x.file = g} = {x \in ents : x.file = g}
      BY <3>1, <1>5
    <3>4. \A e \in newD : e.from[1] # g
      BY <2>2
    <3> QED BY <3>1, <3>2, <3>3, <3>4
  <2> QED BY <2>1, <2>2
<1> QED BY <1>4, <1>5, <1>6, <1>7, <1>8 DEF Faithful, Adds

\* A file whose hash is the one it had keeps what the pack holds of it.
LEMMA ReuseKeeps ==
    ASSUME PackInv, NEW f \in Files, HashFile(f), Reusable(f)
    PROVE  PackInv'
<1> DEFINE E == {e \in pack.ents : e.file = f}
           D == {e \in pack.edges : e.from[1] = f}
           h == With(job.hashes, f, disk[f])
<1>1. UNCHANGED <<disk, pack, raced>>
  BY DEF HashFile
<1>2. /\ job.pc = "hash" /\ f \in job.left /\ disk[f] # NoFile
      /\ f \in DOMAIN pack.hashes /\ pack.hashes[f] = disk[f]
  BY DEF HashFile, Reusable
<1>3. job \in JobStates /\ IsFiniteSet(job.ents) /\ JobInv
  BY <1>2, IdleOrBusy
<1>4. disk[f] \in Source
  BY <1>2 DEF PackInv, PackTypeOK
<1>5. job.hashes \in Hashes /\ job.ents \in SUBSET Entities /\ job.edges \in SUBSET JobEdges
  BY <1>3 DEF JobStates
<1>6. /\ h \in Hashes /\ DOMAIN h = DOMAIN job.hashes \cup {f} /\ h[f] = disk[f]
      /\ \A g \in DOMAIN job.hashes \ {f} : h[g] = job.hashes[g]
  BY <1>4, <1>5, WithGives
<1>7. /\ pack.ents \in SUBSET Entities /\ IsFiniteSet(pack.ents)
      /\ pack.edges \in SUBSET JobEdges
      /\ Faithful(pack.hashes, pack.ents, pack.edges, raced, Nowhere)
  BY DEF PackInv, PackTypeOK, PackStates, JobEdges
<1>8. job' = [job EXCEPT !.left = @ \ {f}, !.hashes = h, !.ents = @ \cup E,
                         !.edges = @ \cup D, !.raced = @ \cup (raced \cap {f})]
  BY DEF HashFile
<1>9. E \in SUBSET Entities /\ D \in SUBSET JobEdges /\ IsFiniteSet(E)
  BY <1>7, FS_Subset
<1> HIDE DEF h
<1>10. /\ job'.pc = "hash" /\ job'.at = job.at /\ job'.left = job.left \ {f} /\ job'.hashes = h
       /\ job'.ents = job.ents \cup E /\ job'.edges = job.edges \cup D
       /\ job'.raced = job.raced \cup (raced \cap {f})
       /\ job' \in JobStates
  BY <1>2, <1>3, <1>6, <1>8, <1>9 DEF JobStates
<1>11. IsFiniteSet(job'.ents)
  <2>1. IsFiniteSet(job.ents \cup E)
    BY <1>3, <1>9, FS_Union
  <2> QED BY <1>10, <2>1
<1>12. job.at = Nowhere /\ f \notin DOMAIN job.hashes
  BY <1>2, <1>3 DEF JobInv, AtHand
<1>13. Vouched(h, f, E, D, job'.raced)
  <2>1. /\ \A e \in E : e.file = f
        /\ \A e \in D : e.from[1] = f /\ e.from \in Names(E)
    BY <1>7 DEF Faithful, Names
  <2>2. ASSUME f \notin job'.raced
        PROVE  {e.local : e \in E} = DefinedIn(h[f])
                 /\ \A e \in D : \E k \in Calls[h[f]] : CallOf(k, e)
    <3>1. f \in DOMAIN pack.hashes \ (raced \cup {Nowhere}) /\ h[f] = pack.hashes[f]
      BY <1>2, <1>6, <1>10, <2>2, FilesHaveNames
    <3> QED BY <1>7, <3>1 DEF Faithful
  <2> QED BY <2>1, <2>2 DEF Vouched
<1>14. Rehashed(job.hashes, h, f)
  BY <1>6 DEF Rehashed
<1> HIDE DEF E, D
<1>15. /\ Faithful(h, job'.ents, job'.edges, job'.raced, Nowhere)
       /\ Adds(job.ents, job.edges, f, E, D, job'.ents, job'.edges)
  <2>1. Faithful(job.hashes, job.ents, job.edges, job.raced, Nowhere) /\ job.raced \subseteq job'.raced
    BY <1>3, <1>10, <1>12 DEF JobInv
  <2>2. f \notin DOMAIN job.hashes \ {Nowhere}
    BY <1>12
  <2>3. /\ Faithful(h, job.ents \cup E, job.edges \cup D, job'.raced, Nowhere)
        /\ Adds(job.ents, job.edges, f, E, D, job.ents \cup E, job.edges \cup D)
    BY <1>5, <1>9, <1>13, <1>14, <2>1, <2>2, FileAdded
  <2> QED BY <1>10, <2>3
<1>16. Reused'
  <2> SUFFICES ASSUME NEW g \in DOMAIN job'.hashes \cap DOMAIN pack.hashes, pack.hashes[g] = job'.hashes[g]
               PROVE  /\ {e \in job'.ents : e.file = g} = {e \in pack.ents : e.file = g}
                      /\ {e \in job'.edges : e.from[1] = g} = {e \in pack.edges : e.from[1] = g}
    BY <1>1 DEF Reused
  <2>1. CASE g = f
    BY <2>1, <1>15 DEF E, D, Adds
  <2>2. CASE g # f
    <3>1. g \in DOMAIN job.hashes \ {f} /\ pack.hashes[g] = job.hashes[g] /\ g \in Files
      BY <2>2, <1>5, <1>6, <1>10, HashesAreOfFiles
    <3> QED BY <3>1, <1>3, <1>15 DEF JobInv, Reused, Adds
  <2> QED BY <2>1, <2>2
<1>17. job'.left \cap DOMAIN job'.hashes = {}
  BY <1>3, <1>6, <1>10 DEF JobInv
<1>18. AtHand'
  BY <1>10, <1>12 DEF AtHand
<1> QED BY <1>1, <1>10, <1>11, <1>12, <1>15, <1>16, <1>17, <1>18 DEF PackInv, PackTypeOK, JobInv

\* A file whose hash is new waits for its parse.
LEMMA HashKeeps ==
    ASSUME PackInv, NEW f \in Files, HashFile(f), ~Reusable(f)
    PROVE  PackInv'
<1> DEFINE h == With(job.hashes, f, disk[f])
<1>1. UNCHANGED <<disk, pack, raced>>
  BY DEF HashFile
<1>2. /\ job.pc = "hash" /\ f \in job.left /\ disk[f] # NoFile
      /\ f \in DOMAIN pack.hashes => pack.hashes[f] # disk[f]
  BY DEF HashFile, Reusable
<1>3. job \in JobStates /\ IsFiniteSet(job.ents) /\ JobInv
  BY <1>2, IdleOrBusy
<1>4. disk[f] \in Source
  BY <1>2 DEF PackInv, PackTypeOK
<1>5. /\ h \in Hashes /\ DOMAIN h = DOMAIN job.hashes \cup {f} /\ h[f] = disk[f]
      /\ \A g \in DOMAIN job.hashes \ {f} : h[g] = job.hashes[g]
  <2>1. job.hashes \in Hashes
    BY <1>3 DEF JobStates
  <2> QED BY <1>4, <2>1, WithGives
<1>6. job' = [job EXCEPT !.pc = "parse", !.at = f, !.left = @ \ {f}, !.hashes = h]
  BY DEF HashFile
<1> HIDE DEF h
<1>7. /\ job'.pc = "parse" /\ job'.at = f /\ job'.left = job.left \ {f} /\ job'.hashes = h
      /\ job'.ents = job.ents /\ job'.edges = job.edges /\ job'.raced = job.raced
      /\ job' \in JobStates
  BY <1>3, <1>5, <1>6 DEF JobStates
<1>8. job.at = Nowhere /\ f \notin DOMAIN job.hashes
  BY <1>2, <1>3 DEF JobInv, AtHand
<1>9. Faithful(job.hashes, job.ents, job.edges, job.raced, Nowhere)
  BY <1>3, <1>8 DEF JobInv
<1>10. Faithful(h, job.ents, job.edges, job.raced, f)
  <2>1. \A e \in job.ents : e.file \in DOMAIN h \ {f}
    BY <1>5, <1>8, <1>9 DEF Faithful
  <2>2. \A g \in DOMAIN h \ (job.raced \cup {f}) : g \in DOMAIN job.hashes \ (job.raced \cup {Nowhere}) /\ h[g] = job.hashes[g]
    BY <1>3, <1>5, HashesAreOfFiles, FilesHaveNames DEF JobStates
  <2> QED BY <1>9, <2>1, <2>2 DEF Faithful
<1>11. Reused'
  <2> SUFFICES ASSUME NEW g \in DOMAIN job'.hashes \cap DOMAIN pack.hashes, pack.hashes[g] = job'.hashes[g]
               PROVE  /\ {e \in job'.ents : e.file = g} = {e \in pack.ents : e.file = g}
                      /\ {e \in job'.edges : e.from[1] = g} = {e \in pack.edges : e.from[1] = g}
    BY <1>1 DEF Reused
  <2>1. g # f
    BY <1>2, <1>5, <1>7
  <2>2. g \in DOMAIN job.hashes /\ pack.hashes[g] = job.hashes[g]
    BY <2>1, <1>5, <1>7
  <2> QED BY <1>3, <1>7, <2>2 DEF JobInv, Reused
<1>12. job'.left \cap DOMAIN job'.hashes = {}
  BY <1>3, <1>5, <1>7 DEF JobInv
<1>13. AtHand'
  BY <1>1, <1>2, <1>5, <1>7 DEF AtHand
<1> QED BY <1>1, <1>3, <1>7, <1>10, <1>11, <1>12, <1>13 DEF PackInv, PackTypeOK, JobInv

\* The parse adds what the content defines and calls, or nothing.
LEMMA ParseKeeps ==
    ASSUME PackInv, ParseFile
    PROVE  PackInv'
<1> DEFINE f == job.at
           c == disk[f]
           Moves(E, D) ==
             /\ job' \in JobStates /\ job'.pc = "hash" /\ job'.at = Nowhere /\ job'.left = job.left
             /\ job'.hashes = job.hashes /\ job'.raced = job.raced
             /\ job'.ents = job.ents \cup E /\ job'.edges = job.edges \cup D
<1>1. UNCHANGED <<disk, pack, raced>> /\ job.pc = "parse"
  BY DEF ParseFile
<1>2. job \in JobStates /\ IsFiniteSet(job.ents) /\ JobInv
  BY <1>1, IdleOrBusy
<1>3. /\ job.hashes \in Hashes /\ job.ents \in SUBSET Entities /\ job.edges \in SUBSET JobEdges
      /\ job.body \in BOOLEAN
  BY <1>2 DEF JobStates
<1>4. /\ f \in DOMAIN job.hashes /\ f \in Files /\ job.hashes[f] \in Source
      /\ f \notin job.raced => c = job.hashes[f]
      /\ f \in DOMAIN pack.hashes => pack.hashes[f] # job.hashes[f]
  BY <1>1, <1>2, <1>3, HashesAreOfFiles DEF JobInv, AtHand
<1>5. c \in Source \cup {NoFile} /\ NoFile \notin Source
  BY <1>4, PackAssumption DEF PackInv, PackTypeOK
<1>6. PICK E \in SUBSET Entities, D \in SUBSET JobEdges :
        IsFiniteSet(E) /\ Vouched(job.hashes, f, E, D, job.raced) /\ Moves(E, D)
  <2>1. CASE c = NoFile \/ c \in Unparsable
    <3>1. job' = [job EXCEPT !.pc = "hash", !.at = Nowhere]
      BY <2>1 DEF ParseFile
    <3>2. Vouched(job.hashes, f, {}, {}, job.raced)
      BY <1>4, <1>5, <2>1 DEF Vouched, DefinedIn
    <3>3. Moves({}, {})
      BY <1>2, <3>1 DEF JobStates
    <3> QED BY <3>2, <3>3, FS_EmptySet
  <2>2. CASE ~(c = NoFile \/ c \in Unparsable)
    <3> DEFINE E == {[file |-> f, local |-> l, body |-> job.body, of |-> c] : l \in Defs[c]}
               D == {[from |-> <<f, k[1]>>, to |-> <<Nowhere, k[2]>>] : k \in Calls[c]}
    <3>1. job' = [job EXCEPT !.pc = "hash", !.at = Nowhere, !.ents = @ \cup E, !.edges = @ \cup D]
      BY <2>2 DEF ParseFile
    <3>2. c \in Source /\ c \notin Unparsable /\ IsFiniteSet(Defs[c]) /\ \A k \in Calls[c] : k[1] \in Defs[c]
      BY <1>5, <2>2, PackAssumption
    <3>3. \A l \in Defs[c] : l \in Locals
      BY <3>2 DEF Locals
    <3>4. \A k \in Calls[c] : k[2] \in Texts
      BY <3>2 DEF Texts
    <3>5. E \in SUBSET Entities
      BY <1>3, <1>4, <3>2, <3>3 DEF Entities
    <3>6. D \in SUBSET JobEdges
      BY <1>4, <3>2, <3>3, <3>4 DEF JobEdges, Symbols
    <3>7. IsFiniteSet(E)
      <4> DEFINE g == [l \in Defs[c] |-> [file |-> f, local |-> l, body |-> job.body, of |-> c]]
      <4>1. g \in Surjection(Defs[c], E)
        BY DEF Surjection
      <4> QED BY <3>2, <4>1, FS_Surjection
    <3>8. Vouched(job.hashes, f, E, D, job.raced)
      <4>1. \A e \in E : e.file = f
        OBVIOUS
      <4>2. ASSUME NEW e \in D PROVE e.from[1] = f /\ e.from \in Names(E)
        <5>1. PICK k \in Calls[c] : e.from = <<f, k[1]>>
          OBVIOUS
        <5> DEFINE x == [file |-> f, local |-> k[1], body |-> job.body, of |-> c]
        <5>2. x \in E /\ e.from = <<x.file, x.local>>
          BY <3>2, <5>1
        <5> HIDE DEF E
        <5> QED BY <5>1, <5>2 DEF Names
      <4>3. {e.local : e \in E} = Defs[c]
        <5>1. \A l \in Defs[c] : [file |-> f, local |-> l, body |-> job.body, of |-> c] \in E
          OBVIOUS
        <5>2. \A l \in Defs[c] : \E e \in E : l = e.local
          BY <5>1
        <5>3. \A e \in E : e.local \in Defs[c]
          OBVIOUS
        <5> HIDE DEF E
        <5> QED BY <5>2, <5>3
      <4>4. \A e \in D : \E k \in Calls[c] : CallOf(k, e)
        BY DEF CallOf
      <4> QED BY <1>4, <3>2, <4>1, <4>2, <4>3, <4>4 DEF Vouched, DefinedIn
    <3> HIDE DEF E, D
    <3>9. Moves(E, D)
      BY <1>2, <3>1, <3>5, <3>6 DEF JobStates
    <3> QED BY <3>5, <3>6, <3>7, <3>8, <3>9
  <2> QED BY <2>1, <2>2
<1>7. IsFiniteSet(job'.ents)
  <2>1. IsFiniteSet(job.ents \cup E)
    BY <1>2, <1>6, FS_Union
  <2> QED BY <1>6, <2>1
<1>8. Rehashed(job.hashes, job.hashes, f)
  BY <1>3, <1>4 DEF Rehashed
<1>9. /\ Faithful(job.hashes, job'.ents, job'.edges, job.raced, Nowhere)
      /\ Adds(job.ents, job.edges, f, E, D, job'.ents, job'.edges)
  <2>1. Faithful(job.hashes, job.ents, job.edges, job.raced, f)
    BY <1>2 DEF JobInv
  <2>2. f \notin DOMAIN job.hashes \ {f} /\ f \in {Nowhere, f} /\ job.raced \subseteq job.raced
    OBVIOUS
  <2> HIDE DEF f
  <2>3. /\ Faithful(job.hashes, job.ents \cup E, job.edges \cup D, job.raced, Nowhere)
        /\ Adds(job.ents, job.edges, f, E, D, job.ents \cup E, job.edges \cup D)
    BY <1>3, <1>4, <1>6, <1>8, <2>1, <2>2, FileAdded
  <2> QED BY <1>6, <2>3
<1>10. Reused'
  <2> SUFFICES ASSUME NEW g \in DOMAIN job'.hashes \cap DOMAIN pack.hashes, pack.hashes[g] = job'.hashes[g]
               PROVE  /\ {e \in job'.ents : e.file = g} = {e \in pack.ents : e.file = g}
                      /\ {e \in job'.edges : e.from[1] = g} = {e \in pack.edges : e.from[1] = g}
    BY <1>1 DEF Reused
  <2>1. g # f /\ g \in Files /\ g \in DOMAIN job.hashes /\ pack.hashes[g] = job.hashes[g]
    BY <1>3, <1>4, <1>6, HashesAreOfFiles
  <2> QED BY <1>2, <1>9, <2>1 DEF JobInv, Reused, Adds
<1>11. job'.left \cap DOMAIN job'.hashes = {}
  BY <1>2, <1>6 DEF JobInv
<1>12. AtHand'
  BY <1>6 DEF AtHand
<1> QED BY <1>1, <1>6, <1>7, <1>9, <1>10, <1>11, <1>12 DEF PackInv, PackTypeOK, JobInv

LEMMA VanishedKeeps ==
    ASSUME PackInv, NEW f \in Files, Vanished(f)
    PROVE  PackInv'
BY DEF PackInv, PackTypeOK, Vanished

\* The new pack is the part that was built, with its calls resolved.
LEMMA FinishKeeps ==
    ASSUME PackInv, Finish
    PROVE  PackInv'
<1> DEFINE nodes == Names(job.ents)
           edges == Resolve(job.edges, nodes)
<1>1. /\ job.pc = "hash" /\ UNCHANGED disk /\ job' = NoJob /\ raced' = job.raced
      /\ pack' = [loaded |-> TRUE, hashes |-> job.hashes, ents |-> job.ents, edges |-> edges]
  BY DEF Finish
<1>2. job \in JobStates /\ IsFiniteSet(job.ents) /\ JobInv
  BY <1>1, IdleOrBusy
<1>3. Faithful(job.hashes, job.ents, job.edges, job.raced, Nowhere)
  BY <1>1, <1>2 DEF JobInv, AtHand
<1>4. nodes \in SUBSET Symbols
  BY <1>2, NamesAreSymbols DEF JobStates
<1>5. job.edges \in SUBSET JobEdges /\ \A e \in job.edges : e.from \in nodes
  BY <1>2, <1>3 DEF JobStates, Faithful
<1> HIDE DEF nodes
<1>6. /\ edges \in SUBSET [from : Symbols, to : Symbols]
      /\ \A e \in edges : e.from \in nodes /\ e.to \in nodes
      /\ \A e \in edges : \E x \in job.edges : x.from = e.from /\ \A k : CallOf(k, x) => CallOf(k, e)
  BY <1>4, <1>5, ResolvedEdges
<1> HIDE DEF edges
<1>7. pack' \in PackStates /\ IsFiniteSet(pack'.ents) /\ pack'.loaded
  BY <1>1, <1>2, <1>6 DEF PackStates, JobStates
<1>8. Faithful(job.hashes, job.ents, edges, job.raced, Nowhere)
  BY <1>3, <1>6 DEF Faithful, nodes
<1> QED BY <1>1, <1>2, <1>6, <1>7, <1>8 DEF PackInv, PackTypeOK, JobStates, nodes

LEMMA PackSteps == PackInv /\ [PackNext]_packVars => PackInv'
<1> SUFFICES ASSUME PackInv, [PackNext]_packVars PROVE PackInv'
  OBVIOUS
<1>1. CASE UNCHANGED packVars
  BY <1>1 DEF packVars, PackInv, PackTypeOK, JobInv, Reused, AtHand
<1>2. ASSUME NEW f \in Files, NEW c \in Source \cup {NoFile}, Edit(f, c) PROVE PackInv'
  BY <1>2, EditKeeps
<1>3. ASSUME NEW body \in BOOLEAN, Begin(body) PROVE PackInv'
  BY <1>3, BeginKeeps
<1>4. ASSUME NEW f \in Files, HashFile(f) PROVE PackInv'
  BY <1>4, ReuseKeeps, HashKeeps
<1>5. ASSUME NEW f \in Files, Vanished(f) PROVE PackInv'
  BY <1>5, VanishedKeeps
<1>6. CASE ParseFile
  BY <1>6, ParseKeeps
<1>7. CASE Finish
  BY <1>7, FinishKeeps
<1> QED BY <1>1, <1>2, <1>3, <1>4, <1>5, <1>6, <1>7 DEF PackNext

LEMMA PackVouches == PackInv => HashVouches /\ EdgesAreCalls
<1> SUFFICES ASSUME PackInv PROVE HashVouches /\ EdgesAreCalls
  OBVIOUS
<1>1. /\ pack \in PackStates /\ Faithful(pack.hashes, pack.ents, pack.edges, raced, Nowhere)
      /\ \A e \in pack.edges : e.to \in Names(pack.ents)
  BY DEF PackInv, PackTypeOK
<1>2. Nowhere \notin DOMAIN pack.hashes
  BY <1>1, HashesAreOfFiles, FilesHaveNames DEF PackStates
<1>3. HashVouches
  BY <1>1, <1>2 DEF HashVouches, Faithful
<1>4. ASSUME NEW e \in pack.edges, e.from[1] \notin raced
      PROVE  \E k \in Calls[pack.hashes[e.from[1]]] : k[1] = e.from[2] /\ Invokes(k[2], e.to)
  <2>1. e.from[1] \in DOMAIN pack.hashes \ (raced \cup {Nowhere})
    BY <1>1, <1>2, <1>4 DEF Faithful, Names
  <2>2. PICK k \in Calls[pack.hashes[e.from[1]]] : CallOf(k, e)
    BY <1>1, <2>1 DEF Faithful
  <2>3. e.to[1] # Nowhere
    BY <1>1, FilesHaveNames DEF PackStates
  <2> QED BY <2>2, <2>3 DEF CallOf
<1> QED BY <1>1, <1>3, <1>4 DEF EdgesAreCalls, Faithful

\* Centrality puts any finitely many symbols in a total order.
LEMMA CentralOrder ==
    ASSUME NEW names \in SUBSET Symbols, IsFiniteSet(names),
           NEW before, before = [n \in names |-> {m \in names : MoreCentral(m, n)}]
    PROVE  /\ \A x \in names : Cardinality(before[x]) \in 0..Cardinality(names) - 1
           /\ \A x, y \in names : x \in before[y] <=> Cardinality(before[x]) < Cardinality(before[y])
           /\ \A i \in 1..Cardinality(names) : \E x \in names : Cardinality(before[x]) = i - 1
<1>1. \A n \in names : Central[n] \in Int
  BY PackAssumption DEF Symbols
<1>2. \A m, n \in names : Central[m] = Central[n] => m = n
  BY PackAssumption DEF Symbols
<1>3. before \in [names -> SUBSET names]
  OBVIOUS
<1>4. \A x \in names : x \notin before[x]
  BY <1>1 DEF MoreCentral
<1>5. \A x, y \in names : x \in before[y] => before[x] \subseteq before[y]
  BY <1>1 DEF MoreCentral
<1>6. \A x, y \in names : x # y => x \in before[y] \/ y \in before[x]
  BY <1>1, <1>2 DEF MoreCentral
<1>7. IsFiniteSet(names)
  OBVIOUS
<1> QED BY ONLY <1>3, <1>4, <1>5, <1>6, <1>7, RanksAreTaken

\* The top k leave out only what is less central than all of them.
LEMMA TopIsTheBest ==
    ASSUME NEW names \in SUBSET Symbols, IsFiniteSet(names), NEW k \in Nat,
           NEW n \in names, n \notin Top(names, k)
    PROVE  Cardinality(Top(names, k)) = k /\ \A m \in Top(names, k) : MoreCentral(m, n)
<1> DEFINE before == [x \in names |-> {y \in names : MoreCentral(y, x)}]
<1>1. /\ \A x \in names : Cardinality(before[x]) \in 0..Cardinality(names) - 1
      /\ \A x, y \in names : x \in before[y] <=> Cardinality(before[x]) < Cardinality(before[y])
      /\ \A i \in 1..Cardinality(names) : \E x \in names : Cardinality(before[x]) = i - 1
  BY CentralOrder
<1>2. \A x, y \in names : MoreCentral(x, y) <=> x \in before[y]
  OBVIOUS
<1>3. Top(names, k) = {x \in names : Cardinality(before[x]) < k}
  BY DEF Top
<1>4. Cardinality(names) \in Nat
  BY FS_CardinalityType
<1> HIDE DEF before
<1>5. k <= Cardinality(before[n])
  <2>1. Cardinality(before[n]) \in Int /\ k \in Int
    BY <1>1
  <2>2. ~(Cardinality(before[n]) < k)
    BY <1>3
  <2> QED BY <2>1, <2>2
<1>6. PICK x \in names : Cardinality(before[x]) = k
  <2>1. k + 1 \in 1..Cardinality(names) /\ k + 1 - 1 = k
    BY <1>1, <1>4, <1>5
  <2> QED BY <1>1, <2>1
<1>7. Top(names, k) = before[x]
  <2>1. before[x] \subseteq names
    BY DEF before
  <2> QED BY <1>1, <1>3, <1>6, <2>1
<1>8. \A m \in Top(names, k) : MoreCentral(m, n)
  BY <1>1, <1>2, <1>3, <1>5
<1> QED BY <1>6, <1>7, <1>8

LEMMA ListingsAreServed == PackInv => ListedIsServed
<1> SUFFICES ASSUME PackInv, NEW f \in DOMAIN pack.hashes, NEW k \in 1..Cardinality(Names(pack.ents))
             PROVE  LET listed == ListSymbols(pack, f, k)
                        found == SearchSymbols(pack, Names(pack.ents), k)
                    IN  /\ \A n \in listed.symbols \cup found.symbols :
                             /\ HydrateSymbol(pack, n, 0).code = "ok"
                             /\ HydrateSymbol(pack, n, 0).version = listed.version
                             /\ n[1] \notin raced => n[2] \in DefinedIn(pack.hashes[n[1]])
                        /\ \A n \in Names(pack.ents) : n[1] = f /\ n \notin listed.symbols =>
                             Cardinality(listed.symbols) = k /\ \A m \in listed.symbols : MoreCentral(m, n)
  BY DEF ListedIsServed
<1> DEFINE names == Names(pack.ents)
           mine == {n \in names : n[1] = f}
           listed == ListSymbols(pack, f, k)
           found == SearchSymbols(pack, names, k)
<1>1. pack \in PackStates /\ IsFiniteSet(pack.ents) /\ pack.loaded
  BY NothingHashed DEF PackInv, PackTypeOK, NoPack
<1>2. names \in SUBSET Symbols /\ IsFiniteSet(names)
  BY <1>1, NamesAreSymbols DEF PackStates
<1>3. mine \in SUBSET Symbols /\ IsFiniteSet(mine)
  BY <1>2, FS_Subset
<1>4. /\ listed.symbols = Top(mine, k) /\ listed.version = PackVersion(pack)
      /\ found.symbols = Top(names, k)
  BY <1>1 DEF ListSymbols, SearchSymbols, Served
<1>5. \A n \in listed.symbols \cup found.symbols : n \in names
  BY <1>4 DEF Top
<1>6. ASSUME NEW n \in names
      PROVE  HydrateSymbol(pack, n, 0).code = "ok" /\ HydrateSymbol(pack, n, 0).version = PackVersion(pack)
  BY <1>1 DEF HydrateSymbol, Served
<1>7. ASSUME NEW n \in names, n[1] \notin raced
      PROVE  n[2] \in DefinedIn(pack.hashes[n[1]])
  <2>1. PICK e \in pack.ents : n = <<e.file, e.local>>
    BY DEF Names
  <2>2. n[1] \in DOMAIN pack.hashes
    BY <2>1 DEF PackInv, Faithful
  <2>3. {x.local : x \in {y \in pack.ents : y.file = n[1]}} = DefinedIn(pack.hashes[n[1]])
    BY <1>7, <2>2, PackVouches DEF HashVouches
  <2> QED BY <2>1, <2>3
<1>8. ASSUME NEW n \in names, n[1] = f, n \notin listed.symbols
      PROVE  Cardinality(listed.symbols) = k /\ \A m \in listed.symbols : MoreCentral(m, n)
  <2>1. n \in mine /\ k \in Nat
    BY <1>8
  <2> HIDE DEF mine, listed
  <2> QED BY <1>3, <1>4, <1>8, <2>1, TopIsTheBest
<1> HIDE DEF listed, found
<1>9. \A n \in listed.symbols \cup found.symbols :
        /\ HydrateSymbol(pack, n, 0).code = "ok"
        /\ HydrateSymbol(pack, n, 0).version = listed.version
        /\ n[1] \notin raced => n[2] \in DefinedIn(pack.hashes[n[1]])
  BY <1>4, <1>5, <1>6, <1>7
<1> QED BY <1>8, <1>9 DEF listed, found

\* The greedy packing takes the most central, as many as fit in order.
LEMMA PackedIsTheBest ==
    ASSUME NEW names \in SUBSET Symbols, IsFiniteSet(names)
    PROVE  /\ Packed(names) \subseteq names
           /\ \A m \in Packed(names), x \in names \ Packed(names) : MoreCentral(m, x)
           /\ Packed(names) # {} => Tokens(Packed(names)) <= Budget
<1> DEFINE taken == Packed(names)
           before == [n \in taken |-> {m \in taken : MoreCentral(m, n)}]
<1>1. \A n \in names : Central[n] \in Int
  BY PackAssumption DEF Symbols
<1>2. \A m, n \in names : Central[m] = Central[n] => m = n
  BY PackAssumption DEF Symbols
<1>3. taken \subseteq names /\ taken \in SUBSET Symbols /\ IsFiniteSet(taken)
  BY FS_Subset DEF Packed
<1>4. \A x \in names : x \in AsCentral(names, x)
  BY DEF AsCentral
<1>5. ASSUME NEW x \in names, NEW y \in AsCentral(names, x)
      PROVE  y \in names /\ AsCentral(names, y) \subseteq AsCentral(names, x)
  BY <1>1, <1>5 DEF AsCentral, MoreCentral
<1>6. \A n \in names : n \in taken <=> \A m \in AsCentral(names, n) : Tokens(AsCentral(names, m)) <= Budget
  BY DEF Packed
<1>7. \A x \in taken : AsCentral(names, x) \subseteq taken
  BY <1>3, <1>5, <1>6
<1>8. ASSUME NEW m \in taken, NEW x \in names \ taken PROVE MoreCentral(m, x)
  <2>1. x \notin AsCentral(names, m)
    BY <1>7, <1>8
  <2>2. x # m /\ ~MoreCentral(x, m)
    BY <2>1 DEF AsCentral
  <2> QED BY <1>1, <1>2, <1>3, <2>2 DEF MoreCentral
<1>9. ASSUME taken # {} PROVE Tokens(taken) <= Budget
  <2>1. /\ \A x \in taken : Cardinality(before[x]) \in 0..Cardinality(taken) - 1
        /\ \A x, y \in taken : x \in before[y] <=> Cardinality(before[x]) < Cardinality(before[y])
        /\ \A i \in 1..Cardinality(taken) : \E x \in taken : Cardinality(before[x]) = i - 1
    <3> HIDE DEF taken
    <3> QED BY <1>3, CentralOrder
  <2>2. \A x, y \in taken : MoreCentral(x, y) <=> x \in before[y]
    OBVIOUS
  <2> HIDE DEF before, taken
  <2>3. Cardinality(taken) \in Nat
    BY <1>3, FS_CardinalityType
  <2>4. Cardinality(taken) \in 1..Cardinality(taken)
    BY <1>9, <2>1, <2>3
  <2>5. PICK x \in taken : Cardinality(before[x]) = Cardinality(taken) - 1
    BY <2>1, <2>4
  <2>6. ASSUME NEW y \in taken PROVE y \in AsCentral(names, x)
    <3>1. ~MoreCentral(x, y)
      BY <2>1, <2>2, <2>3, <2>5
    <3> QED BY <1>1, <1>2, <1>3, <3>1 DEF AsCentral, MoreCentral
  <2>7. taken = AsCentral(names, x)
    BY <1>7, <2>6
  <2>8. Tokens(AsCentral(names, x)) <= Budget
    BY <1>3, <1>4, <1>6, <2>5
  <2> QED BY <2>7, <2>8
<1> QED BY <1>3, <1>8, <1>9

LEMMA NeighboursAreServed == PackInv => NeighboursAreTheBest
<1> SUFFICES ASSUME PackInv, NEW n \in Names(pack.ents)
             PROVE  LET near == HydrateSymbol(pack, n, 1).near
                        served == near.callees \cup near.callers
                    IN  /\ near.callees \cap near.callers = {}
                        /\ served # {} => Tokens(served) <= Budget
                        /\ \A m \in served : Entity(pack, m).body /\
                             \E e \in pack.edges : {e.from, e.to} = {m, n}
                        /\ \A m \in served, x \in Priced(pack, Callees(pack, n) \cup Callers(pack, n)) \ served :
                             MoreCentral(m, x)
  BY DEF NeighboursAreTheBest
<1> DEFINE all == Priced(pack, Callees(pack, n) \cup Callers(pack, n))
           near == HydrateSymbol(pack, n, 1).near
           served == near.callees \cup near.callers
<1>1. pack \in PackStates /\ IsFiniteSet(pack.ents) /\ pack.loaded
  BY DEF PackInv, PackTypeOK, NoPack, Names
<1>2. Names(pack.ents) \in SUBSET Symbols /\ IsFiniteSet(Names(pack.ents))
  BY <1>1, NamesAreSymbols DEF PackStates
<1>3. all \subseteq Names(pack.ents)
  BY DEF Priced, Callees, Callers, PackInv, Faithful
<1>4. all \in SUBSET Symbols /\ IsFiniteSet(all)
  BY <1>2, <1>3, FS_Subset
<1>5. near = [callees |-> Packed(all) \cap Callees(pack, n), callers |-> Packed(all) \ Callees(pack, n)]
  BY <1>1 DEF HydrateSymbol, Served, NearestTo
<1>6. near.callees \cap near.callers = {} /\ served = Packed(all)
  BY <1>5
<1>7. \A m \in all : Entity(pack, m).body /\ \E e \in pack.edges : {e.from, e.to} = {m, n}
  BY DEF Priced, Callees, Callers
<1> HIDE DEF all, near
<1>8. /\ served \subseteq all /\ \A m \in served, x \in all \ served : MoreCentral(m, x)
      /\ served # {} => Tokens(served) <= Budget
  BY <1>4, <1>6, PackedIsTheBest
<1> QED BY <1>6, <1>7, <1>8 DEF all, near

\* When every file kept its hash, the job holds what the pack does, and there is
\* nothing left to resolve.
LEMMA NothingChanges ==
    ASSUME PackInv, [PackNext]_packVars, job.pc # "idle", job' = NoJob, pack' # pack,
           job.hashes = pack.hashes
    PROVE  pack'.ents = pack.ents /\ pack'.edges = pack.edges
<1>1. Finish
  BY DEF PackNext, packVars, Edit, Begin, HashFile, ParseFile, Vanished
<1>2. job \in JobStates /\ JobInv /\ pack \in PackStates
  BY IdleOrBusy DEF PackInv, PackTypeOK
<1>3. /\ \A e \in job.ents \cup pack.ents : e.file \in DOMAIN pack.hashes
      /\ \A e \in job.edges \cup pack.edges : e.from[1] \in DOMAIN pack.hashes
  BY <1>2 DEF PackInv, JobInv, Faithful, Names
<1>4. \A f \in DOMAIN pack.hashes :
        /\ {e \in job.ents : e.file = f} = {e \in pack.ents : e.file = f}
        /\ {e \in job.edges : e.from[1] = f} = {e \in pack.edges : e.from[1] = f}
  BY <1>2 DEF JobInv, Reused
<1>5. job.ents = pack.ents
  <2>1. \A e \in job.ents : e \in {x \in pack.ents : x.file = e.file}
    BY <1>3, <1>4
  <2>2. \A e \in pack.ents : e \in {x \in job.ents : x.file = e.file}
    BY <1>3, <1>4
  <2> QED BY <2>1, <2>2
<1>6. job.edges = pack.edges
  <2>1. \A e \in job.edges : e \in {x \in pack.edges : x.from[1] = e.from[1]}
    BY <1>3, <1>4
  <2>2. \A e \in pack.edges : e \in {x \in job.edges : x.from[1] = e.from[1]}
    BY <1>3, <1>4
  <2> QED BY <2>1, <2>2
<1>7. Resolve(pack.edges, Names(pack.ents)) = pack.edges
  BY DEF Resolve, PackInv
<1> QED BY <1>1, <1>5, <1>6, <1>7 DEF Finish

\* An incremental pack is as good as its hashes, and what the tools serve from it agrees.
THEOREM PacksStayExact == PackSpecification => PackIsExact
<1>1. PackInit => PackInv
  BY PackInitial
<1>2. PackInv /\ [PackNext]_packVars => PackInv'
  BY PackSteps
<1>3. PackInv => HashVouches /\ EdgesAreCalls /\ ListedIsServed /\ NeighboursAreTheBest
  BY PackVouches, ListingsAreServed, NeighboursAreServed
<1>4. PackInv /\ [PackNext]_packVars =>
        [job.pc # "idle" /\ job' = NoJob /\ pack' # pack /\ pack.loaded /\ job.hashes = pack.hashes
          => pack'.ents = pack.ents /\ pack'.edges = pack.edges]_packVars
  BY NothingChanges
<1> QED BY <1>1, <1>2, <1>3, <1>4, PTL DEF PackSpecification, PackIsExact, NoChangeIsNeutral

-----------------------------------------------------------------------------
(***************************************************************************)
(* The telemetry of the code tools.                                        *)
(***************************************************************************)
TelSpec == TelInit /\ [][TelNext]_telVars

Mentioned == Symbol \cup Query \cup Version \cup {NoVersion} \cup {x[1] : x \in Symbol \cup Query}
Eras == Nat \X (Version \cup {NoVersion})
CallKinds == {"pack_built", "list", "hydrate", "not_in_pack", "search", "raw_file"}
CallRows == [kind : CallKinds, what : Mentioned, n : Nat, at : Nat, pack : Eras]
PatternRows == [kind : Patterns, what : Mentioned, n : Nat, at : Nat, pack : {<<b>> : b \in Nat}]
TelRows == CallRows \cup PatternRows

TelTypeOK ==
    /\ boot \in Nat /\ version \in Version \cup {NoVersion}
    /\ hydrated \in Seq(Symbol) /\ answered \in Nat /\ ticks \in Nat
    /\ searches \in SUBSET [at : Nat, q : Query] /\ IsFiniteSet(searches)
    /\ logged \in Seq(TelRows)

\* What a log says, of any log: rows j to the last are of the pack and server p.
IsCall(row) == row.kind \notin Patterns
NowIn(s, p, j) == \A k \in j..Len(s) : IsCall(s[k]) => s[k].pack = p
AliveIn(s, j, i) == \A k \in j..i : IsCall(s[k]) => s[k].pack = s[j].pack
AnsweredIn(s, p) == {j \in DOMAIN s : s[j].kind = "hydrate" /\ s[j].n = 1 /\ NowIn(s, p, j)}
HydratedIn(s, i) == {j \in 1..i : s[j].kind = "hydrate" /\ s[j].n = 1 /\ AliveIn(s, j, i)}
AskedIn(s, i) == {j \in 1..i : /\ s[j].kind = "search" /\ AliveIn(s, j, i)
                               /\ s[j].what[1] = s[i].what
                               /\ s[j].at >= s[i].at - Window}
CountIn(s, kind) == Cardinality({i \in DOMAIN s : s[i].kind = kind})

\* Row i claims what the rows up to it bear out.
RowIsExact(s, i) ==
    /\ s[i].kind = "after_hydrate" =>
         \E j \in HydratedIn(s, i) :
            /\ s[j].what = s[i].what
            /\ Cardinality({k \in HydratedIn(s, i) : k >= j}) = s[i].n
    /\ s[i].kind = "reformulated" =>
         Cardinality({s[j].what : j \in AskedIn(s, i)}) = s[i].n /\ s[i].n >= Threshold
    /\ s[i].kind = "raw_file" => s[i].n = Cardinality(HydratedIn(s, i))
SharesIn(s) ==
    /\ CountIn(s, "not_in_pack") <= CountIn(s, "hydrate")
    /\ CountIn(s, "reformulated") <= CountIn(s, "search")
LogIsExact(s) == (\A i \in DOMAIN s : RowIsExact(s, i)) /\ SharesIn(s)

\* The files remembered are the last that were answered, in their order.
TrailIn(s, p, files) ==
    \A m \in DOMAIN files : \E j \in AnsweredIn(s, p) :
        /\ s[j].what = files[m]
        /\ Cardinality({k \in AnsweredIn(s, p) : k >= j}) = Len(files) - m + 1
\* The searches remembered are rows, and all that are in the window are remembered.
AsksIn(s, p, recalled, from) ==
    /\ \A r \in recalled : \E j \in DOMAIN s :
         s[j].kind = "search" /\ NowIn(s, p, j) /\ s[j].what = r.q /\ s[j].at = r.at
    /\ \A j \in DOMAIN s :
         s[j].kind = "search" /\ NowIn(s, p, j) /\ s[j].at >= from =>
            [at |-> s[j].at, q |-> s[j].what] \in recalled
\* No server is ahead of this one, and a call of this one is followed, at the
\* latest by itself, by a call about the pack that is loaded.
ErasIn(s, b, v) ==
    \A j \in DOMAIN s : IsCall(s[j]) =>
        /\ s[j].pack[1] <= b
        /\ s[j].pack[1] = b => \E k \in j..Len(s) : IsCall(s[k]) /\ s[k].pack = <<b, v>>

Era == <<boot, version>>
From == ticks - Window
\* What a log and what is remembered have to do with each other.
Recalled(s, files, recalled, n) ==
    /\ s \in Seq(TelRows)
    /\ ErasIn(s, boot, version)
    /\ TrailIn(s, Era, files) /\ AsksIn(s, Era, recalled, From) /\ n = Cardinality(AnsweredIn(s, Era))
    /\ \A i \in DOMAIN s : RowIsExact(s, i)
TelInv == TelTypeOK /\ Recalled(logged, hydrated, searches, answered) /\ SharesIn(logged)

LEMMA LogIsExactMeans == LogIsExact(logged) <=> TelemetryIsExact
  BY DEF LogIsExact, RowIsExact, SharesIn, CountIn, Count, HydratedIn, AskedIn, AliveIn, IsCall,
         TelemetryIsExact, PatternsStayInPack, ReformulationsAreRecent, HydrateCountIsExact,
         RatesAreShares, HydratesIn, OnePack

LEMMA RowAppended ==
    ASSUME NEW s \in Seq(TelRows), NEW e \in TelRows
    PROVE  /\ Append(s, e) \in Seq(TelRows) /\ Len(s) \in Nat
           /\ Len(Append(s, e)) = Len(s) + 1
           /\ DOMAIN s = 1..Len(s) /\ DOMAIN Append(s, e) = 1..Len(s) + 1
           /\ \A i \in 1..Len(s) : Append(s, e)[i] = s[i]
           /\ Append(s, e)[Len(s) + 1] = e
  OBVIOUS

\* A row that is of the pack and server p, or of none, ends nothing.
LEMMA NowGoesOn ==
    ASSUME NEW s \in Seq(TelRows), NEW e \in TelRows, NEW p, IsCall(e) => e.pack = p
    PROVE  /\ \A j \in 1..Len(s) : NowIn(Append(s, e), p, j) <=> NowIn(s, p, j)
           /\ NowIn(Append(s, e), p, Len(s) + 1)
<1> DEFINE t == Append(s, e)
<1>1. /\ Len(s) \in Nat /\ Len(t) = Len(s) + 1 /\ t[Len(s) + 1] = e
      /\ \A i \in 1..Len(s) : t[i] = s[i]
  BY RowAppended
<1> HIDE DEF t
<1>2. ASSUME NEW j \in 1..Len(s) PROVE NowIn(t, p, j) <=> NowIn(s, p, j)
  <2>1. \A k \in j..Len(t) : k \in j..Len(s) \/ k = Len(s) + 1
    BY <1>1
  <2>2. \A k \in j..Len(s) : k \in j..Len(t) /\ t[k] = s[k]
    BY <1>1
  <2> QED BY <1>1, <2>1, <2>2 DEF NowIn
<1>3. NowIn(t, p, Len(s) + 1)
  BY <1>1 DEF NowIn
<1> QED BY <1>2, <1>3 DEF t

LEMMA AliveStays ==
    ASSUME NEW s \in Seq(TelRows), NEW e \in TelRows, NEW i \in 1..Len(s)
    PROVE  /\ \A j \in 1..i : AliveIn(Append(s, e), j, i) <=> AliveIn(s, j, i)
           /\ HydratedIn(Append(s, e), i) = HydratedIn(s, i)
           /\ AskedIn(Append(s, e), i) = AskedIn(s, i)
           /\ RowIsExact(Append(s, e), i) <=> RowIsExact(s, i)
<1> DEFINE t == Append(s, e)
<1>1. Len(s) \in Nat /\ \A k \in 1..Len(s) : t[k] = s[k]
  BY RowAppended
<1> HIDE DEF t
<1>2. \A j \in 1..i : \A k \in j..i : k \in 1..Len(s) /\ j \in 1..Len(s)
  BY <1>1
<1>3. \A j \in 1..i : AliveIn(t, j, i) <=> AliveIn(s, j, i)
  BY <1>1, <1>2 DEF AliveIn
<1>4. HydratedIn(t, i) = HydratedIn(s, i) /\ AskedIn(t, i) = AskedIn(s, i)
  BY <1>1, <1>2, <1>3 DEF HydratedIn, AskedIn
<1>5. \A j \in HydratedIn(s, i) \cup AskedIn(s, i) : t[j] = s[j]
  BY <1>1 DEF HydratedIn, AskedIn
<1>6. {t[j].what : j \in AskedIn(s, i)} = {s[j].what : j \in AskedIn(s, i)}
  BY <1>5
<1>7. RowIsExact(t, i) <=> RowIsExact(s, i)
  BY <1>1, <1>4, <1>5, <1>6 DEF RowIsExact
<1> QED BY <1>3, <1>4, <1>7 DEF t

LEMMA CountGrows ==
    ASSUME NEW s \in Seq(TelRows), NEW e \in TelRows, NEW kind
    PROVE  /\ CountIn(s, kind) \in Nat
           /\ CountIn(Append(s, e), kind) = CountIn(s, kind) + (IF e.kind = kind THEN 1 ELSE 0)
<1> DEFINE t == Append(s, e)
           A == {i \in DOMAIN s : s[i].kind = kind}
           B == {i \in DOMAIN t : t[i].kind = kind}
<1>1. /\ Len(s) \in Nat /\ DOMAIN s = 1..Len(s) /\ DOMAIN t = 1..Len(s) + 1
      /\ \A i \in 1..Len(s) : t[i] = s[i]
      /\ t[Len(s) + 1] = e
  BY RowAppended
<1>2. IsFiniteSet(A) /\ Cardinality(A) \in Nat
  <2>1. IsFiniteSet(1..Len(s))
    BY <1>1, FS_Interval
  <2>2. A \in SUBSET (1..Len(s))
    BY <1>1
  <2> HIDE DEF A
  <2> QED BY <2>1, <2>2, FS_Subset, FS_CardinalityType
<1>3. B = IF e.kind = kind THEN A \cup {Len(s) + 1} ELSE A
  <2> HIDE DEF t
  <2> QED BY <1>1
<1>4. Len(s) + 1 \notin A
  BY <1>1
<1> HIDE DEF A, B
<1>5. Cardinality(B) = Cardinality(A) + (IF e.kind = kind THEN 1 ELSE 0)
  <2>1. Cardinality(A \cup {Len(s) + 1}) = Cardinality(A) + 1
    BY <1>2, <1>4, FS_AddElement
  <2> QED BY <1>2, <1>3, <2>1
<1> QED BY <1>2, <1>5 DEF CountIn, A, B

LEMMA SharesGrow ==
    ASSUME NEW s \in Seq(TelRows), NEW e \in TelRows, SharesIn(s)
    PROVE  /\ e.kind \notin {"not_in_pack", "reformulated"} => SharesIn(Append(s, e))
           /\ \A f \in TelRows :
                \/ e.kind = "hydrate" /\ f.kind = "not_in_pack"
                \/ e.kind = "search" /\ f.kind = "reformulated"
                \/ e.kind = "raw_file" /\ f.kind = "after_hydrate"
                => SharesIn(Append(Append(s, e), f))
<1>1. \A kind : /\ CountIn(s, kind) \in Nat
                /\ CountIn(Append(s, e), kind) = CountIn(s, kind) + (IF e.kind = kind THEN 1 ELSE 0)
  BY CountGrows
<1>2. Append(s, e) \in Seq(TelRows)
  BY RowAppended
<1>3. \A f \in TelRows : \A kind :
        CountIn(Append(Append(s, e), f), kind) =
          CountIn(Append(s, e), kind) + (IF f.kind = kind THEN 1 ELSE 0)
  BY <1>2, CountGrows
<1>4. CountIn(s, "not_in_pack") <= CountIn(s, "hydrate") /\ CountIn(s, "reformulated") <= CountIn(s, "search")
  BY DEF SharesIn
<1>5. e.kind \notin {"not_in_pack", "reformulated"} => SharesIn(Append(s, e))
  BY <1>1, <1>4 DEF SharesIn
<1>6. ASSUME NEW f \in TelRows,
             \/ e.kind = "hydrate" /\ f.kind = "not_in_pack"
             \/ e.kind = "search" /\ f.kind = "reformulated"
             \/ e.kind = "raw_file" /\ f.kind = "after_hydrate"
      PROVE  SharesIn(Append(Append(s, e), f))
  BY <1>1, <1>3, <1>4, <1>6 DEF SharesIn
<1> QED BY <1>5, <1>6

LEMMA AnsweredIsFinite ==
    ASSUME NEW s \in Seq(TelRows), NEW p
    PROVE  /\ AnsweredIn(s, p) \in SUBSET (1..Len(s)) /\ IsFiniteSet(AnsweredIn(s, p))
           /\ \A T \in SUBSET AnsweredIn(s, p) : IsFiniteSet(T) /\ Cardinality(T) \in Nat
<1>1. Len(s) \in Nat /\ DOMAIN s = 1..Len(s)
  OBVIOUS
<1>2. AnsweredIn(s, p) \in SUBSET (1..Len(s))
  BY <1>1 DEF AnsweredIn
<1>3. IsFiniteSet(AnsweredIn(s, p))
  <2>1. IsFiniteSet(1..Len(s))
    BY <1>1, FS_Interval
  <2> QED BY <1>2, <2>1, FS_Subset
<1>4. \A T \in SUBSET AnsweredIn(s, p) : IsFiniteSet(T) /\ Cardinality(T) \in Nat
  BY <1>3, FS_Subset, FS_CardinalityType
<1> QED BY <1>2, <1>3, <1>4

\* A call about the same pack keeps what was answered, and adds itself if it was.
LEMMA AnsweredGrows ==
    ASSUME NEW s \in Seq(TelRows), NEW e \in TelRows, NEW p, IsCall(e) => e.pack = p
    PROVE  AnsweredIn(Append(s, e), p) =
             IF e.kind = "hydrate" /\ e.n = 1 THEN AnsweredIn(s, p) \cup {Len(s) + 1} ELSE AnsweredIn(s, p)
<1> DEFINE t == Append(s, e)
<1>1. /\ Len(s) \in Nat /\ DOMAIN s = 1..Len(s) /\ DOMAIN t = 1..Len(s) + 1
      /\ \A i \in 1..Len(s) : t[i] = s[i]
      /\ t[Len(s) + 1] = e
  BY RowAppended
<1>2. /\ \A j \in 1..Len(s) : NowIn(t, p, j) <=> NowIn(s, p, j)
      /\ NowIn(t, p, Len(s) + 1)
  BY NowGoesOn
<1> HIDE DEF t
<1>3. \A j : j \in AnsweredIn(t, p) <=>
        \/ j \in AnsweredIn(s, p)
        \/ j = Len(s) + 1 /\ e.kind = "hydrate" /\ e.n = 1
  BY <1>1, <1>2 DEF AnsweredIn
<1> QED BY <1>3 DEF t

\* Up to a call about p, or a pattern found in it, "of one pack" is "of p".
LEMMA AliveIsNow ==
    ASSUME NEW s \in Seq(TelRows), NEW p,
           \A j \in DOMAIN s : IsCall(s[j]) => \E k \in j..Len(s) : IsCall(s[k]) /\ s[k].pack = p
    PROVE  /\ \A j \in 1..Len(s) : IsCall(s[j]) => (AliveIn(s, j, Len(s)) <=> NowIn(s, p, j))
           /\ HydratedIn(s, Len(s)) = AnsweredIn(s, p)
<1>1. Len(s) \in Nat /\ DOMAIN s = 1..Len(s)
  OBVIOUS
<1>2. ASSUME NEW j \in 1..Len(s), IsCall(s[j]), AliveIn(s, j, Len(s)) PROVE NowIn(s, p, j)
  BY <1>1, <1>2 DEF AliveIn, NowIn
<1>3. ASSUME NEW j \in 1..Len(s), IsCall(s[j]), NowIn(s, p, j) PROVE AliveIn(s, j, Len(s))
  <2>1. s[j].pack = p
    BY <1>1, <1>3 DEF NowIn
  <2> QED BY <1>3, <2>1 DEF AliveIn, NowIn
<1>4. \A j \in 1..Len(s) : s[j].kind = "hydrate" => IsCall(s[j])
  BY DEF IsCall, Patterns
<1> QED BY <1>1, <1>2, <1>3, <1>4 DEF HydratedIn, AnsweredIn

LEMMA FollowedByCall ==
    ASSUME NEW s \in Seq(TelRows), NEW e \in CallRows
    PROVE  /\ \A j \in DOMAIN Append(s, e) : IsCall(Append(s, e)[j]) =>
                \E k \in j..Len(Append(s, e)) : IsCall(Append(s, e)[k]) /\ Append(s, e)[k].pack = e.pack
           /\ \A f \in PatternRows :
                LET t == Append(Append(s, e), f) IN
                \A j \in DOMAIN t : IsCall(t[j]) =>
                    \E k \in j..Len(t) : IsCall(t[k]) /\ t[k].pack = e.pack
<1> DEFINE t == Append(s, e)
<1>1. e \in TelRows /\ IsCall(e)
  BY DEF TelRows, CallRows, IsCall, Patterns, CallKinds
<1>2. /\ t \in Seq(TelRows) /\ Len(s) \in Nat /\ Len(t) = Len(s) + 1
      /\ DOMAIN t = 1..Len(s) + 1 /\ t[Len(s) + 1] = e
  BY <1>1, RowAppended
<1> HIDE DEF t
<1>3. \A j \in DOMAIN t : Len(s) + 1 \in j..Len(t) /\ IsCall(t[Len(s) + 1]) /\ t[Len(s) + 1].pack = e.pack
  BY <1>1, <1>2
<1>4. ASSUME NEW f \in PatternRows, NEW j \in DOMAIN Append(t, f), IsCall(Append(t, f)[j])
      PROVE  \E k \in j..Len(Append(t, f)) : IsCall(Append(t, f)[k]) /\ Append(t, f)[k].pack = e.pack
  <2>1. f \in TelRows /\ ~IsCall(f)
    BY DEF TelRows, PatternRows, IsCall
  <2>2. /\ Len(Append(t, f)) = Len(s) + 2 /\ DOMAIN Append(t, f) = 1..Len(s) + 2
        /\ Append(t, f)[Len(s) + 2] = f /\ Append(t, f)[Len(s) + 1] = e
    BY <1>2, <2>1, RowAppended
  <2>3. j # Len(s) + 2
    BY <1>4, <2>1, <2>2
  <2>4. Len(s) + 1 \in j..Len(Append(t, f))
    BY <1>2, <2>2, <2>3
  <2> QED BY <1>1, <2>2, <2>4
<1>5. \A j \in DOMAIN t : IsCall(t[j]) => \E k \in j..Len(t) : IsCall(t[k]) /\ t[k].pack = e.pack
  BY <1>3
<1>6. \A f \in PatternRows : \A j \in DOMAIN Append(t, f) : IsCall(Append(t, f)[j]) =>
        \E k \in j..Len(Append(t, f)) : IsCall(Append(t, f)[k]) /\ Append(t, f)[k].pack = e.pack
  BY <1>4
<1> QED BY <1>5, <1>6 DEF t

\* An answered hydrate is remembered as the last file, and the list cut to its end.
LEMMA TrailGrows ==
    ASSUME NEW s \in Seq(TelRows), NEW e \in TelRows, NEW p, NEW files \in Seq(Symbol),
           IsCall(e), e.pack = p, TrailIn(s, p, files)
    PROVE  /\ ~(e.kind = "hydrate" /\ e.n = 1) => TrailIn(Append(s, e), p, files)
           /\ e.kind = "hydrate" /\ e.n = 1 /\ e.what \in Symbol =>
                TrailIn(Append(s, e), p, Append(files, e.what))
<1> DEFINE t == Append(s, e)
           H == AnsweredIn(s, p)
           x == Len(s) + 1
<1>1. /\ Len(s) \in Nat /\ \A i \in 1..Len(s) : t[i] = s[i]
      /\ t[x] = e
  BY RowAppended
<1>2. /\ H \in SUBSET (1..Len(s))
      /\ \A T \in SUBSET H : IsFiniteSet(T) /\ Cardinality(T) \in Nat
  BY AnsweredIsFinite
<1>3. AnsweredIn(t, p) = IF e.kind = "hydrate" /\ e.n = 1 THEN H \cup {x} ELSE H
  BY AnsweredGrows
<1>4. \A m \in DOMAIN files : \E j \in H :
        s[j].what = files[m] /\ Cardinality({k \in H : k >= j}) = Len(files) - m + 1
  BY DEF TrailIn
<1> HIDE DEF t, H
<1>5. ASSUME ~(e.kind = "hydrate" /\ e.n = 1) PROVE TrailIn(t, p, files)
  <2>1. AnsweredIn(t, p) = H
    BY <1>3, <1>5
  <2>2. \A j \in H : t[j] = s[j]
    BY <1>1, <1>2
  <2> QED BY <1>4, <2>1, <2>2 DEF TrailIn
<1>6. ASSUME e.kind = "hydrate", e.n = 1, e.what \in Symbol, NEW m \in DOMAIN Append(files, e.what)
      PROVE  \E j \in H \cup {x} :
               /\ t[j].what = Append(files, e.what)[m]
               /\ Cardinality({k \in H \cup {x} : k >= j}) = Len(Append(files, e.what)) - m + 1
  <2>1. /\ Len(files) \in Nat /\ Len(Append(files, e.what)) = Len(files) + 1
        /\ DOMAIN Append(files, e.what) = 1..Len(files) + 1 /\ DOMAIN files = 1..Len(files)
        /\ \A i \in 1..Len(files) : Append(files, e.what)[i] = files[i]
        /\ Append(files, e.what)[Len(files) + 1] = e.what
    BY <1>6
  <2>2. CASE m = Len(files) + 1
    <3>1. {k \in H \cup {x} : k >= x} = {x}
      <4>1. (\A k \in H : ~(k >= x)) /\ x >= x
        BY <1>1, <1>2
      <4> HIDE DEF x
      <4> QED BY <4>1
    <3>2. Cardinality({x}) = 1
      BY FS_Singleton
    <3>3. t[x].what = Append(files, e.what)[m] /\ Len(Append(files, e.what)) - m + 1 = 1
      BY <1>1, <2>1, <2>2
    <3> HIDE DEF x
    <3> QED BY <3>1, <3>2, <3>3
  <2>3. CASE m \in DOMAIN files
    <3>1. PICK j \in H : s[j].what = files[m] /\ Cardinality({k \in H : k >= j}) = Len(files) - m + 1
      BY <1>4, <2>3
    <3>2. {k \in H \cup {x} : k >= j} = {k \in H : k >= j} \cup {x} /\ x \notin {k \in H : k >= j}
      BY <1>1, <1>2
    <3>3. IsFiniteSet({k \in H : k >= j})
      BY <1>2
    <3>4. Cardinality({k \in H : k >= j} \cup {x}) = Cardinality({k \in H : k >= j}) + 1
      <4> HIDE DEF x
      <4> QED BY <3>2, <3>3, FS_AddElement
    <3>5. t[j].what = Append(files, e.what)[m]
      BY <1>1, <1>2, <2>1, <2>3, <3>1
    <3>6. Cardinality({k \in H \cup {x} : k >= j}) = Len(Append(files, e.what)) - m + 1
      <4>1. Cardinality({k \in H : k >= j}) + 1 = Len(Append(files, e.what)) - m + 1
        <5> DEFINE before == Cardinality({k \in H : k >= j})
        <5>1. before = Len(files) - m + 1
          BY <3>1
        <5> HIDE DEF before
        <5>2. before + 1 = Len(Append(files, e.what)) - m + 1
          BY <2>1, <2>3, <5>1
        <5> QED BY <5>2 DEF before
      <4> QED BY <3>2, <3>4, <4>1
    <3> QED BY <3>5, <3>6
  <2>4. m = Len(files) + 1 \/ m \in DOMAIN files
    BY <2>1
  <2> QED BY <2>2, <2>3, <2>4
<1>7. ASSUME e.kind = "hydrate", e.n = 1, e.what \in Symbol PROVE TrailIn(t, p, Append(files, e.what))
  BY <1>3, <1>6, <1>7 DEF TrailIn
<1> QED BY <1>5, <1>7 DEF t

LEMMA TrailIsCut ==
    ASSUME NEW s, NEW p, NEW files \in Seq(Symbol), TrailIn(s, p, files),
           NEW n \in Nat, n <= Len(files)
    PROVE  LET kept == SubSeq(files, Len(files) - n + 1, Len(files)) IN
           kept \in Seq(Symbol) /\ TrailIn(s, p, kept)
<1> DEFINE kept == SubSeq(files, Len(files) - n + 1, Len(files))
<1>1. /\ kept \in Seq(Symbol) /\ Len(kept) = n /\ DOMAIN kept = 1..n
      /\ \A m \in 1..n : kept[m] = files[m + Len(files) - n]
      /\ \A m \in 1..n : m + Len(files) - n \in DOMAIN files
      /\ Len(files) \in Nat
  OBVIOUS
<1> HIDE DEF kept
<1>2. ASSUME NEW m \in DOMAIN kept
      PROVE  \E j \in AnsweredIn(s, p) :
               /\ s[j].what = kept[m]
               /\ Cardinality({k \in AnsweredIn(s, p) : k >= j}) = Len(kept) - m + 1
  <2> DEFINE i == m + Len(files) - n
  <2>1. i \in DOMAIN files /\ kept[m] = files[i] /\ Len(files) - i + 1 = Len(kept) - m + 1
    BY <1>1
  <2> HIDE DEF i
  <2>2. PICK j \in AnsweredIn(s, p) :
          /\ s[j].what = files[i]
          /\ Cardinality({k \in AnsweredIn(s, p) : k >= j}) = Len(files) - i + 1
    BY <2>1 DEF TrailIn
  <2> QED BY <2>1, <2>2
<1> QED BY <1>1, <1>2 DEF TrailIn, kept

\* A call that is no search leaves what was recalled as it is remembered.
LEMMA AsksStay ==
    ASSUME NEW s \in Seq(TelRows), NEW e \in TelRows, NEW p, NEW recalled, NEW from,
           IsCall(e) => e.pack = p, e.kind # "search", AsksIn(s, p, recalled, from)
    PROVE  AsksIn(Append(s, e), p, recalled, from)
<1> DEFINE t == Append(s, e)
<1>1. /\ Len(s) \in Nat /\ DOMAIN s = 1..Len(s) /\ DOMAIN t = 1..Len(s) + 1
      /\ \A i \in 1..Len(s) : t[i] = s[i]
      /\ t[Len(s) + 1] = e
  BY RowAppended
<1>2. \A j \in 1..Len(s) : NowIn(t, p, j) <=> NowIn(s, p, j)
  BY NowGoesOn
<1> HIDE DEF t
<1>3. ASSUME NEW r \in recalled
      PROVE  \E j \in DOMAIN t : t[j].kind = "search" /\ NowIn(t, p, j) /\ t[j].what = r.q /\ t[j].at = r.at
  <2>1. PICK j \in DOMAIN s : s[j].kind = "search" /\ NowIn(s, p, j) /\ s[j].what = r.q /\ s[j].at = r.at
    BY DEF AsksIn
  <2> QED BY <1>1, <1>2, <2>1
<1>4. ASSUME NEW j \in DOMAIN t, t[j].kind = "search", NowIn(t, p, j), t[j].at >= from
      PROVE  [at |-> t[j].at, q |-> t[j].what] \in recalled
  <2>1. j \in DOMAIN s /\ t[j] = s[j]
    BY <1>1, <1>4
  <2>2. NowIn(s, p, j)
    BY <1>1, <1>2, <1>4, <2>1
  <2>3. s[j].kind = "search" /\ s[j].at >= from
    BY <1>4, <2>1
  <2>4. [at |-> s[j].at, q |-> s[j].what] \in recalled
    BY <2>1, <2>2, <2>3 DEF AsksIn
  <2> QED BY <2>1, <2>4
<1> QED BY <1>3, <1>4 DEF AsksIn, t

\* A call about p ends the eras before it.
LEMMA ErasGrow ==
    ASSUME NEW s \in Seq(TelRows), NEW e \in TelRows, NEW b \in Nat, NEW v, NEW w,
           ErasIn(s, b, v)
    PROVE  /\ IsCall(e) /\ e.pack = <<b, w>> => ErasIn(Append(s, e), b, w)
           /\ ~IsCall(e) /\ w = v => ErasIn(Append(s, e), b, w)
<1> DEFINE t == Append(s, e)
<1>1. /\ Len(s) \in Nat /\ DOMAIN s = 1..Len(s) /\ DOMAIN t = 1..Len(s) + 1 /\ Len(t) = Len(s) + 1
      /\ \A i \in 1..Len(s) : t[i] = s[i]
      /\ t[Len(s) + 1] = e
  BY RowAppended
<1> HIDE DEF t
<1>2. ASSUME IsCall(e), e.pack = <<b, w>>, NEW j \in DOMAIN t, IsCall(t[j])
      PROVE  /\ t[j].pack[1] <= b
             /\ t[j].pack[1] = b => \E k \in j..Len(t) : IsCall(t[k]) /\ t[k].pack = <<b, w>>
  <2>1. Len(s) + 1 \in j..Len(t)
    BY <1>1
  <2>2. t[j].pack[1] <= b
    <3>1. CASE j \in DOMAIN s
      BY <1>1, <1>2, <3>1 DEF ErasIn
    <3>2. CASE j = Len(s) + 1
      BY <1>1, <1>2, <3>2
    <3> QED BY <1>1, <3>1, <3>2
  <2> QED BY <1>1, <1>2, <2>1, <2>2
<1>3. ASSUME ~IsCall(e), w = v, NEW j \in DOMAIN t, IsCall(t[j])
      PROVE  /\ t[j].pack[1] <= b
             /\ t[j].pack[1] = b => \E k \in j..Len(t) : IsCall(t[k]) /\ t[k].pack = <<b, w>>
  <2>1. j \in DOMAIN s /\ t[j] = s[j]
    BY <1>1, <1>3
  <2>2. /\ s[j].pack[1] <= b
        /\ s[j].pack[1] = b => \E k \in j..Len(s) : IsCall(s[k]) /\ s[k].pack = <<b, v>>
    BY <1>3, <2>1 DEF ErasIn
  <2>3. \A k \in j..Len(s) : k \in j..Len(t) /\ t[k] = s[k]
    BY <1>1, <2>1
  <2> QED BY <1>3, <2>1, <2>2, <2>3
<1> QED BY <1>2, <1>3 DEF ErasIn, t

\* Rows of another era are not of this one.
LEMMA NothingBefore ==
    ASSUME NEW s \in Seq(TelRows), NEW e \in TelRows, NEW b \in Nat, NEW v, NEW w,
           ErasIn(s, b, v), w # v, IsCall(e), e.pack = <<b, w>>, e.kind \notin {"hydrate", "search"}
    PROVE  /\ AnsweredIn(Append(s, e), <<b, w>>) = {}
           /\ \A from : AsksIn(Append(s, e), <<b, w>>, {}, from)
<1> DEFINE t == Append(s, e)
           p == <<b, w>>
<1>1. /\ Len(s) \in Nat /\ DOMAIN s = 1..Len(s) /\ DOMAIN t = 1..Len(s) + 1 /\ Len(t) = Len(s) + 1
      /\ \A i \in 1..Len(s) : t[i] = s[i]
      /\ t[Len(s) + 1] = e
  BY RowAppended
<1> HIDE DEF t
<1>2. ASSUME NEW j \in 1..Len(s), IsCall(s[j]) PROVE ~NowIn(t, p, j)
  <2>1. SUFFICES ASSUME NowIn(t, p, j) PROVE FALSE
    OBVIOUS
  <2>2. s[j].pack = p
    <3>1. j \in j..Len(t) /\ t[j] = s[j]
      BY <1>1
    <3> QED BY <1>2, <2>1, <3>1 DEF NowIn
  <2>3. PICK k \in j..Len(s) : IsCall(s[k]) /\ s[k].pack = <<b, v>>
    <3>1. s[j].pack[1] = b
      BY <2>2
    <3> QED BY <1>1, <1>2, <3>1 DEF ErasIn
  <2>4. k \in j..Len(t) /\ t[k] = s[k]
    BY <1>1
  <2>5. s[k].pack = p
    BY <2>1, <2>3, <2>4 DEF NowIn
  <2> QED BY <2>3, <2>5
<1>3. \A j \in DOMAIN t : t[j].kind \in {"hydrate", "search"} => ~NowIn(t, p, j)
  <2>1. \A j \in DOMAIN t : t[j].kind \in {"hydrate", "search"} => IsCall(t[j]) /\ j # Len(s) + 1
    BY <1>1 DEF IsCall, Patterns
  <2> QED BY <1>1, <1>2, <2>1
<1>4. AnsweredIn(t, p) = {}
  BY <1>3 DEF AnsweredIn
<1>5. \A from : AsksIn(t, p, {}, from)
  BY <1>3 DEF AsksIn
<1> QED BY <1>4, <1>5 DEF t

LEMMA TelStarts == TelInit => TelInv
<1> SUFFICES ASSUME TelInit PROVE TelInv
  OBVIOUS
<1>1. /\ boot = 1 /\ version = NoVersion /\ hydrated = <<>> /\ searches = {} /\ answered = 0
      /\ logged = <<>> /\ ticks = 0
  BY DEF TelInit
<1>2. TelTypeOK
  BY <1>1, FS_EmptySet DEF TelTypeOK
<1>3. AnsweredIn(logged, Era) = {} /\ \A kind : CountIn(logged, kind) = 0
  <2>1. DOMAIN logged = {}
    BY <1>1
  <2> QED BY <2>1, FS_EmptySet DEF AnsweredIn, CountIn
<1>4. answered = Cardinality(AnsweredIn(logged, Era))
  BY <1>1, <1>3, FS_EmptySet
<1>5. DOMAIN logged = {} /\ DOMAIN hydrated = {} /\ searches = {}
  BY <1>1
<1>6. ErasIn(logged, boot, version) /\ TrailIn(logged, Era, hydrated) /\ AsksIn(logged, Era, searches, From)
  BY <1>5 DEF ErasIn, TrailIn, AsksIn
<1>7. SharesIn(logged)
  BY <1>3 DEF SharesIn
<1> QED BY <1>2, <1>4, <1>5, <1>6, <1>7 DEF TelInv, Recalled, TelTypeOK

\* The log stays exact when the new row is.
LEMMA LogStaysExact ==
    ASSUME NEW s \in Seq(TelRows), NEW e \in TelRows, \A i \in DOMAIN s : RowIsExact(s, i),
           RowIsExact(Append(s, e), Len(s) + 1)
    PROVE  \A i \in DOMAIN Append(s, e) : RowIsExact(Append(s, e), i)
<1>1. Len(s) \in Nat /\ DOMAIN s = 1..Len(s) /\ DOMAIN Append(s, e) = 1..Len(s) + 1
  BY RowAppended
<1>2. \A i \in 1..Len(s) : RowIsExact(Append(s, e), i)
  BY <1>1, AliveStays
<1> QED BY <1>1, <1>2

\* The row of a call about pack v.
LEMMA RowOfCall ==
    ASSUME boot \in Nat, ticks \in Nat, NEW v \in Version \cup {NoVersion},
           NEW kind \in CallKinds, NEW what \in Mentioned, NEW n \in Nat
    PROVE  LET e == Logged(v, kind, what, n) IN
           /\ e \in CallRows /\ e \in TelRows /\ IsCall(e) /\ e.pack = <<boot, v>>
           /\ e.kind = kind /\ e.what = what /\ e.n = n /\ e.at = ticks
<1> DEFINE e == Logged(v, kind, what, n)
<1>1. /\ e \in CallRows /\ e.pack = <<boot, v>>
      /\ e.kind = kind /\ e.what = what /\ e.n = n /\ e.at = ticks
  BY DEF Logged, CallRows, Eras
<1>2. e \in TelRows /\ IsCall(e)
  BY <1>1 DEF TelRows, IsCall, Patterns, CallKinds
<1> QED BY <1>1, <1>2

\* Behind a call about p, "of one pack" is "of p".
LEMMA BehindCall ==
    ASSUME NEW s \in Seq(TelRows), NEW e \in CallRows
    PROVE  LET t == Append(s, e) IN
           /\ \A j \in 1..Len(t) : IsCall(t[j]) => (AliveIn(t, j, Len(t)) <=> NowIn(t, e.pack, j))
           /\ HydratedIn(t, Len(t)) = AnsweredIn(t, e.pack)
           /\ \A f \in PatternRows : LET u == Append(t, f) IN
                /\ \A j \in 1..Len(u) : IsCall(u[j]) => (AliveIn(u, j, Len(u)) <=> NowIn(u, e.pack, j))
                /\ HydratedIn(u, Len(u)) = AnsweredIn(u, e.pack)
<1> DEFINE t == Append(s, e)
<1>1. t \in Seq(TelRows) /\ \A f \in PatternRows : Append(t, f) \in Seq(TelRows)
  BY RowAppended DEF TelRows
<1>2. /\ \A j \in DOMAIN t : IsCall(t[j]) => \E k \in j..Len(t) : IsCall(t[k]) /\ t[k].pack = e.pack
      /\ \A f \in PatternRows :
           LET u == Append(t, f) IN
           \A j \in DOMAIN u : IsCall(u[j]) => \E k \in j..Len(u) : IsCall(u[k]) /\ u[k].pack = e.pack
  BY FollowedByCall
<1> HIDE DEF t
<1>3. /\ \A j \in 1..Len(t) : IsCall(t[j]) => (AliveIn(t, j, Len(t)) <=> NowIn(t, e.pack, j))
      /\ HydratedIn(t, Len(t)) = AnsweredIn(t, e.pack)
  BY <1>1, <1>2, AliveIsNow
<1>4. ASSUME NEW f \in PatternRows
      PROVE  LET u == Append(t, f) IN
             /\ \A j \in 1..Len(u) : IsCall(u[j]) => (AliveIn(u, j, Len(u)) <=> NowIn(u, e.pack, j))
             /\ HydratedIn(u, Len(u)) = AnsweredIn(u, e.pack)
  <2> DEFINE u == Append(t, f)
  <2>1. /\ u \in Seq(TelRows)
        /\ \A j \in DOMAIN u : IsCall(u[j]) => \E k \in j..Len(u) : IsCall(u[k]) /\ u[k].pack = e.pack
    BY <1>1, <1>2
  <2> HIDE DEF u
  <2>2. /\ \A j \in 1..Len(u) : IsCall(u[j]) => (AliveIn(u, j, Len(u)) <=> NowIn(u, e.pack, j))
        /\ HydratedIn(u, Len(u)) = AnsweredIn(u, e.pack)
    BY <2>1, AliveIsNow
  <2> QED BY <2>2 DEF u
<1> QED BY <1>3, <1>4 DEF t

\* A call that remembers nothing; a raw read counts what was answered.
LEMMA PlainCall ==
    ASSUME TelTypeOK, NEW s, Recalled(s, hydrated, searches, answered),
           NEW kind \in CallKinds, NEW what \in Mentioned, NEW n \in Nat,
           kind # "search", ~(kind = "hydrate" /\ n = 1), kind = "raw_file" => n = answered
    PROVE  Recalled(Append(s, Logged(version, kind, what, n)), hydrated, searches, answered)
<1> DEFINE e == Logged(version, kind, what, n)
           t == Append(s, e)
<1>1. /\ e \in CallRows /\ e \in TelRows /\ IsCall(e) /\ e.pack = Era
      /\ e.kind = kind /\ e.what = what /\ e.n = n
  <2>1. boot \in Nat /\ ticks \in Nat /\ version \in Version \cup {NoVersion}
    BY DEF TelTypeOK
  <2> QED BY <2>1, RowOfCall DEF Era
<1>2. /\ s \in Seq(TelRows) /\ hydrated \in Seq(Symbol) /\ boot \in Nat
      /\ TrailIn(s, Era, hydrated) /\ AsksIn(s, Era, searches, From)
      /\ answered = Cardinality(AnsweredIn(s, Era))
      /\ (\A i \in DOMAIN s : RowIsExact(s, i)) /\ ErasIn(s, boot, version)
  BY DEF TelTypeOK, Recalled
<1> HIDE DEF e
<1>3. AnsweredIn(t, Era) = AnsweredIn(s, Era)
  BY <1>1, <1>2, AnsweredGrows
<1>4. TrailIn(t, Era, hydrated) /\ AsksIn(t, Era, searches, From)
  BY <1>1, <1>2, TrailGrows, AsksStay
<1>5. RowIsExact(t, Len(s) + 1)
  <2>1. Len(t) = Len(s) + 1 /\ t[Len(s) + 1] = e
    BY <1>1, <1>2, RowAppended
  <2>2. HydratedIn(t, Len(t)) = AnsweredIn(t, Era)
    BY <1>1, <1>2, BehindCall
  <2>3. e.kind \notin {"after_hydrate", "reformulated"}
    BY <1>1 DEF CallKinds
  <2> QED BY <1>1, <1>2, <1>3, <2>1, <2>2, <2>3 DEF RowIsExact
<1>6. \A i \in DOMAIN t : RowIsExact(t, i)
  BY <1>1, <1>2, <1>5, LogStaysExact
<1>7. t \in Seq(TelRows) /\ ErasIn(t, boot, version)
  BY <1>1, <1>2, RowAppended, ErasGrow DEF Era
<1> QED BY <1>2, <1>3, <1>4, <1>6, <1>7 DEF Recalled, e

\* A pattern's row changes nothing of it, if it is exact.
LEMMA PatternFollows ==
    ASSUME boot \in Nat, NEW s, NEW files, NEW recalled, NEW n, Recalled(s, files, recalled, n),
           NEW f \in PatternRows
    PROVE  LET u == Append(s, f) IN
           /\ TrailIn(u, Era, files) /\ AsksIn(u, Era, recalled, From) /\ n = Cardinality(AnsweredIn(u, Era))
           /\ RowIsExact(u, Len(s) + 1) => Recalled(u, files, recalled, n)
<1> DEFINE u == Append(s, f)
<1>1. f \in TelRows /\ ~IsCall(f) /\ f.kind # "hydrate" /\ f.kind # "search"
  BY DEF TelRows, PatternRows, IsCall, Patterns
<1>2. /\ s \in Seq(TelRows) /\ ErasIn(s, boot, version)
      /\ TrailIn(s, Era, files) /\ AsksIn(s, Era, recalled, From) /\ n = Cardinality(AnsweredIn(s, Era))
      /\ \A i \in DOMAIN s : RowIsExact(s, i)
  BY DEF Recalled
<1>3. u \in Seq(TelRows) /\ ErasIn(u, boot, version)
  BY <1>1, <1>2, RowAppended, ErasGrow
<1>4. AnsweredIn(u, Era) = AnsweredIn(s, Era)
  BY <1>1, <1>2, AnsweredGrows
<1>5. TrailIn(u, Era, files)
  <2>1. \A j \in AnsweredIn(s, Era) : u[j] = s[j]
    BY <1>1, <1>2, RowAppended DEF AnsweredIn
  <2> HIDE DEF u
  <2> QED BY <1>2, <1>4, <2>1 DEF TrailIn
<1>6. AsksIn(u, Era, recalled, From)
  BY <1>1, <1>2, AsksStay
<1>7. RowIsExact(u, Len(s) + 1) => \A i \in DOMAIN u : RowIsExact(u, i)
  BY <1>1, <1>2, LogStaysExact
<1> QED BY <1>2, <1>3, <1>4, <1>5, <1>6, <1>7 DEF Recalled

LEMMA AdvanceStep == TelInv /\ Advance => TelInv'
<1> SUFFICES ASSUME TelInv, Advance PROVE TelInv'
  OBVIOUS
<1>1. /\ ticks \in Nat /\ ticks' = ticks + 1
      /\ UNCHANGED <<boot, version, hydrated, searches, answered, logged>>
  BY DEF Advance, TelInv, TelTypeOK
<1>2. TelTypeOK'
  BY <1>1 DEF TelInv, TelTypeOK
<1>3. AsksIn(logged, Era, searches, ticks + 1 - Window)
  <2>1. \A j \in DOMAIN logged : logged[j].at \in Nat
    BY DEF TelInv, TelTypeOK, TelRows, CallRows, PatternRows
  <2>2. \A j \in DOMAIN logged : logged[j].at >= ticks + 1 - Window => logged[j].at >= ticks - Window
    BY <1>1, <2>1, TelAssumption
  <2>3. AsksIn(logged, Era, searches, ticks - Window)
    BY DEF TelInv, Recalled, From
  <2> DEFINE now == ticks + 1 - Window
             before == ticks - Window
  <2>4. \A j \in DOMAIN logged : logged[j].at >= now => logged[j].at >= before
    BY <2>2
  <2>5. AsksIn(logged, Era, searches, before)
    BY <2>3
  <2> HIDE DEF now, before
  <2>6. AsksIn(logged, Era, searches, now)
    BY <2>4, <2>5 DEF AsksIn
  <2> QED BY <2>6 DEF now
<1>4. /\ From' = ticks + 1 - Window /\ Era' = Era /\ logged' = logged /\ hydrated' = hydrated
      /\ searches' = searches /\ answered' = answered /\ boot' = boot /\ version' = version
  <2>1. From' = ticks' - Window
    BY DEF From
  <2>2. boot' = boot /\ version' = version
    BY <1>1
  <2>3. Era' = Era
    BY <2>2 DEF Era
  <2> QED BY <1>1, <2>1, <2>3, TelAssumption
<1>5. Recalled(logged, hydrated, searches, answered)'
  <2>1. Recalled(logged, hydrated, searches, answered)
    BY DEF TelInv
  <2> QED BY <1>3, <1>4, <2>1 DEF Recalled
<1> QED BY <1>2, <1>4, <1>5 DEF TelInv

LEMMA RebootStep == TelInv /\ Reboot => TelInv'
<1> SUFFICES ASSUME TelInv, Reboot PROVE TelInv'
  OBVIOUS
<1>1. /\ boot \in Nat /\ boot' = boot + 1 /\ version' = NoVersion
      /\ hydrated' = <<>> /\ searches' = {} /\ answered' = 0
      /\ UNCHANGED <<logged, ticks>> /\ logged \in Seq(TelRows)
  BY DEF Reboot, Forget, TelInv, TelTypeOK
<1>2. TelTypeOK'
  BY <1>1, FS_EmptySet DEF TelInv, TelTypeOK
<1>3. \A j \in DOMAIN logged : IsCall(logged[j]) => logged[j].pack[1] <= boot /\ logged[j].pack[1] \in Nat
  <2>1. \A j \in DOMAIN logged : IsCall(logged[j]) => logged[j].pack \in Eras
    <3>1. \A j \in DOMAIN logged : logged[j] \in TelRows
      BY <1>1
    <3> QED BY <3>1 DEF TelRows, CallRows, PatternRows, IsCall
  <2>2. ErasIn(logged, boot, version)
    BY DEF TelInv, Recalled
  <2> QED BY <2>1, <2>2 DEF ErasIn, Eras
<1>4. ErasIn(logged, boot + 1, NoVersion)
  BY <1>1, <1>3 DEF ErasIn
<1>5. \A j \in DOMAIN logged : IsCall(logged[j]) => ~NowIn(logged, <<boot + 1, NoVersion>>, j)
  <2> SUFFICES ASSUME NEW j \in DOMAIN logged, IsCall(logged[j]),
                      NowIn(logged, <<boot + 1, NoVersion>>, j)
               PROVE  FALSE
    OBVIOUS
  <2>1. j \in j..Len(logged)
    BY <1>1
  <2>2. logged[j].pack = <<boot + 1, NoVersion>>
    BY <2>1 DEF NowIn
  <2> QED BY <1>1, <1>3, <2>2
<1>6. \A j \in DOMAIN logged : logged[j].kind \in {"hydrate", "search"} => IsCall(logged[j])
  BY DEF IsCall, Patterns
<1>7. AnsweredIn(logged, <<boot + 1, NoVersion>>) = {}
  BY <1>5, <1>6 DEF AnsweredIn
<1>8. AsksIn(logged, <<boot + 1, NoVersion>>, {}, From)
  BY <1>1, <1>5, <1>6 DEF AsksIn
<1>9. TrailIn(logged, <<boot + 1, NoVersion>>, <<>>)
  BY DEF TrailIn
<1> QED BY <1>1, <1>2, <1>4, <1>7, <1>8, <1>9, FS_EmptySet DEF TelInv, Recalled, Era, From

LEMMA PackBuiltStep == ASSUME NEW v \in Version PROVE TelInv /\ PackBuilt(v) => TelInv'
<1> SUFFICES ASSUME TelInv, PackBuilt(v) PROVE TelInv'
  OBVIOUS
<1> DEFINE e == Logged(v, "pack_built", v, 0)
<1>1. /\ version' = v /\ logged' = Append(logged, e) /\ UNCHANGED <<boot, ticks>>
      /\ IF v = version THEN UNCHANGED <<hydrated, searches, answered>>
         ELSE hydrated' = <<>> /\ searches' = {} /\ answered' = 0
  BY DEF PackBuilt, SetPackVersion, Forget
<1>2. /\ e \in CallRows /\ e \in TelRows /\ IsCall(e) /\ e.pack = <<boot, v>> /\ e.kind = "pack_built"
  <2>1. /\ boot \in Nat /\ ticks \in Nat /\ version \in Version \cup {NoVersion}
        /\ NoVersion \in Mentioned /\ {"pack_built", "list"} \subseteq CallKinds
        /\ Version \subseteq Mentioned
    BY DEF TelInv, TelTypeOK, Mentioned, CallKinds
  <2> QED BY <2>1, RowOfCall
<1>3. /\ logged \in Seq(TelRows) /\ boot \in Nat /\ SharesIn(logged)
      /\ Recalled(logged, hydrated, searches, answered)
  BY DEF TelInv, TelTypeOK
<1>4. TelTypeOK'
  <2>1. logged' \in Seq(TelRows)
    BY <1>1, <1>2, <1>3, RowAppended
  <2>2. hydrated' \in Seq(Symbol) /\ answered' \in Nat /\ searches' \in SUBSET [at : Nat, q : Query]
          /\ IsFiniteSet(searches')
    <3>1. /\ <<>> \in Seq(Symbol) /\ 0 \in Nat /\ {} \in SUBSET [at : Nat, q : Query]
          /\ IsFiniteSet({})
      BY FS_EmptySet
    <3>2. /\ hydrated \in Seq(Symbol) /\ answered \in Nat /\ searches \in SUBSET [at : Nat, q : Query]
          /\ IsFiniteSet(searches)
      BY DEF TelInv, TelTypeOK
    <3> QED BY <1>1, <3>1, <3>2
  <2> QED BY <1>1, <2>1, <2>2 DEF TelInv, TelTypeOK
<1>5. SharesIn(logged')
  <2> HIDE DEF e
  <2> QED BY <1>1, <1>2, <1>3, SharesGrow
<1>6. CASE v = version
  <2>1. Recalled(Append(logged, e), hydrated, searches, answered)
    BY <1>3, <1>6, PlainCall DEF TelInv, Mentioned, CallKinds
  <2>2. Recalled(logged, hydrated, searches, answered)'
    BY <1>1, <1>6, <2>1 DEF Recalled, Era, From
  <2> QED BY <1>4, <1>5, <2>2 DEF TelInv, SharesIn
<1>7. CASE v # version
  <2> HIDE DEF e
  <2>1. ErasIn(logged, boot, version) /\ \A i \in DOMAIN logged : RowIsExact(logged, i)
    BY <1>3 DEF Recalled
  <2>2. AnsweredIn(Append(logged, e), <<boot, v>>) = {} /\ AsksIn(Append(logged, e), <<boot, v>>, {}, From)
    BY <1>2, <1>3, <1>7, <2>1, NothingBefore
  <2>3. ErasIn(Append(logged, e), boot, v)
    BY <1>2, <1>3, <2>1, ErasGrow
  <2>4. RowIsExact(Append(logged, e), Len(logged) + 1)
    BY <1>2, <1>3, RowAppended DEF RowIsExact
  <2>5. \A i \in DOMAIN Append(logged, e) : RowIsExact(Append(logged, e), i)
    BY <1>2, <1>3, <2>1, <2>4, LogStaysExact
  <2>6. TrailIn(Append(logged, e), <<boot, v>>, <<>>)
    BY DEF TrailIn
  <2>7. Append(logged, e) \in Seq(TelRows)
    BY <1>2, <1>3, RowAppended
  <2>8. Recalled(logged, hydrated, searches, answered)'
    BY <1>1, <1>7, <2>2, <2>3, <2>5, <2>6, <2>7, FS_EmptySet DEF Recalled, Era, From
  <2> QED BY <1>4, <1>5, <2>8 DEF TelInv, SharesIn
<1> QED BY <1>6, <1>7

LEMMA ListStep == TelInv /\ SymbolsListed => TelInv'
<1> SUFFICES ASSUME TelInv, SymbolsListed PROVE TelInv'
  OBVIOUS
<1> DEFINE e == Logged(version, "list", NoVersion, 0)
<1>1. /\ logged' = Append(logged, e)
      /\ UNCHANGED <<boot, version, hydrated, searches, answered, ticks>>
  BY DEF SymbolsListed
<1>2. /\ e \in TelRows /\ e.kind = "list"
  <2>1. /\ boot \in Nat /\ ticks \in Nat /\ version \in Version \cup {NoVersion}
        /\ NoVersion \in Mentioned /\ {"pack_built", "list"} \subseteq CallKinds
        /\ Version \subseteq Mentioned
    BY DEF TelInv, TelTypeOK, Mentioned, CallKinds
  <2>2. "list" \in CallKinds /\ 0 \in Nat
    BY <2>1
  <2>3. e \in CallRows /\ e.kind = "list"
    BY <2>1, <2>2 DEF Logged, CallRows, Eras
  <2> QED BY <2>3 DEF TelRows
<1>3. Recalled(Append(logged, e), hydrated, searches, answered)
  BY PlainCall DEF TelInv, Mentioned, CallKinds
<1> HIDE DEF e
<1>4. SharesIn(Append(logged, e))
  BY <1>2, SharesGrow DEF TelInv, TelTypeOK
<1>5. TelTypeOK'
  BY <1>1, <1>3 DEF TelInv, TelTypeOK, Recalled
<1> QED BY <1>1, <1>3, <1>4, <1>5 DEF TelInv, Recalled, Era, From, SharesIn

LEMMA HydrateStep == ASSUME NEW s \in Symbol PROVE TelInv /\ Hydrate(s) => TelInv'
<1> SUFFICES ASSUME TelInv, Hydrate(s) PROVE TelInv'
  OBVIOUS
<1>1. TelTypeOK /\ Recalled(logged, hydrated, searches, answered) /\ SharesIn(logged)
      /\ logged \in Seq(TelRows) /\ s \in Mentioned /\ hydrated \in Seq(Symbol) /\ boot \in Nat
  BY DEF TelInv, TelTypeOK, Mentioned
<1>2. UNCHANGED <<boot, version, searches, ticks>>
  BY DEF Hydrate
<1>3. /\ ticks \in Nat /\ version \in Version \cup {NoVersion}
      /\ "hydrate" \in CallKinds /\ "not_in_pack" \in CallKinds
  BY DEF TelInv, TelTypeOK, CallKinds
<1>4. CASE s \in InPack[version]
  <2> DEFINE e == Logged(version, "hydrate", s, 1)
             all == Append(hydrated, s)
  <2>1. /\ e \in CallRows /\ e \in TelRows /\ IsCall(e) /\ e.pack = Era
        /\ e.kind = "hydrate" /\ e.n = 1 /\ e.what = s
    <3>1. e \in CallRows /\ e \in TelRows /\ IsCall(e) /\ e.pack = Era
      <4>1. /\ boot \in Nat /\ ticks \in Nat /\ version \in Version \cup {NoVersion}
            /\ "hydrate" \in CallKinds /\ s \in Mentioned /\ 1 \in Nat
        BY <1>1, <1>3
      <4>2. e \in CallRows /\ e \in TelRows /\ IsCall(e) /\ e.pack = <<boot, version>>
        BY <4>1, RowOfCall
      <4> QED BY <4>2 DEF Era
    <3>2. e.kind = "hydrate" /\ e.n = 1 /\ e.what = s
      BY DEF Logged
    <3> QED BY <3>1, <3>2
  <2>2. /\ logged' = Append(logged, e) /\ answered' = answered + 1
        /\ hydrated' = IF Len(all) > 2 * Lookback
                       THEN SubSeq(all, Len(all) - Lookback + 1, Len(all)) ELSE all
    BY <1>4 DEF Hydrate, Remember
  <2> HIDE DEF e
  <2>3. /\ TrailIn(logged, Era, hydrated) /\ AsksIn(logged, Era, searches, From)
        /\ answered = Cardinality(AnsweredIn(logged, Era))
        /\ (\A i \in DOMAIN logged : RowIsExact(logged, i)) /\ ErasIn(logged, boot, version)
    BY <1>1 DEF Recalled
  <2>4. logged' \in Seq(TelRows) /\ ErasIn(logged', boot, version) /\ AsksIn(logged', Era, searches, From)
    BY <1>1, <2>1, <2>2, <2>3, RowAppended, ErasGrow, AsksStay DEF Era
  <2>5. answered' = Cardinality(AnsweredIn(logged', Era))
    <3>1. AnsweredIn(logged', Era) = AnsweredIn(logged, Era) \cup {Len(logged) + 1}
      BY <1>1, <2>1, <2>2, AnsweredGrows
    <3>2. IsFiniteSet(AnsweredIn(logged, Era)) /\ Len(logged) + 1 \notin AnsweredIn(logged, Era)
      <4>1. AnsweredIn(logged, Era) \in SUBSET (1..Len(logged)) /\ Len(logged) \in Nat
        BY <1>1, AnsweredIsFinite
      <4> QED BY <1>1, <4>1, AnsweredIsFinite
    <3> QED BY <2>2, <2>3, <3>1, <3>2, FS_AddElement
  <2>6. hydrated' \in Seq(Symbol) /\ TrailIn(logged', Era, hydrated')
    <3>1. all \in Seq(Symbol) /\ Len(all) \in Nat
      BY <1>1
    <3>2. TrailIn(logged', Era, all)
      BY <1>1, <2>1, <2>2, <2>3, TrailGrows
    <3>3. CASE Len(all) > 2 * Lookback
      <4>1. Lookback \in Nat /\ Lookback <= Len(all)
        BY <3>1, <3>3, TelAssumption
      <4> HIDE DEF all
      <4> QED BY <2>2, <3>1, <3>2, <3>3, <4>1, TrailIsCut
    <3>4. CASE ~(Len(all) > 2 * Lookback)
      <4> HIDE DEF all
      <4> QED BY <2>2, <3>1, <3>2, <3>4
    <3> QED BY <3>3, <3>4
  <2>7. \A i \in DOMAIN logged' : RowIsExact(logged', i)
    <3>1. RowIsExact(logged', Len(logged) + 1)
      BY <1>1, <2>1, <2>2, RowAppended DEF RowIsExact
    <3> QED BY <1>1, <2>1, <2>2, <2>3, <3>1, LogStaysExact
  <2>8. SharesIn(logged')
    BY <1>1, <2>1, <2>2, SharesGrow
  <2>9. TelTypeOK'
    <3>1. answered' \in Nat
      BY <1>1, <2>2 DEF TelTypeOK
    <3> QED BY <1>1, <1>2, <2>4, <2>6, <3>1 DEF TelTypeOK
  <2> QED BY <1>2, <2>4, <2>5, <2>6, <2>7, <2>8, <2>9 DEF TelInv, Recalled, Era, From, SharesIn
<1>5. CASE s \notin InPack[version]
  <2> DEFINE e == Logged(version, "hydrate", s, 0)
             f == Logged(version, "not_in_pack", s, 0)
             t == Append(logged, e)
  <2>1. logged' = Append(t, f) /\ UNCHANGED <<hydrated, answered>>
    BY <1>5 DEF Hydrate, Remember
  <2>2. e \in TelRows /\ f \in TelRows /\ e.kind = "hydrate" /\ f.kind = "not_in_pack"
    BY <1>3, <1>1, RowOfCall
  <2>3. Recalled(t, hydrated, searches, answered)
    BY <1>1, PlainCall DEF CallKinds
  <2> HIDE DEF t
  <2>4. Recalled(Append(t, f), hydrated, searches, answered)
    BY <1>1, <2>3, PlainCall DEF CallKinds
  <2> HIDE DEF e, f
  <2>5. SharesIn(Append(t, f))
    BY <1>1, <2>2, SharesGrow DEF t
  <2>6. TelTypeOK'
    BY <1>1, <1>2, <2>1, <2>4 DEF TelTypeOK, Recalled
  <2> QED BY <1>2, <2>1, <2>4, <2>5, <2>6 DEF TelInv, Recalled, Era, From, SharesIn
<1> QED BY <1>4, <1>5

LEMMA SearchStep == ASSUME NEW q \in Query PROVE TelInv /\ Search(q) => TelInv'
<1> SUFFICES ASSUME TelInv, Search(q) PROVE TelInv'
  OBVIOUS
<1> DEFINE recent == Fresh(searches) \cup {[at |-> ticks, q |-> q]}
           wordings == {r.q : r \in {x \in recent : x.q[1] = q[1]}}
           e == Logged(version, "search", q, 0)
           t == Append(logged, e)
           f == Pattern("reformulated", q[1], Cardinality(wordings))
<1>1. /\ searches' = recent /\ UNCHANGED <<boot, version, hydrated, answered, ticks>>
      /\ logged' = IF Cardinality(wordings) < Threshold THEN t ELSE Append(t, f)
  BY DEF Search
<1>2. /\ TelTypeOK /\ SharesIn(logged) /\ logged \in Seq(TelRows)
      /\ boot \in Nat /\ ticks \in Nat /\ version \in Version \cup {NoVersion}
      /\ hydrated \in Seq(Symbol) /\ searches \in SUBSET [at : Nat, q : Query] /\ IsFiniteSet(searches)
      /\ TrailIn(logged, Era, hydrated) /\ AsksIn(logged, Era, searches, From)
      /\ answered = Cardinality(AnsweredIn(logged, Era))
      /\ (\A i \in DOMAIN logged : RowIsExact(logged, i)) /\ ErasIn(logged, boot, version)
  BY DEF TelInv, TelTypeOK, Recalled
<1>3. q \in Mentioned /\ q[1] \in Mentioned /\ "search" \in CallKinds
  BY DEF Mentioned, CallKinds
<1>4. /\ e \in CallRows /\ e \in TelRows /\ IsCall(e) /\ e.pack = Era
      /\ e.kind = "search" /\ e.what = q /\ e.at = ticks
  BY <1>2, <1>3, RowOfCall DEF Era
<1>5. /\ recent \in SUBSET [at : Nat, q : Query] /\ IsFiniteSet(recent)
      /\ \A r \in recent : r.at >= From
  <2>1. Fresh(searches) \in SUBSET searches
    BY DEF Fresh
  <2>2. IsFiniteSet(Fresh(searches))
    BY <1>2, <2>1, FS_Subset
  <2>3. IsFiniteSet(recent)
    BY <2>2, FS_AddElement
  <2>4. recent \in SUBSET [at : Nat, q : Query]
    BY <1>2, <2>1
  <2>5. \A r \in Fresh(searches) : r.at >= From
    BY DEF Fresh, From
  <2>6. ticks >= From
    BY <1>2, TelAssumption DEF From
  <2> QED BY <2>3, <2>4, <2>5, <2>6
<1>6. \A r \in searches : r.at >= From => r \in recent
  BY DEF Fresh, From
<1>7. [at |-> ticks, q |-> q] \in recent /\ \A r \in recent : r \in searches \/ r = [at |-> ticks, q |-> q]
  BY DEF Fresh
<1> HIDE DEF e, recent
<1>8. /\ Len(logged) \in Nat /\ DOMAIN logged = 1..Len(logged)
      /\ t \in Seq(TelRows) /\ DOMAIN t = 1..Len(logged) + 1 /\ Len(t) = Len(logged) + 1
      /\ \A i \in 1..Len(logged) : t[i] = logged[i]
      /\ t[Len(logged) + 1] = e
  BY <1>2, <1>4, RowAppended
<1>9. /\ \A j \in 1..Len(logged) : NowIn(t, Era, j) <=> NowIn(logged, Era, j)
      /\ NowIn(t, Era, Len(logged) + 1)
  BY <1>2, <1>4, NowGoesOn
<1> HIDE DEF t
<1>10. AsksIn(t, Era, recent, From)
  <2>1. ASSUME NEW r \in recent
        PROVE  \E j \in DOMAIN t : t[j].kind = "search" /\ NowIn(t, Era, j) /\ t[j].what = r.q /\ t[j].at = r.at
    <3>1. CASE r \in searches
      <4>1. PICK j \in DOMAIN logged :
              logged[j].kind = "search" /\ NowIn(logged, Era, j) /\ logged[j].what = r.q /\ logged[j].at = r.at
        BY <1>2, <3>1 DEF AsksIn
      <4> QED BY <1>8, <1>9, <4>1
    <3>2. CASE r = [at |-> ticks, q |-> q]
      <4>1. Len(logged) + 1 \in DOMAIN t /\ r.q = q /\ r.at = ticks
        BY <1>8, <3>2
      <4> QED BY <1>4, <1>8, <1>9, <4>1
    <3> QED BY <1>7, <3>1, <3>2
  <2>2. ASSUME NEW j \in DOMAIN t, t[j].kind = "search", NowIn(t, Era, j), t[j].at >= From
        PROVE  [at |-> t[j].at, q |-> t[j].what] \in recent
    <3>1. CASE j \in DOMAIN logged
      <4>1. t[j] = logged[j] /\ NowIn(logged, Era, j)
        BY <1>8, <1>9, <2>2, <3>1
      <4>2. [at |-> t[j].at, q |-> t[j].what] \in searches
        BY <1>2, <2>2, <3>1, <4>1 DEF AsksIn
      <4>3. [at |-> t[j].at, q |-> t[j].what].at = t[j].at
        OBVIOUS
      <4> QED BY <1>6, <2>2, <4>2, <4>3
    <3>2. CASE j = Len(logged) + 1
      <4>1. t[j].at = ticks /\ t[j].what = q
        BY <1>4, <1>8, <3>2
      <4> QED BY <1>7, <4>1
    <3> QED BY <1>8, <3>1, <3>2
  <2> QED BY <2>1, <2>2 DEF AsksIn
<1>11. RowIsExact(t, Len(logged) + 1)
  BY <1>4, <1>8 DEF RowIsExact
<1>12. Recalled(t, hydrated, recent, answered)
  <2>1. TrailIn(t, Era, hydrated) /\ AnsweredIn(t, Era) = AnsweredIn(logged, Era)
    BY <1>2, <1>4, TrailGrows, AnsweredGrows DEF t
  <2>2. ErasIn(t, boot, version)
    BY <1>2, <1>4, ErasGrow DEF Era, t
  <2>3. \A i \in DOMAIN t : RowIsExact(t, i)
    BY <1>2, <1>4, <1>11, LogStaysExact DEF t
  <2> QED BY <1>2, <1>8, <1>10, <2>1, <2>2, <2>3 DEF Recalled
<1>13. CASE Cardinality(wordings) < Threshold
  <2>1. SharesIn(t)
    BY <1>2, <1>4, SharesGrow DEF t
  <2>2. TelTypeOK'
    BY <1>1, <1>2, <1>5, <1>8, <1>13 DEF TelTypeOK
  <2> QED BY <1>1, <1>12, <1>13, <2>1, <2>2 DEF TelInv, Recalled, Era, From
<1>14. CASE ~(Cardinality(wordings) < Threshold)
  <2>1. Cardinality(wordings) \in Nat
    <3> DEFINE D == {x \in recent : x.q[1] = q[1]}
               g == [r \in D |-> r.q]
    <3>1. IsFiniteSet(D)
      <4>1. D \in SUBSET recent
        OBVIOUS
      <4> QED BY <1>5, <4>1, FS_Subset
    <3>2. g \in Surjection(D, wordings)
      BY DEF Surjection
    <3>3. IsFiniteSet(wordings)
      BY <3>1, <3>2, FS_Surjection DEF ExistsSurjection
    <3> HIDE DEF wordings
    <3> QED BY <3>3, FS_CardinalityType
  <2>2. /\ f \in PatternRows /\ f.kind = "reformulated" /\ f.what = q[1] /\ f.at = ticks
        /\ f.n = Cardinality(wordings)
    <3> HIDE DEF wordings
    <3> QED BY <1>2, <1>3, <2>1 DEF Pattern, PatternRows, Patterns
  <2> DEFINE u == Append(t, f)
  <2> HIDE DEF f
  <2>3. f \in TelRows
    BY <2>2 DEF TelRows
  <2>4. /\ u \in Seq(TelRows) /\ DOMAIN u = 1..Len(u) /\ Len(u) = Len(t) + 1 /\ u[Len(u)] = f
        /\ Len(u) \in Nat
    BY <1>8, <2>3, RowAppended
  <2>5. AsksIn(u, Era, recent, From)
    BY <1>2, <1>12, <2>2, PatternFollows
  <2>6. \A j \in 1..Len(u) : IsCall(u[j]) => (AliveIn(u, j, Len(u)) <=> NowIn(u, Era, j))
    BY <1>2, <1>4, <2>2, BehindCall DEF t
  <2> HIDE DEF u
  <2>7. AskedIn(u, Len(u)) = {j \in DOMAIN u : /\ u[j].kind = "search" /\ NowIn(u, Era, j)
                                               /\ u[j].what[1] = q[1] /\ u[j].at >= From}
    <3>1. \A j \in DOMAIN u : u[j].kind = "search" => IsCall(u[j])
      BY DEF IsCall, Patterns
    <3>2. u[Len(u)].at - Window = From
      BY <2>2, <2>4 DEF From
    <3>3. u[Len(u)].what = q[1]
      BY <2>2, <2>4
    <3> QED BY <2>4, <2>6, <3>1, <3>2, <3>3 DEF AskedIn
  <2>8. {u[j].what : j \in AskedIn(u, Len(u))} = wordings
    <3>1. ASSUME NEW j \in AskedIn(u, Len(u)) PROVE u[j].what \in wordings
      <4>1. [at |-> u[j].at, q |-> u[j].what] \in recent /\ u[j].what[1] = q[1]
        BY <2>5, <2>7 DEF AsksIn
      <4>2. [at |-> u[j].at, q |-> u[j].what].q = u[j].what
        OBVIOUS
      <4> QED BY <4>1, <4>2
    <3>2. ASSUME NEW w \in wordings PROVE \E j \in AskedIn(u, Len(u)) : u[j].what = w
      <4>1. PICK r \in recent : r.q = w /\ r.q[1] = q[1]
        OBVIOUS
      <4>2. PICK j \in DOMAIN u : u[j].kind = "search" /\ NowIn(u, Era, j) /\ u[j].what = r.q /\ u[j].at = r.at
        BY <2>5, <4>1 DEF AsksIn
      <4>3. r.at >= From
        BY <1>5, <4>1
      <4> QED BY <2>7, <4>1, <4>2, <4>3
    <3> HIDE DEF wordings
    <3> QED BY <3>1, <3>2
  <2>9. RowIsExact(u, Len(t) + 1)
    <3>1. f.n >= Threshold
      BY <1>14, <2>1, <2>2, TelAssumption
    <3> HIDE DEF wordings
    <3> QED BY <2>2, <2>4, <2>8, <3>1 DEF RowIsExact
  <2>10. Recalled(u, hydrated, recent, answered)
    BY <1>2, <1>12, <2>2, <2>9, PatternFollows DEF u
  <2>11. SharesIn(u)
    BY <1>2, <1>4, <2>2, <2>3, SharesGrow DEF u, t
  <2>12. logged' = u
    BY <1>1, <1>14 DEF u
  <2>13. TelTypeOK'
    BY <1>1, <1>2, <1>5, <2>4, <2>12 DEF TelTypeOK
  <2> QED BY <1>1, <2>10, <2>11, <2>12, <2>13 DEF TelInv, Recalled, Era, From
<1> QED BY <1>13, <1>14

LEMMA RawFileStep == ASSUME NEW p \in {s[1] : s \in Symbol} PROVE TelInv /\ RawFile(p) => TelInv'
<1> SUFFICES ASSUME TelInv, RawFile(p) PROVE TelInv'
  OBVIOUS
<1> DEFINE hits == {i \in DOMAIN hydrated : hydrated[i][1] = p}
           last == CHOOSE i \in hits : \A j \in hits : j <= i
           e == Logged(version, "raw_file", p, answered)
           t == Append(logged, e)
           f == Pattern("after_hydrate", hydrated[last], Len(hydrated) - last + 1)
<1>1. /\ UNCHANGED <<boot, version, hydrated, searches, answered, ticks>>
      /\ logged' = IF hits = {} THEN t ELSE Append(t, f)
  BY DEF RawFile
<1>2. /\ TelTypeOK /\ SharesIn(logged) /\ logged \in Seq(TelRows)
      /\ boot \in Nat /\ ticks \in Nat /\ version \in Version \cup {NoVersion}
      /\ hydrated \in Seq(Symbol) /\ answered \in Nat
      /\ Recalled(logged, hydrated, searches, answered)
  BY DEF TelInv, TelTypeOK
<1>3. p \in Mentioned /\ "raw_file" \in CallKinds
  <2>1. PICK s \in Symbol : p = s[1]
    OBVIOUS
  <2> QED BY <2>1 DEF Mentioned, CallKinds
<1>4. /\ e \in CallRows /\ e \in TelRows /\ IsCall(e) /\ e.pack = Era /\ e.kind = "raw_file"
  <2>1. /\ boot \in Nat /\ ticks \in Nat /\ version \in Version \cup {NoVersion}
        /\ "raw_file" \in CallKinds /\ p \in Mentioned /\ answered \in Nat
    BY <1>2, <1>3
  <2>2. e \in CallRows /\ e \in TelRows /\ IsCall(e) /\ e.pack = <<boot, version>> /\ e.kind = "raw_file"
    BY <2>1, RowOfCall
  <2> QED BY <2>2 DEF Era
<1>5. Recalled(t, hydrated, searches, answered)
  BY <1>2, <1>3, PlainCall
<1> HIDE DEF e
<1>6. CASE hits = {}
  <2>1. SharesIn(t)
    BY <1>2, <1>4, SharesGrow
  <2> HIDE DEF t
  <2>2. logged' = t
    BY <1>1, <1>6
  <2>3. TelTypeOK'
    BY <1>1, <1>2, <1>5, <2>2 DEF TelTypeOK, Recalled
  <2> QED BY <1>1, <1>5, <2>1, <2>2, <2>3 DEF TelInv, Recalled, Era, From
<1>7. CASE hits # {}
  <2>1. last \in DOMAIN hydrated /\ hydrated[last][1] = p
    <3>1. Len(hydrated) \in Nat /\ hits \in SUBSET (1..Len(hydrated))
      BY <1>2
    <3>2. \E i \in hits : \A j \in hits : j <= i
      <4> HIDE DEF hits
      <4> QED BY <1>7, <3>1, GreatestPosition
    <3>3. last \in hits
      <4> HIDE DEF hits
      <4> QED BY <3>2
    <3> HIDE DEF last
    <3> QED BY <3>3
  <2> HIDE DEF last, hits
  <2>2. hydrated[last] \in Symbol /\ Len(hydrated) - last + 1 \in Nat
    BY <1>2, <2>1
  <2>3. /\ f \in PatternRows /\ f.kind = "after_hydrate" /\ f.what = hydrated[last]
        /\ f.n = Len(hydrated) - last + 1
    BY <1>2, <2>2 DEF Pattern, PatternRows, Patterns, Mentioned
  <2> DEFINE u == Append(t, f)
  <2> HIDE DEF f
  <2>4. f \in TelRows
    BY <2>3 DEF TelRows
  <2>5. t \in Seq(TelRows)
    BY <1>5 DEF Recalled
  <2>6. u \in Seq(TelRows) /\ Len(u) = Len(t) + 1 /\ u[Len(u)] = f
    BY <2>4, <2>5, RowAppended
  <2>7. TrailIn(u, Era, hydrated)
    BY <1>2, <1>5, <2>3, PatternFollows
  <2>8. HydratedIn(u, Len(u)) = AnsweredIn(u, Era)
    BY <1>2, <1>4, <2>3, BehindCall
  <2>9. SharesIn(u)
    BY <1>2, <1>4, <2>3, <2>4, SharesGrow
  <2>10. RowIsExact(u, Len(t) + 1)
    <3> HIDE DEF u
    <3>1. \E j \in HydratedIn(u, Len(u)) :
            /\ u[j].what = hydrated[last]
            /\ Cardinality({k \in HydratedIn(u, Len(u)) : k >= j}) = Len(hydrated) - last + 1
      BY <2>1, <2>7, <2>8 DEF TrailIn
    <3> QED BY <2>3, <2>6, <3>1 DEF RowIsExact
  <2>11. Recalled(u, hydrated, searches, answered)
    BY <1>2, <1>5, <2>3, <2>10, PatternFollows
  <2>12. logged' = u
    BY <1>1, <1>7 DEF last, hits, f
  <2> HIDE DEF u
  <2>13. TelTypeOK'
    BY <1>1, <1>2, <2>6, <2>12 DEF TelTypeOK
  <2> QED BY <1>1, <2>9, <2>11, <2>12, <2>13 DEF TelInv, Recalled, Era, From
<1> QED BY <1>6, <1>7

LEMMA TelSteps == TelInv /\ [TelNext]_telVars => TelInv'
<1> SUFFICES ASSUME TelInv, [TelNext]_telVars PROVE TelInv'
  OBVIOUS
<1>1. CASE UNCHANGED telVars
  BY <1>1 DEF telVars, TelInv, TelTypeOK, Recalled, Era, From
<1> QED BY <1>1, AdvanceStep, RebootStep, PackBuiltStep, ListStep, HydrateStep, SearchStep, RawFileStep
        DEF TelNext

\* Whatever is packed, recalled and read, and however often the server starts again, a
\* row claims no more than the calls of its pack and its server.
THEOREM TelemetryStaysExact == TelSpec => []TelemetryIsExact
<1>1. TelInv => TelemetryIsExact
  BY LogIsExactMeans DEF TelInv, Recalled, LogIsExact
<1> QED BY <1>1, TelStarts, TelSteps, PTL DEF TelSpec

=============================================================================
