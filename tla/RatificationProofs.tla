-------------------------- MODULE RatificationProofs --------------------------
(***************************************************************************)
(* What Ratification.tla guarantees for every set of processes and facts:  *)
(* first what holds however many commands run at once and whatever faults  *)
(* hit them, then what holds of commands that run one at a time, killed    *)
(* and torn as they may be.                                                *)
(***************************************************************************)
EXTENDS Ratification, PositionLemmas, SequenceTheorems, FiniteSetTheorems, TLAPS

(***************************************************************************)
(* Facts about one append.                                                 *)
(***************************************************************************)
LEMMA AppendToType ==
    ASSUME NEW file \in Seq(Line), NEW line \in Line
    PROVE  AppendTo(file, line) \in Seq(Line)
<1>1. CASE file # <<>> /\ ~file[Len(file)].ended
  <2>1. Len(file) \in 1..Len(file)
    BY <1>1, EmptySeq
  <2>2. [event |-> Unreadable, ended |-> line.ended] \in Line
    BY DEF Line
  <2> QED BY <1>1, <2>1, <2>2, ExceptSeq DEF AppendTo
<1>2. CASE ~(file # <<>> /\ ~file[Len(file)].ended)
  BY <1>2, AppendProperties DEF AppendTo
<1> QED BY <1>1, <1>2

EventsOf(file) == [i \in DOMAIN file |-> file[i].event]
Complete(file, events) == ~Malformed(file) => EventsOf(file) = events

\* A file that stays healthy holds what it held and the new event.
LEMMA AppendKeepsComplete ==
    ASSUME NEW file \in Seq(Line), NEW line \in Line,
           NEW events \in Seq(Event), NEW event \in Event,
           line.event \in {Unreadable, event}, Complete(file, events)
    PROVE  Complete(AppendTo(file, line), Append(events, event))
<1>0. Len(file) \in Nat /\ DOMAIN file = 1..Len(file)
  BY LenProperties
<1>1. CASE file # <<>> /\ ~file[Len(file)].ended
  <2>1. Len(file) \in DOMAIN file
    BY <1>0, <1>1, EmptySeq
  <2>2. AppendTo(file, line) =
          [file EXCEPT ![Len(file)] = [event |-> Unreadable, ended |-> line.ended]]
    BY <1>1 DEF AppendTo
  <2>3. /\ Len(file) \in DOMAIN AppendTo(file, line)
        /\ AppendTo(file, line)[Len(file)].event = Unreadable
    BY <2>1, <2>2
  <2>4. Malformed(AppendTo(file, line))
    BY <2>3 DEF Malformed
  <2> QED BY <2>4 DEF Complete
<1>2. CASE ~(file # <<>> /\ ~file[Len(file)].ended)
  <2> PICK new : new = AppendTo(file, line)
    OBVIOUS
  <2>1. new = Append(file, line)
    BY <1>2 DEF AppendTo
  <2>2. /\ new \in Seq(Line) /\ Len(new) = Len(file) + 1
        /\ \A i \in 1..Len(file) : new[i] = file[i]
        /\ new[Len(file) + 1] = line
    BY <2>1, AppendProperties
  <2>3. DOMAIN new = 1..Len(file) + 1
    BY <2>2, LenProperties
  <2> SUFFICES ASSUME ~Malformed(new)
               PROVE  EventsOf(new) = Append(events, event)
    BY DEF Complete
  <2>4. line.event = event
    <3>1. new[Len(file) + 1].event # Unreadable
      BY <1>0, <2>3 DEF Malformed
    <3> QED BY <2>2, <3>1
  <2>5. EventsOf(file) = events
    <3>1. ~Malformed(file)
      BY <1>0, <2>2, <2>3 DEF Malformed
    <3> QED BY <3>1 DEF Complete
  <2>6. Len(events) = Len(file)
    <3>1. DOMAIN events = 1..Len(file)
      BY <1>0, <2>5 DEF EventsOf
    <3>2. DOMAIN events = 1..Len(events) /\ Len(events) \in Nat
      BY LenProperties
    <3>3. Len(events) \in 1..Len(events) \/ Len(events) = 0
      BY <3>2
    <3>4. Len(file) \in 1..Len(file) \/ Len(file) = 0
      BY <1>0
    <3> QED BY <1>0, <3>1, <3>2, <3>3, <3>4
  <2>7. /\ Append(events, event) \in Seq(Event)
        /\ Len(Append(events, event)) = Len(file) + 1
        /\ \A i \in 1..Len(file) : Append(events, event)[i] = events[i]
        /\ Append(events, event)[Len(file) + 1] = event
    BY <2>6, AppendProperties
  <2> PICK after : after = Append(events, event)
    OBVIOUS
  <2>8. DOMAIN after = 1..Len(file) + 1 /\ after = [i \in DOMAIN after |-> after[i]]
    BY <2>7, LenProperties
  <2>9. \A i \in 1..Len(file) + 1 : new[i].event = after[i]
    <3>1. \A i \in 1..Len(file) : file[i].event = events[i]
      BY <1>0, <2>5 DEF EventsOf
    <3>2. \A i \in 1..Len(file) + 1 : i \in 1..Len(file) \/ i = Len(file) + 1
      BY <1>0
    <3> QED BY <2>2, <2>4, <2>7, <3>1, <3>2
  <2> QED BY <2>3, <2>8, <2>9 DEF EventsOf
<1> QED BY <1>1, <1>2

(***************************************************************************)
(* Type correctness, with the completeness of every file.                  *)
(***************************************************************************)
RatInv == TypeOK /\ \A id \in DOMAIN files : Complete(files[id], attempts[id])

CountType == [calls : 0..MaxCalls, faults : 0..MaxFaults, overlap : BOOLEAN]

LEMMA CountUp ==
    ASSUME NEW c \in CountType
    PROVE  /\ c.calls < MaxCalls => [c EXCEPT !.calls = c.calls + 1] \in CountType
           /\ c.faults < MaxFaults => [c EXCEPT !.faults = c.faults + 1] \in CountType
<1> PICK n \in 0..MaxCalls, m \in 0..MaxFaults, o \in BOOLEAN :
           c = [calls |-> n, faults |-> m, overlap |-> o]
  BY DEF CountType
<1> USE RatificationBounds
<1>1. c.calls = n /\ c.faults = m
  OBVIOUS
<1>2. /\ n < MaxCalls => n + 1 \in 0..MaxCalls
      /\ m < MaxFaults => m + 1 \in 0..MaxFaults
  OBVIOUS
<1>3. /\ \A k \in 0..MaxCalls : [c EXCEPT !.calls = k] \in CountType
      /\ \A k \in 0..MaxFaults : [c EXCEPT !.faults = k] \in CountType
  BY DEF CountType
<1> QED BY <1>1, <1>2, <1>3, Zenon

LEMMA Running ==
    ASSUME TypeOK, NEW p \in Proc,
           \/ call[p] # Idle
           \/ \E pc \in {"list", "read", "name", "rename", "open", "write", "done"} : At(p, pc)
    PROVE  call[p] \in Job
  BY DEF TypeOK, At, Idle

\* A step of p that leaves the files alone.
LEMMA CallStep ==
    ASSUME RatInv, NEW p \in Proc, NEW j \in {Idle} \cup Job,
           call' = [call EXCEPT ![p] = j],
           UNCHANGED log, journal' \in 0..Len(files),
           quarantine' \in [Name -> 0..Len(files)], counts' \in CountType,
           j.pc = "write" => j.file \in 1..Len(files)
    PROVE  RatInv'
<1>1. /\ call' \in [Proc -> {Idle} \cup Job]
      /\ \A q \in Proc : At(q, "write")' => call'[q].file \in 1..Len(files)
  BY DEF RatInv, TypeOK, At
<1> QED BY <1>1 DEF RatInv, TypeOK, CountType, log

\* What p appends to its file, before going on to hold j.
LEMMA WriteStep ==
    ASSUME RatInv, NEW p \in Proc, At(p, "write"), NEW j \in {Idle} \cup Job,
           j.pc # "write", call' = [call EXCEPT ![p] = j],
           NEW line \in Line, line.event \in {Unreadable, call[p].event},
           AppendLine(p, line), counts' \in CountType
    PROVE  RatInv'
<1> PICK id, event : id = call[p].file /\ event = call[p].event
  OBVIOUS
<1>1. call[p] \in Job
  BY Running DEF RatInv
<1>2. id \in 1..Len(files) /\ event \in Event
  BY <1>1 DEF RatInv, TypeOK, Job
<1>3. /\ files \in Seq(Seq(Line)) /\ attempts \in Seq(Seq(Event))
      /\ Len(attempts) = Len(files)
  BY DEF RatInv, TypeOK
<1>4. /\ DOMAIN files = 1..Len(files) /\ DOMAIN attempts = 1..Len(files)
      /\ files[id] \in Seq(Line) /\ attempts[id] \in Seq(Event)
  BY <1>2, <1>3, LenProperties, ElementOfSeq
<1> PICK new, events : /\ new = AppendTo(files[id], line)
                       /\ events = Append(attempts[id], event)
  OBVIOUS
<1>5. new \in Seq(Line) /\ events \in Seq(Event)
  BY <1>2, <1>4, AppendToType, AppendProperties
<1>6. Complete(new, events)
  BY <1>2, <1>4, AppendKeepsComplete DEF RatInv
<1>7. files' = [files EXCEPT ![id] = new] /\ attempts' = [attempts EXCEPT ![id] = events]
  BY DEF AppendLine
<1>8. /\ files' \in Seq(Seq(Line)) /\ Len(files') = Len(files)
      /\ attempts' \in Seq(Seq(Event)) /\ Len(attempts') = Len(files)
  BY <1>2, <1>3, <1>5, <1>7, ExceptSeq
<1>9. \A k \in DOMAIN files' : Complete(files'[k], attempts'[k])
  <2> SUFFICES ASSUME NEW k \in DOMAIN files' PROVE Complete(files'[k], attempts'[k])
    OBVIOUS
  <2>1. CASE k = id
    BY <1>4, <1>6, <1>7, <2>1, <1>2
  <2>2. CASE k # id
    <3>1. k \in DOMAIN files /\ files'[k] = files[k] /\ attempts'[k] = attempts[k]
      BY <1>4, <1>7, <2>2
    <3> QED BY <3>1 DEF RatInv
  <2> QED BY <2>1, <2>2
<1>10. latest' \in [Fact -> Action \cup {"none"}]
  BY <1>2 DEF AppendLine, RatInv, TypeOK, Event
<1>11. /\ call' \in [Proc -> {Idle} \cup Job]
       /\ \A q \in Proc : At(q, "write")' => call'[q].file \in 1..Len(files)
  BY DEF RatInv, TypeOK, At
<1> QED BY <1>8, <1>9, <1>10, <1>11 DEF RatInv, TypeOK, CountType, AppendLine

LEMMA RatInit == Init => RatInv
<1> SUFFICES ASSUME Init PROVE RatInv
  OBVIOUS
<1> USE RatificationBounds
<1>1. files = <<>> /\ attempts = <<>> /\ journal = 0 /\ Len(files) = 0
  BY DEF Init
<1>2. files \in Seq(Seq(Line)) /\ attempts \in Seq(Seq(Event)) /\ DOMAIN files = {}
  BY <1>1
<1>3. /\ quarantine \in [Name -> 0..Len(files)] /\ journal \in 0..Len(files)
      /\ latest \in [Fact -> Action \cup {"none"}]
      /\ counts \in [calls : 0..MaxCalls, faults : 0..MaxFaults, overlap : BOOLEAN]
  BY <1>1 DEF Init
<1>4. call \in [Proc -> {Idle} \cup Job] /\ \A p \in Proc : ~At(p, "write")
  BY DEF Init, At, Idle
<1> QED BY <1>1, <1>2, <1>3, <1>4 DEF RatInv, TypeOK

LEMMA RatNext == RatInv /\ [Next]_vars => RatInv'
<1> SUFFICES ASSUME RatInv, [Next]_vars PROVE RatInv'
  OBVIOUS
<1> USE RatificationBounds
<1>t. /\ TypeOK
      /\ call \in [Proc -> {Idle} \cup Job] /\ counts \in CountType
      /\ journal \in 0..Len(files) /\ quarantine \in [Name -> 0..Len(files)]
  BY DEF RatInv, TypeOK, CountType
<1>i. Len(files) \in Nat /\ Idle.pc # "write"
  BY <1>t, LenProperties DEF TypeOK, Idle
<1>f. ASSUME Fault PROVE counts' \in CountType
  BY <1>f, <1>t, CountUp, Zenon DEF Fault
\* a step that only moves the process
<1>m. ASSUME NEW p \in Proc, NEW j \in {Idle} \cup Job, j.pc # "write",
             call' = [call EXCEPT ![p] = j],
             UNCHANGED store, counts' \in CountType
      PROVE  RatInv'
  <2>1. UNCHANGED log /\ journal' \in 0..Len(files)
        /\ quarantine' \in [Name -> 0..Len(files)]
    BY <1>m, <1>t DEF store
  <2> QED BY <1>m, <2>1, CallStep
<1>1. ASSUME NEW p \in Proc, NEW kind \in {"why", "record", "rotate"},
             NEW event \in Event, Start(p, kind, event)
      PROVE  RatInv'
  <2>1. counts' \in CountType
    BY <1>1, <1>t, CountUp, Zenon DEF Start
  <2> PICK j : j = [pc |-> "list", kind |-> kind, event |-> event, seen |-> 0,
                    failed |-> FALSE, name |-> 0, file |-> 0]
    OBVIOUS
  <2>2. j \in Job /\ j.pc # "write"
    BY DEF Job
  <2>3. call' = [call EXCEPT ![p] = j] /\ UNCHANGED store
    BY <1>1 DEF Start
  <2> QED BY <1>m, <2>1, <2>2, <2>3
<1>2. ASSUME NEW p \in Proc, List(p) PROVE RatInv'
  <2>1. call[p] \in Job
    BY <1>t, <1>2, Running DEF List
  <2>2. Cardinality(Quarantined) \in Nat
    <3>1. IsFiniteSet(Name) /\ Quarantined \subseteq Name
      BY FS_Interval DEF Name, Quarantined
    <3> QED BY <3>1, FS_Subset, FS_CardinalityType
  <2> PICK j : j = [call[p] EXCEPT !.pc = "read", !.seen = Cardinality(Quarantined)]
    OBVIOUS
  <2>3. j \in Job /\ j.pc # "write"
    BY <2>1, <2>2 DEF Job
  <2>4. call' = [call EXCEPT ![p] = j] /\ UNCHANGED <<store, counts>>
    BY <1>2, <1>t DEF List
  <2> QED BY <1>m, <1>t, <2>3, <2>4
<1>3. ASSUME NEW p \in Proc, Read(p) PROVE RatInv'
  <2>1. call[p] \in Job
    BY <1>t, <1>3, Running DEF Read
  <2> PICK failed \in {FALSE} \cup {journal # 0} :
         call' = [call EXCEPT
                    ![p].pc = NextPc(call[p].kind, Malformed(Content(journal)) \/ failed),
                    ![p].failed = failed]
    BY <1>3 DEF Read
  <2> PICK pc : pc = NextPc(call[p].kind, Malformed(Content(journal)) \/ failed)
    OBVIOUS
  <2>2. pc \in {"open", "name", "done"}
    BY DEF NextPc
  <2> PICK j : j = [call[p] EXCEPT !.pc = pc, !.failed = failed]
    OBVIOUS
  <2>3. j \in Job /\ j.pc # "write"
    BY <2>1, <2>2 DEF Job
  <2>4. call' = [call EXCEPT ![p] = j] /\ UNCHANGED <<store, counts>>
    BY <1>3, <1>t DEF Read
  <2> QED BY <1>m, <1>t, <2>3, <2>4
<1>4. ASSUME NEW p \in Proc, PickName(p) PROVE RatInv'
  <2>1. call[p] \in Job
    BY <1>t, <1>4, Running DEF PickName
  <2>2. \E j \in Job : j.pc # "write" /\ call' = [call EXCEPT ![p] = j]
    <3>1. CASE journal = 0
      <4>1. [call[p] EXCEPT !.pc = "done"] \in Job
        BY <2>1 DEF Job
      <4>2. call' = [call EXCEPT ![p] = [call[p] EXCEPT !.pc = "done"]]
        BY <1>4, <1>t, <3>1 DEF PickName, Goto
      <4> QED BY <2>1, <4>1, <4>2 DEF Job
    <3>2. CASE journal # 0
      <4> PICK n \in Name : call' = [call EXCEPT ![p].pc = "rename", ![p].name = n]
        BY <1>4, <3>2 DEF PickName
      <4> PICK j : j = [call[p] EXCEPT !.pc = "rename", !.name = n]
        OBVIOUS
      <4>1. j \in Job /\ j.pc = "rename"
        BY <2>1 DEF Job
      <4>2. call' = [call EXCEPT ![p] = j]
        BY <1>t
      <4> QED BY <4>1, <4>2
    <3> QED BY <3>1, <3>2
  <2> PICK j \in Job : j.pc # "write" /\ call' = [call EXCEPT ![p] = j]
    BY <2>2
  <2>3. UNCHANGED <<store, counts>>
    BY <1>4 DEF PickName
  <2> QED BY <1>m, <1>t, <2>3
<1>5. ASSUME NEW p \in Proc, Rename(p) PROVE RatInv'
  <2>1. call[p] \in Job
    BY <1>t, <1>5, Running DEF Rename
  <2>2. \E j \in Job : j.pc # "write" /\ call' = [call EXCEPT ![p] = j]
    <3>1. /\ [call[p] EXCEPT !.pc = "done"] \in Job
          /\ [call[p] EXCEPT !.pc = "open"] \in Job
          /\ [call[p] EXCEPT !.pc = "done"].pc # "write"
          /\ [call[p] EXCEPT !.pc = "open"].pc # "write"
      BY <2>1 DEF Job
    <3>2. \/ call' = [call EXCEPT ![p] = [call[p] EXCEPT !.pc = "done"]]
          \/ call' = [call EXCEPT ![p] = [call[p] EXCEPT !.pc = "open"]]
      BY <1>5, <1>t DEF Rename, Goto
    <3> QED BY <3>1, <3>2
  <2> PICK j \in Job : j.pc # "write" /\ call' = [call EXCEPT ![p] = j]
    BY <2>2
  <2>3. /\ UNCHANGED log /\ UNCHANGED counts
        /\ journal' \in 0..Len(files) /\ quarantine' \in [Name -> 0..Len(files)]
    BY <1>5, <1>t, <1>i DEF Rename, store
  <2> QED BY <1>t, <2>3, CallStep
<1>6. ASSUME NEW p \in Proc, Open(p) PROVE RatInv'
  <2>1. call[p] \in Job
    BY <1>t, <1>6, Running DEF Open
  <2>2. CASE journal # 0
    <3> PICK j : j = [call[p] EXCEPT !.pc = "write", !.file = journal]
      OBVIOUS
    <3>1. j \in Job /\ j.file \in 1..Len(files)
      <4>1. journal \in Nat /\ journal \in 1..Len(files)
        BY <1>t, <1>i, <2>2
      <4> QED BY <2>1, <4>1 DEF Job
    <3>2. call' = [call EXCEPT ![p] = j] /\ UNCHANGED store /\ UNCHANGED counts
      BY <1>6, <1>t, <2>2 DEF Open
    <3>3. /\ UNCHANGED log
          /\ journal' \in 0..Len(files) /\ quarantine' \in [Name -> 0..Len(files)]
      BY <1>t, <3>2 DEF store
    <3> QED BY <1>t, <3>1, <3>2, <3>3, CallStep
  <2>3. CASE journal = 0
    <3> PICK n : n = Len(files) + 1
      OBVIOUS
    <3> PICK j : j = [call[p] EXCEPT !.pc = "write", !.file = n]
      OBVIOUS
    <3>1. j \in Job /\ j.file = n
      <4>1. n \in Nat
        BY <1>i
      <4> QED BY <2>1, <4>1 DEF Job
    <3>2. /\ files' = Append(files, <<>>) /\ attempts' = Append(attempts, <<>>)
          /\ journal' = n /\ call' = [call EXCEPT ![p] = j]
          /\ UNCHANGED <<quarantine, latest, counts>>
      BY <1>6, <1>t, <2>3 DEF Open
    <3>3. /\ files \in Seq(Seq(Line)) /\ attempts \in Seq(Seq(Event))
          /\ Len(attempts) = Len(files)
      BY <1>t DEF TypeOK
    <3>4. <<>> \in Seq(Line) /\ <<>> \in Seq(Event)
      BY EmptySeq
    <3>5. /\ files' \in Seq(Seq(Line)) /\ Len(files') = n
          /\ attempts' \in Seq(Seq(Event)) /\ Len(attempts') = n
          /\ \A k \in 1..Len(files) : files'[k] = files[k] /\ attempts'[k] = attempts[k]
          /\ files'[n] = <<>> /\ attempts'[n] = <<>>
      BY <3>2, <3>3, <3>4, AppendProperties
    <3>6. DOMAIN files' = 1..n /\ DOMAIN files = 1..Len(files)
      BY <3>3, <3>5, LenProperties
    <3>7. \A k \in DOMAIN files' : Complete(files'[k], attempts'[k])
      <4>1. Complete(<<>>, <<>>)
        BY DEF Complete, EventsOf
      <4>2. \A k \in 1..n : k = n \/ k \in 1..Len(files)
        BY <1>i
      <4> QED BY <3>5, <3>6, <4>1, <4>2 DEF RatInv
    <3>8. /\ journal' \in 0..Len(files') /\ quarantine' \in [Name -> 0..Len(files')]
      <4>1. 0..Len(files) \subseteq 0..n /\ n \in 0..n
        BY <1>i
      <4> QED BY <1>t, <3>2, <3>5, <4>1
    <3>9. /\ call' \in [Proc -> {Idle} \cup Job]
          /\ \A q \in Proc : At(q, "write")' => call'[q].file \in 1..Len(files')
      <4>1. call' \in [Proc -> {Idle} \cup Job]
        BY <1>t, <3>1, <3>2
      <4>2. ASSUME NEW q \in Proc, At(q, "write")' PROVE call'[q].file \in 1..Len(files')
        <5>1. CASE q = p
          BY <1>t, <1>i, <3>1, <3>2, <3>5, <5>1
        <5>2. CASE q # p
          <6>1. call'[q] = call[q]
            BY <1>t, <3>2, <5>2
          <6>2. call[q].file \in 1..Len(files)
            BY <1>t, <4>2, <6>1 DEF TypeOK, At
          <6>3. Len(files') = n
            BY <3>5
          <6>4. \A m \in Nat : \A i \in 1..m : i \in 1..m + 1
            OBVIOUS
          <6>5. call[q].file \in 1..n
            BY <1>i, <6>2, <6>4
          <6> QED BY <6>1, <6>3, <6>5
        <5> QED BY <5>1, <5>2
      <4> QED BY <4>1, <4>2
    <3> QED BY <1>t, <3>2, <3>5, <3>7, <3>8, <3>9 DEF RatInv, TypeOK
  <2> QED BY <2>2, <2>3
<1>7. ASSUME NEW p \in Proc, Write(p) PROVE RatInv'
  <2>1. call[p] \in Job
    BY <1>t, <1>7, Running DEF Write
  <2> PICK j, line : /\ j = [call[p] EXCEPT !.pc = "done"]
                     /\ line = [event |-> call[p].event, ended |-> TRUE]
    OBVIOUS
  <2>2. j \in Job /\ j.pc # "write" /\ line \in Line /\ line.event = call[p].event
    BY <2>1 DEF Job, Line
  <2>3. At(p, "write") /\ call' = [call EXCEPT ![p] = j] /\ AppendLine(p, line)
        /\ UNCHANGED counts
    BY <1>7, <1>t DEF Write, Goto
  <2> QED BY <1>t, <2>2, <2>3, WriteStep
<1>8. ASSUME NEW p \in Proc, WriteInterrupted(p) PROVE RatInv'
  <2>1. call[p] \in Job
    BY <1>t, <1>8, Running DEF WriteInterrupted
  <2> PICK event \in {Unreadable, call[p].event} :
         AppendLine(p, [event |-> event, ended |-> FALSE])
    BY <1>8 DEF WriteInterrupted
  <2> PICK line : line = [event |-> event, ended |-> FALSE]
    OBVIOUS
  <2>2. line \in Line /\ line.event \in {Unreadable, call[p].event}
    BY <2>1 DEF Job, Line
  <2>3. At(p, "write") /\ call' = [call EXCEPT ![p] = Idle] /\ AppendLine(p, line)
        /\ counts' \in CountType
    BY <1>8, <1>f DEF WriteInterrupted, Done
  <2> QED BY <1>i, <2>2, <2>3, WriteStep
<1>9. ASSUME NEW p \in Proc, NoSuchFact(p) \/ End(p) \/ Killed(p) PROVE RatInv'
  <2>1. call' = [call EXCEPT ![p] = Idle] /\ UNCHANGED store /\ counts' \in CountType
    BY <1>9, <1>t, <1>f DEF NoSuchFact, End, Killed, Done
  <2> QED BY <1>i, <1>m, <2>1
<1>10. CASE Damaged
  <2> PICK i \in DOMAIN files[journal] :
         files' = [files EXCEPT ![journal][i].event = Unreadable]
    BY <1>10 DEF Damaged
  <2> PICK file, new : /\ file = files[journal]
                       /\ new = [file EXCEPT ![i].event = Unreadable]
    OBVIOUS
  <2>1. journal \in 1..Len(files)
    BY <1>10, <1>t, <1>i DEF Damaged
  <2>2. files \in Seq(Seq(Line)) /\ file \in Seq(Line)
    BY <1>t, <2>1, ElementOfSeq DEF TypeOK
  <2>3. file[i] \in Line /\ i \in 1..Len(file)
    BY <2>2, LenProperties, ElementOfSeq
  <2>4. [file[i] EXCEPT !.event = Unreadable] \in Line
    BY <2>3 DEF Line
  <2>5. new = [file EXCEPT ![i] = [file[i] EXCEPT !.event = Unreadable]]
    OBVIOUS
  <2>6. new \in Seq(Line)
    BY <2>2, <2>3, <2>4, <2>5, ExceptSeq
  <2>7. Malformed(new)
    BY <2>3, <2>5 DEF Malformed, Line
  <2>8. files' = [files EXCEPT ![journal] = new]
    BY <2>2
  <2>9. files' \in Seq(Seq(Line)) /\ Len(files') = Len(files)
    BY <2>1, <2>2, <2>6, <2>8, ExceptSeq
  <2>10. \A k \in DOMAIN files' : Complete(files'[k], attempts[k])
    <3>1. DOMAIN files' = DOMAIN files
      BY <2>8
    <3> QED BY <2>7, <2>8, <3>1 DEF RatInv, Complete
  <2>11. /\ UNCHANGED <<journal, quarantine, call, attempts, latest>>
         /\ counts' \in CountType
    BY <1>10, <1>f DEF Damaged
  <2> QED BY <1>t, <2>9, <2>10, <2>11 DEF RatInv, TypeOK, CountType, At
<1>11. CASE UNCHANGED vars
  BY <1>11 DEF vars, RatInv, TypeOK, At
<1> QED BY <1>1, <1>2, <1>3, <1>4, <1>5, <1>6, <1>7, <1>8, <1>9, <1>10, <1>11 DEF Next

(***************************************************************************)
(* However commands overlap and whatever faults hit them, every variable   *)
(* keeps its type (record_ratification, quarantine_rotation).              *)
(***************************************************************************)
THEOREM TypeCorrect == Spec => []TypeOK
<1>1. RatInv => TypeOK
  BY DEF RatInv
<1> QED BY RatInit, RatNext, <1>1, PTL DEF Spec

(***************************************************************************)
(* The strict reader fails closed: a file it takes as healthy holds every  *)
(* event begun to be written to it, in order (read_ratifications).         *)
(***************************************************************************)
THEOREM HealthyJournalsAreComplete == Spec => []HealthyIsComplete
<1>1. RatInv => HealthyIsComplete
  BY DEF RatInv, HealthyIsComplete, Complete, EventsOf
<1> QED BY RatInit, RatNext, <1>1, PTL DEF Spec

(***************************************************************************)
(* The reader as a whole fails closed, whatever races, dies or tears.      *)
(***************************************************************************)
THEOREM ReaderStaysClosed == Spec => []ReaderFailsClosed
<1>1. TypeOK /\ HealthyIsComplete => ReaderFailsClosed
  BY DEF ReaderFailsClosed
<1> QED BY <1>1, TypeCorrect, HealthyJournalsAreComplete, PTL

-----------------------------------------------------------------------------
(***************************************************************************)
(* Commands that run one at a time.                                        *)
(***************************************************************************)

\* A fact a file has an event about has a last one there.
LEMMA LastIsOne ==
    ASSUME NEW file \in Seq(Line), NEW f, About(file, f) # {}
    PROVE  /\ LastOf(About(file, f)) \in About(file, f)
           /\ \A i \in About(file, f) : i <= LastOf(About(file, f))
<1>1. About(file, f) \subseteq 1..Len(file) /\ Len(file) \in Nat
  BY LenProperties DEF About
<1>2. \E i \in About(file, f) : \A k \in About(file, f) : k <= i
  BY <1>1, GreatestPosition
<1> QED BY <1>2 DEF LastOf

\* What a file confers after an append: of the event's fact that event, of
\* any other fact what it conferred, or nothing of anything.
LEMMA AppendConfers ==
    ASSUME NEW file \in Seq(Line), NEW line \in Line, NEW event \in Event,
           line.event \in {Unreadable, event}, NEW f
    PROVE  Confers(AppendTo(file, line), f) \in
             {"none", IF f = event.fact THEN event.action ELSE Confers(file, f)}
<1>0. Len(file) \in Nat /\ DOMAIN file = 1..Len(file)
  BY LenProperties
<1> PICK new : new = AppendTo(file, line)
  OBVIOUS
<1> SUFFICES ASSUME ~Malformed(new)
             PROVE  Confers(new, f) \in
                      {"none", IF f = event.fact THEN event.action ELSE Confers(file, f)}
  BY DEF Confers
<1>1. ~(file # <<>> /\ ~file[Len(file)].ended)
  <2> SUFFICES ASSUME file # <<>>, ~file[Len(file)].ended PROVE FALSE
    OBVIOUS
  <2>1. Len(file) \in DOMAIN file
    BY <1>0, EmptySeq
  <2>2. new = [file EXCEPT ![Len(file)] = [event |-> Unreadable, ended |-> line.ended]]
    BY DEF AppendTo
  <2>3. Len(file) \in DOMAIN new /\ new[Len(file)].event = Unreadable
    BY <2>1, <2>2
  <2> QED BY <2>3 DEF Malformed
<1>2. /\ new = Append(file, line) /\ new \in Seq(Line) /\ Len(new) = Len(file) + 1
      /\ \A i \in 1..Len(file) : new[i] = file[i]
      /\ new[Len(file) + 1] = line
  BY <1>1, AppendProperties DEF AppendTo
<1>3. DOMAIN new = 1..Len(file) + 1
  BY <1>2, LenProperties
<1>4. \A i \in 1..Len(file) + 1 : i = Len(file) + 1 \/ i \in 1..Len(file)
  BY <1>0
<1>5. Len(file) + 1 \in DOMAIN new /\ line.event = event /\ event # Unreadable
  <2>1. Len(file) + 1 \in DOMAIN new
    BY <1>0, <1>3
  <2> QED BY <1>2, <2>1 DEF Malformed
<1>6. ~Malformed(file)
  BY <1>0, <1>2, <1>3 DEF Malformed
<1>7. CASE f = event.fact
  <2>1. Len(file) + 1 \in About(new, f)
    BY <1>2, <1>5, <1>7 DEF About
  <2>2. LastOf(About(new, f)) \in About(new, f)
        /\ \A i \in About(new, f) : i <= LastOf(About(new, f))
    BY <1>2, <2>1, LastIsOne
  <2>3. LastOf(About(new, f)) = Len(file) + 1
    <3>1. LastOf(About(new, f)) \in 1..Len(file) + 1
      BY <1>3, <2>2 DEF About
    <3> QED BY <1>0, <2>1, <2>2, <3>1
  <2>4. Confers(new, f) = new[LastOf(About(new, f))].event.action
    BY <2>1 DEF Confers
  <2>5. Confers(new, f) = event.action
    BY <1>2, <1>5, <2>3, <2>4
  <2> QED BY <1>7, <2>5
<1>8. CASE f # event.fact
  <2>1. About(new, f) = About(file, f)
    BY <1>0, <1>2, <1>3, <1>4, <1>5, <1>8 DEF About
  <2>2. CASE About(file, f) = {}
    BY <2>1, <2>2 DEF Confers
  <2>3. CASE About(file, f) # {}
    <3>1. LastOf(About(file, f)) \in 1..Len(file)
      BY <1>0, <2>3, LastIsOne DEF About
    <3>2. new[LastOf(About(file, f))] = file[LastOf(About(file, f))]
      BY <1>2, <3>1
    <3>3. Confers(new, f) = Confers(file, f)
      BY <1>6, <2>1, <3>2 DEF Confers
    <3> QED BY <1>8, <3>3
  <2> QED BY <2>2, <2>3
<1> QED BY <1>7, <1>8

LEMMA EmptyConfersNothing ==
    ASSUME NEW f
    PROVE  Confers(<<>>, f) = "none"
<1>1. About(<<>>, f) = {}
  BY DEF About
<1> QED BY <1>1 DEF Confers

\* What each running command knows is true of the disk.
Knows(j) ==
    /\ j.pc = "read" => j.seen = Cardinality(Quarantined)
    /\ j.pc \in {"name", "rename"} => Malformed(Content(journal)) \/ j.failed
    /\ j.pc = "rename" => j.name \in Name /\ quarantine[j.name] = 0
    /\ j.pc = "write" => j.file = journal
AllKnow == \A p \in Proc : Knows(call[p])
OneRuns == \A p, q \in Proc : call[p] # Idle /\ call[q] # Idle => p = q
KeptApart == \A n \in Quarantined : quarantine[n] # journal
LastStands == \A f \in Fact : Confers(Content(journal), f) \in {"none", latest[f]}

(***************************************************************************)
(* The inductive invariant of commands that run one at a time.  Only one   *)
(* runs, so what it learned of the disk still holds when it acts on it: it *)
(* renames a journal it knows to be degraded to a name that is free, and   *)
(* writes to the file that is still the journal.                           *)
(***************************************************************************)
Alone == OneRuns /\ AllKnow /\ KeptApart /\ LastStands
AloneInv == ~counts.overlap => Alone

\* A step of the one running command, or of one that starts when none runs.
LEMMA OneStep ==
    ASSUME TypeOK, NEW p \in Proc, NEW j, call' = [call EXCEPT ![p] = j],
           \A q \in Proc : q # p => call[q] = Idle,
           Knows(j)'
    PROVE  OneRuns' /\ AllKnow'
<1>1. \A q \in Proc : call'[q] = IF q = p THEN j ELSE Idle
  BY DEF TypeOK
<1>2. Knows(Idle)'
  BY DEF Knows, Idle
<1>3. OneRuns'
  BY <1>1 DEF OneRuns
<1>4. AllKnow'
  <2> SUFFICES ASSUME NEW q \in Proc PROVE Knows(call[q])'
    BY DEF AllKnow
  <2>1. CASE q = p
    BY <1>1, <2>1
  <2>2. CASE q # p
    BY <1>1, <1>2, <2>2
  <2> QED BY <2>1, <2>2
<1> QED BY <1>3, <1>4

\* A step that leaves the disk alone.
LEMMA QuietStep ==
    ASSUME TypeOK, Alone, UNCHANGED store, NEW p \in Proc, NEW j,
           call' = [call EXCEPT ![p] = j],
           \A q \in Proc : q # p => call[q] = Idle, Knows(j)
    PROVE  Alone'
<1>1. Knows(j)'
  BY DEF Knows, store, log, Content, Quarantined
<1>2. KeptApart' /\ LastStands'
  BY DEF Alone, KeptApart, LastStands, store, log, Content, Quarantined
<1> QED BY <1>1, <1>2, OneStep DEF Alone

\* What an append does to the journal: quarantined files are other files.
LEMMA JournalWritten ==
    ASSUME RatInv, Alone, NEW p \in Proc, At(p, "write"), NEW j,
           call' = [call EXCEPT ![p] = j], j.pc \in {"done", "idle"},
           NEW line \in Line, line.event \in {Unreadable, call[p].event},
           AppendLine(p, line)
    PROVE  Alone'
<1> PICK event : event = call[p].event
  OBVIOUS
<1>0. TypeOK
  BY DEF RatInv
<1>1. call[p] \in Job /\ event \in Event /\ call[p].file = journal
  BY <1>0, Running DEF Job, Alone, AllKnow, Knows, At
<1>2. journal \in 1..Len(files) /\ files \in Seq(Seq(Line))
  BY <1>0, <1>1 DEF TypeOK
<1>3. journal # 0 /\ DOMAIN files = 1..Len(files) /\ files[journal] \in Seq(Line)
  BY <1>2, LenProperties, ElementOfSeq
<1>4. \A q \in Proc : q # p => call[q] = Idle
  BY DEF Alone, OneRuns, At, Idle
<1>5. Knows(j)'
  BY DEF Knows
<1>6. KeptApart'
  BY DEF AppendLine, Alone, KeptApart, Quarantined
<1>7. /\ Content(journal) = files[journal]
      /\ Content(journal)' = AppendTo(files[journal], line)
      /\ latest' = [latest EXCEPT ![event.fact] = event.action]
  BY <1>1, <1>2, <1>3 DEF AppendLine, Content
<1>8. LastStands'
  <2> SUFFICES ASSUME NEW f \in Fact
               PROVE  Confers(Content(journal)', f) \in {"none", latest'[f]}
    BY DEF LastStands
  <2>1. Confers(files[journal], f) \in {"none", latest[f]}
    BY <1>7 DEF Alone, LastStands
  <2>2. Confers(AppendTo(files[journal], line), f) \in
          {"none", IF f = event.fact THEN event.action ELSE Confers(files[journal], f)}
    BY <1>1, <1>3, AppendConfers
  <2>3. latest'[f] = IF f = event.fact THEN event.action ELSE latest[f]
    BY <1>0, <1>7 DEF TypeOK
  <2> QED BY <1>7, <2>1, <2>2, <2>3
<1> QED BY <1>0, <1>4, <1>5, <1>6, <1>8, OneStep DEF Alone

LEMMA AloneInit == Init => AloneInv
<1> SUFFICES ASSUME Init PROVE Alone
  BY DEF AloneInv
<1>1. OneRuns /\ AllKnow
  BY DEF Init, OneRuns, AllKnow, Knows, Idle
<1>2. KeptApart
  BY DEF Init, KeptApart, Quarantined
<1>3. LastStands
  BY EmptyConfersNothing DEF Init, LastStands, Content
<1> QED BY <1>1, <1>2, <1>3 DEF Alone

\* Whether commands overlap is decided once.
LEMMA ScheduleStays ==
    ASSUME TypeOK, [Next]_vars
    PROVE  counts'.overlap = counts.overlap
<1>1. \/ UNCHANGED counts
      \/ counts' = [counts EXCEPT !.calls = @ + 1]
      \/ counts' = [counts EXCEPT !.faults = @ + 1]
  BY Zenon DEF Next, vars, Start, List, Read, PickName, Rename, Open, Write, NoSuchFact, End,
               WriteInterrupted, Killed, Damaged, Fault
<1> QED BY <1>1 DEF TypeOK

LEMMA AloneNext == RatInv /\ AloneInv /\ [Next]_vars => AloneInv'
<1> SUFFICES ASSUME RatInv, Alone, ~counts.overlap, [Next]_vars PROVE Alone'
  <2> SUFFICES ASSUME RatInv, AloneInv, [Next]_vars, ~counts'.overlap PROVE Alone'
    BY DEF AloneInv
  <2> QED BY ScheduleStays DEF RatInv, AloneInv
<1>t. /\ TypeOK
      /\ call \in [Proc -> {Idle} \cup Job]
      /\ journal \in 0..Len(files) /\ quarantine \in [Name -> 0..Len(files)]
      /\ files \in Seq(Seq(Line)) /\ Len(files) \in Nat /\ DOMAIN files = 1..Len(files)
  BY LenProperties DEF RatInv, TypeOK
\* while p runs nobody else does
<1>o. ASSUME NEW p \in Proc, call[p] # Idle
      PROVE  \A q \in Proc : q # p => call[q] = Idle
  BY <1>o DEF Alone, OneRuns
<1>k. ASSUME NEW p \in Proc PROVE Knows(call[p])
  BY DEF Alone, AllKnow
<1>1. ASSUME NEW p \in Proc, NEW kind \in {"why", "record", "rotate"},
             NEW event \in Event, Start(p, kind, event)
      PROVE  Alone'
  <2> PICK j : j = [pc |-> "list", kind |-> kind, event |-> event, seen |-> 0,
                    failed |-> FALSE, name |-> 0, file |-> 0]
    OBVIOUS
  <2>1. /\ call' = [call EXCEPT ![p] = j] /\ UNCHANGED store
        /\ \A q \in Proc : call[q] = Idle
    BY <1>1 DEF Start, Undisturbed
  <2>2. Knows(j)
    BY DEF Knows
  <2> QED BY <1>t, <2>1, <2>2, QuietStep
<1>2. ASSUME NEW p \in Proc, List(p) PROVE Alone'
  <2>1. call[p] \in Job /\ call[p] # Idle
    BY <1>t, <1>2, Running DEF List, At, Idle
  <2> PICK j : j = [call[p] EXCEPT !.pc = "read", !.seen = Cardinality(Quarantined)]
    OBVIOUS
  <2>2. Knows(j)
    BY <2>1 DEF Knows, Job
  <2>3. call' = [call EXCEPT ![p] = j] /\ UNCHANGED store
    BY <1>2, <1>t DEF List
  <2> QED BY <1>t, <1>o, <2>1, <2>2, <2>3, QuietStep
<1>3. ASSUME NEW p \in Proc, Read(p) PROVE Alone'
  <2>1. call[p] \in Job /\ call[p] # Idle
    BY <1>t, <1>3, Running DEF Read, At, Idle
  <2> PICK failed \in {FALSE} \cup {journal # 0} :
         call' = [call EXCEPT
                    ![p].pc = NextPc(call[p].kind, Malformed(Content(journal)) \/ failed),
                    ![p].failed = failed]
    BY <1>3 DEF Read
  <2> PICK pc : pc = NextPc(call[p].kind, Malformed(Content(journal)) \/ failed)
    OBVIOUS
  <2>2. pc \in {"open", "name", "done"} /\ (pc = "name" => Malformed(Content(journal)) \/ failed)
    BY DEF NextPc
  <2> PICK j : j = [call[p] EXCEPT !.pc = pc, !.failed = failed]
    OBVIOUS
  <2>3. j.pc = pc /\ j.failed = failed
    BY <2>1 DEF Job
  <2>4. Knows(j)
    BY <2>2, <2>3 DEF Knows
  <2>5. call' = [call EXCEPT ![p] = j] /\ UNCHANGED store
    BY <1>3, <1>t DEF Read
  <2> QED BY <1>t, <1>o, <2>1, <2>4, <2>5, QuietStep
<1>4. ASSUME NEW p \in Proc, PickName(p) PROVE Alone'
  <2>1. call[p] \in Job /\ call[p] # Idle /\ call[p].pc = "name" /\ UNCHANGED store
    BY <1>t, <1>4, Running DEF PickName, At, Idle
  <2>2. CASE journal = 0
    <3> PICK j : j = [call[p] EXCEPT !.pc = "done"]
      OBVIOUS
    <3>1. Knows(j)
      BY <2>1 DEF Knows, Job
    <3>2. call' = [call EXCEPT ![p] = j]
      BY <1>4, <1>t, <2>2 DEF PickName, Goto
    <3> QED BY <1>t, <1>o, <2>1, <3>1, <3>2, QuietStep
  <2>3. CASE journal # 0
    <3> PICK n \in Name :
           Takes(n) /\ call' = [call EXCEPT ![p].pc = "rename", ![p].name = n]
      BY <1>4, <2>3 DEF PickName
    <3> PICK j : j = [call[p] EXCEPT !.pc = "rename", !.name = n]
      OBVIOUS
    <3>1. j.pc = "rename" /\ j.name = n /\ j.failed = call[p].failed
      BY <2>1 DEF Job
    <3>2. Malformed(Content(journal)) \/ call[p].failed
      BY <1>k, <2>1 DEF Knows
    <3>3. Knows(j)
      BY <3>1, <3>2 DEF Knows, Takes
    <3>4. call' = [call EXCEPT ![p] = j]
      BY <1>t
    <3> QED BY <1>t, <1>o, <2>1, <3>3, <3>4, QuietStep
  <2> QED BY <2>2, <2>3
<1>5. ASSUME NEW p \in Proc, Rename(p) PROVE Alone'
  <2>1. call[p] \in Job /\ call[p] # Idle /\ call[p].pc = "rename"
    BY <1>t, <1>5, Running DEF Rename, At, Idle
  <2>2. CASE journal = 0
    <3> PICK j : j = [call[p] EXCEPT !.pc = "done"]
      OBVIOUS
    <3>1. Knows(j)
      BY <2>1 DEF Knows, Job
    <3>2. call' = [call EXCEPT ![p] = j] /\ UNCHANGED store
      BY <1>5, <1>t, <2>2 DEF Rename, Goto
    <3> QED BY <1>t, <1>o, <2>1, <3>1, <3>2, QuietStep
  <2>3. CASE journal # 0
    <3> PICK j : j = [call[p] EXCEPT !.pc = "open"]
      OBVIOUS
    <3>1. j.pc = "open"
      BY <2>1 DEF Job
    <3>2. call' = [call EXCEPT ![p] = j] /\ journal' = 0
      BY <1>5, <1>t, <2>3 DEF Rename, Goto
    <3>3. Knows(j)'
      BY <3>1 DEF Knows
    <3>4. OneRuns' /\ AllKnow'
      BY <1>t, <1>o, <2>1, <3>2, <3>3, OneStep
    <3>5. KeptApart'
      BY <3>2 DEF KeptApart, Quarantined
    <3>6. LastStands'
      BY <3>2, EmptyConfersNothing DEF LastStands, Content
    <3> QED BY <3>4, <3>5, <3>6 DEF Alone
  <2> QED BY <2>2, <2>3
<1>6. ASSUME NEW p \in Proc, Open(p) PROVE Alone'
  <2>1. call[p] \in Job /\ call[p] # Idle
    BY <1>t, <1>6, Running DEF Open, At, Idle
  <2>2. CASE journal # 0
    <3> PICK j : j = [call[p] EXCEPT !.pc = "write", !.file = journal]
      OBVIOUS
    <3>1. Knows(j)
      BY <2>1 DEF Knows, Job
    <3>2. call' = [call EXCEPT ![p] = j] /\ UNCHANGED store
      BY <1>6, <1>t, <2>2 DEF Open
    <3> QED BY <1>t, <1>o, <2>1, <3>1, <3>2, QuietStep
  <2>3. CASE journal = 0
    <3> PICK n : n = Len(files) + 1
      OBVIOUS
    <3> PICK j : j = [call[p] EXCEPT !.pc = "write", !.file = n]
      OBVIOUS
    <3>1. j.pc = "write" /\ j.file = n
      BY <2>1 DEF Job
    <3>2. /\ files' = Append(files, <<>>) /\ journal' = n
          /\ call' = [call EXCEPT ![p] = j] /\ UNCHANGED <<quarantine, latest>>
      BY <1>6, <1>t, <2>3 DEF Open
    <3>3. Knows(j)'
      BY <3>1, <3>2 DEF Knows
    <3>4. OneRuns' /\ AllKnow'
      BY <1>t, <1>o, <2>1, <3>2, <3>3, OneStep
    <3>5. KeptApart'
      <4>1. \A k \in Name : quarantine[k] # n
        BY <1>t
      <4> QED BY <3>2, <4>1 DEF KeptApart, Quarantined
    <3>6. Content(journal)' = <<>>
      <4>1. <<>> \in Seq(Line)
        BY EmptySeq
      <4>2. n # 0 /\ files'[n] = <<>>
        BY <1>t, <3>2, <4>1, AppendProperties
      <4> QED BY <3>2, <4>2 DEF Content
    <3>7. LastStands'
      BY <3>6, EmptyConfersNothing DEF LastStands
    <3> QED BY <3>4, <3>5, <3>7 DEF Alone
  <2> QED BY <2>2, <2>3
<1>7. ASSUME NEW p \in Proc, Write(p) PROVE Alone'
  <2>1. call[p] \in Job
    BY <1>t, <1>7, Running DEF Write
  <2> PICK j, line : /\ j = [call[p] EXCEPT !.pc = "done"]
                     /\ line = [event |-> call[p].event, ended |-> TRUE]
    OBVIOUS
  <2>2. j.pc = "done" /\ line \in Line /\ line.event = call[p].event
    BY <2>1 DEF Job, Line
  <2>3. At(p, "write") /\ call' = [call EXCEPT ![p] = j] /\ AppendLine(p, line)
    BY <1>7, <1>t DEF Write, Goto
  <2> QED BY <2>2, <2>3, JournalWritten
<1>8. ASSUME NEW p \in Proc, WriteInterrupted(p) PROVE Alone'
  <2>1. call[p] \in Job
    BY <1>t, <1>8, Running DEF WriteInterrupted
  <2> PICK event \in {Unreadable, call[p].event} :
         AppendLine(p, [event |-> event, ended |-> FALSE])
    BY <1>8 DEF WriteInterrupted
  <2> PICK line : line = [event |-> event, ended |-> FALSE]
    OBVIOUS
  <2>2. line \in Line /\ line.event \in {Unreadable, call[p].event} /\ Idle.pc = "idle"
    BY <2>1 DEF Job, Line, Idle
  <2>3. At(p, "write") /\ call' = [call EXCEPT ![p] = Idle] /\ AppendLine(p, line)
    BY <1>8 DEF WriteInterrupted, Done
  <2> QED BY <2>2, <2>3, JournalWritten
<1>9. ASSUME NEW p \in Proc, NoSuchFact(p) \/ End(p) \/ Killed(p) PROVE Alone'
  <2>1. call' = [call EXCEPT ![p] = Idle] /\ UNCHANGED store /\ call[p] # Idle
    BY <1>9 DEF NoSuchFact, End, Killed, Done, At, Idle
  <2>2. Knows(Idle)
    BY DEF Knows, Idle
  <2> QED BY <1>t, <1>o, <2>1, <2>2, QuietStep
<1>10. CASE Damaged
  <2> PICK i \in DOMAIN files[journal] :
         files' = [files EXCEPT ![journal][i].event = Unreadable]
    BY <1>10 DEF Damaged
  <2>1. /\ journal # 0 /\ Undisturbed
        /\ UNCHANGED <<journal, quarantine, call, latest>>
    BY <1>10 DEF Damaged
  <2>2. journal \in 1..Len(files)
    BY <1>t, <2>1
  <2>3. files[journal] \in Seq(Line)
    BY <1>t, <2>2, ElementOfSeq
  <2>4. files[journal][i] \in Line
    BY <2>3, LenProperties, ElementOfSeq
  <2>5. /\ i \in DOMAIN files'[journal]
        /\ files'[journal][i].event = Unreadable
    BY <1>t, <2>2, <2>4 DEF Line
  <2>6. Malformed(Content(journal))'
    BY <2>1, <2>5 DEF Malformed, Content
  <2>7. LastStands'
    BY <2>6 DEF LastStands, Confers
  <2>8. KeptApart'
    BY <2>1 DEF Alone, KeptApart, Quarantined
  <2>9. OneRuns' /\ AllKnow'
    BY <2>1 DEF OneRuns, AllKnow, Undisturbed, Knows, Idle
  <2> QED BY <2>7, <2>8, <2>9 DEF Alone
<1>11. CASE UNCHANGED vars
  BY <1>11 DEF vars, Alone, OneRuns, AllKnow, KeptApart, LastStands, Knows, Content, Quarantined
<1> QED BY <1>1, <1>2, <1>3, <1>4, <1>5, <1>6, <1>7, <1>8, <1>9, <1>10, <1>11 DEF Next

\* What the invariant says of the next step.
LEMMA EvidenceKept ==
    ASSUME RatInv, Alone, [Next]_vars, NEW n \in Quarantined
    PROVE  /\ quarantine'[n] = quarantine[n]
           /\ files'[quarantine[n]] = files[quarantine[n]]
<1>t. /\ TypeOK
      /\ quarantine \in [Name -> 0..Len(files)]
      /\ files \in Seq(Seq(Line)) /\ Len(files) \in Nat /\ DOMAIN files = 1..Len(files)
  BY LenProperties DEF RatInv, TypeOK
<1>n. n \in Name /\ quarantine[n] # 0 /\ quarantine[n] # journal
  BY DEF Quarantined, Alone, KeptApart
<1>2. ASSUME NEW p \in Proc, Rename(p)
      PROVE  quarantine'[n] = quarantine[n] /\ files' = files
  <2>1. CASE journal = 0
    BY <1>2, <2>1 DEF Rename, store, log
  <2>2. CASE journal # 0
    <3>1. call[p].pc = "rename" /\ Knows(call[p])
      BY <1>2 DEF Rename, At, Alone, AllKnow
    <3>2. call[p].name # n
      BY <1>n, <3>1 DEF Knows
    <3>3. quarantine' = [quarantine EXCEPT ![call[p].name] = journal] /\ files' = files
      BY <1>2, <2>2 DEF Rename, log
    <3> QED BY <1>n, <1>t, <3>2, <3>3
  <2> QED BY <2>1, <2>2
<1>3. ASSUME NEW p \in Proc, Open(p)
      PROVE  quarantine' = quarantine /\ files'[quarantine[n]] = files[quarantine[n]]
  <2>1. CASE journal # 0
    BY <1>3, <2>1 DEF Open, store, log
  <2>2. CASE journal = 0
    <3>0. quarantine[n] \in 0..Len(files) /\ quarantine[n] # 0
      BY <1>n, <1>t
    <3>1. quarantine[n] \in 1..Len(files) /\ <<>> \in Seq(Line)
      BY <1>t, <3>0, EmptySeq
    <3>2. files' = Append(files, <<>>) /\ quarantine' = quarantine
      BY <1>3, <2>2 DEF Open
    <3> QED BY <1>t, <3>1, <3>2, AppendProperties
  <2> QED BY <2>1, <2>2
<1>4. ASSUME NEW p \in Proc, NEW line, AppendLine(p, line), At(p, "write")
      PROVE  quarantine' = quarantine /\ files'[quarantine[n]] = files[quarantine[n]]
  <2>1. call[p].file = journal
    BY <1>4 DEF At, Alone, AllKnow, Knows
  <2> QED BY <1>4, <1>n, <1>t, <2>1 DEF AppendLine
<1>5. CASE Damaged
  <2>1. quarantine' = quarantine /\ files'[quarantine[n]] = files[quarantine[n]]
    BY <1>5, <1>n, <1>t DEF Damaged
  <2> QED BY <2>1
<1>6. ASSUME NEW p \in Proc, Write(p) \/ WriteInterrupted(p)
      PROVE  quarantine' = quarantine /\ files'[quarantine[n]] = files[quarantine[n]]
  BY <1>4, <1>6 DEF Write, WriteInterrupted
<1>7. ASSUME NEW p \in Proc,
             \/ \E kind \in {"why", "record", "rotate"}, event \in Event : Start(p, kind, event)
             \/ List(p) \/ Read(p) \/ PickName(p) \/ NoSuchFact(p) \/ End(p) \/ Killed(p)
      PROVE  UNCHANGED <<quarantine, files>>
  BY <1>7, Zenon DEF Start, List, Read, PickName, NoSuchFact, End, Killed, store, log
<1>8. CASE UNCHANGED vars
  BY <1>8 DEF vars
<1> QED BY <1>2, <1>3, <1>5, <1>6, <1>7, <1>8 DEF Next

LEMMA OnlyDegradedRotates ==
    ASSUME RatInv, Alone, [Next]_vars, journal # 0, journal' = 0
    PROVE  \/ Malformed(files[journal])
           \/ \E p \in Proc : call[p].pc = "rename" /\ call[p].failed
<1>1. PICK p \in Proc : Rename(p)
  <2>1. ASSUME NEW p \in Proc, Open(p) PROVE FALSE
    <3>1. journal' = journal
      BY <2>1 DEF Open, store
    <3> QED BY <3>1
  <2>2. ASSUME NEW p \in Proc,
               \/ \E kind \in {"why", "record", "rotate"}, event \in Event : Start(p, kind, event)
               \/ List(p) \/ Read(p) \/ PickName(p) \/ NoSuchFact(p) \/ End(p) \/ Killed(p)
               \/ Write(p) \/ WriteInterrupted(p)
        PROVE  UNCHANGED journal
    BY <2>2, Zenon DEF Start, List, Read, PickName, NoSuchFact, End, Killed, store, Write,
                       WriteInterrupted, AppendLine
  <2>3. CASE Damaged
    BY <2>3 DEF Damaged
  <2>4. CASE UNCHANGED vars
    BY <2>4 DEF vars
  <2> QED BY <2>1, <2>2, <2>3, <2>4 DEF Next
<1>2. call[p].pc = "rename"
  BY <1>1 DEF Rename, At
<1>3. Malformed(Content(journal)) \/ call[p].failed
  BY <1>2 DEF Alone, AllKnow, Knows
<1> QED BY <1>2, <1>3 DEF Content

(***************************************************************************)
(* One command at a time, killed and torn as it may be: the last verdict   *)
(* on a fact stands, a rotation keeps what it sets aside, happens only to  *)
(* a journal that needs it, and is counted by every reader                 *)
(* (record_ratification, quarantine_rotation, ratification_overlay).       *)
(***************************************************************************)
THEOREM VerdictsStayStanding == Spec => VerdictsStand
<1>1. Spec => [](RatInv /\ AloneInv)
  BY RatInit, RatNext, AloneInit, AloneNext, PTL DEF Spec
<1>2. RatInv /\ AloneInv => LastEventWins
  BY DEF AloneInv, Alone, LastStands, LastEventWins
<1>3. RatInv /\ AloneInv /\ [Next]_vars =>
        [~counts.overlap => \A n \in Quarantined :
            /\ quarantine'[n] = quarantine[n]
            /\ files'[quarantine[n]] = files[quarantine[n]]]_vars
  BY EvidenceKept DEF AloneInv
<1>4. RatInv /\ AloneInv /\ [Next]_vars =>
        [~counts.overlap /\ journal # 0 /\ journal' = 0 =>
           \/ Malformed(files[journal])
           \/ \E p \in Proc : call[p].pc = "rename" /\ call[p].failed]_vars
  BY OnlyDegradedRotates DEF AloneInv
<1>5. RatInv /\ AloneInv /\ [Next]_vars =>
        [\A p \in Proc :
           ~counts.overlap /\ At(p, "read") /\ call'[p] # Idle /\ call'[p].pc # "read" =>
             call[p].seen = Cardinality(Quarantined)]_vars
  BY DEF AloneInv, Alone, AllKnow, Knows, At
<1>6. Spec => QuarantineIsKept
  BY <1>1, <1>3, PTL DEF Spec, QuarantineIsKept
<1>7. Spec => RotatesOnlyDegraded
  BY <1>1, <1>4, PTL DEF Spec, RotatesOnlyDegraded
<1>8. Spec => RotationIsSeen
  BY <1>1, <1>5, PTL DEF Spec, RotationIsSeen
<1> QED BY <1>1, <1>2, <1>6, <1>7, <1>8, PTL DEF VerdictsStand

=============================================================================
