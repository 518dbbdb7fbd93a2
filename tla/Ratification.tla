----------------------------- MODULE Ratification -----------------------------
(***************************************************************************)
(* The journal of local ratifications (ctxpack/agent/ratification.py) and  *)
(* the commands that use it: `session ratify`, with or without             *)
(* --rotate-quarantine (ctxpack/cli/main.py), and the readers of `session  *)
(* why`.  A command is its own process and works in steps: list the        *)
(* quarantined files, read the journal, maybe rename it, open it, write.   *)
(* A writer keeps writing to the file it has opened, even when the file is *)
(* renamed meanwhile.                                                      *)
(***************************************************************************)
EXTENDS Naturals, Sequences, FiniteSets

CONSTANTS
    Proc,       \* processes that may run a command
    Fact,       \* fact ids
    Overlap,    \* the schedules: TRUE, commands run at once and disk faults hit
                \* them; FALSE, one command at a time on a disk at rest
    MaxCalls,   \* bound: commands
    MaxFaults   \* bound: interrupted writes and damaged lines
ASSUME RatificationBounds ==
    Overlap \subseteq BOOLEAN /\ MaxCalls \in Nat /\ MaxFaults \in Nat

VARIABLES
    files,       \* what each journal file ever created holds
    journal,     \* the file named ratifications.jsonl, 0 if there is none
    quarantine,  \* the file named ratifications.jsonl.quarantine-n, or 0
    call,        \* each process's progress
    attempts,    \* the events anyone began to write to each file, in order
    latest,      \* the last event anyone began to write of each fact
    counts       \* commands and faults so far, and the schedule of this behaviour

vars == <<files, journal, quarantine, call, attempts, latest, counts>>

Action == {"ratify", "reject"}
Idle == [pc |-> "idle"]
Name == 1..MaxCalls + 1  \* no run of MaxCalls commands needs another name

(***************************************************************************)
(* A file is a sequence of lines, each with its event, or none that can be *)
(* read, and whether its newline was written.                              *)
(***************************************************************************)
Event == [fact : Fact, action : Action]
Unreadable == [action |-> "none"]
Line == [event : Event \cup {Unreadable}, ended : BOOLEAN]

\* (mutant) a writer first drops the unended line it finds
AppendToRepaired(file, line) ==
    IF file # <<>> /\ ~file[Len(file)].ended
    THEN [file EXCEPT ![Len(file)] = line]
    ELSE Append(file, line)
\* what is appended to an unended line becomes part of that line
AppendTo(file, line) ==
    IF file # <<>> /\ ~file[Len(file)].ended
    THEN [file EXCEPT ![Len(file)] = [event |-> Unreadable, ended |-> line.ended]]
    ELSE Append(file, line)

Malformed(file) == \E i \in DOMAIN file : file[i].event = Unreadable
About(file, f) ==
    {i \in DOMAIN file : file[i].event # Unreadable /\ file[i].event.fact = f}
LastOf(S) == CHOOSE i \in S : \A j \in S : j <= i

\* the last event of a fact wins; a malformed row anywhere voids the journal
Confers(file, f) ==
    IF Malformed(file) \/ About(file, f) = {} THEN "none"
    ELSE file[LastOf(About(file, f))].event.action

Content(id) == IF id = 0 THEN <<>> ELSE files[id]
Quarantined == {n \in Name : quarantine[n] # 0}

-----------------------------------------------------------------------------
Init ==
    /\ files = <<>>
    /\ journal = 0
    /\ quarantine = [n \in Name |-> 0]
    /\ call = [p \in Proc |-> Idle]
    /\ attempts = <<>>
    /\ latest = [f \in Fact |-> "none"]
    /\ \E o \in Overlap : counts = [calls |-> 0, faults |-> 0, overlap |-> o]

At(p, pc) == call[p].pc = pc
Goto(p, pc) == call' = [call EXCEPT ![p].pc = pc]
Done(p) == call' = [call EXCEPT ![p] = Idle]
Undisturbed == \A p \in Proc : call[p] = Idle
log == <<files, attempts, latest>>
store == <<log, journal, quarantine>>

\* a command to read, to record an event, or to rotate first and then record
Start(p, kind, event) ==
    /\ call[p] = Idle
    /\ counts.overlap \/ Undisturbed
    /\ counts.calls < MaxCalls
    /\ counts' = [counts EXCEPT !.calls = @ + 1]
    /\ call' = [call EXCEPT ![p] =
                  [pc |-> "list", kind |-> kind, event |-> event, seen |-> 0,
                   failed |-> FALSE, name |-> 0, file |-> 0]]
    /\ UNCHANGED store

\* the quarantined files are counted before the journal is read
List(p) ==
    /\ At(p, "list")
    /\ call' = [call EXCEPT ![p].pc = "read", ![p].seen = Cardinality(Quarantined)]
    /\ UNCHANGED <<store, counts>>

\* a degraded journal is only rotated, a healthy one only appended to
NextPc(kind, degraded) ==
    IF kind = "record" /\ ~degraded THEN "open"
    ELSE IF kind = "rotate" /\ degraded THEN "name" ELSE "done"

\* the journal is read in one call, or cannot be read, which degrades it too
Read(p) ==
    /\ At(p, "read")
    /\ \E failed \in {FALSE} \cup {journal # 0} :
         call' = [call EXCEPT
                    ![p].pc = NextPc(call[p].kind, Malformed(Content(journal)) \/ failed),
                    ![p].failed = failed]
    /\ UNCHANGED <<store, counts>>

\* (mutant) the first name is taken whether it is free or not
TakesFirst(n) == n = 1
\* the first free quarantine name
Takes(n) == quarantine[n] = 0 /\ \A m \in 1..n - 1 : quarantine[m] # 0

PickName(p) ==
    /\ At(p, "name")
    /\ IF journal = 0 THEN Goto(p, "done")
       ELSE \E n \in Name :
              /\ Takes(n)
              /\ call' = [call EXCEPT ![p].pc = "rename", ![p].name = n]
    /\ UNCHANGED <<store, counts>>

\* os.replace puts the journal in the place of whatever has the name
Rename(p) ==
    /\ At(p, "rename")
    /\ IF journal = 0
       THEN Goto(p, "done") /\ UNCHANGED store
       ELSE /\ quarantine' = [quarantine EXCEPT ![call[p].name] = journal]
            /\ journal' = 0
            /\ Goto(p, "open")
            /\ UNCHANGED log
    /\ UNCHANGED counts

\* opening for append creates the journal when there is none
Open(p) ==
    /\ At(p, "open")
    /\ IF journal # 0
       THEN call' = [call EXCEPT ![p].pc = "write", ![p].file = journal]
            /\ UNCHANGED store
       ELSE /\ files' = Append(files, <<>>)
            /\ journal' = Len(files) + 1
            /\ call' = [call EXCEPT ![p].pc = "write", ![p].file = Len(files) + 1]
            /\ attempts' = Append(attempts, <<>>)
            /\ UNCHANGED <<quarantine, latest>>
    /\ UNCHANGED counts

AppendLine(p, line) ==
    /\ files' = [files EXCEPT ![call[p].file] = AppendTo(@, line)]
    /\ attempts' = [attempts EXCEPT ![call[p].file] = Append(@, call[p].event)]
    /\ latest' = [latest EXCEPT ![call[p].event.fact] = call[p].event.action]
    /\ UNCHANGED <<journal, quarantine>>

\* the row is appended and printed back: the event is acknowledged
Write(p) ==
    /\ At(p, "write")
    /\ AppendLine(p, [event |-> call[p].event, ended |-> TRUE])
    /\ Goto(p, "done")
    /\ UNCHANGED counts

\* no banked fact carries the id: the command ends before it opens the journal
NoSuchFact(p) ==
    /\ At(p, "open")
    /\ Done(p)
    /\ UNCHANGED <<store, counts>>

End(p) ==
    /\ At(p, "done")
    /\ Done(p)
    /\ UNCHANGED <<store, counts>>

(***************************************************************************)
(* Faults.                                                                 *)
(***************************************************************************)
Fault ==
    /\ counts.faults < MaxFaults
    /\ counts' = [counts EXCEPT !.faults = @ + 1]

\* a process killed in its write leaves part of the row, or all but the newline
WriteInterrupted(p) ==
    /\ At(p, "write")
    /\ Fault
    /\ \E event \in {Unreadable, call[p].event} :
         AppendLine(p, [event |-> event, ended |-> FALSE])
    /\ Done(p)

Killed(p) ==
    /\ call[p] # Idle
    /\ Fault
    /\ Done(p)
    /\ UNCHANGED store

\* a byte of a line of the journal goes bad
Damaged ==
    /\ counts.overlap \/ Undisturbed
    /\ journal # 0 /\ files[journal] # <<>>
    /\ Fault
    /\ \E i \in DOMAIN files[journal] :
         files' = [files EXCEPT ![journal][i].event = Unreadable]
    /\ UNCHANGED <<journal, quarantine, call, attempts, latest>>

Next ==
    \/ \E p \in Proc :
         \/ \E kind \in {"why", "record", "rotate"}, event \in Event :
              Start(p, kind, event)
         \/ List(p) \/ Read(p) \/ PickName(p) \/ Rename(p) \/ Open(p)
         \/ Write(p) \/ NoSuchFact(p) \/ End(p)
         \/ WriteInterrupted(p) \/ Killed(p)
    \/ Damaged

Spec == Init /\ [][Next]_vars

-----------------------------------------------------------------------------
Job ==
    [pc : {"list", "read", "name", "rename", "open", "write", "done"},
     kind : {"why", "record", "rotate"}, event : Event, seen : Nat,
     failed : BOOLEAN, name : {0} \cup Name, file : Nat]

(***************************************************************************)
(* Every variable keeps its type; in particular a command never writes     *)
(* before it has a file to write to.                                       *)
(***************************************************************************)
TypeOK ==
    /\ files \in Seq(Seq(Line))
    /\ journal \in 0..Len(files)
    /\ quarantine \in [Name -> 0..Len(files)]
    /\ call \in [Proc -> {Idle} \cup Job]
    /\ \A p \in Proc : At(p, "write") => call[p].file \in 1..Len(files)
    /\ attempts \in Seq(Seq(Event)) /\ Len(attempts) = Len(files)
    /\ latest \in [Fact -> Action \cup {"none"}]
    /\ counts \in [calls : 0..MaxCalls, faults : 0..MaxFaults, overlap : BOOLEAN]

(***************************************************************************)
(* Fail-closed: a file that reads as healthy holds every event anyone      *)
(* began to write to it, in the order they were written, so a truncated    *)
(* rejection cannot leave an earlier ratification silently active.         *)
(***************************************************************************)
HealthyIsComplete ==
    \A id \in DOMAIN files :
        ~Malformed(files[id]) =>
            [i \in DOMAIN files[id] |-> files[id][i].event] = attempts[id]

(***************************************************************************)
(* "The LAST event per fact_id wins": what the journal says of a fact,     *)
(* when it says anything, is the last event anyone began to write of it.   *)
(* Commands that overlap do not keep this: one that opened the journal     *)
(* before it was rotated writes its event where nobody reads it.           *)
(***************************************************************************)
LastEventWins ==
    ~counts.overlap =>
    \A f \in Fact : Confers(Content(journal), f) \in {"none", latest[f]}

(***************************************************************************)
(* A quarantined journal is "preserved verbatim for audit, never edited":  *)
(* no step gives its name to another file or changes what it holds, as     *)
(* long as commands run one at a time (a command that opened the journal   *)
(* before it was rotated still appends to it).                             *)
(***************************************************************************)
QuarantineIsKept ==
    [][~counts.overlap => \A n \in Quarantined :
         /\ quarantine'[n] = quarantine[n]
         /\ files'[quarantine[n]] = files[quarantine[n]]]_vars

(***************************************************************************)
(* The command refuses "to rotate a journal that does not need recovery":  *)
(* a renamed journal is malformed, or could not be read by the command     *)
(* (another command could rotate and replace it in between).               *)
(***************************************************************************)
RotatesOnlyDegraded ==
    [][~counts.overlap /\ journal # 0 /\ journal' = 0 =>
         \/ Malformed(files[journal])
         \/ \E p \in Proc : call[p].pc = "rename" /\ call[p].failed]_vars

(***************************************************************************)
(* The quarantine count a reader reports covers every earlier epoch, "so a *)
(* rotation can never be silent": no rotation comes between count and read *)
(* of a command that runs alone.                                           *)
(***************************************************************************)
RotationIsSeen ==
    [][\A p \in Proc :
         ~counts.overlap /\ At(p, "read") /\ call'[p] # Idle /\ call'[p].pc # "read" =>
           call[p].seen = Cardinality(Quarantined)]_vars

(***************************************************************************)
(* "A ratification that cannot be recorded exactly must not happen": an    *)
(* event that was acknowledged is what the journal then says.  The code    *)
(* does not keep this, not even for one command at a time: a row that lost *)
(* only its newline reads as healthy, and the next row is joined to it.    *)
(***************************************************************************)
AcknowledgedIsRecorded ==
    [][\A p \in Proc :
         At(p, "write") /\ call'[p] # Idle /\ call'[p].pc = "done" =>
           Confers(files'[call[p].file], call[p].event.fact) = call[p].event.action]_vars

(***************************************************************************)
(* Under every race, death and torn write: typed state, and no file that   *)
(* reads as healthy while it lacks an event.                               *)
(***************************************************************************)
ReaderFailsClosed ==
    /\ TypeOK
    /\ HealthyIsComplete

(***************************************************************************)
(* The last verdict on a fact stands, and a rotation loses no evidence:    *)
(* quarantined files keep their name and content, only a journal that      *)
(* needs it is rotated, and every reader counts it.                        *)
(***************************************************************************)
VerdictsStand ==
    /\ []LastEventWins
    /\ QuarantineIsKept
    /\ RotatesOnlyDegraded
    /\ RotationIsSeen

=============================================================================
