----------------------------- MODULE McpServer ------------------------------
(***************************************************************************)
(* ctxpack/integrations/mcp_server.py: one process that answers one call   *)
(* after the other, from a ledger that hooks write too and from a code     *)
(* pack it keeps in memory.  A handler that raises is answered by the      *)
(* catch-all; the process may die in any step, and starts empty again.     *)
(*                                                                         *)
(* One session.  A ledger or a transcript is the number of its turns; a    *)
(* version of the code is a number too.                                    *)
(***************************************************************************)
EXTENDS Integers, Sequences

CONSTANTS
    MaxTurn, MaxVersion,
    MaxCall, MaxFault, MaxHook

VARIABLES
    talk,           \* the transcript: turns, and whether it parses
    ledger,         \* session-<sid>.ctx
    published,      \* its rows in checkpoints.jsonl: turns, and turns_new
    sources,        \* version of the code on disk
    server,         \* the call in progress
    codePack, sink, \* _CODE_PACK, and the pack the code telemetry remembers
    reply,          \* the last answer
    met             \* how many calls, faults and hook runs there were

mcpVars == <<talk, ledger, published, sources, server, codePack, sink, reply, met>>
memory == <<codePack, sink>>
ledgerVars == <<ledger, published>>

Waiting == [pc |-> "wait"]
NoReply == [tool |-> "", code |-> ""]
Once(k, max) == met[k] < max /\ met' = [met EXCEPT ![k] = @ + 1]
Fault == Once("faults", MaxFault)

McpInit ==
    /\ talk = [turns |-> 1, is |-> "good"] /\ ledger = 0 /\ published = <<>> /\ sources = 1
    /\ server = Waiting /\ codePack = 0 /\ sink = 0 /\ reply = NoReply
    /\ met = [calls |-> 0, faults |-> 0, hooks |-> 0]

\* the handlers that open a session's ledger themselves (_with_session_doc, resume, why)
LedgerReaders ==
    {"session_recall", "session_timeline", "session_decisions", "why", "graph_query",
     "session_literals", "resume"}
\* the tools whose answers are scanned
SESSION_READ_TOOLS ==
    {"session_recall", "session_timeline", "session_decisions", "why", "graph_query",
     "session_literals", "resume"}

(***************************************************************************)
(* The world.                                                              *)
(***************************************************************************)
Talk ==
    /\ talk.turns < MaxTurn /\ talk.is = "good"
    /\ talk' = [talk EXCEPT !.turns = @ + 1]
    /\ UNCHANGED <<ledgerVars, sources, server, memory, reply, met>>
TalkBreaks(how) ==
    /\ talk.is = "good" /\ talk' = [talk EXCEPT !.is = how]
    /\ UNCHANGED <<ledgerVars, sources, server, memory, reply, met>>
CodeChanges ==
    /\ sources < MaxVersion /\ sources' = sources + 1
    /\ UNCHANGED <<talk, ledgerVars, server, memory, reply, met>>
InCheckpoint == server.pc \in {"parse", "ledger", "row"}
\* a hook's checkpoint, all of it
HookRuns ==
    /\ talk.is = "good" /\ Once("hooks", MaxHook)
    /\ ledger' = talk.turns
    /\ published' = Append(published, [turns |-> talk.turns, raced |-> FALSE,
                                   new |-> talk.turns - (IF published = <<>> THEN 0 ELSE published[Len(published)].turns)])
    /\ server' = IF InCheckpoint THEN [server EXCEPT !.raced = TRUE] ELSE server
    /\ UNCHANGED <<talk, sources, memory, reply>>
Dies ==
    /\ server # Waiting /\ Fault
    /\ server' = Waiting /\ codePack' = 0 /\ sink' = 0 /\ reply' = [NoReply EXCEPT !.code = "died"]
    /\ UNCHANGED <<talk, ledgerVars, sources>>

Answer(r) == reply' = r /\ server' = Waiting
Coded(tool, code) == [tool |-> tool, code |-> code, body |-> "bounded"]
Begins(pc) ==
    /\ server = Waiting /\ Once("calls", MaxCall)
    /\ server' = pc
    /\ UNCHANGED <<talk, ledgerVars, sources, memory, reply>>

(***************************************************************************)
(* ctx/checkpoint                                                          *)
(***************************************************************************)
CheckpointCall ==
    Begins([pc |-> "parse", raced |-> FALSE, before |-> ledger, rows |-> Len(published),
            turns |-> 0, prev |-> 0])
Rejection(code) == [tool |-> "checkpoint", code |-> code, before |-> server.before,
                    rows |-> server.rows, raced |-> server.raced, body |-> "bounded"]
Receipt(new) == [tool |-> "checkpoint", code |-> "ok", rows |-> server.rows,
                 turns |-> server.turns, new |-> new, raced |-> server.raced, body |-> "receipt"]

\* not a file; or hollow or foreign: nothing is written
CkptParses ==
    /\ server.pc = "parse"
    /\ CASE talk.is = "gone" -> Answer(Rejection("transcript_not_found"))
         [] talk.is = "hollow" -> Answer(Rejection("transcript_rejected"))
         [] OTHER -> /\ server' = [server EXCEPT !.pc = "ledger", !.turns = talk.turns]
                     /\ UNCHANGED reply
    /\ UNCHANGED <<talk, ledgerVars, sources, memory, met>>

\* (mutant) the session's first row
PrevFirst == IF published = <<>> THEN 0 ELSE published[1].turns
Prev == IF published = <<>> THEN 0 ELSE published[Len(published)].turns

\* the turns already banked are read before the ledger is replaced
CkptWrites ==
    /\ server.pc = "ledger"
    /\ ledger' = server.turns
    /\ server' = [server EXCEPT !.pc = "row", !.prev = Prev]
    /\ UNCHANGED <<talk, published, sources, memory, reply, met>>

New == IF server.turns > server.prev THEN server.turns - server.prev ELSE 0
CkptJournals ==
    /\ server.pc = "row"
    /\ published' = Append(published, [turns |-> server.turns, raced |-> server.raced, new |-> New])
    /\ Answer(Receipt(New))
    /\ UNCHANGED <<talk, ledger, sources, memory, met>>

(***************************************************************************)
(* ctx/code_pack and the tools that read it                                *)
(***************************************************************************)
CodePackCall == Begins([pc |-> "pack"])
CodeAnswer == [tool |-> "code_read", code |-> "ok", body |-> "bounded", version |-> codePack, counted |-> sink]
\* the pack is replaced, then the telemetry is told
Packs ==
    /\ server.pc = "pack"
    /\ codePack' = sources /\ server' = [pc |-> "tell"]
    /\ UNCHANGED <<talk, ledgerVars, sources, sink, reply, met>>
SinkBeforeWrite(written) == codePack
\* a log that cannot be written fails the call, not the pack
Tells(written) ==
    /\ server.pc = "tell"
    /\ ~written => met.faults < MaxFault
    /\ met' = [met EXCEPT !.faults = @ + (IF written THEN 0 ELSE 1)]
    /\ sink' = SinkBeforeWrite(written)
    /\ Answer(Coded("code_pack", IF written THEN "ok" ELSE "tool_failed"))
    /\ UNCHANGED <<talk, ledgerVars, sources, codePack>>

CodeRead == Begins([pc |-> "code"])
CodeReads ==
    /\ server.pc = "code"
    /\ Answer(IF codePack = 0 THEN Coded("code_read", "pack_not_loaded") ELSE CodeAnswer)
    /\ UNCHANGED <<talk, ledgerVars, sources, memory, met>>

(***************************************************************************)
(* The session tools                                                       *)
(***************************************************************************)
SessionRead(tool) == Begins([pc |-> "read", tool |-> tool])
Reads ==
    /\ server.pc = "read"
    /\ server' = [pc |-> "leave", tool |-> server.tool, found |-> ledger > 0]
    /\ UNCHANGED <<talk, ledgerVars, sources, memory, reply, met>>
\* a scanner that fails lets nothing through
Leaves(works) ==
    LET tool == server.tool IN
    /\ server.pc = "leave"
    /\ ~works => met.faults < MaxFault /\ tool \in SESSION_READ_TOOLS
    /\ met' = [met EXCEPT !.faults = @ + (IF works THEN 0 ELSE 1)]
    /\ Answer(IF ~works THEN Coded(tool, "egress_scan_failed")
              ELSE IF ~server.found THEN Coded(tool, "ledger_not_found")
              ELSE [Coded(tool, "ok") EXCEPT !.body =
                        IF tool \in SESSION_READ_TOOLS THEN "scanned" ELSE "ledger"])
    /\ UNCHANGED <<talk, ledgerVars, sources, memory>>

RaisedCode == "tool_failed"
\* the catch-all: any handler may raise between two of its steps
Raises ==
    /\ server.pc \in {"parse", "ledger", "row", "pack", "read"} /\ Fault
    /\ Answer(IF InCheckpoint THEN Rejection(RaisedCode) ELSE Coded(server.pc, "tool_failed"))
    /\ UNCHANGED <<talk, ledgerVars, sources, memory>>

McpNext ==
    \/ Talk \/ CodeChanges \/ HookRuns \/ Dies \/ Raises
    \/ \E how \in {"hollow", "gone"} : TalkBreaks(how)
    \/ CheckpointCall \/ CkptParses \/ CkptWrites \/ CkptJournals
    \/ CodePackCall \/ Packs \/ CodeRead \/ CodeReads
    \/ \E written \in BOOLEAN : Tells(written)
    \/ \E tool \in LedgerReaders : SessionRead(tool)
    \/ Reads
    \/ \E works \in BOOLEAN : Leaves(works)

-----------------------------------------------------------------------------
(* No handler that opens a session's ledger answers with bytes the egress  *)
(* scan has not seen; when the scan fails, with none ("fail-closed").      *)
LedgerBytesAreScanned == reply.tool \in LedgerReaders => reply.body # "ledger"

(* A rejection wrote nothing ("fail-loud, nothing written"), and a receipt *)
(* stands for a row that was written: the journal then holds those turns.  *)
RepliesTellTheTruth ==
    [][reply' # reply /\ reply'.tool = "checkpoint" =>
        /\ reply'.code \in {"transcript_rejected", "transcript_not_found"} /\ ~reply'.raced =>
            ledger' = reply'.before /\ Len(published') = reply'.rows
        /\ reply'.code = "ok" =>
            \E i \in DOMAIN published' : i > reply'.rows /\ published'[i].turns = reply'.turns]_mcpVars

(* "What this call actually added": the turns a receipt calls new are      *)
(* those since the row before it, whatever was lost to errors and deaths   *)
(* in between and whoever wrote that row, unless a hook ran in the call.   *)
NewTurnsCountOnce ==
    \A i \in DOMAIN published : ~published[i].raced =>
        published[i].new = published[i].turns - (IF i = 1 THEN 0 ELSE published[i - 1].turns)

(* What the code tools answer from and what the telemetry remembers are    *)
(* one pack, also when a call failed half way.                             *)
OneSnapshot ==
    /\ server = Waiting => sink = codePack
    /\ reply.tool = "code_read" /\ reply.code = "ok" => reply.counted = reply.version

(* What the server answers is true of the project directory: scanned, of   *)
(* one snapshot, counted once, and an error that wrote nothing.            *)
RepliesAttest ==
    /\ [](LedgerBytesAreScanned /\ OneSnapshot /\ NewTurnsCountOnce)
    /\ RepliesTellTheTruth

=============================================================================
