------------------------------ MODULE Onboard ------------------------------
(***************************************************************************)
(* `ctxpack onboard`, which wires the program into a repository, and its   *)
(* --check (cli/main.py).  The command rewrites three files the user owns: *)
(* the hooks in .claude/settings.json, the server in .mcp.json and a block *)
(* of CLAUDE.md.  Each is read, then opened (which truncates it) and then  *)
(* written; the user edits between any two steps, and the command may die. *)
(***************************************************************************)
EXTENDS Integers, Sequences, FiniteSets, SequencesExt

CONSTANTS
    HookEvent,          \* hook events of _HOOK_SETTINGS
    OwnHook,        \* hooks of the user
    OwnServer,      \* MCP servers of the user
    OwnText,        \* passages of CLAUDE.md
    Vendored,       \* the repository holds a ctxpack of its own
    MaxVer,         \* versions of the conventions block
    MaxOnboards, MaxUserEdits, MaxKills

VARIABLES
    settings, mcp, md,   \* the files
    cmd,                 \* the running command, or its last result
    ver,                 \* the installed version of the block
    own,                 \* what the user put in the files
    spoilt,              \* files a death or an edit under the command's hands hit
    onbCounts            \* onboards, edits and deaths so far

filesOf == <<settings, mcp, md>>
onboardVars == <<settings, mcp, md, cmd, ver, own, spoilt, onbCounts>>

\* a launch: the console script, `python -m`, or `python -P -m` (3.11 on)
Form == {"script", "plain", "safe"}
Absent == [at |-> "absent"]
Unreadable == [at |-> "torn"]
\* a hook entry is the sequence of its hooks
HooksFile(h) == [at |-> "file", hooks |-> h]
ServersFile(others, ours) == [at |-> "file", others |-> others, ours |-> ours]
\* CLAUDE.md as a sequence of passages, markers and block bodies
Piece(k, v) == [k |-> k, v |-> v]
MdFile(pieces) == [at |-> "file", txt |-> pieces]
MdBlock(v) == <<Piece("start", v), Piece("body", v), Piece("end", "")>>
Passages(f) == IF f.at = "file" THEN f.txt ELSE <<>>
Where(txt, k) == {i \in DOMAIN txt : txt[i].k = k}
Earliest(S) == CHOOSE i \in S : \A j \in S : i <= j

----------------------------------------------------------------------------
(* The new content of each file.                                           *)

IsOurs(h) == h \in Form
\* our hooks go at the inner level: an entry that mixes keeps the user's
Stripped(entry) == SelectSeq(entry, LAMBDA h : ~IsOurs(h))
\* (mutant) entries that mix are dropped whole
DropMixed(entries) ==
    SelectSeq(entries, LAMBDA e : Stripped(e) = e)
KeptEntries(entries) ==
    LET mine == SelectSeq(entries, LAMBDA e : e = <<>> \/ Stripped(e) # <<>>)
    IN [i \in DOMAIN mine |-> Stripped(mine[i])]
HooksOf(f) == IF f.at = "file" THEN f.hooks ELSE [e \in HookEvent |-> <<>>]
MergedHooks(f, form) ==
    HooksFile([e \in HookEvent |-> Append(KeptEntries(HooksOf(f)[e]), <<form>>)])

Others(f) == IF f.at = "file" THEN f.others ELSE {}
Ours(f) == IF f.at = "file" THEN f.ours ELSE "none"
MergedServers(f, form) == ServersFile(Others(f), form)

\* what becomes of CLAUDE.md: "keep", "refresh" in place or "append"
MdChoice(f, v) ==
    LET txt == Passages(f)  starts == Where(txt, "start")  ends == Where(txt, "end") IN
    IF \E i \in starts : txt[i].v = v THEN "keep"
    ELSE IF starts = {} THEN "append"
    ELSE IF ends # {} /\ Earliest(ends) > Earliest(starts) THEN "refresh"
    ELSE "keep"
Refreshed(f, v) ==
    LET txt == Passages(f)  a == Earliest(Where(txt, "start"))  b == Earliest(Where(txt, "end"))
    IN MdFile(SubSeq(txt, 1, a - 1) \o MdBlock(v) \o SubSeq(txt, b + 1, Len(txt)))

----------------------------------------------------------------------------
(* The read-only check.                                                    *)

\* the launch imports this ctxpack: a plain one finds the vendored copy first
LaunchProblems(form) ==
    IF form = "script" THEN {"no -m launch"}
    ELSE IF form = "safe" THEN {}
    ELSE {"not shadow-proof"} \cup (IF Vendored THEN {"other ctxpack"} ELSE {})
HookForms(f) ==
    UNION {ToSet(e) \cap Form : e \in UNION {ToSet(HooksOf(f)[ev]) : ev \in HookEvent}}
HookProblems(form) ==
    IF settings.at # "file" THEN {"settings " \o settings.at}
    ELSE (IF HookForms(settings) = {} THEN {"no hooks"} ELSE {})
         \cup (IF HookForms(settings) \subseteq {form} THEN {} ELSE {"hook resolver"})
         \cup UNION {LaunchProblems(f) : f \in HookForms(settings)}
ServerProblems(form) ==
    IF mcp.at # "file" THEN {"mcp " \o mcp.at}
    ELSE IF mcp.ours = "none" THEN {"no entry"}
    ELSE (IF mcp.ours = form THEN {} ELSE {"resolver differs"}) \cup LaunchProblems(mcp.ours)
MdProblems(v) ==
    LET txt == Passages(md)  starts == Where(txt, "start")  ends == Where(txt, "end") IN
    IF md.at = "absent" THEN {"md missing"}
    ELSE IF starts = {} THEN {"no block"}
    ELSE IF ~\E i \in starts : txt[i].v = v THEN {"block is stale"}
    ELSE IF ends = {} \/ Earliest(ends) < Earliest(starts) THEN {"no end marker"}
    ELSE IF SubSeq(txt, Earliest(starts), Earliest(ends)) # MdBlock(v) THEN {"content differs"}
    ELSE {}
Problems(form, v) == HookProblems(form) \cup ServerProblems(form) \cup MdProblems(v)
CheckPasses(form, v) == Problems(form, v) = {}

----------------------------------------------------------------------------
(* The command: for each file read, open, write.                           *)

NoCommand == [at |-> "idle", step |-> "", new |-> Absent, form |-> "", how |-> "", rc |-> 1]
OnboardInit ==
    /\ settings = Absent /\ mcp = Absent /\ md = Absent
    /\ cmd = NoCommand /\ ver = "v1" /\ spoilt = {}
    /\ own = [hooks |-> [e \in HookEvent |-> <<>>], servers |-> {}, text |-> <<>>]
    /\ onbCounts = [onboards |-> 0, edits |-> 0, kills |-> 0]

BeginOnboard ==
    /\ cmd.at = "idle" /\ onbCounts.onboards < MaxOnboards
    /\ \E form \in {"plain", "safe"} :
         cmd' = [NoCommand EXCEPT !.at = "hooks", !.step = "read", !.form = form]
    /\ onbCounts' = [onbCounts EXCEPT !.onboards = @ + 1]
    /\ UNCHANGED <<filesOf, ver, own, spoilt>>

Fail == cmd' = [NoCommand EXCEPT !.form = cmd.form, !.how = "failed"]
ReadHooks ==
    /\ cmd.at = "hooks" /\ cmd.step = "read"
    /\ IF settings = Unreadable THEN Fail      \* never overwrite what we can't read
       ELSE cmd' = [cmd EXCEPT !.step = "open", !.new = MergedHooks(settings, cmd.form)]
    /\ UNCHANGED <<filesOf, ver, own, spoilt, onbCounts>>
WriteHooks ==
    /\ cmd.at = "hooks"
    /\ \/ cmd.step = "open" /\ settings' = Unreadable /\ cmd' = [cmd EXCEPT !.step = "write"]
       \/ /\ cmd.step = "write" /\ settings' = cmd.new
          /\ cmd' = [cmd EXCEPT !.at = "mcp", !.step = "read"]
    /\ UNCHANGED <<mcp, md, ver, own, spoilt, onbCounts>>

ReadServers ==
    /\ cmd.at = "mcp" /\ cmd.step = "read"
    /\ IF mcp = Unreadable THEN Fail
       ELSE IF Ours(mcp) = cmd.form THEN cmd' = [cmd EXCEPT !.at = "md"]
       ELSE cmd' = [cmd EXCEPT !.step = "open", !.new = MergedServers(mcp, cmd.form)]
    /\ UNCHANGED <<filesOf, ver, own, spoilt, onbCounts>>
WriteServers ==
    /\ cmd.at = "mcp"
    /\ \/ cmd.step = "open" /\ mcp' = Unreadable /\ cmd' = [cmd EXCEPT !.step = "write"]
       \/ cmd.step = "write" /\ mcp' = cmd.new /\ cmd' = [cmd EXCEPT !.at = "md", !.step = "read"]
    /\ UNCHANGED <<settings, md, ver, own, spoilt, onbCounts>>

Done == cmd' = [NoCommand EXCEPT !.form = cmd.form, !.rc = 0,
                             !.how = IF cmd.how = "edited" THEN "edited" ELSE "done"]
ReadMd ==
    /\ cmd.at = "md" /\ cmd.step = "read"
    /\ LET choice == MdChoice(md, ver) IN
       \/ choice = "keep" /\ Done
       \/ choice = "append" /\ cmd' = [cmd EXCEPT !.step = "append"]
       \/ choice = "refresh" /\ cmd' = [cmd EXCEPT !.step = "open", !.new = Refreshed(md, ver)]
    /\ UNCHANGED <<filesOf, ver, own, spoilt, onbCounts>>
\* an append adds to what the file holds by then; the others truncate it first
WriteMd ==
    /\ cmd.at = "md"
    /\ \/ cmd.step = "append" /\ md' = MdFile(Passages(md) \o MdBlock(ver)) /\ Done
       \/ cmd.step = "open" /\ md' = MdFile(<<>>) /\ cmd' = [cmd EXCEPT !.step = "write"]
       \/ cmd.step = "write" /\ md' = cmd.new /\ Done
    /\ UNCHANGED <<settings, mcp, ver, own, spoilt, onbCounts>>

Onboarding == ReadHooks \/ WriteHooks \/ ReadServers \/ WriteServers \/ ReadMd \/ WriteMd

\* killed after an open: the file stays torn, CLAUDE.md may keep a beginning
KillOnboard ==
    /\ cmd.at # "idle" /\ onbCounts.kills < MaxKills
    /\ onbCounts' = [onbCounts EXCEPT !.kills = @ + 1]
    /\ cmd' = [NoCommand EXCEPT !.how = "killed"]
    /\ IF cmd.at = "md" /\ cmd.step \in {"append", "write"}
       THEN \E n \in 0..2 :
              LET new == IF cmd.step = "write" THEN Passages(cmd.new) ELSE MdBlock(ver)
              IN md' = MdFile(Passages(md) \o SubSeq(new, 1, n))
       ELSE UNCHANGED md
    /\ spoilt' = IF cmd.step = "write" THEN spoilt \cup {cmd.at} ELSE spoilt
    /\ UNCHANGED <<settings, mcp, ver, own>>

----------------------------------------------------------------------------
(* The user, who edits at any moment but that of a write.                  *)

UserEdit(file) ==
    /\ onbCounts.edits < MaxUserEdits
    /\ ~(cmd.at = file /\ cmd.step = "write")
    /\ onbCounts' = [onbCounts EXCEPT !.edits = @ + 1]
    \* what is written between a read and its open is overwritten
    /\ spoilt' = IF cmd.at = file /\ cmd.step = "open" THEN spoilt \cup {file} ELSE spoilt
    /\ cmd' = [cmd EXCEPT !.how = "edited"]
    /\ UNCHANGED ver

EditSettings ==
    /\ settings # Unreadable
    /\ UserEdit("hooks")
    /\ \E e \in HookEvent : LET es == HooksOf(settings)[e] IN
       \/ \E h \in OwnHook :
            /\ \/ settings' = HooksFile([HooksOf(settings) EXCEPT ![e] = Append(@, <<h>>)])
               \/ es # <<>> /\ settings' = HooksFile([HooksOf(settings) EXCEPT
                                              ![e][Len(es)] = Append(@, h)])
            /\ own' = [own EXCEPT !.hooks[e] = Append(@, h)]
       \/ /\ settings' = HooksFile([HooksOf(settings) EXCEPT ![e] = Append(@, <<"script">>)])
          /\ UNCHANGED own
       \/ settings' = HooksFile([HooksOf(settings) EXCEPT ![e] = KeptEntries(@)]) /\ UNCHANGED own
    /\ UNCHANGED <<mcp, md>>
EditServers ==
    /\ mcp # Unreadable
    /\ UserEdit("mcp")
    /\ \/ \E s \in OwnServer :
            /\ mcp' = ServersFile(Others(mcp) \cup {s}, Ours(mcp))
            /\ own' = [own EXCEPT !.servers = @ \cup {s}]
       \/ mcp' = ServersFile(Others(mcp), "plain") /\ UNCHANGED own
    /\ UNCHANGED <<settings, md>>
EditMd ==
    /\ UserEdit("md")
    /\ \/ \E t \in OwnText :
            /\ md' = MdFile(Append(Passages(md), Piece("text", t)))
            /\ own' = [own EXCEPT !.text = Append(@, t)]
       \/ \E i \in Where(Passages(md), "end") :
            md' = MdFile(RemoveAt(Passages(md), i)) /\ UNCHANGED own
       \/ \E i \in Where(Passages(md), "body") :
            md' = MdFile([Passages(md) EXCEPT ![i].v = "hand"]) /\ UNCHANGED own
    /\ UNCHANGED <<settings, mcp>>
Upgrade ==
    /\ cmd.at = "idle" /\ ver = "v1" /\ MaxVer > 1
    /\ ver' = "v2" /\ cmd' = [cmd EXCEPT !.how = "edited"]
    /\ UNCHANGED <<filesOf, own, spoilt, onbCounts>>

OnboardNext == BeginOnboard \/ Onboarding \/ KillOnboard
                 \/ EditSettings \/ EditServers \/ EditMd \/ Upgrade

----------------------------------------------------------------------------
OwnHooks(f) == [e \in HookEvent |-> SelectSeq(FlattenSeq(HooksOf(f)[e]), LAMBDA h : ~IsOurs(h))]
OwnPassages(f) ==
    LET mine == SelectSeq(Passages(f), LAMBDA p : p.k = "text") IN [i \in DOMAIN mine |-> mine[i].v]
Writing(file) == cmd.at = file /\ cmd.step = "write"

(* Whatever is onboarded, upgraded and edited, the user's hooks, servers   *)
(* and text stay in their files, in the order the user put them, unless a  *)
(* death or an edit between a read and its open hit that file.             *)
UsersOwnSurvives ==
    /\ "hooks" \in spoilt \/ Writing("hooks") \/ OwnHooks(settings) = own.hooks
    /\ "mcp" \in spoilt \/ Writing("mcp") \/ Others(mcp) = own.servers
    /\ "md" \in spoilt \/ Writing("md") \/ OwnPassages(md) = own.text

(* After a completed onboard nothing but the two things it leaves to the   *)
(* user, a block cut off or edited by hand under the current version, and  *)
(* a Python without -P, keeps the check from passing.                      *)
OnboardSatisfiesCheck ==
    cmd.how = "done" =>
        Problems(cmd.form, ver) \subseteq
            {"no end marker", "content differs"}
              \cup (IF MdChoice(md, "none") = "keep" THEN {"block is stale"} ELSE {})
              \cup (IF cmd.form = "plain" THEN LaunchProblems("plain") ELSE {})

(* Every event then runs exactly one of our hooks, whatever older forms    *)
(* and mixed entries were there.                                           *)
OneHookPerEvent ==
    cmd.how = "done" =>
        \A e \in HookEvent : SelectSeq(FlattenSeq(HooksOf(settings)[e]), IsOurs) = <<cmd.form>>

(* A check that passes is worth something: every launch on disk is the     *)
(* shadow-proof one, and the block read first is the whole current one.    *)
PassMeansWired ==
    \A form \in {"plain", "safe"} : CheckPasses(form, ver) =>
        /\ form = "safe"
        /\ HookForms(settings) = {"safe"} /\ mcp.ours = "safe"
        /\ \E i \in DOMAIN Passages(md) : SubSeq(Passages(md), i, i + 2) = MdBlock(ver)

(* As the check says of itself, it fails on any missing piece: when it     *)
(* passes no event is without its hook.  It does not hold: the check asks  *)
(* for some hook of ours, not for one of every event.                      *)
EveryEventIsChecked ==
    \A form \in {"plain", "safe"} : CheckPasses(form, ver) =>
        \A e \in HookEvent : \E entry \in ToSet(settings.hooks[e]) : form \in ToSet(entry)

(* A file that cannot be read is never opened to be written.               *)
UnreadableIsLeftAlone ==
    [][/\ (settings = Unreadable /\ ~Writing("hooks")) => ~Writing("hooks")'
       /\ (mcp = Unreadable /\ ~Writing("mcp")) => ~Writing("mcp")']_onboardVars

(* Onboarding is safe for what the user owns and does what its check asks. *)
OnboardingIsSafe ==
    /\ [](UsersOwnSurvives /\ OnboardSatisfiesCheck /\ OneHookPerEvent /\ PassMeansWired)
    /\ UnreadableIsLeftAlone
=============================================================================
