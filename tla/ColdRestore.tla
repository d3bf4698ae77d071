----------------------------- MODULE ColdRestore -----------------------------
(***************************************************************************)
(* One pane seen from the server's process: createOrAttach and kill of the *)
(* class DaemonTerminalManager, the HistoryManager with its HistoryWriters *)
(* and the files on disk from which the pane is restored after a crash.    *)
(*                                                                         *)
(* The process and the daemon crash independently of each other; the disk  *)
(* survives.  A handler runs up to its next await: for a permit, for an    *)
(* answer of the daemon, for a file.  Panes share only permits, and the    *)
(* calls for one pane join the one in flight (pendingSessions), so that    *)
(* there is at most one at the daemon.  Shells, the daemon's sessions of   *)
(* the pane, are numbered; of the scrollback only its shell is kept.       *)
(*                                                                         *)
(* Left out: tombstones of killed panes, which any user may override,      *)
(* clearScrollback, resetHistoryPersistence, cleanup and forceKillAll,     *)
(* what a failing write or resize makes of the session, failures of the    *)
(* disk, the backlog of a slow disk, and the end of a connection whose     *)
(* daemon lives on.  After a crash the process starts again when the       *)
(* daemon is done with what the last one had asked of it.                  *)
(***************************************************************************)
EXTENDS Integers, Sequences

CONSTANTS
  MaxShells,   \* bound: shells ever started for the pane
  Writers,     \* HistoryWriter objects in use at a time
  None,        \* undefined
  (* What is assumed of the surroundings; FALSE assumes nothing.           *)
  OneOrder,    \* events and responses arrive in the order they were sent in
  PromptDisk,  \* closing or deleting a history is done before the next read,
               \* or the next writer's write, of its files
  QuietSetUp   \* a shell does not end, nor is it killed, between its attach
               \* and the end of its history's initialisation

ASSUME MaxShellsAssumption == MaxShells \in Nat
ASSUME NoneAssumption == None \notin Writers
ASSUME SwitchAssumption ==
  OneOrder \in BOOLEAN /\ PromptDisk \in BOOLEAN /\ QuietSetUp \in BOOLEAN

VARIABLES
  (* DaemonTerminalManager *)
  up,           \* the process runs
  hydrated,     \* daemonSessionIdsHydrated
  cached,       \* the pane is in daemonAliveSessionIds
  session,      \* sessions: "none", "alive", "dead"
  restore,      \* coldRestoreInfo is set
  call,         \* the createOrAttach in flight
  killing,      \* a kill waits for the deletion of the history
  (* HistoryManager, and the state of its writers *)
  writer,       \* historyWriters: the writer, or None
  initializing, \* historyInitializing
  phase,        \* how far a writer is, and the shell it records
  (* the files *)
  meta,         \* meta.json: "none", "open" (no endedAt), "ended"
  scrollback,   \* scrollback.bin: the shell it is of, or 0: no file
  (* the daemon and the connection with it *)
  shell,        \* "none", "live", "dying" (killed)
  shells,       \* shells started so far: the number of the last one
  busy,         \* createOrAttach in the daemon: "no", "spawning", "attaching"
  wire,         \* requests on their way
  inbox,        \* responses and events on their way
  hangup,       \* the daemon is gone, and the client has not noticed
  (* history variables *)
  kept,         \* shell whose history has been set up and not closed, or 0
  lost,         \* shell that the daemon's crash ended while it was kept, or 0
  over,         \* shells whose history was closed before a crash could prevent it
  unwanted      \* shells that were to be killed

managerVars == <<hydrated, cached, session, restore, call, killing>>
historyVars == <<writer, initializing, phase>>
diskVars == <<meta, scrollback>>
daemonVars == <<shell, shells, busy>>
ghostVars == <<kept, lost, over, unwanted>>
vars == <<up, managerVars, historyVars, diskVars, daemonVars, wire, inbox, hangup,
          ghostVars>>

-----------------------------------------------------------------------------

Shells == 0 .. MaxShells
Stage == {"idle", "permit", "list", "meta", "scroll", "discard", "rm", "create"}
Request == {"list", "create", "kill", "survey"}
Message == {"has", "hasnt", "created", "refused", "exit", "seen", "unseen"}
WriterState == [at : {"free", "making", "filled", "open", "closing"}, of : Shells]

TypeOK ==
  /\ up \in BOOLEAN /\ hydrated \in BOOLEAN /\ cached \in BOOLEAN
  /\ restore \in BOOLEAN /\ killing \in BOOLEAN /\ initializing \in BOOLEAN
  /\ hangup \in BOOLEAN
  /\ session \in {"none", "alive", "dead"}
  /\ call \in [pc : Stage, skip : BOOLEAN]
  /\ phase \in [Writers -> WriterState]
  /\ writer = None \/ (writer \in Writers /\ phase[writer].at = "open")
  /\ meta \in {"none", "open", "ended"} /\ scrollback \in Shells
  /\ shell \in {"none", "live", "dying"} /\ shells \in Shells
  /\ busy \in {"no", "spawning", "attaching"}
  /\ wire \in Seq(Request) /\ inbox \in Seq(Message)
  /\ kept \in Shells /\ lost \in Shells
  /\ over \subseteq Shells /\ unwanted \subseteq Shells

Idle == [pc |-> "idle", skip |-> FALSE]
Free == [at |-> "free", of |-> 0]

Init ==
  /\ up = TRUE /\ hydrated = FALSE /\ cached = FALSE
  /\ session = "none" /\ restore = FALSE /\ call = Idle /\ killing = FALSE
  /\ writer = None /\ initializing = FALSE
  /\ phase = [w \in Writers |-> Free]
  /\ meta = "none" /\ scrollback = 0
  /\ shell = "none" /\ shells = 0 /\ busy = "no"
  /\ wire = << >> /\ inbox = << >> /\ hangup = FALSE
  /\ kept = 0 /\ lost = 0 /\ over = {} /\ unwanted = {}

-----------------------------------------------------------------------------
(* The assumptions *)

Coming(m) == \E i \in DOMAIN inbox : inbox[i] = m
Initialising == \E w \in Writers : phase[w].at \in {"making", "filled"}
Closing == \E w \in Writers : phase[w].at = "closing"
SettingUp ==
  \/ busy = "attaching"
  \/ Coming("created")
  \/ Initialising

Quiet == QuietSetUp => ~SettingUp
Settled == PromptDisk => ~Closing /\ ~killing

-----------------------------------------------------------------------------
(* HistoryManager *)

\* initHistoryWriter, up to its first await.
InitHistoryWriter ==
  \E w \in Writers :
    /\ phase[w].at = "free" /\ w # writer
    /\ phase' = [phase EXCEPT ![w] = [at |-> "making", of |-> shells]]
    /\ initializing' = TRUE

\* closeHistoryWriter: close goes on by itself.
\* Mutant: the closed writer stays in historyWriters.
CloseHistoryWriter_Keeps ==
  /\ phase' = IF writer = None THEN phase ELSE [phase EXCEPT ![writer].at = "closing"]
  /\ UNCHANGED writer
  /\ initializing' = FALSE
  /\ kept' = 0
CloseHistoryWriter ==
  /\ phase' = IF writer = None THEN phase ELSE [phase EXCEPT ![writer].at = "closing"]
  /\ writer' = None
  /\ initializing' = FALSE
  /\ kept' = 0

\* The shells whose history closeHistoryWriter ends, or should.
Ended ==
  LET current == {w \in Writers : w = writer \/ phase[w].at \in {"making", "filled"}}
  IN over \cup {phase[w].of : w \in current}

\* HistoryWriter.init creates or overwrites the scrollback, then writes meta.json
\* without endedAt; initHistoryWriter installs the writer in place of another.
Fill(w) ==
  /\ up /\ Settled
  /\ phase[w].at = "making"
  /\ phase' = [phase EXCEPT ![w].at = "filled"]
  /\ scrollback' = phase[w].of
  /\ UNCHANGED <<up, managerVars, writer, initializing, meta, daemonVars, wire, inbox,
                 hangup, ghostVars>>

Install(w) ==
  /\ up /\ Settled
  /\ phase[w].at = "filled"
  /\ phase' = [v \in Writers |-> IF v = w THEN [phase[w] EXCEPT !.at = "open"]
                                 ELSE IF v = writer THEN Free ELSE phase[v]]
  /\ writer' = w
  /\ initializing' = FALSE
  /\ meta' = IF scrollback = 0 /\ meta = "none" THEN meta ELSE "open"
  /\ kept' = phase[w].of
  /\ UNCHANGED <<up, managerVars, scrollback, daemonVars, wire, inbox, hangup, lost,
                 over, unwanted>>

\* HistoryWriter.close, from the end of its stream on: endedAt is written, unless
\* the directory is gone.
MarkEnded(w) ==
  /\ up
  /\ phase[w].at = "closing"
  /\ phase' = [phase EXCEPT ![w] = Free]
  /\ meta' = IF scrollback = 0 /\ meta = "none" THEN meta ELSE "ended"
  /\ UNCHANGED <<up, managerVars, writer, initializing, scrollback, daemonVars, wire,
                 inbox, hangup, ghostVars>>

\* writeToHistory of output that clears the scrollback: the writer is closed and
\* another one started for the same shell.  Output comes ahead of the exit event.
ClearedOutput ==
  /\ up /\ ~hangup
  /\ IF Coming("exit") THEN ~QuietSetUp ELSE shell = "live"
  /\ ~initializing
  /\ writer # None /\ session # "none"
  /\ \E w \in Writers :
       /\ phase[w].at = "free"
       /\ phase' = [phase EXCEPT ![writer].at = "closing",
                                 ![w] = [at |-> "making", of |-> phase[writer].of]]
  /\ writer' = None /\ initializing' = TRUE
  /\ kept' = 0
  /\ UNCHANGED <<up, managerVars, diskVars, daemonVars, wire, inbox, hangup, lost,
                 over, unwanted>>

-----------------------------------------------------------------------------
(* createOrAttach *)

At(pc) == up /\ call.pc = pc
GoTo(pc) == call' = [call EXCEPT !.pc = pc]
SendCreate == GoTo("create") /\ wire' = Append(wire, "create")

\* createOrAttach when no call is in flight; any other joins it.
Call(skip) ==
  /\ At("idle")
  /\ call' = [pc |-> "permit", skip |-> skip]
  /\ UNCHANGED <<up, hydrated, cached, session, restore, killing, historyVars, diskVars,
                 daemonVars, wire, inbox, hangup, ghostVars>>

\* How doCreateOrAttach goes on when it knows whether the daemon has the session.
\* The cleanup of a call that skips the restore is what the user has asked for.
Decide(has) ==
  \/ /\ has
     /\ SendCreate
     /\ UNCHANGED <<historyVars, ghostVars>>
  \/ /\ ~has /\ ~call.skip
     /\ GoTo("meta")
     /\ UNCHANGED <<wire, historyVars, ghostVars>>
  \/ /\ ~has /\ call.skip
     /\ Quiet
     /\ GoTo("rm")
     /\ CloseHistoryWriter
     /\ lost' = 0 /\ over' = Ended
     /\ UNCHANGED <<wire, unwanted>>

\* The permit is there: a restore that was offered is offered again; else the
\* daemon is asked for its sessions unless they are known.
Sticky ==
  /\ At("permit")
  /\ ~call.skip /\ restore
  /\ call' = Idle
  /\ UNCHANGED <<up, hydrated, cached, session, restore, killing, historyVars, diskVars,
                 daemonVars, wire, inbox, hangup, ghostVars>>

Permit ==
  /\ At("permit")
  /\ call.skip \/ ~restore
  /\ restore' = FALSE
  /\ IF hydrated THEN Decide(cached)
     ELSE /\ GoTo("list") /\ wire' = Append(wire, "list")
          /\ UNCHANGED <<historyVars, ghostVars>>
  /\ UNCHANGED <<up, hydrated, cached, session, killing, diskVars, daemonVars, inbox,
                 hangup>>

\* attemptColdRestore.
Unclean_IfAny(m) == m # "none"
Unclean(m) == m = "open"

ReadMeta ==
  /\ At("meta") /\ Settled
  /\ IF Unclean(meta) THEN GoTo("scroll") /\ UNCHANGED wire ELSE SendCreate
  /\ UNCHANGED <<up, hydrated, cached, session, restore, killing, historyVars, diskVars,
                 daemonVars, inbox, hangup, ghostVars>>

ReadScrollback ==
  /\ At("scroll")
  /\ IF scrollback = 0 THEN GoTo("discard") /\ UNCHANGED restore
     ELSE call' = Idle /\ restore' = TRUE
  /\ UNCHANGED <<up, hydrated, cached, session, killing, historyVars, diskVars,
                 daemonVars, wire, inbox, hangup, ghostVars>>

\* fs.rm of the directory takes the files one by one.
RemoveFile ==
  \/ meta # "none" /\ meta' = "none" /\ UNCHANGED scrollback
  \/ scrollback # 0 /\ scrollback' = 0 /\ UNCHANGED meta

Remove ==
  /\ At("discard") \/ At("rm") \/ (up /\ killing)
  /\ RemoveFile
  /\ UNCHANGED <<up, managerVars, historyVars, daemonVars, wire, inbox, hangup,
                 ghostVars>>

Removed ==
  /\ At("discard") \/ At("rm")
  /\ meta = "none" /\ scrollback = 0
  /\ SendCreate
  /\ UNCHANGED <<up, hydrated, cached, session, restore, killing, historyVars, diskVars,
                 daemonVars, inbox, hangup, ghostVars>>

\* ackColdRestore.
Acknowledge ==
  /\ up /\ restore
  /\ restore' = FALSE
  /\ UNCHANGED <<up, hydrated, cached, session, call, killing, historyVars, diskVars,
                 daemonVars, wire, inbox, hangup, ghostVars>>

-----------------------------------------------------------------------------
(* kill *)

\* Bound: one kill at a time, and one listing beside the call's.
UnderWay(r) == \E i \in DOMAIN wire : wire[i] = r

\* kill, and killByWorkspaceId for a pane that the daemon or sessions names: the
\* latter leaves the cache alone.
Kill(how) ==
  /\ up /\ ~killing /\ ~UnderWay("kill") /\ Quiet
  /\ cached' = (cached /\ how = "workspace")
  /\ session' = IF session = "alive" THEN "dead" ELSE session
  /\ CloseHistoryWriter
  /\ IF how = "workspace" \/ (how = "delete" /\ session # "none")
     THEN killing' = TRUE /\ UNCHANGED wire
     ELSE wire' = Append(wire, "kill") /\ UNCHANGED killing
  /\ lost' = 0 /\ over' = Ended /\ unwanted' = unwanted \cup {shells}
  /\ UNCHANGED <<up, hydrated, restore, call, diskVars, daemonVars, inbox, hangup>>

KillSends ==
  /\ up /\ killing
  /\ meta = "none" /\ scrollback = 0
  /\ killing' = FALSE
  /\ wire' = Append(wire, "kill")
  /\ UNCHANGED <<up, hydrated, cached, session, restore, call, historyVars, diskVars,
                 daemonVars, inbox, hangup, ghostVars>>

-----------------------------------------------------------------------------
(* listDaemonSessions, also what reconcileOnStartup caches *)

Survey ==
  /\ up /\ ~UnderWay("survey") /\ ~Coming("seen") /\ ~Coming("unseen")
  /\ wire' = Append(wire, "survey")
  /\ UNCHANGED <<up, managerVars, historyVars, diskVars, daemonVars, inbox, hangup,
                 ghostVars>>

-----------------------------------------------------------------------------
(* What arrives from the daemon.  Responses and events come on two sockets. *)

IsEvent(m) == m = "exit"

Receive(m) ==
  \E i \in DOMAIN inbox :
    /\ up
    /\ inbox[i] = m
    /\ \A j \in 1 .. i - 1 : IsEvent(inbox[j]) # IsEvent(m) /\ ~OneOrder
    /\ inbox' = SubSeq(inbox, 1, i - 1) \o SubSeq(inbox, i + 1, Len(inbox))

Listed(m) ==
  /\ Receive(m)
  /\ m \in {"has", "hasnt"}
  /\ hydrated' = TRUE /\ cached' = (m = "has")
  /\ Decide(m = "has")
  /\ UNCHANGED <<up, session, restore, killing, diskVars, daemonVars, hangup>>

Surveyed(m) ==
  /\ Receive(m)
  /\ m \in {"seen", "unseen"}
  /\ hydrated' = TRUE /\ cached' = (m = "seen")
  /\ UNCHANGED <<up, session, restore, call, killing, historyVars, diskVars, daemonVars,
                 wire, hangup, ghostVars>>

Created ==
  /\ Receive("created")
  /\ cached' = TRUE /\ session' = "alive"
  /\ call' = Idle
  /\ InitHistoryWriter
  /\ kept' = IF kept = shells THEN kept ELSE 0
  /\ over' = over \ {shells}
  /\ UNCHANGED <<up, hydrated, restore, killing, writer, diskVars, daemonVars, wire,
                 hangup, lost, unwanted>>

Refused ==
  /\ Receive("refused")
  /\ call' = Idle
  /\ UNCHANGED <<up, hydrated, cached, session, restore, killing, historyVars, diskVars,
                 daemonVars, wire, hangup, ghostVars>>

\* The exit event; the timer it starts forgets the session (Forget).
Exit ==
  /\ Receive("exit")
  /\ cached' = FALSE
  /\ session' = IF session = "alive" THEN "dead" ELSE session
  /\ CloseHistoryWriter
  /\ over' = Ended
  /\ UNCHANGED <<up, hydrated, restore, call, killing, diskVars, daemonVars, wire,
                 hangup, lost, unwanted>>

Forget ==
  /\ up /\ session = "dead"
  /\ session' = "none"
  /\ UNCHANGED <<up, hydrated, cached, restore, call, killing, historyVars, diskVars,
                 daemonVars, wire, inbox, hangup, ghostVars>>

\* The client's "disconnected" event.  Requests under way fail: a listing counts as
\* one without the session, a createOrAttach ends with an error.
\* Mutant: the cache is not cleared.
Forgotten_Keeps == UNCHANGED <<hydrated, cached>>
Forgotten == hydrated' = FALSE /\ cached' = FALSE

Disconnected ==
  /\ up /\ hangup
  /\ hangup' = FALSE /\ wire' = << >> /\ inbox' = << >>
  /\ Forgotten
  /\ CASE call.pc = "list" ->
            IF call.skip
            THEN /\ Quiet /\ GoTo("rm") /\ CloseHistoryWriter
                 /\ lost' = 0 /\ over' = Ended /\ UNCHANGED unwanted
            ELSE GoTo("meta") /\ UNCHANGED <<historyVars, ghostVars>>
       [] call.pc = "create" -> call' = Idle /\ UNCHANGED <<historyVars, ghostVars>>
       [] OTHER -> UNCHANGED <<call, historyVars, ghostVars>>
  /\ UNCHANGED <<up, session, restore, killing, diskVars, daemonVars>>

-----------------------------------------------------------------------------
(* The daemon, as TerminalHost has it, for one pane *)

Arrives(r) == ~hangup /\ wire # << >> /\ Head(wire) = r /\ wire' = Tail(wire)
Send(m) == inbox' = IF up THEN Append(inbox, m) ELSE inbox

HandleList ==
  /\ Arrives("list")
  /\ Send(IF shell = "live" THEN "has" ELSE "hasnt")
  /\ UNCHANGED <<up, managerVars, historyVars, diskVars, daemonVars, hangup, ghostVars>>

HandleSurvey ==
  /\ Arrives("survey")
  /\ Send(IF shell = "live" THEN "seen" ELSE "unseen")
  /\ UNCHANGED <<up, managerVars, historyVars, diskVars, daemonVars, hangup, ghostVars>>

HandleCreate ==
  /\ Arrives("create")
  /\ busy' = IF shell = "live" THEN "attaching" ELSE "spawning"
  /\ shell' = IF shell = "live" THEN shell ELSE "none"
  /\ UNCHANGED <<up, managerVars, historyVars, diskVars, shells, inbox, hangup,
                 ghostVars>>

HandleKill ==
  /\ Quiet
  /\ Arrives("kill")
  /\ shell' = IF shell = "live" THEN "dying" ELSE shell
  /\ UNCHANGED <<up, managerVars, historyVars, diskVars, shells, busy, inbox, hangup,
                 ghostVars>>

Spawned ==
  /\ busy = "spawning"
  /\ shells < MaxShells
  /\ shells' = shells + 1 /\ shell' = "live" /\ busy' = "attaching"
  /\ UNCHANGED <<up, managerVars, historyVars, diskVars, wire, inbox, hangup, ghostVars>>

SpawnFails ==
  /\ busy = "spawning"
  /\ busy' = "no"
  /\ Send("refused")
  /\ UNCHANGED <<up, managerVars, historyVars, diskVars, shell, shells, wire, hangup,
                 ghostVars>>

Attached ==
  /\ busy = "attaching"
  /\ busy' = "no"
  /\ Send("created")
  /\ UNCHANGED <<up, managerVars, historyVars, diskVars, shell, shells, wire, hangup,
                 ghostVars>>

ShellExits ==
  /\ shell # "none" /\ Quiet
  /\ shell' = "none"
  /\ Send("exit")
  /\ UNCHANGED <<up, managerVars, historyVars, diskVars, shells, busy, wire, hangup,
                 ghostVars>>

-----------------------------------------------------------------------------
(* Crashes *)

DaemonCrash ==
  /\ ~hangup
  /\ shell' = "none" /\ busy' = "no"
  /\ hangup' = up
  /\ wire' = IF up THEN wire ELSE << >>
  /\ lost' = IF shell = "live" /\ kept = shells /\ shells \notin unwanted
             THEN kept ELSE lost
  /\ UNCHANGED <<up, managerVars, historyVars, diskVars, shells, inbox, kept, over,
                 unwanted>>

ManagerCrash ==
  /\ up
  /\ up' = FALSE
  /\ hydrated' = FALSE /\ cached' = FALSE /\ session' = "none" /\ restore' = FALSE
  /\ call' = Idle /\ killing' = FALSE
  /\ writer' = None /\ initializing' = FALSE /\ phase' = [w \in Writers |-> Free]
  /\ wire' = IF hangup THEN << >> ELSE wire
  /\ inbox' = << >> /\ hangup' = FALSE
  /\ over' = over \ {phase[w].of : w \in {v \in Writers : phase[v].at = "closing"}}
  /\ UNCHANGED <<diskVars, daemonVars, kept, lost, unwanted>>

ManagerStarts ==
  /\ ~up
  /\ wire = << >> /\ busy = "no"
  /\ up' = TRUE
  /\ UNCHANGED <<managerVars, historyVars, diskVars, daemonVars, wire, inbox, hangup,
                 ghostVars>>

-----------------------------------------------------------------------------

Next ==
  \/ \E skip \in BOOLEAN : Call(skip)
  \/ Sticky \/ Permit \/ ReadMeta \/ ReadScrollback \/ Remove \/ Removed
  \/ Acknowledge
  \/ \E how \in {"plain", "delete", "workspace"} : Kill(how)
  \/ KillSends \/ Survey
  \/ \E m \in {"has", "hasnt"} : Listed(m)
  \/ \E m \in {"seen", "unseen"} : Surveyed(m)
  \/ Created \/ Refused \/ Exit \/ Forget \/ Disconnected
  \/ \E w \in Writers : Fill(w) \/ Install(w) \/ MarkEnded(w)
  \/ ClearedOutput
  \/ HandleSurvey \/ HandleList \/ HandleCreate \/ HandleKill
  \/ Spawned \/ SpawnFails \/ Attached \/ ShellExits
  \/ DaemonCrash \/ ManagerCrash \/ ManagerStarts

Spec == Init /\ [][Next]_vars

-----------------------------------------------------------------------------
(* Properties *)

\* A cold restore is offered only for a pane without a live shell, but for one that
\* is to be killed, and it is decided on (meta.json has no endedAt) only where the
\* files are not of a shell whose history was closed (terminal/types.ts:56 "cold
\* restore from disk after reboot/crash"): the cached list of sessions, endedAt and
\* the reading of the files agree, whatever crashes in between.
RestoreSound ==
  [][/\ restore' => shell' # "live" \/ shells' \in unwanted'
     /\ call.pc = "meta" /\ call'.pc = "scroll" => scrollback \notin over]_vars

\* Where the daemon's crash has cut a shell off whose history was kept, no other
\* shell is started until the user asks for one, by "Start Shell" or by killing the
\* pane, through all restarts of the process, listings and concurrent calls.
NoShellBehindRestore == [][shells' > shells => lost = 0]_vars

=============================================================================
