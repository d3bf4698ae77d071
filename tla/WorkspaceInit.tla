--------------------------- MODULE WorkspaceInit ---------------------------
(***************************************************************************)
(* The set-up of workspaces in the background: WorkspaceInitManager, the   *)
(* two initialisations that use it (initializeWorkspaceWorktree for git    *)
(* worktrees of a project, runAgentInit for agents with a repository of    *)
(* their own), and the requests create, retryInit and delete.              *)
(*                                                                         *)
(* The worktree workspaces are all of one project, whose lock serialises   *)
(* their git operations; projects share nothing else.  Agents take no lock *)
(* and look at no cancellation.                                            *)
(*                                                                         *)
(* A done promise is named by the initialisation it was created for.  Each *)
(* stretch between two awaits is an action.                                *)
(*                                                                         *)
(* The app may stop at any moment; what is left is database and files.     *)
(*                                                                         *)
(* Left out: which base branch is found, retries under another branch      *)
(* name, the setup commands, close and deleteWorktree.                     *)
(***************************************************************************)
EXTENDS Naturals, Sequences, FiniteSets

CONSTANTS
  Workspaces,    \* workspace ids
  Inits,         \* runs of an initialisation; bounds creates and retries
  Deletes,       \* slots for delete requests in flight
  Kinds,         \* the ways workspaces are created
  None,          \* undefined
  OneAtATime     \* a request about a workspace waits for the answer to the
                 \* last, and a retry for the end of the initialisation

ASSUME NoneAssumption == None \notin Inits \cup Deletes \cup Workspaces
ASSUME ActorsAssumption == Inits \cap Deletes = {}
ASSUME SwitchAssumption == OneAtATime \in BOOLEAN
ASSUME KindsAssumption == Kinds \subseteq {"new", "existing", "adopted", "agent"}

VARIABLES
  (* the database *)
  row,        \* the workspace's record: none yet, present, deletingAt set, gone
  kind,       \* how the workspace was created
  setUp,      \* workspaces whose worktree record has a gitStatus
  (* WorkspaceInitManager *)
  step,       \* progress.step of the job, every busy step as one, or no job
  made,       \* worktreeCreated of the job
  cancelled,  \* cancellations
  done,       \* donePromises and doneResolvers
  resolved,   \* promises whose resolver was called
  lock,       \* projectLocks of the project: who holds it, or None
  waiters,    \* who awaits the lock, in the order they are resumed
  (* the file system *)
  disk,       \* the initialisation that made the workspace's files, or None
  (* calls under way *)
  run,        \* each initialisation
  del         \* each delete request

dbVars == <<row, kind, setUp>>
jobVars == <<step, made, cancelled, done, resolved>>
lockVars == <<lock, waiters>>
vars == <<dbVars, jobVars, lockVars, disk, run, del>>

\* A new branch; an existing one; one whose worktree create has already added;
\* an agent.
Kind == {"new", "existing", "adopted", "agent"}

\* The awaits of initializeWorkspaceWorktree under the lock, and of the others.
GitStage == {"config", "syncing", "verifying", "fetching", "creating",
             "undoing", "cleaning"}
RunStage == {"idle", "resolving", "queued", "repo", "over"} \cup GitStage
DelStage == {"idle", "waiting", "killing", "queued", "removing", "branch"}

RunRec == [pc : RunStage, ws : Workspaces \cup {None}, kind : Kind]
DelRec == [pc : DelStage, ws : Workspaces \cup {None}, on : Inits \cup {None},
           teardown : BOOLEAN]
NoDelete == [pc |-> "idle", ws |-> None, on |-> None, teardown |-> FALSE]

TypeOK ==
  /\ row \in [Workspaces -> {"none", "present", "deleting", "gone"}]
  /\ kind \in [Workspaces -> Kind]
  /\ setUp \subseteq Workspaces
  /\ step \in [Workspaces -> {"none", "busy", "ready", "failed"}]
  /\ made \subseteq Workspaces
  /\ cancelled \subseteq Workspaces
  /\ done \in [Workspaces -> Inits \cup {None}]
  /\ resolved \subseteq Inits
  /\ lock \in Inits \cup Deletes \cup {None}
  /\ waiters \in Seq(Inits \cup Deletes)
  /\ disk \in [Workspaces -> Inits \cup {None}]
  /\ run \in [Inits -> RunRec]
  /\ del \in [Deletes -> DelRec]

Init ==
  /\ row = [w \in Workspaces |-> "none"]
  /\ kind = [w \in Workspaces |-> "new"]
  /\ setUp = {}
  /\ step = [w \in Workspaces |-> "none"]
  /\ made = {} /\ cancelled = {} /\ resolved = {}
  /\ done = [w \in Workspaces |-> None]
  /\ lock = None /\ waiters = << >>
  /\ disk = [w \in Workspaces |-> None]
  /\ run = [i \in Inits |-> [pc |-> "idle", ws |-> None, kind |-> "new"]]
  /\ del = [d \in Deletes |-> NoDelete]

InFlight(w) == {i \in Inits : run[i].ws = w /\ run[i].pc # "over"}
Unanswered(w) == \/ \E d \in Deletes : del[d].ws = w
                 \/ \E i \in InFlight(w) : run[i].pc = "resolving"

-----------------------------------------------------------------------------
(* WorkspaceInitManager *)

IsInitializing(w) == step[w] = "busy"

\* Also what clearJob and startJob do together.
StartJob(w, i) ==
  /\ step' = [step EXCEPT ![w] = "busy"]
  /\ made' = made \ {w}
  /\ cancelled' = cancelled \ {w}
  /\ done' = [done EXCEPT ![w] = i]
  /\ UNCHANGED resolved

ClearJob(w) ==
  /\ step' = [step EXCEPT ![w] = "none"]
  /\ made' = made \ {w}
  /\ cancelled' = cancelled \ {w}
  /\ done' = [done EXCEPT ![w] = None]
  /\ UNCHANGED resolved

\* Progress of a job that was cleared is dropped.
Progress(w, s) ==
  step' = IF step[w] = "none" THEN step ELSE [step EXCEPT ![w] = s]

\* Mutants: the promise is dropped unresolved; a missing one is resolved.
Finalize_Drops(w) ==
  /\ done' = [done EXCEPT ![w] = None]
  /\ resolved' = resolved

Finalize_Unchecked(w) ==
  /\ resolved' = resolved \cup {done[w]}
  /\ done' = [done EXCEPT ![w] = None]

Finalize(w) ==
  /\ resolved' = resolved \cup ({done[w]} \ {None})
  /\ done' = [done EXCEPT ![w] = None]

\* The timer of a ready job.
ReadyExpires(w) ==
  /\ step[w] = "ready"
  /\ step' = [step EXCEPT ![w] = "none"]
  /\ made' = made \ {w}
  /\ UNCHANGED <<dbVars, cancelled, done, resolved, lockVars, disk, run, del>>

-----------------------------------------------------------------------------
(* Requests that start an initialisation *)

Create(w, i, k) ==
  /\ row[w] = "none" /\ run[i].pc = "idle"
  /\ row' = [row EXCEPT ![w] = "present"]
  /\ kind' = [kind EXCEPT ![w] = k]
  /\ StartJob(w, i)
  /\ run' = [run EXCEPT ![i] =
       [pc |-> IF k = "agent" THEN "repo" ELSE "queued", ws |-> w, kind |-> k]]
  /\ waiters' = IF k = "agent" THEN waiters ELSE Append(waiters, i)
  /\ disk' = IF k = "adopted" THEN [disk EXCEPT ![w] = i] ELSE disk
  /\ UNCHANGED <<setUp, lock, del>>

\* retryInit up to its await.
Retry(w, i) ==
  /\ row[w] = "present" /\ kind[w] # "agent" /\ run[i].pc = "idle"
  /\ OneAtATime => InFlight(w) = {} /\ ~Unanswered(w)
  /\ run' = [run EXCEPT ![i] = [pc |-> "resolving", ws |-> w, kind |-> "new"]]
  /\ UNCHANGED <<dbVars, jobVars, lockVars, disk, del>>

\* The retry has its branch and starts, as a new branch whatever the first
\* initialisation was.
RetryStarts(i) ==
  /\ run[i].pc = "resolving"
  /\ StartJob(run[i].ws, i)
  /\ run' = [run EXCEPT ![i].pc = "queued"]
  /\ waiters' = Append(waiters, i)
  /\ UNCHANGED <<dbVars, lock, disk, del>>

\* retryAgentInit
RetryAgent(w, i) ==
  /\ row[w] \in {"present", "deleting"} /\ kind[w] = "agent" /\ run[i].pc = "idle"
  /\ OneAtATime => InFlight(w) = {} /\ ~Unanswered(w)
  /\ StartJob(w, i)
  /\ run' = [run EXCEPT ![i] = [pc |-> "repo", ws |-> w, kind |-> "agent"]]
  /\ UNCHANGED <<dbVars, lockVars, disk, del>>

-----------------------------------------------------------------------------
(* initializeWorkspaceWorktree *)

To(i, stage) == run' = [run EXCEPT ![i].pc = stage]

\* Mutant: the lock is not released.
Return_KeepsLock(i) ==
  /\ To(i, "over")
  /\ Finalize(run[i].ws)
  /\ UNCHANGED <<lock, kind, row, del>>

\* finally
Return(i) ==
  /\ To(i, "over")
  /\ Finalize(run[i].ws)
  /\ lock' = None
  /\ UNCHANGED <<kind, row, del>>

\* Mutant: a waiter that is woken does not look whether the lock is free.
Resumed_Unchecked(p) ==
  /\ \E n \in 1..Len(waiters) : waiters[n] = p
  /\ waiters' = SelectSeq(waiters, LAMBDA q : q # p)

\* acquireProjectLock: waiters await the holder's promise and look again when it
\* is resolved, in the order they came; the later ones find the lock taken.
Resumed(p) ==
  /\ lock = None
  /\ waiters # << >> /\ p = Head(waiters)
  /\ waiters' = Tail(waiters)

\* An initialisation has the lock.
Locked(i) ==
  LET w == run[i].ws IN
  /\ run[i].pc = "queued"
  /\ Resumed(i)
  /\ IF w \in cancelled
     THEN Return(i)
     ELSE /\ lock' = i
          /\ To(i, "config")
          /\ UNCHANGED <<kind, row, done, resolved, del>>
  /\ UNCHANGED <<setUp, step, made, cancelled, disk>>

\* The branch's configuration has been read.
ConfigRead(i) ==
  /\ run[i].pc = "config" /\ run[i].kind # "adopted"
  /\ To(i, IF run[i].kind = "new" THEN "syncing" ELSE "creating")
  /\ Progress(run[i].ws, "busy")
  /\ UNCHANGED <<dbVars, made, cancelled, done, resolved, lockVars, disk, del>>

Following == [syncing |-> "verifying", verifying |-> "fetching",
              fetching |-> "creating"]

\* A stretch of reads and fetches is over; each ends in a cancellation check.
ReadDone(i) ==
  LET w == run[i].ws IN
  /\ run[i].pc \in DOMAIN Following
  /\ IF w \in cancelled
     THEN Return(i) /\ step' = step
     ELSE /\ To(i, Following[run[i].pc])
          /\ Progress(w, "busy")
          /\ UNCHANGED <<kind, row, done, resolved, lock, del>>
  /\ UNCHANGED <<setUp, made, cancelled, waiters, disk>>

\* Mutant: the job is not marked as failed.
NoStartPoint_Silent(i) ==
  /\ run[i].pc \in {"verifying", "fetching"}
  /\ Return(i)
  /\ UNCHANGED <<setUp, step, made, cancelled, waiters, disk>>

\* No reference to start from.
NoStartPoint(i) ==
  /\ run[i].pc \in {"verifying", "fetching"}
  /\ Progress(run[i].ws, "failed")
  /\ Return(i)
  /\ UNCHANGED <<setUp, made, cancelled, waiters, disk>>

\* Mutant: the clean-up forgets to ask whether there is anything to clean up.
Catch_Always(i) ==
  /\ To(i, "cleaning")
  /\ UNCHANGED <<row, kind, step, done, resolved, lock, del>>

\* catch: a worktree this job has marked as created is removed first.
Catch(i) ==
  LET w == run[i].ws IN
  IF w \in made'
  THEN /\ To(i, "cleaning")
       /\ UNCHANGED <<row, kind, step, done, resolved, lock, del>>
  ELSE /\ Progress(w, "failed")
       /\ Return(i)

\* An await throws before anything was created.
ReadThrows(i) ==
  /\ run[i].pc = "config" \/ run[i].pc \in DOMAIN Following
  /\ made' = made
  /\ Catch(i)
  /\ UNCHANGED <<setUp, cancelled, waiters, disk>>

\* git fails: nothing was created, or a worktree that is not marked.
CreateFails(i) ==
  LET w == run[i].ws IN
  /\ run[i].pc = "creating"
  /\ made' = made
  /\ disk' \in {disk, [disk EXCEPT ![w] = IF @ = None THEN i ELSE @]}
  /\ Catch(i)
  /\ UNCHANGED <<setUp, cancelled, waiters>>

\* Both ways to a worktree: git has added it, or it had been there.
HasWorktree(i) ==
  LET w == run[i].ws IN
  /\ \/ run[i].pc = "creating" /\ disk[w] = None
     \/ run[i].pc = "config" /\ run[i].kind = "adopted"
  /\ disk' = [disk EXCEPT ![w] = IF @ = None THEN i ELSE @]
  /\ made' = IF step[w] = "none" THEN made ELSE made \cup {w}

\* The worktree is there: undone if cancelled, else ready in the same breath.
Created(i) ==
  LET w == run[i].ws IN
  /\ HasWorktree(i)
  /\ IF w \in cancelled
     THEN /\ To(i, "undoing")
          /\ UNCHANGED <<dbVars, step, done, resolved, lock, del>>
     ELSE /\ setUp' = setUp \cup {w}
          /\ Progress(w, "ready")
          /\ Return(i)
  /\ UNCHANGED <<cancelled, waiters>>

\* Copying the configuration or writing gitStatus throws.
CreatedThenThrows(i) ==
  /\ run[i].ws \notin cancelled
  /\ HasWorktree(i)
  /\ Catch(i)
  /\ UNCHANGED <<setUp, cancelled, waiters>>

\* removeWorktree, which may fail before or after it has moved the files away.
Removes(w) == disk' \in {disk, [disk EXCEPT ![w] = None]}

Undone(i) ==
  /\ run[i].pc = "undoing"
  /\ Removes(run[i].ws)
  /\ Return(i)
  /\ UNCHANGED <<setUp, step, made, cancelled, waiters>>

Cleaned(i) ==
  /\ run[i].pc = "cleaning"
  /\ Removes(run[i].ws)
  /\ Progress(run[i].ws, "failed")
  /\ Return(i)
  /\ UNCHANGED <<setUp, made, cancelled, waiters>>

-----------------------------------------------------------------------------
(* runAgentInit: no lock, no cancellation check, no clean-up *)

AgentReady(i) ==
  LET w == run[i].ws IN
  /\ run[i].pc = "repo"
  /\ disk' = [disk EXCEPT ![w] = i]
  /\ made' = IF step[w] = "none" THEN made ELSE made \cup {w}
  /\ setUp' = setUp \cup {w}
  /\ Progress(w, "ready")
  /\ Finalize(w)
  /\ To(i, "over")
  /\ UNCHANGED <<row, kind, cancelled, lockVars, del>>

\* setupAgentRepo or what follows it throws; whatever was written stays.
AgentFails(i) ==
  LET w == run[i].ws IN
  /\ run[i].pc = "repo"
  /\ \/ disk' \in {disk, [disk EXCEPT ![w] = i]} /\ made' = made
     \/ /\ disk' = [disk EXCEPT ![w] = i]
        /\ made' = IF step[w] = "none" THEN made ELSE made \cup {w}
  /\ Progress(w, "failed")
  /\ Finalize(w)
  /\ To(i, "over")
  /\ UNCHANGED <<dbVars, cancelled, lockVars, del>>

-----------------------------------------------------------------------------
(* delete: of a worktree workspace in the desktop's router, of an agent in   *)
(* the server's                                                              *)

\* The record is marked; an initialisation is cancelled and waited for.
Delete(d, w) ==
  LET waits == IsInitializing(w) /\ done[w] # None IN
  /\ row[w] \in {"present", "deleting"} /\ del[d].pc = "idle"
  /\ OneAtATime => ~Unanswered(w)
  /\ row' = [row EXCEPT ![w] = "deleting"]
  /\ cancelled' = IF IsInitializing(w) THEN cancelled \cup {w} ELSE cancelled
  /\ del' = [del EXCEPT ![d] =
       IF waits
       THEN [pc |-> "waiting", ws |-> w, on |-> done[w], teardown |-> FALSE]
       ELSE [pc |-> "killing", ws |-> w, on |-> None, teardown |-> disk[w] # None]]
  /\ UNCHANGED <<kind, setUp, step, made, done, resolved, lockVars, disk, run>>

\* "Workspace not found"
DeleteMissing(w) == row[w] = "gone" /\ UNCHANGED vars

DelTo(d, stage) == del' = [del EXCEPT ![d].pc = stage]
Answer(d) == del' = [del EXCEPT ![d] = NoDelete]

\* waitForInit returns: the promise is resolved, or 30 s are over.
WaitEnds(d) ==
  /\ del[d].pc = "waiting"
  /\ del' = [del EXCEPT ![d].pc = "killing", ![d].on = None,
                        ![d].teardown = disk[del[d].ws] # None]
  /\ UNCHANGED <<dbVars, jobVars, lockVars, disk, run>>

\* Mutant: nothing is removed if the files were not there before the wait for
\* the lock.
KilledAndTornDown_Stale(d) ==
  /\ del[d].pc = "killing" /\ kind[del[d].ws] # "agent"
  /\ IF del[d].teardown
     THEN DelTo(d, "queued") /\ waiters' = Append(waiters, d)
     ELSE DelTo(d, "branch") /\ waiters' = waiters
  /\ UNCHANGED <<dbVars, jobVars, lock, disk, run>>

\* The terminals are killed and the teardown script, if any, has run.
KilledAndTornDown(d) ==
  /\ del[d].pc = "killing" /\ kind[del[d].ws] # "agent"
  /\ DelTo(d, "queued")
  /\ waiters' = Append(waiters, d)
  /\ UNCHANGED <<dbVars, jobVars, lock, disk, run>>

\* The request is answered with an error and the workspace is back.
GiveBack(d) ==
  /\ row' = [row EXCEPT ![del[d].ws] = IF @ = "deleting" THEN "present" ELSE @]
  /\ Answer(d)
  /\ UNCHANGED <<kind, setUp, jobVars, waiters, run>>

TeardownFails(d) ==
  /\ del[d].pc = "killing" /\ kind[del[d].ws] # "agent" /\ del[d].teardown
  /\ GiveBack(d)
  /\ UNCHANGED <<lock, disk>>

DeleteLocks(d) ==
  /\ del[d].pc = "queued"
  /\ Resumed(d)
  /\ lock' = d
  /\ DelTo(d, "removing")
  /\ UNCHANGED <<dbVars, jobVars, disk, run>>

Removed(d) ==
  /\ del[d].pc = "removing"
  /\ disk' = [disk EXCEPT ![del[d].ws] = None]
  /\ lock' = None
  /\ DelTo(d, "branch")
  /\ UNCHANGED <<dbVars, jobVars, waiters, run>>

RemoveFails(d) ==
  /\ del[d].pc = "removing"
  /\ Removes(del[d].ws)
  /\ lock' = None
  /\ GiveBack(d)

\* The records go, and the job with them.
Forget(d) ==
  /\ row' = [row EXCEPT ![del[d].ws] = "gone"]
  /\ ClearJob(del[d].ws)
  /\ Answer(d)
  /\ UNCHANGED <<kind, setUp, lockVars, run>>

\* After the local branch, if that was asked for.
Deleted(d) ==
  /\ del[d].pc = "branch"
  /\ Forget(d)
  /\ UNCHANGED disk

\* The server's delete of an agent: the directory goes in the same step.
AgentDeleted(d) ==
  /\ del[d].pc = "killing" /\ kind[del[d].ws] = "agent"
  /\ disk' = [disk EXCEPT ![del[d].ws] = None]
  /\ Forget(d)

AgentRemoveFails(d) ==
  /\ del[d].pc = "killing" /\ kind[del[d].ws] = "agent"
  /\ disk[del[d].ws] # None
  /\ GiveBack(d)
  /\ UNCHANGED <<lock, disk>>

-----------------------------------------------------------------------------
(* The app stops and starts: the manager "is NOT persisted", and calls under *)
(* way are lost.  The git command of one that was at work may have come to   *)
(* its end or not.                                                           *)

Cut(w) ==
  {disk[w]}
  \cup {i \in InFlight(w) : \/ run[i].pc = "repo"
                            \/ run[i].pc = "creating" /\ disk[w] = None}
  \cup {None : a \in {i \in InFlight(w) : run[i].pc \in {"undoing", "cleaning"}}
                   \cup {d \in Deletes : del[d].ws = w /\ del[d].pc = "removing"}}

Restart ==
  /\ step' = [w \in Workspaces |-> "none"]
  /\ done' = [w \in Workspaces |-> None]
  /\ made' = {} /\ cancelled' = {}
  /\ lock' = None /\ waiters' = << >>
  /\ run' = [i \in Inits |->
       [run[i] EXCEPT !.pc = IF @ = "idle" THEN "idle" ELSE "over"]]
  /\ del' = [d \in Deletes |-> NoDelete]
  /\ disk' \in [Workspaces -> Inits \cup {None}]
  /\ \A w \in Workspaces : disk'[w] \in Cut(w)
  /\ UNCHANGED <<dbVars, resolved>>

-----------------------------------------------------------------------------
Advance(i) ==
  \/ RetryStarts(i) \/ Locked(i) \/ ConfigRead(i) \/ ReadDone(i)
  \/ NoStartPoint(i) \/ ReadThrows(i) \/ CreateFails(i) \/ Created(i)
  \/ CreatedThenThrows(i) \/ Undone(i) \/ Cleaned(i)
  \/ AgentReady(i) \/ AgentFails(i)

AdvanceDelete(d) ==
  \/ WaitEnds(d) \/ KilledAndTornDown(d) \/ TeardownFails(d) \/ DeleteLocks(d)
  \/ Removed(d) \/ RemoveFails(d) \/ Deleted(d)
  \/ AgentDeleted(d) \/ AgentRemoveFails(d)

Next ==
  \/ \E w \in Workspaces, i \in Inits :
       \/ \E k \in Kinds : Create(w, i, k)
       \/ Retry(w, i) \/ RetryAgent(w, i)
  \/ \E i \in Inits : Advance(i)
  \/ \E d \in Deletes, w \in Workspaces : Delete(d, w)
  \/ \E d \in Deletes : AdvanceDelete(d)
  \/ \E w \in Workspaces : ReadyExpires(w) \/ DeleteMissing(w)
  \/ Restart

(***************************************************************************)
(* Every await ends: git and the teardown script have timeouts or exit,    *)
(* and a released lock wakes its waiters.  The 30 s of waitForInit are not *)
(* relied on: a delete goes on for sure only once the promise is resolved. *)
(* Nobody has to send a request, and the app need not ever stop.           *)
(***************************************************************************)
Fairness ==
  /\ \A i \in Inits : WF_vars(Advance(i))
  /\ \A d \in Deletes :
       WF_vars((del[d].pc = "waiting" => del[d].on \in resolved)
               /\ AdvanceDelete(d))

Spec == Init /\ [][Next]_vars
FairSpec == Spec /\ Fairness

-----------------------------------------------------------------------------
(* Properties *)

\* acquireProjectLock: "Only one git operation per project at a time."  Whoever
\* works on the repository, initialisation or delete, is the lock's holder,
\* though releaseProjectLock releases the lock of anybody.
GitExclusive ==
  /\ \A i \in Inits : run[i].pc \in GitStage => lock = i
  /\ \A d \in Deletes : del[d].pc = "removing" => lock = d

\* Where whoever has got to this await stands towards the project lock.
Place(stage) ==
  IF stage = "queued" THEN "waiting"
  ELSE IF stage \in GitStage \cup {"removing"} THEN "inside"
  ELSE "away"

Standing == [p \in Inits \cup Deletes |->
  Place(IF p \in Inits THEN run[p].pc ELSE del[p].pc)]

\* The project lock as initialisations and deletes use it is a ProjectLock: they
\* are served in turn, whoever works on the repository holds the lock, and nobody
\* else gives it back, though releaseProjectLock releases the lock of anybody.
Lock == INSTANCE ProjectLock WITH
  Actors <- Inits \cup Deletes, at <- Standing, line <- waiters, holder <- lock
ImplementsLock == Lock!Spec

\* finalizeJob, "MUST be called in all init exit paths": a delete waits for a
\* promise that is resolved, or for an initialisation under way that resolves
\* it.
WaitIsFounded ==
  \A d \in Deletes : del[d].pc = "waiting" =>
    \/ del[d].on \in resolved
    \/ del[d].on \in InFlight(del[d].ws) /\ done[del[d].ws] = del[d].on

\* delete: once a worktree workspace is deleted and its initialisations have
\* returned, nothing of it is left on disk; also if waitForInit timed out and the
\* delete's clearJob dropped the cancellation.  Not so for agents, whose
\* initialisation does not look at its cancellation.
NothingLeftBehind ==
  \A w \in Workspaces :
    kind[w] # "agent" /\ row[w] = "gone" /\ InFlight(w) = {} => disk[w] = None

\* wasWorktreeCreated, "for cleanup decisions": an initialisation that fails or
\* is cancelled removes no worktree but the one it made itself.
CleansOnlyItsOwn ==
  [][\A w \in Workspaces :
       disk[w] # None /\ disk'[w] = None =>
         \/ \E d \in Deletes : del[d].ws = w
         \/ run[disk[w]].pc \in {"undoing", "cleaning"}]_vars

\* isInitializing: a job stays busy with nobody working on it only when it was
\* cancelled, and so only for a delete that failed afterwards.
StuckOnlyIfCancelled ==
  \A w \in Workspaces :
    IsInitializing(w) /\ InFlight(w) = {} => w \in cancelled

\* The done promise and the project lock make every delete end without the help
\* of waitForInit's timeout, on whichever path the initialisation returns.
EveryDeleteEnds == \A d \in Deletes : del[d].pc # "idle" ~> del[d].pc = "idle"

\* schema.ts on deletingAt, for which a workspace is hidden: "Non-null means
\* deletion in progress."  No workspace stays hidden with nobody deleting it.
HiddenWhileDeleted ==
  \A w \in Workspaces :
    []<>(row[w] = "deleting" => \E d \in Deletes : del[d].ws = w)

=============================================================================
