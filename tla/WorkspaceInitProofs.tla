------------------------ MODULE WorkspaceInitProofs ------------------------
(***************************************************************************)
(* Proofs about WorkspaceInit for any workspaces, initialisations and      *)
(* delete requests.  Types, the project lock and what is said of jobs that *)
(* stay busy hold however the requests overlap; the rest, from the section *)
(* on requests that wait for each other, assumes OneAtATime.               *)
(***************************************************************************)
EXTENDS WorkspaceInit, TLAPS

-----------------------------------------------------------------------------
(* Types.  They are inductive together with the fact that whatever is under  *)
(* way has a workspace.                                                      *)

Assigned ==
  /\ \A i \in Inits : run[i].pc # "idle" => run[i].ws \in Workspaces
  /\ \A d \in Deletes : del[d].pc # "idle" => del[d].ws \in Workspaces

TypeInv == TypeOK /\ Assigned

\* A run that goes to a next stage keeps its types.
LEMMA RunGoesOn ==
  ASSUME TypeInv, NEW i \in Inits, NEW stage \in RunStage,
         run[i].pc # "idle", To(i, stage)
  PROVE  /\ run' \in [Inits -> RunRec]
         /\ \A j \in Inits : run'[j].pc # "idle" => run'[j].ws \in Workspaces
<1>1. [run[i] EXCEPT !.pc = stage] \in RunRec
  BY DEF TypeInv, TypeOK, RunRec
<1>2. run' = [run EXCEPT ![i] = [run[i] EXCEPT !.pc = stage]]
  BY DEF TypeInv, TypeOK, To
<1>3. run' \in [Inits -> RunRec]
  BY <1>1, <1>2 DEF TypeInv, TypeOK
<1>4. ASSUME NEW j \in Inits, run'[j].pc # "idle"
      PROVE  run'[j].ws \in Workspaces
  <2>1. run[j] \in RunRec /\ run[i] \in RunRec
    BY DEF TypeInv, TypeOK
  <2>2. CASE j = i
    BY <1>2, <2>1, <2>2 DEF TypeInv, TypeOK, Assigned, RunRec
  <2>3. CASE j # i
    BY <1>2, <1>4, <2>3 DEF TypeInv, TypeOK, Assigned
  <2> QED BY <2>2, <2>3
<1> QED BY <1>3, <1>4

\* So does a delete.
LEMMA DeleteGoesOn ==
  ASSUME TypeInv, NEW d \in Deletes, NEW stage \in DelStage,
         del[d].pc # "idle",
         NEW rec \in {NoDelete, [del[d] EXCEPT !.pc = stage]},
         del' = [del EXCEPT ![d] = rec]
  PROVE  /\ del' \in [Deletes -> DelRec]
         /\ \A e \in Deletes : del'[e].pc # "idle" => del'[e].ws \in Workspaces
<1>1. del[d] \in DelRec /\ NoDelete \in DelRec
  BY DEF TypeInv, TypeOK, DelRec, NoDelete, DelStage
<1>2. rec \in DelRec /\ (rec.pc # "idle" => rec.ws \in Workspaces)
  <2>1. CASE rec = NoDelete
    BY <1>1, <2>1 DEF NoDelete
  <2>2. CASE rec = [del[d] EXCEPT !.pc = stage]
    <3>1. rec \in DelRec /\ rec.ws = del[d].ws
      BY <1>1, <2>2 DEF DelRec
    <3> QED BY <3>1 DEF TypeInv, Assigned
  <2> QED BY <2>1, <2>2
<1> QED BY <1>2 DEF TypeInv, TypeOK, Assigned

\* Every way out of initializeWorkspaceWorktree.
LEMMA ReturnTypes ==
  ASSUME TypeInv, NEW i \in Inits, run[i].pc # "idle", Return(i)
  PROVE  /\ run' \in [Inits -> RunRec]
         /\ \A j \in Inits : run'[j].pc # "idle" => run'[j].ws \in Workspaces
         /\ done' \in [Workspaces -> Inits \cup {None}]
         /\ resolved' \subseteq Inits
         /\ lock' = None
         /\ UNCHANGED <<kind, row, del>>
<1>1. "over" \in RunStage
  BY DEF RunStage
<1>2. run[i].ws \in Workspaces
  BY DEF TypeInv, Assigned
<1>3. done' \in [Workspaces -> Inits \cup {None}] /\ resolved' \subseteq Inits
  BY <1>2 DEF Return, Finalize, TypeInv, TypeOK
<1> QED BY <1>1, <1>3, RunGoesOn DEF Return

LEMMA CatchTypes ==
  ASSUME TypeInv, NEW i \in Inits, run[i].pc # "idle", Catch(i)
  PROVE  /\ run' \in [Inits -> RunRec]
         /\ \A j \in Inits : run'[j].pc # "idle" => run'[j].ws \in Workspaces
         /\ done' \in [Workspaces -> Inits \cup {None}]
         /\ resolved' \subseteq Inits
         /\ step' \in [Workspaces -> {"none", "busy", "ready", "failed"}]
         /\ lock' \in {lock, None}
         /\ UNCHANGED <<kind, row, del>>
<1>1. "cleaning" \in RunStage
  BY DEF RunStage, GitStage
<1>2. CASE run[i].ws \in made'
  BY <1>1, <1>2, RunGoesOn DEF Catch, TypeInv, TypeOK
<1>3. CASE run[i].ws \notin made'
  <2>1. Return(i) /\ Progress(run[i].ws, "failed")
    BY <1>3 DEF Catch
  <2>2. step' \in [Workspaces -> {"none", "busy", "ready", "failed"}]
    BY <2>1 DEF Progress, TypeInv, TypeOK
  <2> QED BY <2>1, <2>2, ReturnTypes
<1> QED BY <1>2, <1>3

LEMMA Stages ==
  /\ {"resolving", "queued", "repo", "over"} \cup GitStage \subseteq RunStage
  /\ {"syncing", "verifying", "fetching", "creating", "config"} \subseteq GitStage
  /\ DOMAIN Following \subseteq GitStage
  /\ \A s \in DOMAIN Following : Following[s] \in GitStage
  /\ "idle" \notin GitStage
  BY DEF RunStage, GitStage, Following

LEMMA TypesAtFirst == Init => TypeInv
<1> SUFFICES ASSUME Init PROVE TypeInv
  OBVIOUS
<1>1. run \in [Inits -> RunRec] /\ del \in [Deletes -> DelRec]
  BY DEF Init, RunRec, RunStage, DelRec, DelStage, NoDelete, Kind
<1>2. TypeOK
  BY <1>1 DEF Init, TypeOK, Kind
<1>3. Assigned
  BY DEF Init, Assigned, NoDelete
<1> QED BY <1>2, <1>3 DEF TypeInv

\* The requests that start an initialisation.
LEMMA StartTypes ==
  ASSUME TypeInv, NEW w \in Workspaces, NEW i \in Inits,
         (\E k \in Kinds : Create(w, i, k)) \/ Retry(w, i) \/ RetryAgent(w, i)
  PROVE  TypeInv'
<1> USE DEF TypeInv, TypeOK
<1>1. ASSUME NEW k \in Kinds, Create(w, i, k) PROVE TypeInv'
  <2>1. k \in Kind
    BY KindsAssumption DEF Kind
  <2>2. run' \in [Inits -> RunRec]
        /\ \A j \in Inits : run'[j].pc # "idle" => run'[j].ws \in Workspaces
    BY <1>1, <2>1, Stages DEF Create, RunRec, Assigned
  <2>3. /\ step' \in [Workspaces -> {"none", "busy", "ready", "failed"}]
        /\ made' \subseteq Workspaces /\ cancelled' \subseteq Workspaces
        /\ done' \in [Workspaces -> Inits \cup {None}] /\ resolved' = resolved
    BY <1>1 DEF Create, StartJob
  <2>4. /\ row' \in [Workspaces -> {"none", "present", "deleting", "gone"}]
        /\ kind' \in [Workspaces -> Kind]
        /\ waiters' \in Seq(Inits \cup Deletes)
        /\ disk' \in [Workspaces -> Inits \cup {None}]
        /\ UNCHANGED <<setUp, lock, del>>
    BY <1>1, <2>1 DEF Create
  <2> QED BY <2>2, <2>3, <2>4 DEF Assigned
<1>2. ASSUME Retry(w, i) PROVE TypeInv'
  <2>1. run' \in [Inits -> RunRec]
        /\ \A j \in Inits : run'[j].pc # "idle" => run'[j].ws \in Workspaces
    BY <1>2, Stages DEF Retry, RunRec, Assigned, Kind
  <2> QED BY <1>2, <2>1 DEF Retry, dbVars, jobVars, lockVars, Assigned
<1>3. ASSUME RetryAgent(w, i) PROVE TypeInv'
  <2>1. run' \in [Inits -> RunRec]
        /\ \A j \in Inits : run'[j].pc # "idle" => run'[j].ws \in Workspaces
    BY <1>3, Stages DEF RetryAgent, RunRec, Assigned, Kind
  <2>2. /\ step' \in [Workspaces -> {"none", "busy", "ready", "failed"}]
        /\ made' \subseteq Workspaces /\ cancelled' \subseteq Workspaces
        /\ done' \in [Workspaces -> Inits \cup {None}] /\ resolved' = resolved
    BY <1>3 DEF RetryAgent, StartJob
  <2> QED BY <1>3, <2>1, <2>2 DEF RetryAgent, dbVars, lockVars, Assigned
<1> QED BY <1>1, <1>2, <1>3

\* A step of an initialisation.
LEMMA AdvanceTypes ==
  ASSUME TypeInv, NEW i \in Inits, Advance(i)
  PROVE  TypeInv'
<1> DEFINE w == run[i].ws
           RunsTyped == /\ run' \in [Inits -> RunRec]
                        /\ \A j \in Inits :
                             run'[j].pc # "idle" => run'[j].ws \in Workspaces
<1>0. run[i].pc # "idle" => w \in Workspaces
  BY DEF TypeInv, Assigned
<1>1. CASE RetryStarts(i)
  <2>1. RunsTyped
    BY <1>1, Stages, RunGoesOn DEF RetryStarts, To
  <2>2. waiters' \in Seq(Inits \cup Deletes)
    BY <1>1 DEF RetryStarts, TypeInv, TypeOK
  <2> QED BY <1>0, <1>1, <2>1, <2>2
          DEF RetryStarts, StartJob, TypeInv, TypeOK, Assigned, dbVars
<1>2. CASE Locked(i)
  <2>1. waiters' \in Seq(Inits \cup Deletes) /\ run[i].pc # "idle" /\ lock = None
    BY <1>2 DEF Locked, Resumed, TypeInv, TypeOK
  <2>2. CASE w \in cancelled
    <3>1. Return(i)
      BY <1>2, <2>2 DEF Locked
    <3> QED BY <1>2, <2>1, <3>1, ReturnTypes DEF Locked, TypeInv, TypeOK, Assigned
  <2>3. CASE w \notin cancelled
    <3>1. RunsTyped
      BY <1>2, <2>1, <2>3, Stages, RunGoesOn DEF Locked
    <3> QED BY <1>2, <2>1, <2>3, <3>1 DEF Locked, TypeInv, TypeOK, Assigned
  <2> QED BY <2>2, <2>3
<1>3. CASE ConfigRead(i)
  <2>1. RunsTyped
    BY <1>3, Stages, RunGoesOn DEF ConfigRead
  <2> QED BY <1>3, <2>1
          DEF ConfigRead, Progress, TypeInv, TypeOK, Assigned, dbVars, lockVars
<1>4. CASE ReadDone(i)
  <2>1. run[i].pc # "idle"
    BY <1>4, Stages DEF ReadDone
  <2>2. CASE w \in cancelled
    <3>1. Return(i)
      BY <1>4, <2>2 DEF ReadDone
    <3> QED BY <1>4, <2>1, <2>2, <3>1, ReturnTypes
            DEF ReadDone, TypeInv, TypeOK, Assigned
  <2>3. CASE w \notin cancelled
    <3>1. To(i, Following[run[i].pc]) /\ Following[run[i].pc] \in RunStage
      BY <1>4, <2>3, Stages DEF ReadDone
    <3>2. RunsTyped
      BY <2>1, <3>1, RunGoesOn
    <3> QED BY <1>4, <2>3, <3>2 DEF ReadDone, Progress, TypeInv, TypeOK, Assigned
  <2> QED BY <2>2, <2>3
<1>5. CASE NoStartPoint(i)
  <2>1. run[i].pc # "idle" /\ Return(i)
    BY <1>5 DEF NoStartPoint
  <2> QED BY <1>5, <2>1, ReturnTypes
          DEF NoStartPoint, Progress, TypeInv, TypeOK, Assigned
<1>6. CASE ReadThrows(i)
  <2>1. run[i].pc # "idle" /\ Catch(i)
    BY <1>6, Stages DEF ReadThrows
  <2> QED BY <1>6, <2>1, CatchTypes DEF ReadThrows, TypeInv, TypeOK, Assigned
<1>7. CASE CreateFails(i)
  <2>1. run[i].pc # "idle" /\ Catch(i)
    BY <1>7 DEF CreateFails
  <2>2. disk' \in [Workspaces -> Inits \cup {None}]
    BY <1>7 DEF CreateFails, TypeInv, TypeOK
  <2> QED BY <1>7, <2>1, <2>2, CatchTypes DEF CreateFails, TypeInv, TypeOK, Assigned
<1>8. ASSUME HasWorktree(i)
      PROVE  /\ run[i].pc # "idle"
             /\ disk' \in [Workspaces -> Inits \cup {None}]
             /\ made' \subseteq Workspaces
  BY <1>0, <1>8 DEF HasWorktree, TypeInv, TypeOK
<1>9. CASE Created(i)
  <2>1. HasWorktree(i)
    BY <1>9 DEF Created
  <2>2. CASE w \in cancelled
    <3>1. RunsTyped
      BY <1>8, <1>9, <2>1, <2>2, Stages, RunGoesOn DEF Created, GitStage
    <3> QED BY <1>8, <1>9, <2>1, <2>2, <3>1
            DEF Created, TypeInv, TypeOK, Assigned, dbVars
  <2>3. CASE w \notin cancelled
    <3>1. Return(i) /\ Progress(w, "ready") /\ setUp' \subseteq Workspaces
      BY <1>0, <1>8, <1>9, <2>1, <2>3 DEF Created, TypeInv, TypeOK
    <3> QED BY <1>8, <1>9, <2>1, <3>1, ReturnTypes
            DEF Created, Progress, TypeInv, TypeOK, Assigned
  <2> QED BY <2>2, <2>3
<1>10. CASE CreatedThenThrows(i)
  <2>1. HasWorktree(i) /\ Catch(i)
    BY <1>10 DEF CreatedThenThrows
  <2> QED BY <1>8, <1>10, <2>1, CatchTypes
          DEF CreatedThenThrows, TypeInv, TypeOK, Assigned
<1>11. CASE Undone(i)
  <2>1. run[i].pc # "idle" /\ Return(i) /\ disk' \in [Workspaces -> Inits \cup {None}]
    BY <1>11 DEF Undone, Removes, TypeInv, TypeOK
  <2> QED BY <1>11, <2>1, ReturnTypes DEF Undone, TypeInv, TypeOK, Assigned
<1>12. CASE Cleaned(i)
  <2>1. run[i].pc # "idle" /\ Return(i) /\ disk' \in [Workspaces -> Inits \cup {None}]
    BY <1>12 DEF Cleaned, Removes, TypeInv, TypeOK
  <2> QED BY <1>12, <2>1, ReturnTypes
          DEF Cleaned, Progress, TypeInv, TypeOK, Assigned
<1>13. CASE AgentReady(i)
  <2>1. RunsTyped
    BY <1>13, Stages, RunGoesOn DEF AgentReady
  <2>2. /\ done' \in [Workspaces -> Inits \cup {None}] /\ resolved' \subseteq Inits
        /\ setUp' \subseteq Workspaces /\ made' \subseteq Workspaces
        /\ disk' \in [Workspaces -> Inits \cup {None}]
    BY <1>0, <1>13 DEF AgentReady, Finalize, TypeInv, TypeOK
  <2> QED BY <1>13, <2>1, <2>2
          DEF AgentReady, Progress, TypeInv, TypeOK, Assigned, lockVars
<1>14. CASE AgentFails(i)
  <2>1. RunsTyped
    BY <1>14, Stages, RunGoesOn DEF AgentFails
  <2>2. /\ done' \in [Workspaces -> Inits \cup {None}] /\ resolved' \subseteq Inits
        /\ made' \subseteq Workspaces /\ disk' \in [Workspaces -> Inits \cup {None}]
    BY <1>0, <1>14 DEF AgentFails, Finalize, TypeInv, TypeOK
  <2> QED BY <1>14, <2>1, <2>2
          DEF AgentFails, Progress, TypeInv, TypeOK, Assigned, dbVars, lockVars
<1> QED BY <1>1, <1>2, <1>3, <1>4, <1>5, <1>6, <1>7, <1>9, <1>10, <1>11, <1>12,
           <1>13, <1>14 DEF Advance

\* A delete request and the steps of one.
LEMMA DeleteTypes ==
  ASSUME TypeInv, NEW d \in Deletes,
         (\E w \in Workspaces : Delete(d, w)) \/ AdvanceDelete(d)
  PROVE  TypeInv'
<1> DEFINE DelsTyped == /\ del' \in [Deletes -> DelRec]
                        /\ \A e \in Deletes :
                             del'[e].pc # "idle" => del'[e].ws \in Workspaces
<1>0. /\ del[d].pc # "idle" => del[d].ws \in Workspaces
      /\ del[d] \in DelRec
      /\ \A e \in Deletes : del[e].pc # "idle" => del[e].ws \in Workspaces
      /\ \A j \in Inits : run[j].pc # "idle" => run[j].ws \in Workspaces
  BY DEF TypeInv, TypeOK, Assigned
<1>1. ASSUME NEW stage \in DelStage, del[d].pc # "idle", DelTo(d, stage)
      PROVE  DelsTyped
  BY <1>1, DeleteGoesOn DEF DelTo, TypeInv, TypeOK
<1>2. ASSUME del[d].pc # "idle", Answer(d)
      PROVE  DelsTyped
  <2>1. "idle" \in DelStage /\ NoDelete \in {NoDelete, [del[d] EXCEPT !.pc = "idle"]}
    BY DEF DelStage
  <2> QED BY <1>2, <2>1, DeleteGoesOn DEF Answer
<1>3. ASSUME del[d].pc # "idle", GiveBack(d)
      PROVE  /\ DelsTyped
             /\ row' \in [Workspaces -> {"none", "present", "deleting", "gone"}]
             /\ UNCHANGED <<kind, setUp, jobVars, waiters, run>>
  <2>1. Answer(d)
    BY <1>3 DEF GiveBack
  <2>2. row' \in [Workspaces -> {"none", "present", "deleting", "gone"}]
    BY <1>3 DEF GiveBack, TypeInv, TypeOK
  <2> QED BY <1>2, <1>3, <2>1, <2>2 DEF GiveBack
<1>4. ASSUME del[d].pc # "idle", Forget(d)
      PROVE  /\ DelsTyped
             /\ row' \in [Workspaces -> {"none", "present", "deleting", "gone"}]
             /\ step' \in [Workspaces -> {"none", "busy", "ready", "failed"}]
             /\ made' \subseteq Workspaces /\ cancelled' \subseteq Workspaces
             /\ done' \in [Workspaces -> Inits \cup {None}] /\ resolved' = resolved
             /\ UNCHANGED <<kind, setUp, lockVars, run>>
  <2>1. Answer(d)
    BY <1>4 DEF Forget
  <2>2. DelsTyped
    BY <1>2, <1>4, <2>1
  <2>3. ClearJob(del[d].ws)
    BY <1>4 DEF Forget
  <2>4. /\ step' \in [Workspaces -> {"none", "busy", "ready", "failed"}]
        /\ made' \subseteq Workspaces /\ cancelled' \subseteq Workspaces
        /\ done' \in [Workspaces -> Inits \cup {None}] /\ resolved' = resolved
    BY <2>3 DEF ClearJob, TypeInv, TypeOK
  <2>5. row' \in [Workspaces -> {"none", "present", "deleting", "gone"}]
    BY <1>4 DEF Forget, TypeInv, TypeOK
  <2> QED BY <1>4, <2>2, <2>4, <2>5 DEF Forget
<1>5. ASSUME NEW w \in Workspaces, Delete(d, w) PROVE TypeInv'
  <2> DEFINE waiting == [pc |-> "waiting", ws |-> w, on |-> done[w], teardown |-> FALSE]
             killing == [pc |-> "killing", ws |-> w, on |-> None,
                         teardown |-> disk[w] # None]
  <2>1. waiting \in DelRec /\ killing \in DelRec /\ waiting.ws = w /\ killing.ws = w
    BY DEF DelRec, DelStage, TypeInv, TypeOK
  <2>2. del' = [del EXCEPT ![d] = waiting] \/ del' = [del EXCEPT ![d] = killing]
    BY <1>5 DEF Delete
  <2> HIDE DEF waiting, killing
  <2>3. DelsTyped
    BY <1>0, <2>1, <2>2 DEF TypeInv, TypeOK
  <2>4. /\ row' \in [Workspaces -> {"none", "present", "deleting", "gone"}]
        /\ cancelled' \subseteq Workspaces
    BY <1>5 DEF Delete, TypeInv, TypeOK
  <2> QED BY <1>0, <1>5, <2>3, <2>4 DEF Delete, lockVars, TypeInv, TypeOK, Assigned
<1>6. CASE WaitEnds(d)
  <2> DEFINE rec == [del[d] EXCEPT !.pc = "killing", !.on = None,
                                   !.teardown = disk[del[d].ws] # None]
  <2>1. rec \in DelRec /\ rec.ws = del[d].ws
    BY <1>0 DEF DelRec, DelStage
  <2>2. del' = [del EXCEPT ![d] = rec]
    BY <1>6 DEF WaitEnds, TypeInv, TypeOK
  <2>3. del[d].ws \in Workspaces
    BY <1>0, <1>6 DEF WaitEnds
  <2> HIDE DEF rec
  <2>4. DelsTyped
    BY <1>0, <2>1, <2>2, <2>3 DEF TypeInv, TypeOK
  <2> QED BY <1>0, <1>6, <2>4
          DEF WaitEnds, dbVars, jobVars, lockVars, TypeInv, TypeOK, Assigned
<1>7. CASE KilledAndTornDown(d)
  <2>1. DelsTyped /\ waiters' \in Seq(Inits \cup Deletes)
    BY <1>1, <1>7 DEF KilledAndTornDown, DelStage, TypeInv, TypeOK
  <2> QED BY <1>0, <1>7, <2>1
          DEF KilledAndTornDown, dbVars, jobVars, TypeInv, TypeOK, Assigned
<1>8. CASE TeardownFails(d)
  <2>1. del[d].pc # "idle" /\ GiveBack(d)
    BY <1>8 DEF TeardownFails
  <2> QED BY <1>0, <1>3, <1>8, <2>1
          DEF TeardownFails, jobVars, TypeInv, TypeOK, Assigned
<1>9. CASE DeleteLocks(d)
  <2>1. DelsTyped /\ waiters' \in Seq(Inits \cup Deletes)
    BY <1>1, <1>9 DEF DeleteLocks, Resumed, DelStage, TypeInv, TypeOK
  <2> QED BY <1>0, <1>9, <2>1
          DEF DeleteLocks, dbVars, jobVars, TypeInv, TypeOK, Assigned
<1>10. CASE Removed(d)
  <2>1. DelsTyped /\ disk' \in [Workspaces -> Inits \cup {None}]
    BY <1>1, <1>10 DEF Removed, DelStage, TypeInv, TypeOK
  <2> QED BY <1>0, <1>10, <2>1 DEF Removed, dbVars, jobVars, TypeInv, TypeOK, Assigned
<1>11. CASE RemoveFails(d)
  <2>1. del[d].pc # "idle" /\ GiveBack(d) /\ disk' \in [Workspaces -> Inits \cup {None}]
    BY <1>11 DEF RemoveFails, Removes, TypeInv, TypeOK
  <2> QED BY <1>0, <1>3, <1>11, <2>1
          DEF RemoveFails, jobVars, TypeInv, TypeOK, Assigned
<1>12. CASE Deleted(d)
  <2>1. del[d].pc # "idle" /\ Forget(d)
    BY <1>12 DEF Deleted
  <2> QED BY <1>0, <1>4, <1>12, <2>1 DEF Deleted, lockVars, TypeInv, TypeOK, Assigned
<1>13. CASE AgentDeleted(d)
  <2>1. del[d].pc # "idle" /\ Forget(d) /\ disk' \in [Workspaces -> Inits \cup {None}]
    BY <1>13 DEF AgentDeleted, TypeInv, TypeOK
  <2> QED BY <1>0, <1>4, <1>13, <2>1 DEF lockVars, TypeInv, TypeOK, Assigned
<1>14. CASE AgentRemoveFails(d)
  <2>1. del[d].pc # "idle" /\ GiveBack(d)
    BY <1>14 DEF AgentRemoveFails
  <2> QED BY <1>0, <1>3, <1>14, <2>1
          DEF AgentRemoveFails, jobVars, TypeInv, TypeOK, Assigned
<1> QED BY <1>5, <1>6, <1>7, <1>8, <1>9, <1>10, <1>11, <1>12, <1>13, <1>14
        DEF AdvanceDelete

\* Nothing is under way after a restart, and the runs keep their workspaces.
LEMMA RestartFrame ==
  ASSUME TypeInv, Restart
  PROVE  /\ TypeInv'
         /\ \A i \in Inits : /\ run'[i].pc \in {"idle", "over"} /\ run'[i].ws = run[i].ws
                             /\ run'[i].pc = "idle" <=> run[i].pc = "idle"
         /\ \A d \in Deletes : del'[d] = NoDelete
         /\ UNCHANGED <<row, kind>>
<1>1. ASSUME NEW i \in Inits
      PROVE  /\ run'[i] \in RunRec
             /\ run'[i].pc \in {"idle", "over"} /\ run'[i].ws = run[i].ws
             /\ run'[i].pc = "idle" <=> run[i].pc = "idle"
  <2>1. run[i] \in RunRec
    BY DEF TypeInv, TypeOK
  <2>2. run'[i] = [run[i] EXCEPT !.pc = IF run[i].pc = "idle" THEN "idle" ELSE "over"]
    BY DEF Restart
  <2>3. {"idle", "over"} \subseteq RunStage
    BY DEF RunStage
  <2> QED BY <2>1, <2>2, <2>3 DEF RunRec
<1>2. run' \in [Inits -> RunRec]
  <2>1. run' = [i \in Inits |-> run'[i]]
    BY DEF Restart
  <2> QED BY <1>1, <2>1
<1>3. NoDelete \in DelRec
  BY DEF DelRec, DelStage, NoDelete
<1>4. del' \in [Deletes -> DelRec] /\ \A d \in Deletes : del'[d] = NoDelete
  BY <1>3 DEF Restart
<1>5. TypeOK'
  BY <1>2, <1>4 DEF Restart, dbVars, TypeInv, TypeOK
<1>6. Assigned'
  BY <1>1, <1>4 DEF TypeInv, Assigned, NoDelete
<1> QED BY <1>1, <1>4, <1>5, <1>6 DEF Restart, dbVars, TypeInv

LEMMA TypesStep == TypeInv /\ [Next]_vars => TypeInv'
<1> SUFFICES ASSUME TypeInv, [Next]_vars PROVE TypeInv'
  OBVIOUS
<1>1. CASE UNCHANGED vars
  BY <1>1 DEF vars, dbVars, jobVars, lockVars, TypeInv, TypeOK, Assigned
<1>2. ASSUME NEW w \in Workspaces, ReadyExpires(w) PROVE TypeInv'
  BY <1>2 DEF ReadyExpires, dbVars, lockVars, TypeInv, TypeOK, Assigned
<1>3. ASSUME NEW w \in Workspaces, DeleteMissing(w) PROVE TypeInv'
  BY <1>1, <1>3 DEF DeleteMissing
<1> QED BY <1>1, <1>2, <1>3, RestartFrame, StartTypes, AdvanceTypes, DeleteTypes DEF Next

\* Type correctness of WorkspaceInitManager and its callers.
THEOREM InitTypes == Spec => []TypeOK
<1>1. TypeInv => TypeOK
  BY DEF TypeInv
<1> QED BY <1>1, TypesAtFirst, TypesStep, PTL DEF Spec

-----------------------------------------------------------------------------
(* The project lock.  releaseProjectLock releases whoever's lock it is;      *)
(* exclusion is inductive because only who works under the lock calls it,    *)
(* or one that was just given the lock.                                      *)

LockInv == TypeInv /\ GitExclusive

\* An initialisation that neither takes the lock nor is left with it.
LEMMA LockKept ==
  ASSUME LockInv, TypeInv', NEW i \in Inits,
         \A j \in Inits \ {i} : run'[j] = run[j],
         run'[i].pc \in GitStage => run[i].pc \in GitStage,
         lock' = lock \/ (lock = i /\ lock' = None /\ run'[i].pc \notin GitStage),
         del' = del
  PROVE  GitExclusive'
<1>1. ASSUME NEW j \in Inits, run'[j].pc \in GitStage PROVE lock' = j
  BY <1>1, NoneAssumption DEF LockInv, GitExclusive
<1>2. ASSUME NEW d \in Deletes, del'[d].pc = "removing" PROVE lock' = d
  BY <1>2, ActorsAssumption DEF LockInv, GitExclusive
<1> QED BY <1>1, <1>2 DEF GitExclusive

\* A step to another stage under the lock, or out of it.
LEMMA ExclusiveSteps ==
  ASSUME LockInv, TypeInv', NEW i \in Inits, run[i].pc \in GitStage,
         \/ Return(i)
         \/ Catch(i)
         \/ \E stage \in GitStage : To(i, stage) /\ lock' = lock /\ del' = del
  PROVE  GitExclusive'
<1>1. lock = i
  BY DEF LockInv, GitExclusive
<1>2. run \in [Inits -> RunRec]
  BY DEF LockInv, TypeInv, TypeOK
<1>3. CASE Return(i)
  <2>1. run'[i].pc \notin GitStage /\ \A j \in Inits \ {i} : run'[j] = run[j]
    BY <1>2, <1>3 DEF Return, To, RunRec, GitStage
  <2> QED BY <1>1, <1>3, <2>1, LockKept DEF Return
<1>4. ASSUME NEW stage \in GitStage, To(i, stage), lock' = lock, del' = del
      PROVE  GitExclusive'
  <2>1. \A j \in Inits \ {i} : run'[j] = run[j]
    BY <1>2, <1>4 DEF To
  <2> QED BY <1>4, <2>1, LockKept
<1>5. CASE Catch(i)
  <2>1. Return(i) \/ (To(i, "cleaning") /\ lock' = lock /\ del' = del)
    BY <1>5 DEF Catch
  <2> QED BY <1>3, <1>4, <2>1 DEF GitStage
<1> QED BY <1>3, <1>4, <1>5

\* The initialisations.
LEMMA ExclusiveAdvance ==
  ASSUME LockInv, TypeInv', NEW i \in Inits, Advance(i)
  PROVE  GitExclusive'
<1>0. run \in [Inits -> RunRec]
  BY DEF LockInv, TypeInv, TypeOK
<1>1. ASSUME NEW stage \in RunStage \ GitStage, To(i, stage), lock' = lock, del' = del,
             run[i].pc \notin GitStage
      PROVE  GitExclusive'
  <2>1. run'[i].pc = stage /\ \A j \in Inits \ {i} : run'[j] = run[j]
    BY <1>0, <1>1 DEF To, RunRec
  <2> QED BY <1>1, <2>1, LockKept
<1>2. CASE RetryStarts(i)
  <2>1. To(i, "queued") /\ lock' = lock /\ del' = del /\ run[i].pc \notin GitStage
    BY <1>2 DEF RetryStarts, To, GitStage
  <2> QED BY <1>1, <2>1 DEF RunStage, GitStage
<1>3. CASE Locked(i)
  <2>1. lock = None /\ \A j \in Inits : run[j].pc \notin GitStage
    BY <1>3, NoneAssumption DEF Locked, Resumed, LockInv, GitExclusive
  <2>2. \A d \in Deletes : del[d].pc # "removing"
    BY <2>1, NoneAssumption DEF LockInv, GitExclusive
  <2>3. del' = del
    BY <1>3 DEF Locked, Return
  <2>4. CASE Return(i)
    <3>1. run'[i].pc \notin GitStage /\ \A j \in Inits \ {i} : run'[j] = run[j]
      BY <1>0, <2>4 DEF Return, To, RunRec, GitStage
    <3> QED BY <2>1, <2>2, <2>3, <3>1 DEF GitExclusive
  <2>5. CASE lock' = i /\ To(i, "config")
    <3>1. \A j \in Inits \ {i} : run'[j] = run[j]
      BY <1>0, <2>5 DEF To
    <3> QED BY <2>1, <2>2, <2>3, <2>5, <3>1 DEF GitExclusive
  <2> QED BY <1>3, <2>4, <2>5 DEF Locked
<1>4. CASE ConfigRead(i)
  <2>1. /\ run[i].pc \in GitStage /\ lock' = lock /\ del' = del
        /\ \E stage \in GitStage : To(i, stage)
    BY <1>4 DEF ConfigRead, lockVars, GitStage
  <2> QED BY <2>1, ExclusiveSteps
<1>5. CASE ReadDone(i)
  <2>1. run[i].pc \in GitStage /\ Following[run[i].pc] \in GitStage
    BY <1>5, Stages DEF ReadDone
  <2>2. Return(i) \/ (To(i, Following[run[i].pc]) /\ lock' = lock /\ del' = del)
    BY <1>5 DEF ReadDone
  <2> QED BY <2>1, <2>2, ExclusiveSteps
<1>6. CASE NoStartPoint(i) \/ Undone(i) \/ Cleaned(i)
  <2>1. run[i].pc \in GitStage /\ Return(i)
    BY <1>6 DEF NoStartPoint, Undone, Cleaned, GitStage
  <2> QED BY <2>1, ExclusiveSteps
<1>7. CASE ReadThrows(i) \/ CreateFails(i) \/ CreatedThenThrows(i)
  <2>1. run[i].pc \in GitStage /\ Catch(i)
    BY <1>7, Stages DEF ReadThrows, CreateFails, CreatedThenThrows, HasWorktree
  <2> QED BY <2>1, ExclusiveSteps
<1>8. CASE Created(i)
  <2>1. run[i].pc \in GitStage
    BY <1>8 DEF Created, HasWorktree, GitStage
  <2>2. Return(i) \/ (To(i, "undoing") /\ lock' = lock /\ del' = del)
    BY <1>8 DEF Created
  <2> QED BY <2>1, <2>2, ExclusiveSteps DEF GitStage
<1>9. CASE AgentReady(i) \/ AgentFails(i)
  <2>1. To(i, "over") /\ lock' = lock /\ del' = del /\ run[i].pc \notin GitStage
    BY <1>9 DEF AgentReady, AgentFails, lockVars, GitStage
  <2> QED BY <1>1, <2>1 DEF RunStage, GitStage
<1> QED BY <1>2, <1>3, <1>4, <1>5, <1>6, <1>7, <1>8, <1>9 DEF Advance

\* The deletes.
LEMMA ExclusiveDelete ==
  ASSUME LockInv, NEW d \in Deletes,
         (\E w \in Workspaces : Delete(d, w)) \/ AdvanceDelete(d)
  PROVE  GitExclusive'
<1>0. del \in [Deletes -> DelRec]
  BY DEF LockInv, TypeInv, TypeOK
<1>1. /\ run' = run
      /\ \A e \in Deletes \ {d} : del'[e] = del[e]
  BY <1>0 DEF Delete, AdvanceDelete, WaitEnds, KilledAndTornDown, TeardownFails,
       DeleteLocks, Removed, RemoveFails, Deleted, AgentDeleted, AgentRemoveFails,
       GiveBack, Forget, Answer, DelTo
<1>2. CASE DeleteLocks(d)
  <2>1. lock = None /\ lock' = d
    BY <1>2 DEF DeleteLocks, Resumed
  <2>2. /\ \A i \in Inits : run[i].pc \notin GitStage
        /\ \A e \in Deletes : del[e].pc # "removing"
    BY <2>1, NoneAssumption DEF LockInv, GitExclusive
  <2> QED BY <1>1, <2>1, <2>2 DEF GitExclusive
<1>3. CASE Removed(d) \/ RemoveFails(d)
  <2>1. del[d].pc = "removing" /\ lock' = None
    BY <1>3 DEF Removed, RemoveFails
  <2>2. del'[d].pc # "removing"
    BY <1>0, <1>3 DEF Removed, RemoveFails, GiveBack, Answer, NoDelete, DelTo, DelRec
  <2>3. lock = d
    BY <2>1 DEF LockInv, GitExclusive
  <2>4. /\ \A i \in Inits : run[i].pc \notin GitStage
        /\ \A e \in Deletes \ {d} : del[e].pc # "removing"
    BY <2>3, ActorsAssumption DEF LockInv, GitExclusive
  <2> QED BY <1>1, <2>2, <2>4 DEF GitExclusive
<1>4. ASSUME lock' = lock, del'[d].pc # "removing" PROVE GitExclusive'
  BY <1>1, <1>4 DEF LockInv, GitExclusive
<1>5. CASE \E w \in Workspaces : Delete(d, w)
  <2>1. lock' = lock /\ del'[d].pc # "removing"
    BY <1>0, <1>5 DEF Delete, lockVars
  <2> QED BY <1>4, <2>1
<1>6. CASE WaitEnds(d) \/ KilledAndTornDown(d)
  <2>1. lock' = lock /\ del'[d].pc # "removing"
    BY <1>0, <1>6 DEF WaitEnds, KilledAndTornDown, DelTo, DelRec, lockVars
  <2> QED BY <1>4, <2>1
<1>7. CASE TeardownFails(d) \/ AgentRemoveFails(d)
  <2>1. lock' = lock /\ del'[d].pc # "removing"
    BY <1>0, <1>7 DEF TeardownFails, AgentRemoveFails, GiveBack, Answer, NoDelete
  <2> QED BY <1>4, <2>1
<1>8. CASE Deleted(d) \/ AgentDeleted(d)
  <2>1. lock' = lock /\ del'[d].pc # "removing"
    BY <1>0, <1>8 DEF Deleted, AgentDeleted, Forget, Answer, NoDelete, lockVars
  <2> QED BY <1>4, <2>1
<1> QED BY <1>2, <1>3, <1>5, <1>6, <1>7, <1>8 DEF AdvanceDelete

\* A start only queues for the lock.
LEMMA ExclusiveStart ==
  ASSUME LockInv, NEW w \in Workspaces, NEW i \in Inits,
         (\E k \in Kinds : Create(w, i, k)) \/ Retry(w, i) \/ RetryAgent(w, i)
  PROVE  GitExclusive'
<1>1. run \in [Inits -> RunRec]
  BY DEF LockInv, TypeInv, TypeOK
<1>2. /\ lock' = lock /\ del' = del
      /\ run'[i].pc \notin GitStage
      /\ \A j \in Inits \ {i} : run'[j] = run[j]
  BY <1>1 DEF Create, Retry, RetryAgent, lockVars, GitStage
<1> QED BY <1>2 DEF LockInv, GitExclusive

LEMMA ExclusiveStep == LockInv /\ [Next]_vars => LockInv'
<1> SUFFICES ASSUME LockInv, [Next]_vars PROVE GitExclusive'
  BY TypesStep DEF LockInv
<1>0. TypeInv'
  BY TypesStep DEF LockInv
<1>1. CASE UNCHANGED vars
  BY <1>1 DEF vars, lockVars, LockInv, GitExclusive
<1>2. ASSUME NEW w \in Workspaces, ReadyExpires(w) \/ DeleteMissing(w)
      PROVE  GitExclusive'
  BY <1>2 DEF ReadyExpires, DeleteMissing, vars, lockVars, LockInv, GitExclusive
<1>3. CASE Restart
  BY <1>3, RestartFrame DEF LockInv, GitExclusive, GitStage, NoDelete
<1> QED BY <1>0, <1>1, <1>2, <1>3, ExclusiveStart, ExclusiveAdvance, ExclusiveDelete DEF Next

\* Only one of all the initialisations and deletes works on the project's
\* repository at a time, however they overlap.
THEOREM LockExclusive == Spec => []GitExclusive
<1>1. Init => LockInv
  BY TypesAtFirst DEF Init, LockInv, GitExclusive, GitStage, NoDelete
<1>2. LockInv => GitExclusive
  BY DEF LockInv
<1> QED BY <1>1, <1>2, ExclusiveStep, PTL DEF Spec

-----------------------------------------------------------------------------
(* What a step may touch: one run, or one delete, and the workspace it is    *)
(* about.                                                                    *)

Live(i) == run[i].pc \notin {"idle", "over"}

\* Nothing of the workspaces other than w changes.
Elsewhere(w) ==
  \A x \in Workspaces \ {w} :
    /\ row'[x] = row[x] /\ step'[x] = step[x] /\ done'[x] = done[x]
    /\ disk'[x] = disk[x] /\ kind'[x] = kind[x]
    /\ x \in made' <=> x \in made
    /\ x \in cancelled' <=> x \in cancelled

LEMMA ToFrame ==
  ASSUME TypeInv, NEW i \in Inits, NEW stage, To(i, stage)
  PROVE  /\ run'[i].ws = run[i].ws /\ run'[i].kind = run[i].kind /\ run'[i].pc = stage
         /\ \A j \in Inits \ {i} : run'[j] = run[j]
<1>1. run[i] \in RunRec
  BY DEF TypeInv, TypeOK
<1>2. run' = [run EXCEPT ![i] = [run[i] EXCEPT !.pc = stage]]
  BY DEF TypeInv, TypeOK, To
<1>3. run'[i] = [run[i] EXCEPT !.pc = stage] /\ \A j \in Inits \ {i} : run'[j] = run[j]
  BY <1>2 DEF TypeInv, TypeOK
<1> QED BY <1>1, <1>3 DEF RunRec

LEMMA ReturnFrame ==
  ASSUME TypeInv, NEW i \in Inits, run[i].ws \in Workspaces, Return(i)
  PROVE  /\ run'[i].pc = "over" /\ run'[i].ws = run[i].ws /\ run'[i].kind = run[i].kind
         /\ \A j \in Inits \ {i} : run'[j] = run[j]
         /\ done' = [done EXCEPT ![run[i].ws] = None]
         /\ resolved' = resolved \cup ({done[run[i].ws]} \ {None})
         /\ UNCHANGED <<kind, row, del>>
BY ToFrame DEF Return, Finalize

\* How initialisation i leaves off: it returns, having finalized its job, or it
\* goes on, and then not to a stage before the lock.
Goes(i) ==
  /\ run'[i].ws = run[i].ws /\ run'[i].kind = run[i].kind
  /\ \A j \in Inits \ {i} : run'[j] = run[j]
  /\ \/ /\ run'[i].pc = "over"
        /\ done' = [done EXCEPT ![run[i].ws] = None]
        /\ resolved' = resolved \cup ({done[run[i].ws]} \ {None})
     \/ /\ run'[i].pc \in GitStage
        /\ UNCHANGED <<done, resolved>>
     \/ /\ run[i].pc = "resolving" /\ run'[i].pc = "queued"
        /\ StartJob(run[i].ws, i)

LEMMA GoesTo ==
  ASSUME TypeInv, NEW i \in Inits, NEW stage \in GitStage, To(i, stage),
         UNCHANGED <<done, resolved>>
  PROVE  Goes(i)
BY ToFrame DEF Goes

LEMMA GoesReturn ==
  ASSUME TypeInv, NEW i \in Inits, run[i].ws \in Workspaces, Return(i)
  PROVE  Goes(i) /\ UNCHANGED <<kind, row, del>>
BY ReturnFrame DEF Goes

LEMMA GoesCatch ==
  ASSUME TypeInv, NEW i \in Inits, run[i].ws \in Workspaces, Catch(i)
  PROVE  /\ Goes(i) /\ UNCHANGED <<kind, row, del>>
         /\ \A x \in Workspaces \ {run[i].ws} : step'[x] = step[x]
<1>1. CASE run[i].ws \in made'
  <2>1. To(i, "cleaning") /\ UNCHANGED <<row, kind, step, done, resolved, lock, del>>
    BY <1>1 DEF Catch
  <2> QED BY <2>1, GoesTo DEF GitStage
<1>2. CASE run[i].ws \notin made'
  <2>1. Progress(run[i].ws, "failed") /\ Return(i)
    BY <1>2 DEF Catch
  <2>2. \A x \in Workspaces \ {run[i].ws} : step'[x] = step[x]
    BY <2>1 DEF Progress, TypeInv, TypeOK
  <2> QED BY <2>1, <2>2, GoesReturn
<1> QED BY <1>1, <1>2

LEMMA AdvanceFrame ==
  ASSUME TypeInv, NEW i \in Inits, Advance(i)
  PROVE  /\ Live(i) /\ run[i].ws \in Workspaces
         /\ Goes(i) /\ Elsewhere(run[i].ws)
         /\ UNCHANGED <<row, kind, del>>
<1> DEFINE w == run[i].ws
           Same == \A x \in Workspaces \ {w} : step'[x] = step[x]
<1>0. Live(i)
  BY Stages DEF GitStage, Advance, Live, RetryStarts, Locked, ConfigRead, ReadDone,
     NoStartPoint, ReadThrows, CreateFails, Created, CreatedThenThrows, HasWorktree, Undone, Cleaned,
     AgentReady, AgentFails
<1>1. w \in Workspaces
  BY <1>0 DEF Live, TypeInv, Assigned
<1>2. \A s : Progress(w, s) => Same
  BY DEF Progress, TypeInv, TypeOK
<1>3. Goes(i) => \A x \in Workspaces \ {w} : done'[x] = done[x]
  BY DEF Goes, StartJob, TypeInv, TypeOK
<1>4. ASSUME UNCHANGED <<row, kind>>, Same, Goes(i),
             \A x \in Workspaces \ {w} : /\ disk'[x] = disk[x]
                                         /\ x \in made' <=> x \in made
                                         /\ x \in cancelled' <=> x \in cancelled
      PROVE  Elsewhere(w)
  BY <1>3, <1>4 DEF Elsewhere
<1>5. CASE RetryStarts(i)
  <2>1. To(i, "queued") /\ StartJob(w, i) /\ UNCHANGED <<row, kind, del, disk>>
        /\ run[i].pc = "resolving"
    BY <1>5 DEF RetryStarts, To, dbVars
  <2>2. Goes(i)
    BY <2>1, ToFrame DEF Goes
  <2>3. Same /\ \A x \in Workspaces \ {w} : /\ x \in made' <=> x \in made
                                            /\ x \in cancelled' <=> x \in cancelled
    BY <2>1 DEF StartJob, TypeInv, TypeOK
  <2> QED BY <1>0, <1>1, <1>4, <2>1, <2>2, <2>3
<1>6. CASE Locked(i)
  <2>1. UNCHANGED <<setUp, step, made, cancelled, disk>>
    BY <1>6 DEF Locked
  <2>2. Return(i) \/ (To(i, "config") /\ UNCHANGED <<kind, row, done, resolved, del>>)
    BY <1>6 DEF Locked
  <2>3. Goes(i) /\ UNCHANGED <<row, kind, del>>
    BY <1>1, <2>2, GoesReturn, GoesTo DEF GitStage
  <2> QED BY <1>0, <1>1, <1>4, <2>1, <2>3
<1>7. CASE ConfigRead(i)
  <2>1. Progress(w, "busy")
        /\ UNCHANGED <<row, kind, del, made, cancelled, done, resolved, disk>>
    BY <1>7 DEF ConfigRead, dbVars
  <2>2. \E stage \in GitStage : To(i, stage)
    BY <1>7 DEF ConfigRead, GitStage
  <2>3. Goes(i)
    BY <2>1, <2>2, GoesTo
  <2> QED BY <1>0, <1>1, <1>2, <1>4, <2>1, <2>3
<1>8. CASE ReadDone(i)
  <2>1. UNCHANGED <<made, cancelled, disk>>
    BY <1>8 DEF ReadDone
  <2>2. \/ Return(i) /\ step' = step
        \/ /\ \E stage \in GitStage : To(i, stage)
           /\ Progress(w, "busy")
           /\ UNCHANGED <<kind, row, done, resolved, del>>
    BY <1>8, Stages DEF ReadDone
  <2>3. Goes(i) /\ Same /\ UNCHANGED <<row, kind, del>>
    BY <1>1, <1>2, <2>2, GoesReturn, GoesTo
  <2> QED BY <1>0, <1>1, <1>4, <2>1, <2>3
<1>9. CASE NoStartPoint(i)
  <2>1. UNCHANGED <<made, cancelled, disk>> /\ Progress(w, "failed") /\ Return(i)
    BY <1>9 DEF NoStartPoint
  <2> QED BY <1>0, <1>1, <1>2, <1>4, <2>1, GoesReturn
<1>10. CASE ReadThrows(i)
  <2>1. UNCHANGED <<made, cancelled, disk>> /\ Catch(i)
    BY <1>10 DEF ReadThrows
  <2> QED BY <1>0, <1>1, <1>4, <2>1, GoesCatch
<1>11. CASE CreateFails(i)
  <2>1. UNCHANGED <<made, cancelled>> /\ Catch(i)
        /\ \A x \in Workspaces \ {w} : disk'[x] = disk[x]
    BY <1>11 DEF CreateFails, TypeInv, TypeOK
  <2> QED BY <1>0, <1>1, <1>4, <2>1, GoesCatch
<1>12. ASSUME HasWorktree(i)
       PROVE  \A x \in Workspaces \ {w} : /\ disk'[x] = disk[x]
                                          /\ x \in made' <=> x \in made
  BY <1>12 DEF HasWorktree, TypeInv, TypeOK
<1>13. CASE Created(i)
  <2>1. HasWorktree(i) /\ cancelled' = cancelled
    BY <1>13 DEF Created
  <2>2. \/ To(i, "undoing") /\ UNCHANGED <<row, kind, step, done, resolved, del>>
        \/ Progress(w, "ready") /\ Return(i)
    BY <1>13 DEF Created, dbVars
  <2>3. Goes(i) /\ Same /\ UNCHANGED <<row, kind, del>>
    BY <1>1, <1>2, <2>2, GoesReturn, GoesTo DEF GitStage
  <2> QED BY <1>0, <1>1, <1>4, <1>12, <2>1, <2>3
<1>14. CASE CreatedThenThrows(i)
  <2>1. HasWorktree(i) /\ cancelled' = cancelled /\ Catch(i)
    BY <1>14 DEF CreatedThenThrows
  <2> QED BY <1>0, <1>1, <1>4, <1>12, <2>1, GoesCatch
<1>15. CASE Undone(i) \/ Cleaned(i)
  <2>1. UNCHANGED <<made, cancelled>> /\ Return(i) /\ Removes(w)
    BY <1>15 DEF Undone, Cleaned
  <2>2. Same
    BY <1>2, <1>15 DEF Undone, Cleaned
  <2>3. \A x \in Workspaces \ {w} : disk'[x] = disk[x]
    BY <2>1 DEF Removes, TypeInv, TypeOK
  <2> QED BY <1>0, <1>1, <1>4, <2>1, <2>2, <2>3, GoesReturn
<1>16. CASE AgentReady(i) \/ AgentFails(i)
  <2>1. /\ To(i, "over") /\ Finalize(w) /\ UNCHANGED <<row, kind, cancelled, del>>
        /\ Same
    BY <1>2, <1>16 DEF AgentReady, AgentFails, dbVars
  <2>2. Goes(i)
    BY <2>1, ToFrame DEF Goes, Finalize
  <2>3. \A x \in Workspaces \ {w} : disk'[x] = disk[x] /\ (x \in made' <=> x \in made)
    BY <1>16 DEF AgentReady, AgentFails, TypeInv, TypeOK
  <2> QED BY <1>0, <1>1, <1>4, <2>1, <2>2, <2>3
<1> QED BY <1>5, <1>6, <1>7, <1>8, <1>9, <1>10, <1>11, <1>13, <1>14, <1>15, <1>16
        DEF Advance

\* How delete d leaves off: it is answered, or goes on to a later stage.
LEMMA DeleteFrame ==
  ASSUME TypeInv, NEW d \in Deletes, AdvanceDelete(d)
  PROVE  /\ del[d].pc # "idle" /\ del[d].ws \in Workspaces
         /\ \A e \in Deletes \ {d} : del'[e] = del[e]
         /\ UNCHANGED <<run, kind, resolved>> /\ Elsewhere(del[d].ws)
         /\ \/ Answer(d) /\ Forget(d)
            \/ Answer(d) /\ GiveBack(d)
            \/ /\ del'[d].ws = del[d].ws
               /\ del'[d].pc \in {"killing", "queued", "removing", "branch"}
               /\ UNCHANGED <<row, jobVars>>
<1> DEFINE w == del[d].ws
<1>0. del[d].pc # "idle" /\ w \in Workspaces
  <2>1. del[d].pc # "idle"
    BY DEF AdvanceDelete, WaitEnds, KilledAndTornDown, TeardownFails, DeleteLocks,
       Removed, RemoveFails, Deleted, AgentDeleted, AgentRemoveFails
  <2> QED BY <2>1 DEF TypeInv, Assigned
<1>1. /\ \A e \in Deletes \ {d} : del'[e] = del[e]
      /\ UNCHANGED <<run, kind, resolved>>
  BY DEF AdvanceDelete, WaitEnds, KilledAndTornDown, TeardownFails, DeleteLocks,
     Removed, RemoveFails, Deleted, AgentDeleted, AgentRemoveFails, GiveBack, Forget,
     Answer, DelTo, ClearJob, TypeInv, TypeOK, dbVars, jobVars
<1>2. \A x \in Workspaces \ {w} : disk'[x] = disk[x]
  BY DEF AdvanceDelete, WaitEnds, KilledAndTornDown, TeardownFails, DeleteLocks,
     Removed, RemoveFails, Removes, Deleted, AgentDeleted, AgentRemoveFails, TypeInv, TypeOK
<1>3. CASE WaitEnds(d) \/ KilledAndTornDown(d) \/ DeleteLocks(d) \/ Removed(d)
  <2>1. UNCHANGED <<dbVars, jobVars>>
    BY <1>3 DEF WaitEnds, KilledAndTornDown, DeleteLocks, Removed
  <2>2. Elsewhere(w)
    BY <1>2, <2>1 DEF Elsewhere, dbVars, jobVars
  <2>3. del'[d].ws = w /\ del'[d].pc \in {"killing", "queued", "removing", "branch"}
    BY <1>3 DEF WaitEnds, KilledAndTornDown, DeleteLocks, Removed, DelTo, DelRec,
       TypeInv, TypeOK
  <2> QED BY <1>0, <1>1, <2>1, <2>2, <2>3 DEF dbVars
<1>4. CASE GiveBack(d)
  <2>1. Elsewhere(w)
    BY <1>2, <1>4 DEF GiveBack, Elsewhere, jobVars, TypeInv, TypeOK
  <2> QED BY <1>0, <1>1, <1>4, <2>1 DEF GiveBack
<1>5. CASE Forget(d)
  <2>1. Elsewhere(w)
    BY <1>2, <1>5 DEF Forget, ClearJob, Elsewhere, TypeInv, TypeOK
  <2> QED BY <1>0, <1>1, <1>5, <2>1 DEF Forget
<1> QED BY <1>3, <1>4, <1>5 DEF AdvanceDelete, TeardownFails, RemoveFails, Deleted,
           AgentDeleted, AgentRemoveFails

LEMMA DeleteStarts ==
  ASSUME TypeInv, NEW d \in Deletes, NEW w \in Workspaces, Delete(d, w)
  PROVE  /\ del[d].pc = "idle" /\ del'[d].ws = w
         /\ \A e \in Deletes \ {d} : del'[e] = del[e]
         /\ \/ /\ del'[d].pc = "waiting" /\ del'[d].on = done[w] /\ done[w] # None
            \/ del'[d].pc = "killing"
         /\ row[w] \in {"present", "deleting"} /\ row'[w] = "deleting"
         /\ Elsewhere(w)
         /\ UNCHANGED <<kind, setUp, step, made, done, resolved, lockVars, disk, run>>
         /\ cancelled \subseteq cancelled'
<1>1. /\ row' = [row EXCEPT ![w] = "deleting"]
      /\ \A x \in Workspaces \ {w} : x \in cancelled' <=> x \in cancelled
      /\ cancelled \subseteq cancelled'
  BY DEF Delete
<1>2. UNCHANGED <<kind, setUp, step, made, done, resolved, lockVars, disk, run>>
  BY DEF Delete
<1>3. Elsewhere(w)
  BY <1>1, <1>2 DEF Elsewhere, TypeInv, TypeOK
<1>4. /\ del'[d].ws = w
      /\ \A e \in Deletes \ {d} : del'[e] = del[e]
      /\ \/ /\ del'[d].pc = "waiting" /\ del'[d].on = done[w] /\ done[w] # None
         \/ del'[d].pc = "killing"
  BY DEF Delete, TypeInv, TypeOK
<1> QED BY <1>1, <1>2, <1>3, <1>4 DEF Delete, TypeInv, TypeOK

LEMMA StartFrame ==
  ASSUME TypeInv, NEW w \in Workspaces, NEW i \in Inits,
         (\E k \in Kinds : Create(w, i, k)) \/ Retry(w, i) \/ RetryAgent(w, i)
  PROVE  /\ run[i].pc = "idle" /\ run'[i].ws = w /\ Elsewhere(w)
         /\ \A j \in Inits \ {i} : run'[j] = run[j]
         /\ UNCHANGED <<del, lock, resolved>>
         /\ \/ /\ row[w] = "none" /\ row'[w] = "present" /\ StartJob(w, i)
               /\ run'[i].pc \in {"queued", "repo"}
               /\ run'[i].pc = "repo" <=> kind'[w] = "agent"
               /\ disk'[w] \in {disk[w], i}
               /\ run'[i].kind = "adopted" => disk'[w] = i
            \/ /\ row[w] = "present" /\ row' = row /\ kind[w] # "agent"
               /\ UNCHANGED <<kind, jobVars, disk, waiters>> /\ run'[i].pc = "resolving"
               /\ run'[i].kind = "new"
               /\ OneAtATime => InFlight(w) = {} /\ ~Unanswered(w)
            \/ /\ row[w] \in {"present", "deleting"} /\ row' = row /\ kind[w] = "agent"
               /\ UNCHANGED <<kind, disk, waiters>> /\ run'[i].pc = "repo" /\ StartJob(w, i)
               /\ run'[i].kind = "agent"
               /\ OneAtATime => InFlight(w) = {} /\ ~Unanswered(w)
<1> USE DEF TypeInv, TypeOK
<1>1. StartJob(w, i) => /\ resolved' = resolved
                        /\ \A x \in Workspaces \ {w} :
                             /\ step'[x] = step[x] /\ done'[x] = done[x]
                             /\ x \in made' <=> x \in made
                             /\ x \in cancelled' <=> x \in cancelled
  BY DEF StartJob
<1>2. ASSUME NEW k \in Kinds, Create(w, i, k)
      PROVE  /\ run[i].pc = "idle" /\ run'[i].ws = w /\ Elsewhere(w)
             /\ \A j \in Inits \ {i} : run'[j] = run[j]
             /\ UNCHANGED <<del, lock, resolved>>
             /\ row[w] = "none" /\ row'[w] = "present" /\ StartJob(w, i)
             /\ run'[i].pc \in {"queued", "repo"}
             /\ run'[i].pc = "repo" <=> kind'[w] = "agent"
             /\ disk'[w] \in {disk[w], i}
             /\ run'[i].kind = "adopted" => disk'[w] = i
  <2>1. StartJob(w, i) /\ UNCHANGED <<del, lock>> /\ run[i].pc = "idle" /\ row[w] = "none"
    BY <1>2 DEF Create
  <2>2. run'[i] = [pc |-> IF k = "agent" THEN "repo" ELSE "queued", ws |-> w, kind |-> k]
        /\ \A j \in Inits \ {i} : run'[j] = run[j]
    BY <1>2 DEF Create
  <2>3. /\ \A x \in Workspaces : row'[x] = IF x = w THEN "present" ELSE row[x]
        /\ \A x \in Workspaces : kind'[x] = IF x = w THEN k ELSE kind[x]
        /\ \A x \in Workspaces : disk'[x] = IF x = w /\ k = "adopted" THEN i ELSE disk[x]
    BY <1>2 DEF Create
  <2>4. Elsewhere(w)
    BY <1>1, <2>1, <2>3 DEF Elsewhere
  <2> QED BY <1>1, <2>1, <2>2, <2>3, <2>4
<1>3. CASE Retry(w, i)
  <2>1. UNCHANGED <<dbVars, jobVars, lockVars, disk, del>> /\ run[i].pc = "idle"
    BY <1>3 DEF Retry
  <2>2. Elsewhere(w)
    BY <2>1 DEF Elsewhere, dbVars, jobVars
  <2> QED BY <1>3, <2>1, <2>2 DEF Retry, dbVars, jobVars, lockVars
<1>4. CASE RetryAgent(w, i)
  <2>1. UNCHANGED <<dbVars, lockVars, disk, del>> /\ run[i].pc = "idle" /\ StartJob(w, i)
    BY <1>4 DEF RetryAgent
  <2>2. Elsewhere(w)
    BY <1>1, <2>1 DEF Elsewhere, dbVars
  <2> QED BY <1>1, <1>4, <2>1, <2>2 DEF RetryAgent, dbVars, lockVars
<1> QED BY <1>2, <1>3, <1>4

-----------------------------------------------------------------------------
(* The project lock is a ProjectLock, however the requests overlap *)

\* Whoever p is, initialisation or delete, it alone changes its place.
LEMMA Moves ==
  ASSUME NEW p \in Inits \cup Deletes,
         \A i \in Inits \ {p} : run'[i].pc = run[i].pc,
         \A d \in Deletes \ {p} : del'[d].pc = del[d].pc
  PROVE  /\ Lock!Move(p, Standing[p], Standing'[p])
         /\ Standing'[p] = Standing[p] => Standing' = Standing
<1>1. \A q \in (Inits \cup Deletes) \ {p} : Standing'[q] = Standing[q]
  BY ActorsAssumption DEF Standing
<1>2. Standing' = [Standing EXCEPT ![p] = Standing'[p]]
  BY <1>1 DEF Standing
<1>3. Standing'[p] = Standing[p] => Standing' = Standing
  BY <1>1 DEF Standing
<1> QED BY <1>2, <1>3 DEF Lock!Move

LEMMA Stands ==
  /\ \A i \in Inits : Standing[i] = Place(run[i].pc) /\ Standing'[i] = Place(run'[i].pc)
  /\ \A d \in Deletes : Standing[d] = Place(del[d].pc) /\ Standing'[d] = Place(del'[d].pc)
BY ActorsAssumption DEF Standing

LEMMA Places ==
  /\ \A stage \in GitStage : Place(stage) = "inside"
  /\ Place("queued") = "waiting" /\ Place("removing") = "inside"
  /\ \A stage \in {"idle", "resolving", "repo", "over", "waiting", "killing", "branch"} :
       Place(stage) = "away"
BY DEF Place, GitStage

\* A step of an initialisation under the lock, or out of it.
LEMMA InsideSteps ==
  ASSUME LockInv, NEW i \in Inits, run[i].pc \in GitStage, waiters' = waiters,
         \/ Return(i)
         \/ Catch(i)
         \/ \E stage \in GitStage : To(i, stage) /\ lock' = lock /\ del' = del
  PROVE  [Lock!Next]_Lock!vars
<1>1. lock = i /\ TypeInv
  BY DEF LockInv, GitExclusive
<1>2. CASE Return(i)
  <2>1. /\ run'[i].pc = "over" /\ lock' = None /\ del' = del
        /\ \A j \in Inits \ {i} : run'[j] = run[j]
    BY <1>1, <1>2, ToFrame DEF Return
  <2>2. Lock!Move(i, "inside", "away")
    BY <2>1, Moves, Stands, Places
  <2> QED BY <1>1, <2>1, <2>2 DEF Lock!Next, Lock!Leave
<1>3. ASSUME NEW stage \in GitStage, To(i, stage), lock' = lock, del' = del
      PROVE  [Lock!Next]_Lock!vars
  <2>1. run'[i].pc = stage /\ \A j \in Inits \ {i} : run'[j] = run[j]
    BY <1>1, <1>3, ToFrame
  <2>2. Standing' = Standing
    BY <1>3, <2>1, Moves, Stands, Places
  <2> QED BY <1>3, <2>2 DEF Lock!vars
<1>4. CASE Catch(i)
  <2>1. Return(i) \/ (To(i, "cleaning") /\ lock' = lock /\ del' = del)
    BY <1>4 DEF Catch
  <2> QED BY <1>2, <1>3, <2>1 DEF GitStage
<1> QED BY <1>2, <1>3, <1>4

LEMMA LockAdvance ==
  ASSUME LockInv, NEW i \in Inits, Advance(i)
  PROVE  [Lock!Next]_Lock!vars
<1> USE DEF LockInv
<1>1. /\ \A j \in Inits \ {i} : run'[j] = run[j]
      /\ del' = del
  BY AdvanceFrame DEF Goes
<1>2. CASE RetryStarts(i)
  <2>1. To(i, "queued") /\ run[i].pc = "resolving"
        /\ waiters' = Append(waiters, i) /\ lock' = lock
    BY <1>2 DEF RetryStarts, To
  <2>2. run'[i].pc = "queued"
    BY <2>1, ToFrame
  <2>3. Lock!Move(i, "away", "waiting")
    BY <1>1, <2>1, <2>2, Moves, Stands, Places
  <2> QED BY <2>1, <2>3 DEF Lock!Next, Lock!Ask
<1>3. CASE Locked(i)
  <2>1. run[i].pc = "queued" /\ Lock!Served(i)
    BY <1>3 DEF Locked, Resumed, Lock!Served
  <2>2. CASE Return(i)
    <3>1. run'[i].pc = "over" /\ lock' = None /\ lock = None
      BY <1>3, <2>2, ToFrame DEF Return, Locked, Resumed
    <3>2. Lock!Move(i, "waiting", "away")
      BY <1>1, <2>1, <3>1, Moves, Stands, Places
    <3> QED BY <2>1, <3>1, <3>2 DEF Lock!Next, Lock!Pass
  <2>3. CASE lock' = i /\ To(i, "config")
    <3>1. run'[i].pc = "config" /\ "config" \in GitStage
      BY <2>3, ToFrame, Stages
    <3>2. Lock!Move(i, "waiting", "inside")
      BY <1>1, <2>1, <3>1, Moves, Stands, Places
    <3> QED BY <2>1, <2>3, <3>2 DEF Lock!Next, Lock!Enter
  <2> QED BY <1>3, <2>2, <2>3 DEF Locked
<1>4. CASE ConfigRead(i)
  <2>1. /\ run[i].pc \in GitStage /\ lock' = lock /\ waiters' = waiters
        /\ \E stage \in GitStage : To(i, stage)
    BY <1>4 DEF ConfigRead, lockVars, GitStage
  <2> QED BY <1>1, <2>1, InsideSteps
<1>5. CASE ReadDone(i)
  <2>1. run[i].pc \in GitStage /\ Following[run[i].pc] \in GitStage /\ waiters' = waiters
    BY <1>5, Stages DEF ReadDone
  <2>2. Return(i) \/ (To(i, Following[run[i].pc]) /\ lock' = lock)
    BY <1>5 DEF ReadDone
  <2> QED BY <1>1, <2>1, <2>2, InsideSteps
<1>6. CASE NoStartPoint(i) \/ Undone(i) \/ Cleaned(i)
  <2>1. run[i].pc \in GitStage /\ Return(i) /\ waiters' = waiters
    BY <1>6 DEF NoStartPoint, Undone, Cleaned, GitStage
  <2> QED BY <2>1, InsideSteps
<1>7. CASE ReadThrows(i) \/ CreateFails(i) \/ CreatedThenThrows(i)
  <2>1. run[i].pc \in GitStage /\ Catch(i) /\ waiters' = waiters
    BY <1>7, Stages DEF ReadThrows, CreateFails, CreatedThenThrows, HasWorktree
  <2> QED BY <2>1, InsideSteps
<1>8. CASE Created(i)
  <2>1. run[i].pc \in GitStage /\ waiters' = waiters
    BY <1>8 DEF Created, HasWorktree, GitStage
  <2>2. Return(i) \/ (To(i, "undoing") /\ lock' = lock)
    BY <1>8 DEF Created
  <2> QED BY <1>1, <2>1, <2>2, InsideSteps DEF GitStage
<1>9. CASE AgentReady(i) \/ AgentFails(i)
  <2>1. To(i, "over") /\ run[i].pc = "repo" /\ UNCHANGED <<lock, waiters>>
    BY <1>9 DEF AgentReady, AgentFails, lockVars
  <2>2. run'[i].pc = "over"
    BY <2>1, ToFrame
  <2>3. Standing' = Standing
    BY <1>1, <2>1, <2>2, Moves, Stands, Places
  <2> QED BY <2>1, <2>3 DEF Lock!vars
<1> QED BY <1>2, <1>3, <1>4, <1>5, <1>6, <1>7, <1>8, <1>9 DEF Advance

LEMMA LockDelete ==
  ASSUME LockInv, NEW d \in Deletes,
         (\E w \in Workspaces : Delete(d, w)) \/ AdvanceDelete(d)
  PROVE  [Lock!Next]_Lock!vars
<1> USE DEF LockInv, TypeInv, TypeOK
<1>1. /\ run' = run
      /\ \A e \in Deletes \ {d} : del'[e] = del[e]
  BY DeleteFrame, DeleteStarts
<1>2. \A stage : DelTo(d, stage) => del'[d].pc = stage
  BY DEF DelTo, DelRec
<1>3. Answer(d) => del'[d].pc = "idle"
  BY DEF Answer, NoDelete
<1>4. ASSUME Standing[d] = "away", Standing'[d] = "away", UNCHANGED lockVars
      PROVE  [Lock!Next]_Lock!vars
  BY <1>1, <1>4, Moves DEF Lock!vars, lockVars
<1>5. CASE \E w \in Workspaces : Delete(d, w)
  <2>1. del[d].pc = "idle" /\ del'[d].pc \in {"waiting", "killing"} /\ UNCHANGED lockVars
    BY <1>5, DeleteStarts
  <2> QED BY <1>4, <2>1, Stands, Places
<1>6. CASE WaitEnds(d)
  <2>1. del[d].pc = "waiting" /\ del'[d].pc = "killing" /\ UNCHANGED lockVars
    BY <1>6 DEF WaitEnds, DelRec
  <2> QED BY <1>4, <2>1, Stands, Places
<1>7. CASE KilledAndTornDown(d)
  <2>1. del[d].pc = "killing" /\ del'[d].pc = "queued"
        /\ waiters' = Append(waiters, d) /\ lock' = lock
    BY <1>2, <1>7 DEF KilledAndTornDown
  <2>2. Lock!Move(d, "away", "waiting")
    BY <1>1, <2>1, Moves, Stands, Places
  <2> QED BY <2>1, <2>2 DEF Lock!Next, Lock!Ask
<1>8. CASE TeardownFails(d) \/ AgentRemoveFails(d) \/ Deleted(d) \/ AgentDeleted(d)
  <2>1. del[d].pc \in {"killing", "branch"} /\ UNCHANGED lockVars /\ Answer(d)
    BY <1>8 DEF TeardownFails, AgentRemoveFails, Deleted, AgentDeleted, GiveBack, Forget,
       lockVars
  <2> QED BY <1>3, <1>4, <2>1, Stands, Places
<1>9. CASE DeleteLocks(d)
  <2>1. del[d].pc = "queued" /\ del'[d].pc = "removing" /\ Lock!Served(d) /\ lock' = d
    BY <1>2, <1>9 DEF DeleteLocks, Resumed, Lock!Served
  <2>2. Lock!Move(d, "waiting", "inside")
    BY <1>1, <2>1, Moves, Stands, Places
  <2> QED BY <2>1, <2>2 DEF Lock!Next, Lock!Enter
<1>10. CASE Removed(d) \/ RemoveFails(d)
  <2>1. del[d].pc = "removing" /\ del'[d].pc \in {"idle", "branch"}
        /\ lock' = None /\ waiters' = waiters
    BY <1>2, <1>3, <1>10 DEF Removed, RemoveFails, GiveBack
  <2>2. lock = d
    BY <2>1 DEF GitExclusive
  <2>3. Lock!Move(d, "inside", "away")
    BY <1>1, <2>1, Moves, Stands, Places
  <2> QED BY <2>1, <2>2, <2>3 DEF Lock!Next, Lock!Leave
<1> QED BY <1>5, <1>6, <1>7, <1>8, <1>9, <1>10 DEF AdvanceDelete

LEMMA LockStart ==
  ASSUME LockInv, NEW w \in Workspaces, NEW i \in Inits,
         (\E k \in Kinds : Create(w, i, k)) \/ Retry(w, i) \/ RetryAgent(w, i)
  PROVE  [Lock!Next]_Lock!vars
<1>1. /\ run[i].pc = "idle" /\ UNCHANGED <<del, lock>>
      /\ \A j \in Inits \ {i} : run'[j] = run[j]
  BY StartFrame DEF LockInv
<1>2. \/ run'[i].pc \in {"resolving", "repo"} /\ waiters' = waiters
      \/ run'[i].pc = "queued" /\ waiters' = Append(waiters, i)
  BY DEF Create, Retry, RetryAgent, lockVars, LockInv, TypeInv, TypeOK
<1>3. CASE run'[i].pc = "queued" /\ waiters' = Append(waiters, i)
  <2>1. Lock!Move(i, "away", "waiting")
    BY <1>1, <1>3, Moves, Stands, Places
  <2> QED BY <1>1, <1>3, <2>1 DEF Lock!Next, Lock!Ask
<1>4. CASE run'[i].pc \in {"resolving", "repo"} /\ waiters' = waiters
  <2>1. Standing' = Standing
    BY <1>1, <1>4, Moves, Stands, Places
  <2> QED BY <1>1, <1>4, <2>1 DEF Lock!vars
<1> QED BY <1>2, <1>3, <1>4

\* acquireProjectLock and releaseProjectLock, as their callers use them, are a lock
\* that serves in turn, that one at a time has, and that only its holder gives back;
\* whoever has asked waits until served, also when cancelled meanwhile.
THEOREM LockServesInTurn == Spec => ImplementsLock
<1>1. Init => Lock!Init
  <2> SUFFICES ASSUME Init PROVE Lock!Init
    OBVIOUS
  <2>1. \A p \in Inits \cup Deletes : Standing[p] = "away"
    BY Stands, Places DEF Init, NoDelete
  <2>2. Standing = [p \in Inits \cup Deletes |-> "away"]
    BY <2>1 DEF Standing
  <2> QED BY <2>2 DEF Init, Lock!Init
<1>2. LockInv /\ [Next]_vars => [Lock!Next]_Lock!vars
  <2> SUFFICES ASSUME LockInv, [Next]_vars PROVE [Lock!Next]_Lock!vars
    OBVIOUS
  <2>1. CASE Restart
    <3>1. \A p \in Inits \cup Deletes : Standing'[p] = "away"
      BY <2>1, RestartFrame, Stands, Places DEF LockInv, NoDelete
    <3>2. Standing' = [p \in Inits \cup Deletes |-> "away"]
      BY <3>1 DEF Standing
    <3> QED BY <2>1, <3>2 DEF Restart, Lock!Next, Lock!Lost, Lock!Init
  <2>2. CASE UNCHANGED vars \/ \E w \in Workspaces : ReadyExpires(w) \/ DeleteMissing(w)
    BY <2>2 DEF ReadyExpires, DeleteMissing, vars, lockVars, Standing, Lock!vars
  <2> QED BY <2>1, <2>2, LockAdvance, LockDelete, LockStart DEF Next
<1>3. Init => LockInv
  BY TypesAtFirst DEF Init, LockInv, GitExclusive, GitStage, NoDelete
<1> QED BY <1>1, <1>2, <1>3, ExclusiveStep, PTL DEF Spec, ImplementsLock, Lock!Spec

-----------------------------------------------------------------------------
(* Jobs that stay busy, however the requests overlap *)

\* An initialisation that has begun has a record, and works without the lock if and
\* only if it is an agent's.
Begun ==
  /\ \A i \in Inits : run[i].pc = "idle" => run[i].ws = None
  /\ \A i \in Inits : Live(i) =>
       /\ row[run[i].ws] # "none"
       /\ run[i].pc = "repo" <=> kind[run[i].ws] = "agent"

\* A worktree is being undone for a cancellation that still stands, for a job that
\* was cleared, or ahead of another initialisation that has taken the job over.
UndoneForCause ==
  \A i \in Inits : run[i].pc = "undoing" /\ IsInitializing(run[i].ws) =>
    \/ run[i].ws \in cancelled
    \/ \E j \in Inits : run[j].pc = "queued" /\ run[j].ws = run[i].ws

BusyInv == Begun /\ UndoneForCause /\ StuckOnlyIfCancelled

LEMMA AgentReturns ==
  ASSUME TypeInv, NEW i \in Inits, Advance(i)
  PROVE  run[i].pc = "repo" => run'[i].pc = "over"
<1>1. run[i].pc = "repo" => AgentReady(i) \/ AgentFails(i)
  BY DEF Advance, RetryStarts, Locked, ConfigRead, ReadDone, NoStartPoint, ReadThrows,
     CreateFails, Created, CreatedThenThrows, HasWorktree, Undone, Cleaned, Following
<1> QED BY <1>1, ToFrame DEF AgentReady, AgentFails

\* The state an initialisation leaves its job in.
LEMMA BusyEnds ==
  ASSUME TypeInv, BusyInv, NEW i \in Inits, NEW w \in Workspaces, w = run[i].ws,
         Advance(i), run'[i].pc \in {"over", "undoing"}
  PROVE  \/ step'[w] # "busy"
         \/ w \in cancelled'
         \/ \E j \in Inits \ {i} : run[j].pc = "queued" /\ run[j].ws = w
<1>1. step \in [Workspaces -> {"none", "busy", "ready", "failed"}]
  BY DEF TypeInv, TypeOK
<1>2. \A s : Progress(w, s) /\ s # "busy" => step'[w] # "busy"
  BY <1>1 DEF Progress
<1>3. \A stage : To(i, stage) => stage \in {"over", "undoing"}
  BY ToFrame
<1>4. ASSUME Catch(i)
      PROVE  step'[w] # "busy"
  BY <1>2, <1>3, <1>4 DEF Catch
<1>5. ~RetryStarts(i) /\ ~ConfigRead(i)
  BY <1>3 DEF RetryStarts, ConfigRead, To
<1>6. CASE Locked(i)
  BY <1>3, <1>6 DEF Locked
<1>7. CASE ReadDone(i)
  <2>1. w \in cancelled
    BY <1>3, <1>7 DEF ReadDone, Following
  <2> QED BY <1>7, <2>1 DEF ReadDone
<1>8. CASE NoStartPoint(i) \/ Cleaned(i) \/ AgentReady(i) \/ AgentFails(i)
  BY <1>2, <1>8 DEF NoStartPoint, Cleaned, AgentReady, AgentFails
<1>9. CASE ReadThrows(i) \/ CreateFails(i) \/ CreatedThenThrows(i)
  BY <1>4, <1>9 DEF ReadThrows, CreateFails, CreatedThenThrows
<1>10. CASE Created(i)
  BY <1>2, <1>10 DEF Created
<1>11. CASE Undone(i)
  BY <1>11 DEF Undone, BusyInv, UndoneForCause, IsInitializing
<1> QED BY <1>5, <1>6, <1>7, <1>8, <1>9, <1>10, <1>11 DEF Advance

\* Whoever undoes a worktree has the lock, so that no other worktree job of the
\* workspace can go on; one that starts takes the job over.
LEMMA UndoneAdvance ==
  ASSUME LockInv, BusyInv, NEW i \in Inits, Advance(i)
  PROVE  UndoneForCause'
<1>0. PICK w \in Workspaces : w = run[i].ws
  BY AdvanceFrame DEF LockInv
<1>1. Goes(i) /\ Elsewhere(w) /\ Live(i) /\ UNCHANGED <<row, kind, del>>
  BY <1>0, AdvanceFrame DEF LockInv
<1>2. run'[i].ws = w /\ \A j \in Inits \ {i} : run'[j] = run[j]
  BY <1>0, <1>1 DEF Goes
<1> SUFFICES ASSUME NEW j \in Inits, run'[j].pc = "undoing", IsInitializing(run[j].ws)'
             PROVE  \/ run'[j].ws \in cancelled'
                    \/ \E k \in Inits : run'[k].pc = "queued" /\ run'[k].ws = run'[j].ws
  BY DEF UndoneForCause
<1>3. CASE j = i
  <2>1. \/ w \in cancelled'
        \/ \E k \in Inits \ {i} : run[k].pc = "queued" /\ run[k].ws = w
    BY <1>0, <1>2, <1>3, BusyEnds DEF LockInv, IsInitializing
  <2> QED BY <1>2, <1>3, <2>1
<1>4. CASE j # i
  <2>1. run'[j] = run[j] /\ Live(j) /\ run[j].pc = "undoing" /\ run[j].ws \in Workspaces
    BY <1>2, <1>4 DEF Live, LockInv, TypeInv, Assigned
  <2>2. CASE run[j].ws # w
    <3>1. IsInitializing(run[j].ws)
      BY <1>1, <2>1, <2>2 DEF Elsewhere, IsInitializing
    <3>2. CASE run[j].ws \in cancelled
      BY <1>1, <2>1, <2>2, <3>2 DEF Elsewhere
    <3>3. CASE run[j].ws \notin cancelled
      <4>1. PICK k \in Inits : run[k].pc = "queued" /\ run[k].ws = run[j].ws
        BY <2>1, <3>1, <3>3 DEF BusyInv, UndoneForCause
      <4> QED BY <1>0, <1>2, <2>1, <2>2, <4>1
    <3> QED BY <3>2, <3>3
  <2>3. CASE run[j].ws = w
    <3>1. lock = j /\ lock # None /\ run[i].pc \notin GitStage
      BY <1>4, <2>1, NoneAssumption DEF LockInv, GitExclusive, GitStage
    <3>2. run[i].pc # "repo"
      BY <1>0, <1>1, <2>1, <2>3 DEF BusyInv, Begun
    <3>3. run[i].pc \in {"resolving", "queued"}
      BY <1>1, <3>1, <3>2 DEF Live, LockInv, TypeInv, TypeOK, RunRec, RunStage
    <3>4. RetryStarts(i)
      BY <3>1, <3>3, Stages DEF Advance, Locked, Resumed, ConfigRead, ReadDone,
         NoStartPoint, ReadThrows, CreateFails, Created, CreatedThenThrows, HasWorktree,
         Undone, Cleaned, AgentReady, AgentFails, GitStage
    <3>5. run'[i].pc = "queued"
      BY <3>4, ToFrame DEF RetryStarts, To, LockInv
    <3> QED BY <1>2, <2>1, <2>3, <3>5
  <2> QED BY <2>2, <2>3
<1> QED BY <1>3, <1>4

LEMMA BusyAdvance ==
  ASSUME LockInv, BusyInv, NEW i \in Inits, Advance(i)
  PROVE  BusyInv'
<1>0. PICK w \in Workspaces : w = run[i].ws
  BY AdvanceFrame DEF LockInv
<1>1. Goes(i) /\ Elsewhere(w) /\ Live(i) /\ UNCHANGED <<row, kind, del>>
  BY <1>0, AdvanceFrame DEF LockInv
<1>2. run'[i].ws = w /\ \A j \in Inits \ {i} : run'[j] = run[j]
  BY <1>0, <1>1 DEF Goes
<1>3. run'[i].pc # "idle" /\ run'[i].pc # "repo"
  BY <1>1 DEF Goes, GitStage
<1>4. Begun'
  <2>1. run[i].pc = "repo" => ~Live(i)'
    BY AgentReturns DEF LockInv, Live
  <2> QED BY <1>0, <1>1, <1>2, <1>3, <2>1 DEF BusyInv, Begun, Live
<1>5. ASSUME NEW x \in Workspaces, IsInitializing(x)', InFlight(x)' = {}
      PROVE  x \in cancelled'
  <2>1. CASE x = w
    <3>1. run'[i].pc = "over"
      BY <1>2, <1>5, <2>1 DEF InFlight
    <3>2. \A j \in Inits \ {i} : run[j].pc = "queued" => run[j].ws # w
      BY <1>2, <1>5, <2>1 DEF InFlight
    <3> QED BY <1>0, <1>5, <2>1, <3>1, <3>2, BusyEnds DEF IsInitializing, LockInv
  <2>2. CASE x # w
    <3>1. InFlight(x)' = InFlight(x)
      BY <1>0, <1>2, <2>2 DEF InFlight
    <3> QED BY <1>1, <1>5, <2>2, <3>1 DEF Elsewhere, BusyInv, StuckOnlyIfCancelled, IsInitializing
  <2> QED BY <2>1, <2>2
<1> QED BY <1>4, <1>5, UndoneAdvance DEF BusyInv, StuckOnlyIfCancelled

\* Steps of no initialisation: a job that is busy still was so before, and its
\* cancellation stands.
LEMMA BusyFrame ==
  ASSUME TypeInv, BusyInv, run' = run, kind' = kind,
         \A w \in Workspaces :
           /\ row[w] # "none" => row'[w] # "none"
           /\ step'[w] = "busy" =>
                step[w] = "busy" /\ (w \in cancelled => w \in cancelled')
  PROVE  BusyInv'
<1>1. UndoneForCause'
  BY DEF TypeInv, Assigned, BusyInv, UndoneForCause, IsInitializing
<1>2. StuckOnlyIfCancelled'
  BY DEF BusyInv, StuckOnlyIfCancelled, IsInitializing, InFlight
<1>3. Begun'
  BY DEF TypeInv, Assigned, BusyInv, Begun, Live
<1> QED BY <1>1, <1>2, <1>3 DEF BusyInv

LEMMA BusyStart ==
  ASSUME TypeInv, BusyInv, NEW w \in Workspaces, NEW i \in Inits,
         (\E k \in Kinds : Create(w, i, k)) \/ Retry(w, i) \/ RetryAgent(w, i)
  PROVE  BusyInv'
<1>1. /\ run[i].pc = "idle" /\ run[i].ws = None /\ run'[i].ws = w /\ Elsewhere(w)
      /\ run'[i].pc \in {"resolving", "queued", "repo"}
      /\ \A j \in Inits \ {i} : run'[j] = run[j]
      /\ row'[w] # "none"
      /\ run'[i].pc = "repo" <=> kind'[w] = "agent"
  BY StartFrame DEF BusyInv, Begun
<1>2. \/ row[w] = "none"
      \/ kind' = kind /\ kind[w] # "agent" /\ UNCHANGED jobVars
      \/ kind' = kind /\ kind[w] = "agent"
  BY StartFrame
<1>3. ASSUME NEW j \in Inits, j # i
      PROVE  /\ Live(j) /\ run[j].ws = w => row[w] # "none"
             /\ Live(j) => run[j].ws \in Workspaces
  BY DEF BusyInv, Begun, Live, TypeInv, Assigned
<1>4. Begun'
  <2> SUFFICES ASSUME NEW j \in Inits
               PROVE  /\ run'[j].pc = "idle" => run'[j].ws = None
                      /\ Live(j)' => /\ row'[run'[j].ws] # "none"
                                     /\ run'[j].pc = "repo" <=> kind'[run'[j].ws] = "agent"
    BY DEF Begun
  <2>1. CASE j = i
    BY <1>1, <2>1
  <2>2. CASE j # i /\ run[j].ws # w
    BY <1>1, <1>3, <2>2 DEF BusyInv, Begun, Live, Elsewhere
  <2>3. CASE j # i /\ run[j].ws = w
    BY <1>1, <1>2, <1>3, <2>3 DEF BusyInv, Begun, Live
  <2> QED BY <2>1, <2>2, <2>3
<1>5. ASSUME NEW j \in Inits, run'[j].pc = "undoing", IsInitializing(run[j].ws)'
      PROVE  \/ run'[j].ws \in cancelled'
             \/ \E k \in Inits : run'[k].pc = "queued" /\ run'[k].ws = run'[j].ws
  <2>1. run'[j] = run[j] /\ Live(j) /\ j # i
    BY <1>1, <1>5 DEF Live
  <2>2. \A k \in Inits : run[k].pc = "queued" => run'[k] = run[k]
    BY <1>1
  <2>3. PICK x \in Workspaces : x = run[j].ws
    BY <1>3, <2>1
  <2>4. (step[x] = "busy" <=> step'[x] = "busy") /\ (x \in cancelled <=> x \in cancelled')
    <3>1. CASE x # w
      BY <1>1, <3>1 DEF Elsewhere
    <3>2. CASE x = w
      <4>1. row[w] # "none" /\ kind[w] # "agent"
        BY <1>5, <2>1, <2>3, <3>2 DEF BusyInv, Begun
      <4> QED BY <1>2, <4>1 DEF jobVars
    <3> QED BY <3>1, <3>2
  <2> QED BY <1>5, <2>1, <2>2, <2>3, <2>4 DEF BusyInv, UndoneForCause, IsInitializing
<1>6. ASSUME NEW x \in Workspaces, IsInitializing(x)', InFlight(x)' = {}
      PROVE  x \in cancelled'
  <2>1. x # w
    BY <1>1, <1>6 DEF InFlight
  <2>2. InFlight(x)' = InFlight(x)
    <3>1. run[i].ws # x
      BY <1>1, NoneAssumption
    <3> QED BY <1>1, <2>1, <3>1 DEF InFlight
  <2> QED BY <1>1, <1>6, <2>1, <2>2 DEF Elsewhere, BusyInv, StuckOnlyIfCancelled, IsInitializing
<1> QED BY <1>4, <1>5, <1>6 DEF BusyInv, UndoneForCause, StuckOnlyIfCancelled

LEMMA BusyStep == LockInv /\ BusyInv /\ [Next]_vars => BusyInv'
<1> SUFFICES ASSUME LockInv, BusyInv, [Next]_vars PROVE BusyInv'
  OBVIOUS
<1> USE DEF LockInv
<1>1. ASSUME NEW d \in Deletes, AdvanceDelete(d) PROVE BusyInv'
  <2>1. /\ del[d].ws \in Workspaces /\ run' = run /\ kind' = kind /\ Elsewhere(del[d].ws)
        /\ \/ Answer(d) /\ Forget(d)
           \/ Answer(d) /\ GiveBack(d)
           \/ UNCHANGED <<row, jobVars>>
    BY <1>1, DeleteFrame
  <2>2. \A w \in Workspaces : row[w] # "none" => row'[w] # "none"
    BY <2>1 DEF Forget, GiveBack, TypeInv, TypeOK
  <2>3. CASE UNCHANGED jobVars
    BY <2>1, <2>2, <2>3, BusyFrame DEF jobVars
  <2>4. CASE Forget(d)
    <3>1. step'[del[d].ws] = "none"
      BY <2>1, <2>4 DEF Forget, ClearJob, TypeInv, TypeOK
    <3> QED BY <2>1, <2>2, <3>1, BusyFrame DEF Elsewhere
  <2> QED BY <2>1, <2>3, <2>4 DEF GiveBack
<1>2. ASSUME NEW d \in Deletes, NEW w \in Workspaces, Delete(d, w) PROVE BusyInv'
  <2>1. UNCHANGED <<run, step, kind>> /\ cancelled \subseteq cancelled' /\ Elsewhere(w)
        /\ row'[w] = "deleting"
    BY <1>2, DeleteStarts
  <2>2. \A x \in Workspaces : row[x] # "none" => row'[x] # "none"
    BY <2>1 DEF Elsewhere
  <2> QED BY <2>1, <2>2, BusyFrame
<1>3. ASSUME NEW w \in Workspaces, ReadyExpires(w) PROVE BusyInv'
  <2>1. UNCHANGED <<run, row, kind, cancelled>> /\ step' = [step EXCEPT ![w] = "none"]
    BY <1>3 DEF ReadyExpires, dbVars
  <2>2. \A x \in Workspaces : step'[x] = "busy" => step[x] = "busy"
    BY <2>1 DEF TypeInv, TypeOK
  <2> QED BY <2>1, <2>2, BusyFrame
<1>4. CASE UNCHANGED vars \/ \E w \in Workspaces : DeleteMissing(w)
  BY <1>4, BusyFrame DEF DeleteMissing, vars, jobVars, dbVars
<1>5. CASE Restart
  <2>1. \A w \in Workspaces : step'[w] = "none"
    BY <1>5 DEF Restart
  <2>2. \A i \in Inits : run'[i].pc # "undoing" /\ ~Live(i)'
                         /\ (run'[i].pc = "idle" => run'[i].ws = None)
    BY <1>5, RestartFrame DEF BusyInv, Begun, Live
  <2> QED BY <2>1, <2>2 DEF BusyInv, Begun, UndoneForCause, StuckOnlyIfCancelled,
                 IsInitializing
<1> QED BY <1>1, <1>2, <1>3, <1>4, <1>5, BusyAdvance, BusyStart DEF Next

\* isInitializing: however create, retry and delete overlap, a job that is busy with
\* nobody working on it was cancelled: it is left over from a delete that gave the
\* workspace back.
THEOREM StuckWasCancelled == Spec => []StuckOnlyIfCancelled
<1>1. Init => LockInv /\ BusyInv
  <2> SUFFICES ASSUME Init PROVE LockInv /\ BusyInv
    OBVIOUS
  <2>1. LockInv
    BY TypesAtFirst DEF Init, LockInv, GitExclusive, GitStage, NoDelete
  <2>2. BusyInv
    BY DEF Init, BusyInv, Begun, Live, UndoneForCause, StuckOnlyIfCancelled, IsInitializing
  <2> QED BY <2>1, <2>2
<1>2. LockInv /\ BusyInv /\ [Next]_vars => (LockInv /\ BusyInv)'
  BY ExclusiveStep, BusyStep
<1> QED BY <1>1, <1>2, PTL DEF Spec, BusyInv

-----------------------------------------------------------------------------
(***************************************************************************)
(* Requests that wait for each other.  What OneAtATime promises when a     *)
(* request arrives holds from then on: at most one initialisation and one  *)
(* delete are under way for a workspace.                                   *)
(***************************************************************************)

RunsApart ==
  /\ \A i \in Inits : run[i].pc = "idle" => run[i].ws = None
  /\ \A i, j \in Inits : Live(i) /\ Live(j) /\ run[i].ws = run[j].ws => i = j

DeletesApart ==
  /\ \A d \in Deletes : del[d].pc = "idle" => del[d].ws = None
  /\ \A d, e \in Deletes : del[d].ws = del[e].ws /\ del[d].ws # None => d = e

\* A retry that is still looking for its branch has the workspace to itself.
RetryAlone ==
  \A i \in Inits, d \in Deletes : run[i].pc = "resolving" => del[d].ws # run[i].ws

\* Nothing is under way for a workspace before it is created, and no delete once
\* it is deleted.
Bounds ==
  \A w \in Workspaces :
    /\ row[w] = "none" => /\ \A i \in Inits : run[i].ws # w
                          /\ \A d \in Deletes : del[d].ws # w
    /\ row[w] = "gone" => \A d \in Deletes : del[d].ws # w

RequestInv == TypeInv /\ RunsApart /\ DeletesApart /\ RetryAlone /\ Bounds

LEMMA InFlightLive ==
  ASSUME RequestInv, NEW w \in Workspaces
  PROVE  InFlight(w) = {i \in Inits : Live(i) /\ run[i].ws = w}
BY NoneAssumption DEF InFlight, Live, RequestInv, RunsApart

LEMMA Alone ==
  ASSUME RequestInv, NEW w \in Workspaces, InFlight(w) = {}, ~Unanswered(w)
  PROVE  /\ \A i \in Inits : Live(i) => run[i].ws # w
         /\ \A d \in Deletes : del[d].ws # w
<1>1. \A i \in Inits : Live(i) => run[i].ws # w
  BY InFlightLive
<1> QED BY <1>1 DEF Unanswered

LEMMA RequestAdvance ==
  ASSUME RequestInv, TypeInv', NEW i \in Inits, Advance(i)
  PROVE  RequestInv'
<1>1. Live(i) /\ run[i].ws \in Workspaces /\ Goes(i) /\ UNCHANGED <<row, del>>
  BY AdvanceFrame DEF RequestInv
<1>2. \A j \in Inits : /\ run'[j].ws = run[j].ws
                       /\ Live(j)' => Live(j)
                       /\ run'[j].pc = "idle" => run[j].pc = "idle"
                       /\ run'[j].pc = "resolving" => run[j].pc = "resolving"
  BY <1>1, Stages DEF Goes, Live, GitStage
<1>3. RunsApart' /\ RetryAlone'
  BY <1>1, <1>2 DEF RequestInv, RunsApart, RetryAlone
<1>4. DeletesApart' /\ Bounds'
  BY <1>1, <1>2 DEF RequestInv, DeletesApart, Bounds
<1> QED BY <1>3, <1>4 DEF RequestInv

LEMMA RequestDelete ==
  ASSUME RequestInv, TypeInv', NEW d \in Deletes, AdvanceDelete(d)
  PROVE  RequestInv'
<1> DEFINE w == del[d].ws
<1>1. /\ w \in Workspaces /\ run' = run /\ Elsewhere(w)
      /\ \A e \in Deletes \ {d} : del'[e] = del[e]
      /\ \/ Answer(d) /\ Forget(d)
         \/ Answer(d) /\ GiveBack(d)
         \/ /\ del'[d].ws = w /\ del'[d].pc # "idle" /\ row' = row
  BY DeleteFrame DEF RequestInv
<1>2. Answer(d) => del'[d] = NoDelete
  BY DEF Answer, RequestInv, TypeInv, TypeOK
<1>3. /\ \A e \in Deletes : del'[e].ws \in {None, del[e].ws}
      /\ \A e \in Deletes : del'[e].pc = "idle" => del'[e].ws = None
  BY <1>1, <1>2 DEF NoDelete, RequestInv, DeletesApart
<1>4. RunsApart' /\ DeletesApart' /\ RetryAlone'
  <2>1. RunsApart'
    BY <1>1 DEF RequestInv, RunsApart, Live
  <2>2. DeletesApart'
    BY <1>3 DEF RequestInv, DeletesApart
  <2>3. RetryAlone'
    <3>1. \A i \in Inits : run[i].pc = "resolving" => run[i].ws \in Workspaces
      BY DEF RequestInv, TypeInv, Assigned
    <3>2. None \notin Workspaces
      BY NoneAssumption
    <3> QED BY <1>1, <1>3, <3>1, <3>2 DEF RequestInv, RetryAlone
  <2> QED BY <2>1, <2>2, <2>3
<1>5. Bounds'
  <2> SUFFICES ASSUME NEW x \in Workspaces
               PROVE  /\ row'[x] = "none" => /\ \A i \in Inits : run'[i].ws # x
                                             /\ \A e \in Deletes : del'[e].ws # x
                      /\ row'[x] = "gone" => \A e \in Deletes : del'[e].ws # x
    BY DEF Bounds
  <2>1. CASE x # w
    <3>1. row'[x] = row[x]
      BY <1>1, <2>1 DEF Elsewhere
    <3> QED BY <1>1, <1>3, <3>1, NoneAssumption DEF RequestInv, Bounds
  <2>2. CASE x = w
    <3>1. row[w] \notin {"none", "gone"}
      BY <1>1 DEF RequestInv, Bounds
    <3>2. CASE row' = row
      BY <2>2, <3>1, <3>2
    <3>3. CASE GiveBack(d)
      <4>1. row'[w] \notin {"none", "gone"}
        BY <1>1, <3>1, <3>3 DEF GiveBack, RequestInv, TypeInv, TypeOK
      <4> QED BY <2>2, <4>1
    <3>4. CASE Answer(d) /\ Forget(d)
      <4>1. row'[w] = "gone"
        BY <1>1, <3>4 DEF Forget, RequestInv, TypeInv, TypeOK
      <4>2. del'[d].ws = None
        BY <1>2, <3>4 DEF NoDelete
      <4>3. \A e \in Deletes \ {d} : del'[e].ws # w
        BY <1>1, NoneAssumption DEF RequestInv, DeletesApart
      <4> QED BY <1>1, <2>2, <4>1, <4>2, <4>3, NoneAssumption
    <3> QED BY <1>1, <3>2, <3>3, <3>4
  <2> QED BY <2>1, <2>2
<1> QED BY <1>4, <1>5 DEF RequestInv

LEMMA RequestStartsDelete ==
  ASSUME OneAtATime, RequestInv, TypeInv', NEW d \in Deletes, NEW w \in Workspaces,
         Delete(d, w)
  PROVE  RequestInv'
<1>1. /\ del'[d].ws = w /\ del'[d].pc # "idle" /\ run' = run
      /\ \A e \in Deletes \ {d} : del'[e] = del[e]
      /\ row[w] \in {"present", "deleting"} /\ row'[w] = "deleting" /\ Elsewhere(w)
  BY DeleteStarts DEF RequestInv
<1>2. ~Unanswered(w)
  BY DEF Delete
<1>3. \A e \in Deletes : del[e].ws # w
  BY <1>2 DEF Unanswered
<1>4. \A i \in Inits : run[i].pc = "resolving" => run[i].ws # w
  BY <1>2 DEF Unanswered, InFlight
<1>5. RunsApart' /\ DeletesApart' /\ RetryAlone'
  <2>1. RunsApart'
    BY <1>1 DEF RequestInv, RunsApart, Live
  <2>2. DeletesApart'
    BY <1>1, <1>3 DEF RequestInv, DeletesApart
  <2>3. RetryAlone'
    BY <1>1, <1>4 DEF RequestInv, RetryAlone
  <2> QED BY <2>1, <2>2, <2>3
<1>6. Bounds'
  BY <1>1 DEF RequestInv, Bounds, Elsewhere
<1> QED BY <1>5, <1>6 DEF RequestInv

LEMMA RequestStart ==
  ASSUME OneAtATime, RequestInv, TypeInv', NEW w \in Workspaces, NEW i \in Inits,
         (\E k \in Kinds : Create(w, i, k)) \/ Retry(w, i) \/ RetryAgent(w, i)
  PROVE  /\ RequestInv'
         /\ \A j \in Inits : Live(j) => run[j].ws # w
         /\ \A d \in Deletes : del[d].ws # w
<1>1. /\ run[i].pc = "idle" /\ run'[i].ws = w /\ run'[i].pc \notin {"idle", "over"}
      /\ Elsewhere(w) /\ del' = del
      /\ \A j \in Inits \ {i} : run'[j] = run[j]
      /\ row'[w] \in {"present", "deleting"}
      /\ \/ row[w] = "none"
         \/ InFlight(w) = {} /\ ~Unanswered(w)
  BY StartFrame DEF RequestInv
<1>2. /\ \A j \in Inits : Live(j) => run[j].ws # w
      /\ \A d \in Deletes : del[d].ws # w
  BY <1>1, Alone DEF RequestInv, Bounds
<1>3. RunsApart'
  BY <1>1, <1>2 DEF RequestInv, RunsApart, Live
<1>4. DeletesApart' /\ RetryAlone'
  BY <1>1, <1>2 DEF RequestInv, DeletesApart, RetryAlone
<1>5. Bounds'
  BY <1>1 DEF RequestInv, Bounds, Elsewhere
<1> QED BY <1>2, <1>3, <1>4, <1>5 DEF RequestInv

LEMMA RequestRestart ==
  ASSUME RequestInv, Restart
  PROVE  RequestInv' /\ \A i \in Inits : ~Live(i)'
<1>1. /\ TypeInv' /\ row' = row
      /\ \A i \in Inits : /\ run'[i].pc \in {"idle", "over"} /\ run'[i].ws = run[i].ws
                          /\ run'[i].pc = "idle" <=> run[i].pc = "idle"
      /\ \A d \in Deletes : del'[d].ws = None
  BY RestartFrame DEF RequestInv, NoDelete
<1>2. \A i \in Inits : ~Live(i)'
  BY <1>1 DEF Live
<1>3. RunsApart' /\ DeletesApart' /\ RetryAlone'
  BY <1>1, <1>2 DEF RequestInv, RunsApart, DeletesApart, RetryAlone
<1>4. Bounds'
  BY <1>1, NoneAssumption DEF RequestInv, Bounds
<1> QED BY <1>1, <1>2, <1>3, <1>4 DEF RequestInv

LEMMA RequestStep ==
  ASSUME OneAtATime, RequestInv, [Next]_vars
  PROVE  RequestInv'
<1>0. TypeInv'
  BY TypesStep DEF RequestInv
<1>1. ASSUME UNCHANGED <<row, run, del>> PROVE RequestInv'
  BY <1>0, <1>1 DEF RequestInv, RunsApart, DeletesApart, RetryAlone, Bounds, Live
<1>2. ASSUME NEW w \in Workspaces, ReadyExpires(w) \/ DeleteMissing(w)
      PROVE  RequestInv'
  BY <1>1, <1>2 DEF ReadyExpires, DeleteMissing, dbVars, vars
<1>3. CASE UNCHANGED vars
  BY <1>1, <1>3 DEF vars, dbVars
<1> QED BY <1>0, <1>2, <1>3, RequestRestart, RequestAdvance, RequestDelete, RequestStartsDelete, RequestStart
        DEF Next

LEMMA RequestInvariant ==
  ASSUME OneAtATime PROVE Spec => []RequestInv
<1>1. Init => RequestInv
  BY TypesAtFirst, NoneAssumption DEF Init, RequestInv, RunsApart, DeletesApart, RetryAlone,
     Bounds, Live, NoDelete
<1> QED BY <1>1, RequestStep, PTL DEF Spec

-----------------------------------------------------------------------------
(* The done promise *)

\* The promise on file is that of the initialisation under way.
DoneFounded ==
  \A w \in Workspaces : done[w] # None => Live(done[w]) /\ run[done[w]].ws = w

\* WaitIsFounded, without InFlight.
Founded(d) ==
  \/ del[d].on \in resolved
  \/ /\ del[d].on \in Inits /\ Live(del[d].on)
     /\ run[del[d].on].ws = del[d].ws /\ done[del[d].ws] = del[d].on

WaitFounded == \A d \in Deletes : del[d].pc = "waiting" => Founded(d)

PromiseInv == DoneFounded /\ WaitFounded

LEMMA WaitFoundedMeans ==
  ASSUME RequestInv, WaitFounded
  PROVE  WaitIsFounded
<1> SUFFICES ASSUME NEW d \in Deletes, del[d].pc = "waiting", del[d].on \notin resolved
             PROVE  del[d].on \in InFlight(del[d].ws) /\ done[del[d].ws] = del[d].on
  BY DEF WaitIsFounded
<1> QED BY DEF WaitFounded, Founded, InFlight, Live

LEMMA PromiseAdvance ==
  ASSUME RequestInv, PromiseInv, NEW i \in Inits, Advance(i)
  PROVE  PromiseInv'
<1> USE DEF PromiseInv
<1>w. PICK w \in Workspaces : w = run[i].ws
  BY AdvanceFrame DEF RequestInv
<1> USE <1>w
<1>0. w # None /\ done \in [Workspaces -> Inits \cup {None}]
  BY NoneAssumption DEF RequestInv, TypeInv, TypeOK
<1>1. Live(i) /\ Goes(i) /\ Elsewhere(w) /\ del' = del
  BY AdvanceFrame DEF RequestInv
<1>2. ASSUME NEW j \in Inits, j # i
      PROVE  (Live(j)' <=> Live(j)) /\ run'[j] = run[j]
  BY <1>1, <1>2 DEF Goes, Live
<1>3. \A x \in Workspaces \ {w} : done'[x] = done[x]
  BY <1>1 DEF Elsewhere
<1>4. resolved \subseteq resolved'
  BY <1>1 DEF Goes, StartJob
<1>5. \A x \in Workspaces \ {w} : done[x] # None => done[x] \in Inits /\ done[x] # i
  BY <1>0 DEF DoneFounded
<1>6. \A d \in Deletes : del[d].pc = "waiting" => del[d].ws \in Workspaces
  BY DEF RequestInv, TypeInv, Assigned
<1>7. DoneFounded'
  <2>1. ASSUME NEW x \in Workspaces \ {w}, done'[x] # None
        PROVE  Live(done[x])' /\ run'[done'[x]].ws = x
    <3>1. PICK j \in Inits : j = done[x] /\ j # i
      BY <1>3, <1>5, <2>1
    <3>2. Live(j) /\ run[j].ws = x
      BY <2>1, <1>3, <3>1 DEF DoneFounded
    <3>3. done'[x] = j
      BY <1>3, <3>1
    <3> QED BY <1>2, <3>1, <3>2, <3>3 DEF Live
  <2>2. ASSUME done'[w] # None
        PROVE  Live(done[w])' /\ run'[done'[w]].ws = w
    <3>1. CASE run'[i].pc = "over" /\ done' = [done EXCEPT ![w] = None]
      BY <1>0, <2>2, <3>1
    <3>2. CASE run'[i].pc \in GitStage /\ done' = done
      <4>1. PICK j \in Inits : j = done[w]
        BY <1>0, <2>2, <3>2
      <4>2. Live(j) /\ run[j].ws = w
        BY <2>2, <3>2, <4>1 DEF DoneFounded
      <4>3. Live(i)' /\ run'[i].ws = w
        BY <1>1, <3>2 DEF Goes, Live, GitStage
      <4>4. Live(j)' /\ run'[j].ws = w
        BY <1>2, <4>2, <4>3
      <4> QED BY <3>2, <4>1, <4>4 DEF Live
    <3>3. CASE run'[i].pc = "queued" /\ StartJob(w, i)
      BY <1>0, <1>1, <3>3 DEF StartJob, Goes, Live
    <3> QED BY <1>1, <3>1, <3>2, <3>3 DEF Goes
  <2> QED BY <2>1, <2>2 DEF DoneFounded
<1>8. ASSUME NEW d \in Deletes, del'[d].pc = "waiting"
      PROVE  Founded(d)'
  <2>1. PICK x \in Workspaces : x = del[d].ws
    BY <1>1, <1>6, <1>8
  <2>2. Founded(d)
    BY <1>1, <1>8 DEF WaitFounded
  <2>3. CASE del[d].on \in resolved
    BY <1>1, <1>4, <2>3 DEF Founded
  <2>4. ASSUME NEW j \in Inits, j = del[d].on, Live(j), run[j].ws = x, done[x] = j
        PROVE  Founded(d)'
    <3>1. CASE x # w
      <4>1. j # i /\ done'[x] = j
        BY <1>3, <2>4, <3>1
      <4>2. Live(j)' /\ run'[j].ws = x
        BY <1>2, <2>4, <4>1
      <4> QED BY <1>1, <2>1, <2>4, <4>1, <4>2 DEF Founded, Live
    <3>2. CASE x = w
      <4>1. j = i
        BY <1>1, <2>4, <3>2 DEF RequestInv, RunsApart
      <4>2. CASE run'[i].pc = "over" /\ resolved' = resolved \cup ({done[w]} \ {None})
        BY <1>1, <2>4, <3>2, <4>2, NoneAssumption DEF Founded
      <4>3. CASE run'[i].pc \in GitStage /\ done' = done
        <5>1. Live(i)' /\ run'[i].ws = w
          BY <1>1, <4>3 DEF Goes, Live, GitStage
        <5> QED BY <1>1, <2>1, <2>4, <3>2, <4>1, <4>3, <5>1 DEF Founded, Live
      <4>4. CASE run[i].pc = "resolving"
        BY <2>1, <3>2, <4>4 DEF RequestInv, RetryAlone
      <4> QED BY <1>1, <4>2, <4>3, <4>4 DEF Goes
    <3> QED BY <3>1, <3>2
  <2> QED BY <2>1, <2>2, <2>3, <2>4 DEF Founded
<1>9. WaitFounded'
  BY <1>8 DEF WaitFounded
<1> QED BY <1>7, <1>9

\* Steps that leave the runs and the promises alone, except those of a workspace
\* that no delete is waiting for.
LEMMA PromiseFrame ==
  ASSUME RequestInv, PromiseInv, run' = run, resolved' = resolved,
         \A w \in Workspaces : done'[w] \in {None, done[w]},
         \A d \in Deletes : del'[d].pc = "waiting" =>
           \/ del'[d] = del[d] /\ done'[del[d].ws] = done[del[d].ws]
           \/ Founded(d)'
  PROVE  PromiseInv'
<1>1. DoneFounded'
  BY DEF PromiseInv, DoneFounded, Live
<1>2. ASSUME NEW d \in Deletes, del'[d] = del[d], del[d].pc = "waiting",
             done'[del[d].ws] = done[del[d].ws]
      PROVE  Founded(d)'
  <2>1. Founded(d)
    BY <1>2 DEF PromiseInv, WaitFounded
  <2> QED BY <1>2, <2>1 DEF Founded, Live
<1> QED BY <1>1, <1>2 DEF PromiseInv, WaitFounded

LEMMA PromiseDelete ==
  ASSUME RequestInv, PromiseInv, NEW d \in Deletes, AdvanceDelete(d)
  PROVE  PromiseInv'
<1> DEFINE w == del[d].ws
<1>1. /\ w \in Workspaces /\ UNCHANGED <<run, resolved>> /\ Elsewhere(w)
      /\ \A e \in Deletes \ {d} : del'[e] = del[e]
      /\ \/ Answer(d) /\ Forget(d)
         \/ Answer(d) /\ GiveBack(d)
         \/ /\ del'[d].pc \in {"killing", "queued", "removing", "branch"}
            /\ UNCHANGED <<row, jobVars>>
  BY DeleteFrame DEF RequestInv
<1>2. del'[d].pc # "waiting"
  BY <1>1 DEF Answer, NoDelete, RequestInv, TypeInv, TypeOK
<1>3. \A x \in Workspaces : done'[x] \in {None, done[x]}
  BY <1>1 DEF Elsewhere, Forget, ClearJob, GiveBack, jobVars, RequestInv, TypeInv, TypeOK
<1>4. ASSUME NEW e \in Deletes, del'[e].pc = "waiting"
      PROVE  del'[e] = del[e] /\ done'[del[e].ws] = done[del[e].ws]
  <2>1. e # d /\ del'[e] = del[e]
    BY <1>1, <1>2, <1>4
  <2>2. del[e].ws \in Workspaces
    BY <1>4, <2>1 DEF RequestInv, TypeInv, Assigned
  <2>3. del[e].ws # w
    BY <1>1, <2>1, NoneAssumption DEF RequestInv, DeletesApart
  <2> QED BY <1>1, <2>1, <2>2, <2>3 DEF Elsewhere
<1> QED BY <1>1, <1>3, <1>4, PromiseFrame

LEMMA PromiseStartsDelete ==
  ASSUME RequestInv, PromiseInv, NEW d \in Deletes, NEW w \in Workspaces, Delete(d, w)
  PROVE  PromiseInv'
<1>1. /\ del'[d].ws = w
      /\ \A e \in Deletes \ {d} : del'[e] = del[e]
      /\ del'[d].pc = "waiting" => del'[d].on = done[w] /\ done[w] # None
      /\ UNCHANGED <<done, resolved, run>>
  BY DeleteStarts DEF RequestInv
<1>2. del'[d].pc = "waiting" => Founded(d)'
  <2>1. done[w] \in Inits \cup {None}
    BY DEF RequestInv, TypeInv, TypeOK
  <2> QED BY <1>1, <2>1 DEF Founded, Live, PromiseInv, DoneFounded
<1> QED BY <1>1, <1>2, PromiseFrame

LEMMA PromiseStart ==
  ASSUME OneAtATime, RequestInv, TypeInv', PromiseInv, NEW w \in Workspaces, NEW i \in Inits,
         (\E k \in Kinds : Create(w, i, k)) \/ Retry(w, i) \/ RetryAgent(w, i)
  PROVE  PromiseInv'
<1>1. /\ run[i].pc = "idle" /\ run'[i].ws = w /\ run'[i].pc \notin {"idle", "over"}
      /\ Elsewhere(w) /\ UNCHANGED <<del, resolved>>
      /\ \A j \in Inits \ {i} : run'[j] = run[j]
      /\ StartJob(w, i) \/ done' = done
  BY StartFrame DEF RequestInv, jobVars
<1>2. \A d \in Deletes : del[d].ws # w
  BY RequestStart
<1>3. \A j \in Inits : Live(j) => j # i /\ Live(j)' /\ run'[j].ws = run[j].ws
  BY <1>1 DEF Live
<1>4. \A x \in Workspaces : done'[x] = done[x] \/ (x = w /\ done'[x] = i)
  BY <1>1 DEF StartJob, RequestInv, TypeInv, TypeOK
<1>5. Live(i)'
  BY <1>1 DEF Live
<1>6. DoneFounded'
  <2> SUFFICES ASSUME NEW x \in Workspaces, done'[x] # None
               PROVE  Live(done[x])' /\ run'[done'[x]].ws = x
    BY DEF DoneFounded
  <2>1. CASE done'[x] = done[x]
    <3>1. PICK j \in Inits : j = done[x]
      BY <2>1 DEF RequestInv, TypeInv, TypeOK
    <3>2. Live(j) /\ run[j].ws = x
      BY <2>1, <3>1 DEF PromiseInv, DoneFounded
    <3> QED BY <1>3, <2>1, <3>1, <3>2 DEF Live
  <2>2. CASE x = w /\ done'[x] = i
    BY <1>1, <1>5, <2>2 DEF Live
  <2> QED BY <1>4, <2>1, <2>2
<1>7. ASSUME NEW d \in Deletes, del'[d].pc = "waiting"
      PROVE  Founded(d)'
  <2>1. Founded(d) /\ del' = del /\ del[d].ws \in Workspaces \ {w}
    BY <1>1, <1>2, <1>7 DEF PromiseInv, WaitFounded, RequestInv, TypeInv, Assigned
  <2>2. done'[del[d].ws] = done[del[d].ws]
    BY <1>4, <2>1
  <2>3. CASE del[d].on \in resolved
    BY <1>1, <2>1, <2>3 DEF Founded
  <2>4. ASSUME NEW j \in Inits, j = del[d].on, Live(j), run[j].ws = del[d].ws, done[del[d].ws] = j
        PROVE  Founded(d)'
    BY <1>3, <2>1, <2>2, <2>4 DEF Founded, Live
  <2> QED BY <2>1, <2>3, <2>4 DEF Founded
<1> QED BY <1>6, <1>7 DEF PromiseInv, WaitFounded

LEMMA PromiseStep ==
  ASSUME OneAtATime, RequestInv, PromiseInv, [Next]_vars
  PROVE  PromiseInv'
<1>0. TypeInv'
  BY TypesStep DEF RequestInv
<1>1. ASSUME UNCHANGED <<run, del, done, resolved>> PROVE PromiseInv'
  BY <1>1, PromiseFrame
<1>2. ASSUME NEW w \in Workspaces, ReadyExpires(w) \/ DeleteMissing(w)
      PROVE  PromiseInv'
  BY <1>1, <1>2 DEF ReadyExpires, DeleteMissing, jobVars, vars
<1>3. CASE UNCHANGED vars
  BY <1>1, <1>3 DEF vars, jobVars
<1>4. CASE Restart
  <2>1. \A w \in Workspaces : done'[w] = None
    BY <1>4 DEF Restart
  <2>2. \A d \in Deletes : del'[d].pc # "waiting"
    BY <1>4, RestartFrame DEF RequestInv, NoDelete
  <2> QED BY <2>1, <2>2 DEF PromiseInv, DoneFounded, WaitFounded
<1> QED BY <1>0, <1>2, <1>3, <1>4, PromiseAdvance, PromiseDelete, PromiseStartsDelete,
           PromiseStart
        DEF Next

\* waitForInit, finalizeJob: whatever paths initialisations return on, a delete never
\* waits for a promise that nobody is left to resolve.
THEOREM WaitsEnd == OneAtATime => (Spec => []WaitIsFounded)
<1>1. SUFFICES ASSUME OneAtATime PROVE Spec => []WaitIsFounded
  OBVIOUS
<1>2. Init => PromiseInv
  BY DEF Init, PromiseInv, DoneFounded, WaitFounded, NoDelete
<1>3. RequestInv /\ PromiseInv /\ [Next]_vars => PromiseInv'
  BY <1>1, PromiseStep
<1>4. Spec => []RequestInv
  BY <1>1, RequestInvariant
<1>5. RequestInv /\ PromiseInv => WaitIsFounded
  BY WaitFoundedMeans DEF PromiseInv
<1> QED BY <1>2, <1>3, <1>4, <1>5, PTL DEF Spec

-----------------------------------------------------------------------------
(* The queue for the project's lock *)

\* Whoever has asked for the lock is in the queue, once; an initialisation before
\* the delete of the same workspace.
Queued(p) ==
  \/ p \in Inits /\ run[p].pc = "queued"
  \/ p \in Deletes /\ del[p].pc = "queued"

WaitsHere ==
  \A p \in Inits \cup Deletes :
    Queued(p) <=> \E n \in 1..Len(waiters) : waiters[n] = p

QueueInv ==
  /\ \A m, n \in 1..Len(waiters) : waiters[m] = waiters[n] => m = n
  /\ WaitsHere
  /\ \A m, n \in 1..Len(waiters) :
       \A d \in Deletes, i \in Inits :
         waiters[m] = d /\ waiters[n] = i /\ run[i].ws = del[d].ws => n < m

\* Nobody enters or leaves.
LEMMA QueueSame ==
  ASSUME QueueInv, waiters' = waiters,
         \A p \in Inits \cup Deletes : Queued(p)' <=> Queued(p),
         \A i \in Inits : Queued(i) => run'[i].ws = run[i].ws,
         \A d \in Deletes : Queued(d) => del'[d].ws = del[d].ws
  PROVE  QueueInv'
<1>1. ASSUME NEW m \in 1..Len(waiters), NEW n \in 1..Len(waiters),
             NEW d \in Deletes, NEW i \in Inits,
             waiters[m] = d, waiters[n] = i, run'[i].ws = del'[d].ws
      PROVE  n < m
  <2>1. Queued(d) /\ Queued(i)
    BY <1>1 DEF QueueInv, WaitsHere
  <2> QED BY <1>1, <2>1 DEF QueueInv, WaitsHere
<1> HIDE DEF Queued
<1> QED BY <1>1 DEF QueueInv, WaitsHere

\* p comes last; if it is an initialisation, no delete of its workspace is there.
LEMMA QueueJoined ==
  ASSUME TypeInv, QueueInv, NEW p \in Inits \cup Deletes, waiters' = Append(waiters, p),
         ~Queued(p), Queued(p)',
         \A q \in (Inits \cup Deletes) \ {p} : Queued(q)' <=> Queued(q),
         \A i \in Inits \ {p} : Queued(i) => run'[i].ws = run[i].ws,
         \A d \in Deletes \ {p} : Queued(d) => del'[d].ws = del[d].ws,
         p \in Inits => \A d \in Deletes : del'[d].ws # run'[p].ws
  PROVE  QueueInv'
<1> DEFINE last == Len(waiters) + 1
<1>1. /\ waiters \in Seq(Inits \cup Deletes) /\ Len(waiters) \in Nat
      /\ Len(waiters') = last /\ waiters'[last] = p
      /\ \A n \in 1..Len(waiters) : waiters'[n] = waiters[n]
  BY DEF TypeInv, TypeOK
<1>2. \A n \in 1..Len(waiters') : n = last \/ n \in 1..Len(waiters)
  BY <1>1
<1>3. \A n \in 1..Len(waiters) : waiters[n] # p /\ n < last
  BY <1>1 DEF QueueInv, WaitsHere
<1> HIDE DEF last
<1>4. ASSUME NEW m \in 1..Len(waiters'), NEW n \in 1..Len(waiters'),
             waiters'[m] = waiters'[n]
      PROVE  m = n
  <2>1. CASE m = last \/ n = last
    BY <1>1, <1>2, <1>3, <1>4, <2>1
  <2>2. CASE m \in 1..Len(waiters) /\ n \in 1..Len(waiters)
    BY <1>1, <1>4, <2>2 DEF QueueInv, WaitsHere
  <2> QED BY <1>2, <2>1, <2>2
<1>5. ASSUME NEW q \in Inits \cup Deletes
      PROVE  Queued(q)' <=> \E n \in 1..Len(waiters') : waiters'[n] = q
  <2>1. last \in 1..Len(waiters')
    BY <1>1
  <2>2. 1..Len(waiters) \subseteq 1..Len(waiters')
    BY <1>1 DEF last
  <2>3. CASE q = p
    BY <1>1, <2>1, <2>3
  <2>4. CASE q # p
    <3>1. Queued(q) <=> \E n \in 1..Len(waiters) : waiters[n] = q
      BY DEF QueueInv, WaitsHere
    <3> QED BY <1>1, <1>2, <2>2, <2>4, <3>1
  <2> QED BY <2>3, <2>4
<1>6. ASSUME NEW m \in 1..Len(waiters'), NEW n \in 1..Len(waiters'),
             NEW d \in Deletes, NEW i \in Inits,
             waiters'[m] = d, waiters'[n] = i, run'[i].ws = del'[d].ws
      PROVE  n < m
  <2>1. n # last
    BY <1>1, <1>6
  <2>2. n \in 1..Len(waiters) /\ waiters[n] = i /\ i # p
    BY <1>1, <1>2, <1>3, <1>6, <2>1
  <2>3. CASE m = last
    BY <1>3, <2>2, <2>3
  <2>4. CASE m # last
    <3>1. m \in 1..Len(waiters) /\ waiters[m] = d /\ d # p
      BY <1>1, <1>2, <1>3, <1>6, <2>4
    <3>2. Queued(i) /\ Queued(d)
      BY <2>2, <3>1 DEF QueueInv, WaitsHere
    <3>3. run[i].ws = del[d].ws
      BY <1>6, <2>2, <3>1, <3>2
    <3> QED BY <2>2, <3>1, <3>3 DEF QueueInv, WaitsHere
  <2> QED BY <2>3, <2>4
<1>7. WaitsHere'
  BY <1>5 DEF WaitsHere
<1> QED BY <1>4, <1>6, <1>7 DEF QueueInv

\* The first one has the lock.
LEMMA QueueLeft ==
  ASSUME TypeInv, QueueInv, NEW p \in Inits \cup Deletes, Resumed(p), ~Queued(p)',
         \A q \in (Inits \cup Deletes) \ {p} : Queued(q)' <=> Queued(q),
         \A i \in Inits \ {p} : Queued(i) => run'[i].ws = run[i].ws,
         \A d \in Deletes \ {p} : Queued(d) => del'[d].ws = del[d].ws
  PROVE  QueueInv'
<1>1. /\ waiters \in Seq(Inits \cup Deletes) /\ Len(waiters) \in Nat /\ Len(waiters) # 0
      /\ p = waiters[1] /\ waiters' = Tail(waiters)
  BY DEF TypeInv, TypeOK, Resumed
<1>2. /\ Len(waiters') = Len(waiters) - 1
      /\ \A n \in 1..Len(waiters') : waiters'[n] = waiters[n + 1] /\ n + 1 \in 1..Len(waiters)
  BY <1>1
<1>3. \A n \in 1..Len(waiters') : waiters'[n] # p
  <2> SUFFICES ASSUME NEW n \in 1..Len(waiters'), waiters'[n] = p
               PROVE  FALSE
    OBVIOUS
  <2>1. n + 1 \in 1..Len(waiters) /\ 1 \in 1..Len(waiters) /\ waiters[n + 1] = waiters[1]
    BY <1>1, <1>2
  <2>2. n + 1 = 1
    BY <2>1 DEF QueueInv, WaitsHere
  <2> QED BY <1>1, <1>2, <2>2
<1>4. ASSUME NEW m \in 1..Len(waiters'), NEW n \in 1..Len(waiters'),
             waiters'[m] = waiters'[n]
      PROVE  m = n
  <2>1. m + 1 = n + 1
    BY <1>2, <1>4 DEF QueueInv, WaitsHere
  <2> QED BY <2>1, <1>1, <1>2
<1>5. ASSUME NEW q \in Inits \cup Deletes
      PROVE  Queued(q)' <=> \E n \in 1..Len(waiters') : waiters'[n] = q
  <2>1. CASE q = p
    BY <1>3, <2>1
  <2>2. CASE q # p
    <3>1. Queued(q) <=> \E n \in 1..Len(waiters) : waiters[n] = q
      BY DEF QueueInv, WaitsHere
    <3>2. ASSUME NEW n \in 1..Len(waiters), waiters[n] = q
          PROVE  \E k \in 1..Len(waiters') : waiters'[k] = q
      <4>1. n # 1
        BY <1>1, <2>2, <3>2
      <4>2. n - 1 \in 1..Len(waiters') /\ (n - 1) + 1 = n
        BY <1>1, <1>2, <4>1
      <4> QED BY <1>2, <3>2, <4>2
    <3>3. (\E k \in 1..Len(waiters') : waiters'[k] = q)
            => \E n \in 1..Len(waiters) : waiters[n] = q
      BY <1>2
    <3> QED BY <2>2, <3>1, <3>2, <3>3
  <2> QED BY <2>1, <2>2
<1>6. ASSUME NEW m \in 1..Len(waiters'), NEW n \in 1..Len(waiters'),
             NEW d \in Deletes, NEW i \in Inits,
             waiters'[m] = d, waiters'[n] = i, run'[i].ws = del'[d].ws
      PROVE  n < m
  <2>1. d # p /\ i # p
    BY <1>3, <1>6
  <2>2. /\ m + 1 \in 1..Len(waiters) /\ waiters[m + 1] = d
        /\ n + 1 \in 1..Len(waiters) /\ waiters[n + 1] = i
    BY <1>2, <1>6
  <2>3. Queued(i) /\ Queued(d)
    BY <2>2 DEF QueueInv, WaitsHere
  <2>4. run[i].ws = del[d].ws
    BY <1>6, <2>1, <2>3
  <2>5. n + 1 < m + 1
    BY <2>2, <2>4 DEF QueueInv, WaitsHere
  <2> QED BY <1>1, <1>2, <2>5
<1>7. WaitsHere'
  BY <1>5 DEF WaitsHere
<1> QED BY <1>4, <1>6, <1>7 DEF QueueInv

\* The queue, seen from an initialisation that goes on.
LEMMA AdvanceQueue ==
  ASSUME TypeInv, NEW i \in Inits, Advance(i)
  PROVE  \/ /\ run[i].pc = "resolving" /\ run'[i].pc = "queued"
            /\ waiters' = Append(waiters, i)
         \/ run[i].pc = "queued" /\ run'[i].pc # "queued" /\ Resumed(i)
         \/ run[i].pc # "queued" /\ run'[i].pc # "queued" /\ waiters' = waiters
<1>1. \A stage : To(i, stage) => run'[i].pc = stage
  BY ToFrame
<1>2. Return(i) \/ Catch(i) => run'[i].pc # "queued"
  BY <1>1 DEF Return, Catch
<1>3. CASE RetryStarts(i)
  BY <1>1, <1>3 DEF RetryStarts, To
<1>4. CASE Locked(i)
  BY <1>1, <1>2, <1>4 DEF Locked
<1>5. CASE ConfigRead(i)
  BY <1>1, <1>5 DEF ConfigRead, lockVars
<1>6. CASE ReadDone(i)
  <2>1. run[i].pc # "queued" /\ Following[run[i].pc] # "queued"
    BY <1>6 DEF ReadDone, Following
  <2> QED BY <1>1, <1>2, <1>6, <2>1 DEF ReadDone
<1>7. CASE NoStartPoint(i) \/ ReadThrows(i) \/ CreateFails(i) \/ CreatedThenThrows(i)
  <2>1. run[i].pc # "queued"
    BY <1>7, Stages DEF NoStartPoint, ReadThrows, CreateFails, CreatedThenThrows,
       HasWorktree, Following
  <2> QED BY <1>2, <1>7, <2>1 DEF NoStartPoint, ReadThrows, CreateFails, CreatedThenThrows
<1>8. CASE Created(i)
  BY <1>1, <1>2, <1>8 DEF Created, HasWorktree
<1>9. CASE Undone(i) \/ Cleaned(i)
  BY <1>2, <1>9 DEF Undone, Cleaned
<1>10. CASE AgentReady(i) \/ AgentFails(i)
  BY <1>1, <1>10 DEF AgentReady, AgentFails, lockVars
<1> QED BY <1>3, <1>4, <1>5, <1>6, <1>7, <1>8, <1>9, <1>10 DEF Advance

LEMMA DeleteQueue ==
  ASSUME TypeInv, NEW d \in Deletes, AdvanceDelete(d)
  PROVE  \/ /\ del[d].pc = "killing" /\ del'[d].pc = "queued"
            /\ waiters' = Append(waiters, d)
         \/ del[d].pc = "queued" /\ del'[d].pc = "removing" /\ Resumed(d)
         \/ del[d].pc # "queued" /\ del'[d].pc # "queued" /\ waiters' = waiters
<1> USE DEF TypeInv, TypeOK
<1>1. \A stage : DelTo(d, stage) => del'[d].pc = stage
  BY DEF DelTo, DelRec
<1>2. Answer(d) => del'[d].pc = "idle"
  BY DEF Answer, NoDelete
<1>3. CASE WaitEnds(d)
  <2>1. del'[d].pc = "killing"
    BY <1>3 DEF WaitEnds, DelRec
  <2> QED BY <1>3, <2>1 DEF WaitEnds, lockVars
<1>4. CASE KilledAndTornDown(d) \/ DeleteLocks(d)
  BY <1>1, <1>4 DEF KilledAndTornDown, DeleteLocks
<1>5. CASE Removed(d)
  BY <1>1, <1>5 DEF Removed
<1>6. CASE RemoveFails(d) \/ TeardownFails(d) \/ AgentRemoveFails(d)
  BY <1>2, <1>6 DEF RemoveFails, TeardownFails, AgentRemoveFails, GiveBack
<1>7. CASE Deleted(d) \/ AgentDeleted(d)
  BY <1>2, <1>7 DEF Deleted, AgentDeleted, Forget, lockVars
<1> QED BY <1>3, <1>4, <1>5, <1>6, <1>7 DEF AdvanceDelete

LEMMA QueueStep ==
  ASSUME OneAtATime, RequestInv, QueueInv, [Next]_vars
  PROVE  QueueInv'
<1>0. TypeInv /\ TypeInv' /\ Inits \cap Deletes = {}
  BY ActorsAssumption, TypesStep DEF RequestInv
<1>1. ASSUME NEW i \in Inits, Advance(i)
      PROVE  QueueInv'
  <2>1. /\ run'[i].ws = run[i].ws /\ \A j \in Inits \ {i} : run'[j] = run[j]
        /\ del' = del
    BY <1>0, <1>1, AdvanceFrame DEF Goes
  <2>2. \A q \in (Inits \cup Deletes) \ {i} : Queued(q)' <=> Queued(q)
    BY <1>0, <2>1 DEF Queued
  <2>3. (Queued(i) <=> run[i].pc = "queued") /\ (Queued(i)' <=> run'[i].pc = "queued")
    BY <1>0 DEF Queued
  <2>4. CASE run[i].pc = "resolving" /\ run'[i].pc = "queued" /\ waiters' = Append(waiters, i)
    <3>1. \A d \in Deletes : del'[d].ws # run'[i].ws
      BY <2>1, <2>4 DEF RequestInv, RetryAlone
    <3> QED BY <1>0, <2>1, <2>2, <2>3, <2>4, <3>1, QueueJoined
  <2>5. CASE run[i].pc = "queued" /\ run'[i].pc # "queued" /\ Resumed(i)
    BY <1>0, <2>1, <2>2, <2>3, <2>5, QueueLeft
  <2>6. CASE run[i].pc # "queued" /\ run'[i].pc # "queued" /\ waiters' = waiters
    <3>1. \A q \in Inits \cup Deletes : Queued(q)' <=> Queued(q)
      BY <2>2, <2>3, <2>6
    <3> QED BY <2>1, <2>6, <3>1, QueueSame
  <2> QED BY <1>0, <1>1, <2>4, <2>5, <2>6, AdvanceQueue
<1>2. ASSUME NEW d \in Deletes, AdvanceDelete(d)
      PROVE  QueueInv'
  <2>1. /\ \A e \in Deletes \ {d} : del'[e] = del[e]
        /\ run' = run
    BY <1>0, <1>2, DeleteFrame
  <2>2. \A q \in (Inits \cup Deletes) \ {d} : Queued(q)' <=> Queued(q)
    BY <1>0, <2>1 DEF Queued
  <2>3. (Queued(d) <=> del[d].pc = "queued") /\ (Queued(d)' <=> del'[d].pc = "queued")
    BY <1>0 DEF Queued
  <2>4. CASE del[d].pc = "killing" /\ del'[d].pc = "queued" /\ waiters' = Append(waiters, d)
    BY <1>0, <2>1, <2>2, <2>3, <2>4, QueueJoined
  <2>5. CASE del[d].pc = "queued" /\ del'[d].pc = "removing" /\ Resumed(d)
    BY <1>0, <2>1, <2>2, <2>3, <2>5, QueueLeft
  <2>6. CASE del[d].pc # "queued" /\ del'[d].pc # "queued" /\ waiters' = waiters
    <3>1. \A q \in Inits \cup Deletes : Queued(q)' <=> Queued(q)
      BY <2>2, <2>3, <2>6
    <3> QED BY <2>1, <2>3, <2>6, <3>1, QueueSame
  <2> QED BY <1>0, <1>2, <2>4, <2>5, <2>6, DeleteQueue
<1>3. ASSUME NEW w \in Workspaces, NEW i \in Inits,
             (\E k \in Kinds : Create(w, i, k)) \/ Retry(w, i) \/ RetryAgent(w, i)
      PROVE  QueueInv'
  <2>1. /\ run[i].pc = "idle" /\ run'[i].ws = w /\ del' = del
        /\ \A j \in Inits \ {i} : run'[j] = run[j]
    BY <1>0, <1>3, StartFrame
  <2>2. \A d \in Deletes : del[d].ws # w
    BY <1>0, <1>3, RequestStart
  <2>3. \/ run'[i].pc = "queued" /\ waiters' = Append(waiters, i)
        \/ run'[i].pc # "queued" /\ waiters' = waiters
    BY <1>0, <1>3 DEF Create, Retry, RetryAgent, lockVars, TypeInv, TypeOK
  <2>4. \A q \in (Inits \cup Deletes) \ {i} : Queued(q)' <=> Queued(q)
    BY <1>0, <2>1 DEF Queued
  <2>5. ~Queued(i) /\ (Queued(i)' <=> run'[i].pc = "queued")
    BY <1>0, <2>1 DEF Queued
  <2>6. CASE run'[i].pc = "queued" /\ waiters' = Append(waiters, i)
    BY <1>0, <2>1, <2>2, <2>4, <2>5, <2>6, QueueJoined
  <2>7. CASE run'[i].pc # "queued" /\ waiters' = waiters
    <3>1. \A q \in Inits \cup Deletes : Queued(q)' <=> Queued(q)
      BY <2>4, <2>5, <2>7
    <3> QED BY <2>1, <2>5, <2>7, <3>1, QueueSame
  <2> QED BY <2>3, <2>6, <2>7
<1>4. ASSUME NEW d \in Deletes, NEW w \in Workspaces, Delete(d, w)
      PROVE  QueueInv'
  <2>1. /\ del[d].pc = "idle" /\ del'[d].pc \in {"waiting", "killing"}
        /\ \A e \in Deletes \ {d} : del'[e] = del[e]
        /\ run' = run /\ waiters' = waiters
    BY <1>0, <1>4, DeleteStarts DEF lockVars
  <2>2. \A q \in Inits \cup Deletes : Queued(q)' <=> Queued(q)
    BY <1>0, <2>1 DEF Queued
  <2>3. ~Queued(d)
    BY <1>0, <2>1 DEF Queued
  <2> QED BY <2>1, <2>2, <2>3, QueueSame
<1>5. ASSUME UNCHANGED <<run, del, waiters>> PROVE QueueInv'
  <2>1. \A q \in Inits \cup Deletes : Queued(q)' <=> Queued(q)
    BY <1>5 DEF Queued
  <2> QED BY <1>5, <2>1, QueueSame
<1>6. CASE UNCHANGED vars \/ \E w \in Workspaces : ReadyExpires(w) \/ DeleteMissing(w)
  BY <1>5, <1>6 DEF ReadyExpires, DeleteMissing, vars, lockVars
<1>7. CASE Restart
  <2>1. Len(waiters') = 0
    BY <1>7 DEF Restart
  <2>2. \A i \in Inits : run'[i].pc # "queued"
    BY <1>0, <1>7, RestartFrame
  <2>3. \A d \in Deletes : del'[d].pc # "queued"
    BY <1>0, <1>7, RestartFrame DEF NoDelete
  <2>4. \A p \in Inits \cup Deletes : ~Queued(p)'
    BY <2>2, <2>3 DEF Queued
  <2> QED BY <2>1, <2>4 DEF QueueInv, WaitsHere
<1> QED BY <1>1, <1>2, <1>3, <1>4, <1>6, <1>7 DEF Next

-----------------------------------------------------------------------------
(* What a delete leaves behind *)

\* An initialisation without the lock is an agent's, and a delete with the lock is
\* of none.
Sorts ==
  /\ \A i \in Inits : run[i].pc = "repo" => kind[run[i].ws] = "agent"
  /\ \A d \in Deletes :
       del[d].pc \in {"queued", "removing", "branch"} => kind[del[d].ws] # "agent"

NoRunOf(w) == \A i \in Inits : Live(i) => run[i].ws # w

\* Once a delete has the lock, no initialisation of its workspace is under way.
Removal ==
  \A d \in Deletes :
    /\ del[d].pc \in {"removing", "branch"} => NoRunOf(del[d].ws)
    /\ del[d].pc = "branch" => disk[del[d].ws] = None

Gone ==
  \A w \in Workspaces :
    row[w] = "gone" /\ kind[w] # "agent" => NoRunOf(w) /\ disk[w] = None

LeftInv == Sorts /\ Removal /\ Gone

\* The initialisations of a workspace have had the lock before its delete gets it.
LEMMA DeleteComesLast ==
  ASSUME LockInv, RequestInv, QueueInv, LeftInv, NEW d \in Deletes, DeleteLocks(d)
  PROVE  NoRunOf(del[d].ws)
<1> SUFFICES ASSUME NEW i \in Inits, Live(i), run[i].ws = del[d].ws
             PROVE  FALSE
  BY DEF NoRunOf
<1>1. run[i].pc \in {"resolving", "queued", "repo"} \cup GitStage
  BY DEF Live, RunStage, RunRec, RequestInv, TypeInv, TypeOK
<1>2. del[d].pc = "queued" /\ lock = None /\ waiters # << >> /\ waiters[1] = d
  BY DEF DeleteLocks, Resumed, RequestInv, TypeInv, TypeOK
<1>3. CASE run[i].pc = "resolving"
  BY <1>3 DEF RequestInv, RetryAlone
<1>4. CASE run[i].pc = "queued"
  <2>1. PICK n \in 1..Len(waiters) : waiters[n] = i
    BY <1>4 DEF QueueInv, WaitsHere, Queued
  <2>2. 1 \in 1..Len(waiters)
    BY <1>2 DEF RequestInv, TypeInv, TypeOK
  <2>3. n < 1
    BY <1>2, <2>1, <2>2 DEF QueueInv
  <2> QED BY <2>3
<1>5. CASE run[i].pc = "repo"
  BY <1>2, <1>5 DEF LeftInv, Sorts
<1>6. CASE run[i].pc \in GitStage
  BY <1>2, <1>6, NoneAssumption DEF LockInv, GitExclusive
<1> QED BY <1>1, <1>3, <1>4, <1>5, <1>6

LEMMA LeftAdvance ==
  ASSUME RequestInv, LeftInv, NEW i \in Inits, Advance(i)
  PROVE  LeftInv'
<1>0. PICK w \in Workspaces : w = run[i].ws
  BY AdvanceFrame DEF RequestInv
<1>1. Goes(i) /\ Elsewhere(w) /\ Live(i) /\ UNCHANGED <<row, kind, del>>
  BY <1>0, AdvanceFrame DEF RequestInv
<1>2. \A j \in Inits : /\ run'[j].ws = run[j].ws
                       /\ Live(j)' => Live(j)
                       /\ run'[j].pc = "repo" => run[j].pc = "repo"
  BY <1>1, Stages DEF Goes, Live, GitStage
<1>3. \A x : NoRunOf(x) => NoRunOf(x)' /\ x # w
  BY <1>0, <1>1, <1>2 DEF NoRunOf
<1>4. Sorts'
  BY <1>1, <1>2 DEF LeftInv, Sorts
<1>5. Removal'
  <2>1. \A d \in Deletes : del[d].pc = "branch" => del[d].ws \in Workspaces \ {w}
    BY <1>3 DEF RequestInv, TypeInv, Assigned, LeftInv, Removal
  <2> QED BY <1>1, <1>3, <2>1 DEF LeftInv, Removal, Elsewhere
<1>6. Gone'
  BY <1>1, <1>3 DEF LeftInv, Gone, Elsewhere
<1> QED BY <1>4, <1>5, <1>6 DEF LeftInv

\* What is left once delete d has taken a step.
LEMMA DeleteLeaves ==
  ASSUME LockInv, RequestInv, QueueInv, LeftInv, NEW d \in Deletes, NEW w \in Workspaces,
         w = del[d].ws, AdvanceDelete(d)
  PROVE  /\ del'[d].pc \in {"queued", "removing", "branch"} => kind[w] # "agent"
         /\ del'[d].pc \in {"removing", "branch"} => NoRunOf(w)
         /\ del'[d].pc = "branch" => disk'[w] = None
         /\ del'[d].pc # "idle" => del'[d].ws = w
         /\ row'[w] = "gone" /\ kind[w] # "agent" => NoRunOf(w) /\ disk'[w] = None
<1> USE DEF RequestInv, TypeInv, TypeOK
<1>0. row[w] # "gone"
  BY DEF Bounds
<1>1. \A stage : DelTo(d, stage) => del'[d].pc = stage /\ del'[d].ws = w
  BY DEF DelTo, DelRec
<1>2. GiveBack(d) => del'[d].pc = "idle" /\ row'[w] # "gone"
  BY <1>0 DEF GiveBack, Answer, NoDelete
<1>3. Forget(d) => del'[d].pc = "idle"
  BY DEF Forget, Answer, NoDelete
<1>4. CASE WaitEnds(d)
  <2>1. del'[d].pc = "killing" /\ del'[d].ws = w
    BY <1>4 DEF WaitEnds, DelRec
  <2> QED BY <1>0, <1>4, <2>1 DEF WaitEnds, dbVars
<1>5. CASE KilledAndTornDown(d)
  BY <1>0, <1>1, <1>5 DEF KilledAndTornDown, dbVars
<1>6. CASE DeleteLocks(d)
  <2>1. NoRunOf(w)
    BY <1>6, DeleteComesLast
  <2> QED BY <1>0, <1>1, <1>6, <2>1 DEF DeleteLocks, dbVars, LeftInv, Sorts
<1>7. CASE Removed(d)
  <2>1. disk'[w] = None
    BY <1>7 DEF Removed
  <2> QED BY <1>0, <1>1, <1>7, <2>1 DEF Removed, dbVars, LeftInv, Sorts, Removal
<1>8. CASE RemoveFails(d) \/ TeardownFails(d) \/ AgentRemoveFails(d)
  BY <1>2, <1>8 DEF RemoveFails, TeardownFails, AgentRemoveFails
<1>9. CASE Deleted(d)
  <2>1. NoRunOf(w) /\ disk[w] = None /\ disk' = disk
    BY <1>9 DEF Deleted, LeftInv, Removal
  <2> QED BY <1>3, <1>9, <2>1 DEF Deleted
<1>10. CASE AgentDeleted(d)
  BY <1>3, <1>10 DEF AgentDeleted
<1> QED BY <1>4, <1>5, <1>6, <1>7, <1>8, <1>9, <1>10 DEF AdvanceDelete

LEMMA LeftDelete ==
  ASSUME LockInv, RequestInv, QueueInv, LeftInv, NEW d \in Deletes, AdvanceDelete(d)
  PROVE  LeftInv'
<1>0. PICK w \in Workspaces : w = del[d].ws
  BY DeleteFrame DEF RequestInv
<1>1. /\ \A e \in Deletes \ {d} : del'[e] = del[e]
      /\ UNCHANGED <<run, kind>> /\ Elsewhere(w)
  BY <1>0, DeleteFrame DEF RequestInv
<1>2. /\ del'[d].pc \in {"queued", "removing", "branch"} => kind[w] # "agent"
      /\ del'[d].pc \in {"removing", "branch"} => NoRunOf(w)
      /\ del'[d].pc = "branch" => disk'[w] = None
      /\ del'[d].pc # "idle" => del'[d].ws = w
      /\ row'[w] = "gone" /\ kind[w] # "agent" => NoRunOf(w) /\ disk'[w] = None
  BY <1>0, DeleteLeaves
<1>3. \A x : NoRunOf(x) => NoRunOf(x)'
  BY <1>1 DEF NoRunOf, Live
<1>4. \A e \in Deletes \ {d} : del[e].pc # "idle" => del[e].ws \in Workspaces \ {w}
  BY <1>0, NoneAssumption DEF RequestInv, TypeInv, Assigned, DeletesApart
<1>5. Sorts'
  BY <1>1, <1>2 DEF LeftInv, Sorts
<1>6. Removal'
  <2> SUFFICES ASSUME NEW e \in Deletes
               PROVE  /\ del'[e].pc \in {"removing", "branch"} => NoRunOf(del[e].ws)'
                      /\ del'[e].pc = "branch" => disk'[del'[e].ws] = None
    BY DEF Removal
  <2>1. CASE e = d
    BY <1>2, <1>3, <2>1
  <2>2. CASE e # d
    BY <1>1, <1>3, <1>4, <2>2 DEF LeftInv, Removal, Elsewhere
  <2> QED BY <2>1, <2>2
<1>7. Gone'
  BY <1>1, <1>2, <1>3 DEF LeftInv, Gone, Elsewhere
<1> QED BY <1>5, <1>6, <1>7 DEF LeftInv

LEMMA LeftStart ==
  ASSUME OneAtATime, RequestInv, TypeInv', LeftInv, NEW w \in Workspaces, NEW i \in Inits,
         (\E k \in Kinds : Create(w, i, k)) \/ Retry(w, i) \/ RetryAgent(w, i)
  PROVE  LeftInv'
<1>1. /\ run'[i].ws = w /\ Elsewhere(w) /\ del' = del
      /\ \A j \in Inits \ {i} : run'[j] = run[j]
      /\ row'[w] \in {"present", "deleting"}
      /\ run'[i].pc = "repo" => kind'[w] = "agent"
  BY StartFrame DEF RequestInv
<1>2. NoRunOf(w) /\ \A d \in Deletes : del[d].ws # w
  BY RequestStart DEF NoRunOf
<1>3. \A x : NoRunOf(x) /\ x # w => NoRunOf(x)'
  BY <1>1 DEF NoRunOf, Live
<1>4. Sorts'
  <2>1. ASSUME NEW j \in Inits, run'[j].pc = "repo" PROVE kind'[run'[j].ws] = "agent"
    <3>1. CASE j = i
      BY <1>1, <2>1, <3>1
    <3>2. CASE j # i
      <4>1. run'[j] = run[j] /\ run[j].ws \in Workspaces \ {w}
        BY <1>1, <1>2, <2>1, <3>2 DEF NoRunOf, Live, RequestInv, TypeInv, Assigned
      <4> QED BY <1>1, <2>1, <4>1 DEF Elsewhere, LeftInv, Sorts
    <3> QED BY <3>1, <3>2
  <2>2. ASSUME NEW d \in Deletes, del'[d].pc \in {"queued", "removing", "branch"}
        PROVE  kind'[del'[d].ws] # "agent"
    <3>1. del[d].ws \in Workspaces \ {w}
      BY <1>1, <1>2, <2>2 DEF RequestInv, TypeInv, Assigned
    <3> QED BY <1>1, <2>2, <3>1 DEF Elsewhere, LeftInv, Sorts
  <2> QED BY <2>1, <2>2 DEF Sorts
<1>5. Removal'
  <2>1. \A d \in Deletes : del[d].pc = "branch" => del[d].ws \in Workspaces \ {w}
    BY <1>2 DEF RequestInv, TypeInv, Assigned
  <2> QED BY <1>1, <1>2, <1>3, <2>1 DEF LeftInv, Removal, Elsewhere
<1>6. Gone'
  BY <1>1, <1>3 DEF LeftInv, Gone, Elsewhere
<1> QED BY <1>4, <1>5, <1>6 DEF LeftInv

LEMMA LeftStep ==
  ASSUME OneAtATime, LockInv, RequestInv, QueueInv, LeftInv, [Next]_vars
  PROVE  LeftInv'
<1>0. TypeInv'
  BY TypesStep DEF RequestInv
<1>1. ASSUME NEW d \in Deletes, NEW w \in Workspaces, Delete(d, w)
      PROVE  LeftInv'
  <2>1. /\ del'[d].pc \in {"waiting", "killing"} /\ row'[w] = "deleting"
        /\ \A e \in Deletes \ {d} : del'[e] = del[e]
        /\ UNCHANGED <<run, kind, disk>> /\ Elsewhere(w)
    BY <1>1, DeleteStarts DEF RequestInv
  <2>2. \A x : NoRunOf(x)' <=> NoRunOf(x)
    BY <2>1 DEF NoRunOf, Live
  <2>3. Sorts'
    BY <2>1 DEF LeftInv, Sorts
  <2>4. Removal'
    BY <2>1, <2>2 DEF LeftInv, Removal
  <2>5. Gone'
    BY <2>1, <2>2 DEF LeftInv, Gone, Elsewhere
  <2> QED BY <2>3, <2>4, <2>5 DEF LeftInv
<1>2. ASSUME UNCHANGED <<row, kind, disk, run, del>> PROVE LeftInv'
  BY <1>2 DEF LeftInv, Sorts, Removal, Gone, NoRunOf, Live
<1>3. CASE UNCHANGED vars \/ \E w \in Workspaces : ReadyExpires(w) \/ DeleteMissing(w)
  BY <1>2, <1>3 DEF ReadyExpires, DeleteMissing, vars, dbVars
<1>4. CASE Restart
  <2>1. /\ \A i \in Inits : ~Live(i)' /\ run'[i].pc # "repo"
        /\ \A d \in Deletes : del'[d].pc = "idle"
        /\ UNCHANGED <<row, kind>>
    BY <1>4, RequestRestart, RestartFrame DEF RequestInv, NoDelete
  <2>2. ASSUME NEW w \in Workspaces, row[w] = "gone", kind[w] # "agent"
        PROVE  disk'[w] = None
    <3>1. NoRunOf(w) /\ disk[w] = None
      BY <2>2 DEF LeftInv, Gone
    <3>2. InFlight(w) = {}
      BY <3>1, InFlightLive DEF NoRunOf
    <3>3. disk'[w] \in Cut(w)
      BY <1>4 DEF Restart
    <3> QED BY <3>1, <3>2, <3>3 DEF Cut
  <2> QED BY <2>1, <2>2 DEF LeftInv, Sorts, Removal, Gone, NoRunOf
<1> QED BY <1>0, <1>1, <1>3, <1>4, LeftAdvance, LeftDelete, LeftStart DEF Next

\* delete: of a worktree workspace that is deleted nothing is left on disk, also when
\* its delete has given up waiting for an initialisation: that one had queued for
\* the project's lock first, and no other is started.
THEOREM DeleteIsComplete == OneAtATime => (Spec => []NothingLeftBehind)
<1>1. SUFFICES ASSUME OneAtATime PROVE Spec => []NothingLeftBehind
  OBVIOUS
<1>2. Init => LockInv /\ QueueInv /\ LeftInv
  <2> SUFFICES ASSUME Init PROVE LockInv /\ QueueInv /\ LeftInv
    OBVIOUS
  <2>1. LockInv
    BY TypesAtFirst DEF Init, LockInv, GitExclusive, GitStage, NoDelete
  <2>2. QueueInv
    <3>1. Len(waiters) = 0 /\ \A p \in Inits \cup Deletes : ~Queued(p)
      BY DEF Init, Queued, NoDelete
    <3> QED BY <3>1 DEF QueueInv, WaitsHere
  <2>3. LeftInv
    BY DEF Init, LeftInv, Sorts, Removal, Gone, NoDelete
  <2> QED BY <2>1, <2>2, <2>3
<1>3. LockInv /\ RequestInv /\ QueueInv /\ LeftInv /\ [Next]_vars
        => LockInv' /\ QueueInv' /\ LeftInv'
  BY <1>1, ExclusiveStep, QueueStep, LeftStep
<1>4. Spec => []RequestInv
  BY <1>1, RequestInvariant
<1>5. RequestInv /\ LeftInv => NothingLeftBehind
  BY DEF LeftInv, Gone, NothingLeftBehind
<1> QED BY <1>2, <1>3, <1>4, <1>5, PTL DEF Spec

-----------------------------------------------------------------------------
(* Whose worktree is cleaned up *)

BeforeWorktree == {"queued", "config", "syncing", "verifying", "fetching", "creating"}

\* An initialisation that has no worktree yet is not marked as having made one; the
\* worktree of an adoption, and one about to be removed, is the initialisation's own.
OwnInv ==
  /\ \A i \in Inits : run[i].pc \in BeforeWorktree => run[i].ws \notin made
  /\ \A i \in Inits :
       (Live(i) /\ run[i].kind = "adopted") \/ run[i].pc \in {"undoing", "cleaning"}
         => disk[run[i].ws] \in {i, None}

\* What an initialisation has done to the files when it leaves off.
LEMMA OwnEnds ==
  ASSUME RequestInv, OwnInv, NEW i \in Inits, NEW w \in Workspaces, w = run[i].ws,
         Advance(i)
  PROVE  /\ run'[i].pc \in BeforeWorktree => w \notin made'
         /\ run'[i].pc \in {"undoing", "cleaning"} => disk'[w] \in {i, None}
         /\ disk'[w] \in {disk[w], i, None}
         /\ disk[w] # None /\ disk'[w] = None => run[i].pc \in {"undoing", "cleaning"}
<1> USE DEF RequestInv, TypeInv, TypeOK
<1>1. \A stage : To(i, stage) => run'[i].pc = stage
  BY ToFrame
<1>2. Return(i) => run'[i].pc = "over"
  BY <1>1 DEF Return
<1>3. Catch(i) => IF w \in made' THEN run'[i].pc = "cleaning" ELSE run'[i].pc = "over"
  BY <1>1, <1>2 DEF Catch
<1>4. run[i].pc \in BeforeWorktree => w \notin made
  BY DEF OwnInv
<1>5. CASE RetryStarts(i)
  <2>1. w \notin made' /\ disk' = disk /\ run'[i].pc = "queued"
    BY <1>1, <1>5 DEF RetryStarts, StartJob, To
  <2> QED BY <2>1
<1>6. CASE Locked(i)
  <2>1. made' = made /\ disk' = disk /\ run[i].pc \in BeforeWorktree
        /\ run'[i].pc \in {"over", "config"}
    BY <1>1, <1>2, <1>6 DEF Locked, BeforeWorktree
  <2> QED BY <1>4, <2>1
<1>7. CASE ConfigRead(i)
  <2>1. made' = made /\ disk' = disk /\ run[i].pc \in BeforeWorktree
        /\ run'[i].pc \in {"syncing", "creating"}
    BY <1>1, <1>7 DEF ConfigRead, BeforeWorktree
  <2> QED BY <1>4, <2>1
<1>8. CASE ReadDone(i)
  <2>1. Following[run[i].pc] \in BeforeWorktree /\ run[i].pc \in BeforeWorktree
    BY <1>8 DEF ReadDone, Following, BeforeWorktree
  <2>2. made' = made /\ disk' = disk /\ run'[i].pc \in BeforeWorktree \cup {"over"}
    BY <1>1, <1>2, <1>8, <2>1 DEF ReadDone
  <2> QED BY <1>4, <2>1, <2>2 DEF BeforeWorktree
<1>9. CASE NoStartPoint(i)
  BY <1>2, <1>9 DEF NoStartPoint, BeforeWorktree
<1>10. CASE ReadThrows(i) \/ CreateFails(i)
  <2>1. run[i].pc \in BeforeWorktree /\ made' = made /\ Catch(i)
    BY <1>10 DEF ReadThrows, CreateFails, Following, BeforeWorktree
  <2>2. run'[i].pc = "over"
    BY <1>3, <1>4, <2>1
  <2>3. disk'[w] \in {disk[w], i} /\ (disk[w] # None => disk'[w] = disk[w])
    BY <1>10 DEF ReadThrows, CreateFails
  <2> QED BY <2>2, <2>3 DEF BeforeWorktree
<1>11. ASSUME HasWorktree(i)
       PROVE  disk'[w] = i
  <2>1. disk'[w] = IF disk[w] = None THEN i ELSE disk[w]
    BY <1>11 DEF HasWorktree
  <2>2. disk[w] \in {i, None}
    BY <1>11 DEF HasWorktree, OwnInv, Live
  <2> QED BY <2>1, <2>2
<1>12. CASE Created(i) \/ CreatedThenThrows(i)
  <2>1. disk'[w] = i /\ i # None
    BY <1>11, <1>12, NoneAssumption DEF Created, CreatedThenThrows
  <2>2. run'[i].pc \in {"undoing", "cleaning", "over"}
    BY <1>1, <1>2, <1>3, <1>12 DEF Created, CreatedThenThrows
  <2> QED BY <2>1, <2>2 DEF BeforeWorktree
<1>13. CASE Undone(i) \/ Cleaned(i)
  <2>1. run[i].pc \in {"undoing", "cleaning"} /\ run'[i].pc = "over" /\ Removes(w)
    BY <1>2, <1>13 DEF Undone, Cleaned
  <2>2. disk'[w] \in {disk[w], None}
    BY <2>1 DEF Removes
  <2> QED BY <2>1, <2>2 DEF BeforeWorktree
<1>14. CASE AgentReady(i) \/ AgentFails(i)
  <2>1. run'[i].pc = "over" /\ disk'[w] \in {disk[w], i}
    BY <1>1, <1>14 DEF AgentReady, AgentFails
  <2>2. i # None
    BY NoneAssumption
  <2> QED BY <2>1, <2>2 DEF BeforeWorktree
<1> QED BY <1>5, <1>6, <1>7, <1>8, <1>9, <1>10, <1>12, <1>13, <1>14 DEF Advance

LEMMA OwnAdvance ==
  ASSUME RequestInv, OwnInv, NEW i \in Inits, Advance(i)
  PROVE  OwnInv'
<1>0. PICK w \in Workspaces : w = run[i].ws
  BY AdvanceFrame DEF RequestInv
<1>1. Goes(i) /\ Elsewhere(w) /\ Live(i)
  BY <1>0, AdvanceFrame DEF RequestInv
<1>2. /\ run'[i].pc \in BeforeWorktree => w \notin made'
      /\ run'[i].pc \in {"undoing", "cleaning"} => disk'[w] \in {i, None}
      /\ disk'[w] \in {disk[w], i, None}
  BY <1>0, OwnEnds
<1>3. /\ run'[i].ws = w /\ run'[i].kind = run[i].kind
      /\ \A j \in Inits \ {i} : run'[j] = run[j]
  BY <1>0, <1>1 DEF Goes
<1>4. \A j \in Inits \ {i} : Live(j) => run[j].ws \in Workspaces \ {w}
  BY <1>0, <1>1 DEF RequestInv, RunsApart, TypeInv, Assigned, Live
<1>5. ASSUME NEW j \in Inits, run'[j].pc \in BeforeWorktree
      PROVE  run'[j].ws \notin made'
  <2>1. CASE j = i
    BY <1>2, <1>3, <1>5, <2>1
  <2>2. CASE j # i
    <3>1. Live(j) /\ run'[j] = run[j]
      BY <1>3, <1>5, <2>2 DEF Live, BeforeWorktree
    <3> QED BY <1>1, <1>4, <1>5, <2>2, <3>1 DEF Elsewhere, OwnInv
  <2> QED BY <2>1, <2>2
<1>6. ASSUME NEW j \in Inits,
             (Live(j)' /\ run'[j].kind = "adopted") \/ run'[j].pc \in {"undoing", "cleaning"}
      PROVE  disk'[run'[j].ws] \in {j, None}
  <2>1. CASE j = i
    <3>1. disk[w] \in {i, None} \/ run'[i].pc \in {"undoing", "cleaning"}
      BY <1>0, <1>1, <1>3, <1>6, <2>1 DEF OwnInv
    <3> QED BY <1>2, <1>3, <2>1, <3>1
  <2>2. CASE j # i
    <3>1. Live(j) /\ run'[j] = run[j]
      BY <1>3, <1>6, <2>2 DEF Live
    <3> QED BY <1>1, <1>4, <1>6, <2>2, <3>1 DEF Elsewhere, OwnInv
  <2> QED BY <2>1, <2>2
<1> QED BY <1>5, <1>6 DEF OwnInv

\* Steps of no initialisation: files only go, and so do marks.
LEMMA OwnFrame ==
  ASSUME RequestInv, OwnInv, run' = run,
         \A w \in Workspaces : disk'[w] \in {disk[w], None} /\ (w \in made' => w \in made)
  PROVE  OwnInv'
<1>1. \A i \in Inits : run[i].pc \in BeforeWorktree \/ Live(i)
                       \/ run[i].pc \in {"undoing", "cleaning"} => run[i].ws \in Workspaces
  BY DEF RequestInv, TypeInv, Assigned, Live, BeforeWorktree
<1>2. \A i \in Inits : Live(i)' <=> Live(i)
  BY DEF Live
<1> QED BY <1>1, <1>2 DEF OwnInv

LEMMA OwnStart ==
  ASSUME OneAtATime, RequestInv, TypeInv', OwnInv, NEW w \in Workspaces, NEW i \in Inits,
         (\E k \in Kinds : Create(w, i, k)) \/ Retry(w, i) \/ RetryAgent(w, i)
  PROVE  OwnInv'
<1>1. /\ run'[i].ws = w /\ Elsewhere(w)
      /\ run'[i].pc \in {"queued", "repo", "resolving"}
      /\ run'[i].pc = "queued" => StartJob(w, i)
      /\ run'[i].kind = "adopted" => disk'[w] = i
      /\ \A j \in Inits \ {i} : run'[j] = run[j]
  BY StartFrame DEF RequestInv
<1>2. \A j \in Inits : Live(j) => run[j].ws \in Workspaces \ {w}
  BY RequestStart DEF RequestInv, TypeInv, Assigned, Live
<1>3. ASSUME NEW j \in Inits, run'[j].pc \in BeforeWorktree
      PROVE  run'[j].ws \notin made'
  <2>1. CASE j = i
    BY <1>1, <1>3, <2>1 DEF BeforeWorktree, StartJob
  <2>2. CASE j # i
    <3>1. Live(j) /\ run'[j] = run[j]
      BY <1>1, <1>3, <2>2 DEF Live, BeforeWorktree
    <3> QED BY <1>1, <1>2, <1>3, <3>1 DEF Elsewhere, OwnInv
  <2> QED BY <2>1, <2>2
<1>4. ASSUME NEW j \in Inits,
             (Live(j)' /\ run'[j].kind = "adopted") \/ run'[j].pc \in {"undoing", "cleaning"}
      PROVE  disk'[run'[j].ws] \in {j, None}
  <2>1. CASE j = i
    BY <1>1, <1>4, <2>1
  <2>2. CASE j # i
    <3>1. Live(j) /\ run'[j] = run[j]
      BY <1>1, <1>4, <2>2 DEF Live
    <3> QED BY <1>1, <1>2, <1>4, <3>1 DEF Elsewhere, OwnInv
  <2> QED BY <2>1, <2>2
<1> QED BY <1>3, <1>4 DEF OwnInv

CleansOwnStep ==
  \A w \in Workspaces :
    disk[w] # None /\ disk'[w] = None =>
      \/ \E d \in Deletes : del[d].ws = w
      \/ run[disk[w]].pc \in {"undoing", "cleaning"}

LEMMA OwnStep ==
  ASSUME OneAtATime, RequestInv, OwnInv, [Next]_vars
  PROVE  OwnInv' /\ CleansOwnStep
<1>0. TypeInv'
  BY TypesStep DEF RequestInv
<1>1. ASSUME NEW i \in Inits, Advance(i) PROVE OwnInv' /\ CleansOwnStep
  <2>1. PICK w \in Workspaces : w = run[i].ws
    BY <1>1, AdvanceFrame DEF RequestInv
  <2>2. Elsewhere(w)
    BY <1>1, <2>1, AdvanceFrame DEF RequestInv
  <2>3. disk[w] # None /\ disk'[w] = None => run[i].pc \in {"undoing", "cleaning"}
    BY <1>1, <2>1, OwnEnds
  <2>4. run[i].pc \in {"undoing", "cleaning"} => disk[w] \in {i, None}
    BY <2>1 DEF OwnInv
  <2> QED BY <1>1, <2>2, <2>3, <2>4, OwnAdvance DEF Elsewhere, CleansOwnStep
<1>2. ASSUME NEW d \in Deletes, AdvanceDelete(d) PROVE OwnInv' /\ CleansOwnStep
  <2>1. PICK w \in Workspaces : w = del[d].ws
    BY <1>2, DeleteFrame DEF RequestInv
  <2>2. run' = run /\ Elsewhere(w)
    BY <1>2, <2>1, DeleteFrame DEF RequestInv
  <2>3. disk'[w] \in {disk[w], None}
    BY <1>2, <2>1 DEF AdvanceDelete, WaitEnds, KilledAndTornDown, TeardownFails, DeleteLocks,
       Removed, RemoveFails, Removes, Deleted, AgentDeleted, AgentRemoveFails, RequestInv,
       TypeInv, TypeOK
  <2>4. made' \subseteq made
    BY <1>2 DEF AdvanceDelete, WaitEnds, KilledAndTornDown, TeardownFails, DeleteLocks,
       Removed, RemoveFails, Deleted, AgentDeleted, AgentRemoveFails, GiveBack, Forget,
       ClearJob, jobVars
  <2>5. OwnInv'
    BY <2>2, <2>3, <2>4, OwnFrame DEF Elsewhere
  <2> QED BY <2>1, <2>2, <2>5 DEF Elsewhere, CleansOwnStep
<1>3. ASSUME NEW w \in Workspaces, NEW i \in Inits,
             (\E k \in Kinds : Create(w, i, k)) \/ Retry(w, i) \/ RetryAgent(w, i)
      PROVE  OwnInv' /\ CleansOwnStep
  <2>1. \A x \in Workspaces : disk'[x] \in {disk[x], i} /\ i # None
    BY <1>3, NoneAssumption DEF Create, Retry, RetryAgent, RequestInv, TypeInv, TypeOK
  <2> QED BY <1>0, <1>3, <2>1, OwnStart DEF CleansOwnStep
<1>4. ASSUME UNCHANGED <<disk, run>>, made' \subseteq made
      PROVE  OwnInv' /\ CleansOwnStep
  BY <1>4, OwnFrame DEF CleansOwnStep
<1>5. ASSUME NEW d \in Deletes, NEW w \in Workspaces, Delete(d, w)
      PROVE  OwnInv' /\ CleansOwnStep
  BY <1>4, <1>5 DEF Delete
<1>6. ASSUME NEW w \in Workspaces, ReadyExpires(w) PROVE OwnInv' /\ CleansOwnStep
  BY <1>4, <1>6 DEF ReadyExpires
<1>7. CASE UNCHANGED vars \/ \E w \in Workspaces : DeleteMissing(w)
  BY <1>4, <1>7 DEF DeleteMissing, vars, jobVars
<1>8. CASE Restart
  <2>1. \A i \in Inits : run'[i].pc \in {"idle", "over"} /\ ~Live(i)'
    BY <1>8, RestartFrame, RequestRestart DEF RequestInv
  <2>2. OwnInv'
    BY <2>1 DEF OwnInv, BeforeWorktree
  <2>3. ASSUME NEW w \in Workspaces, disk[w] # None, disk'[w] = None
        PROVE  \/ \E d \in Deletes : del[d].ws = w
               \/ run[disk[w]].pc \in {"undoing", "cleaning"}
    <3>1. disk'[w] \in Cut(w)
      BY <1>8 DEF Restart
    <3>2. \/ \E i \in InFlight(w) : run[i].pc \in {"undoing", "cleaning"}
          \/ \E d \in Deletes : del[d].ws = w
      BY <2>3, <3>1, NoneAssumption DEF Cut, InFlight
    <3>3. ASSUME NEW i \in InFlight(w), run[i].pc \in {"undoing", "cleaning"}
          PROVE  disk[w] = i
      BY <2>3, <3>3 DEF InFlight, OwnInv
    <3> QED BY <3>2, <3>3
  <2> QED BY <2>2, <2>3 DEF CleansOwnStep
<1> QED BY <1>1, <1>2, <1>3, <1>5, <1>6, <1>7, <1>8 DEF Next

\* wasWorktreeCreated: an initialisation that fails or is cancelled never removes
\* files that another one made.
THEOREM CleanupIsOwn == OneAtATime => (Spec => CleansOnlyItsOwn)
<1>1. SUFFICES ASSUME OneAtATime PROVE Spec => CleansOnlyItsOwn
  OBVIOUS
<1>2. Init => OwnInv
  BY DEF Init, OwnInv, Live, BeforeWorktree
<1>3. RequestInv /\ OwnInv /\ [Next]_vars => OwnInv' /\ CleansOwnStep
  BY <1>1, OwnStep
<1>4. CleansOwnStep =>
        \A w \in Workspaces :
          disk[w] # None /\ disk'[w] = None =>
            \/ \E d \in Deletes : del[d].ws = w
            \/ run[disk[w]].pc \in {"undoing", "cleaning"}
  BY DEF CleansOwnStep
<1>5. Spec => []RequestInv
  BY <1>1, RequestInvariant
<1> QED BY <1>2, <1>3, <1>4, <1>5, PTL DEF Spec, CleansOnlyItsOwn

=============================================================================
