--------------------------- MODULE GraphAccounts ---------------------------
(***************************************************************************)
(* One employee, the Entra account that belongs to them, and the account   *)
(* tasks of libs/modules/graph: graph-task.queue.ts enqueues one in the    *)
(* transaction of updateStatus (employee.service.ts) or of the approval of *)
(* an offboarding or an onboarding, graph-task-relay.service.ts claims     *)
(* them in order, and entra-account.service.ts reconciles the account with *)
(* the status.  The employee has an Entra object id: for one that has none *)
(* a task is sent and nothing is done.                                     *)
(*                                                                         *)
(* A lease is "fresh" while enough of it is left for one call, then        *)
(* "short", then "lapsed".  GRAPH_CALL_TIMEOUT_MS ends every call, so one   *)
(* begun under a fresh lease is over before the lease lapses.              *)
(***************************************************************************)
EXTENDS Naturals

CONSTANTS
    MaxTasks,       \* bound: rows of graph_task_outbox for the employee
    GraphWorkers,
    NoWorker,
    MaxTaskAttempts,\* maxAttempts
    Editors,        \* calls of updateStatus that may be under way together
    Targets,        \* the statuses that those calls set
    MayTurnOff      \* bound: a later deployment may take the Graph credential away

Statuses == {"active", "on_leave", "offboarded"}

ASSUME GraphAssumption ==
    /\ MaxTasks \in Nat /\ MaxTaskAttempts \in Nat \ {0} /\ NoWorker \notin GraphWorkers
    /\ Targets \subseteq Statuses /\ MayTurnOff \in BOOLEAN

Tasks == 1 .. MaxTasks  \* a task is its seq

VARIABLES
    empStatus,    \* employees.status
    edit,         \* per call of updateStatus: the status it read and the one it sets
    task,         \* per task: "none", "open" (uncommitted), "pending", "sent", "failed"
    change,       \* the status that the transaction of a task sets, or "none"
    taskAttempts,
    taskLease,    \* "none", "fresh", "short" or "lapsed"
    leasedBy,     \* lease_token: the worker that claimed the task
    run,          \* the memory of each worker
    account,      \* Entra: accountEnabled, "on" or "off"
    sessions,     \* Entra: sign-in sessions, "live" or "revoked"
    graphOn,      \* GraphClientService.isEnabled(): the workers have a credential
    revived,      \* history: a lapsed lease was renewed while another was held
    overwritten   \* history: an edit that did not see an offboarding has ended it, with no task

graphVars == <<empStatus, edit, task, change, taskAttempts, taskLease, leasedBy, run, account, sessions,
               graphOn, revived, overwritten>>

NoEdit == [read |-> "none", to |-> "none"]
IdleRun == [at |-> "idle"]

GraphTypeOK ==
    /\ empStatus \in Statuses
    /\ edit \in [Editors -> {NoEdit} \cup [read : Statuses, to : Statuses]]
    /\ task \in [Tasks -> {"none", "open", "pending", "sent", "failed"}]
    /\ change \in [Tasks -> {"none"} \cup Statuses]
    /\ taskAttempts \in [Tasks -> 0 .. MaxTaskAttempts]
    /\ taskLease \in [Tasks -> {"none", "fresh", "short", "lapsed"}]
    /\ leasedBy \in [Tasks -> GraphWorkers \cup {NoWorker}]
    /\ run \in [GraphWorkers -> {IdleRun} \cup
          [at : {"claimed", "offboarded", "employed", "reread", "disabled", "ok", "error", "fatal"},
           task : Tasks] \cup
          [at : {"disabling", "revoking", "enabling"}, task : Tasks, inTime : BOOLEAN]]
    /\ account \in {"on", "off"} /\ sessions \in {"live", "revoked"}
    /\ graphOn \in BOOLEAN /\ revived \in BOOLEAN /\ overwritten \in BOOLEAN

GraphInit ==
    /\ empStatus = "active"
    /\ edit = [h \in Editors |-> NoEdit]
    /\ task = [t \in Tasks |-> "none"]
    /\ change = [t \in Tasks |-> "none"]
    /\ taskAttempts = [t \in Tasks |-> 0]
    /\ taskLease = [t \in Tasks |-> "none"]
    /\ leasedBy = [t \in Tasks |-> NoWorker]
    /\ run = [w \in GraphWorkers |-> IdleRun]
    /\ account = "on" /\ sessions = "live"
    /\ graphOn = FALSE /\ revived = FALSE /\ overwritten = FALSE

-----------------------------------------------------------------------------
(* Changes of status.  A transaction that is rolled back leaves nothing    *)
(* but a gap in the seqs, and is left out.                                 *)

IsNext(t) == task[t] = "none" /\ \A s \in 1 .. t - 1 : task[s] # "none"

\* The employee's row is locked, from its update to the commit.
RowLocked == \E s \in Tasks : task[s] = "open" /\ change[s] # "none"

\* enqueue, after the update of the employee if there is one: the insert
\* takes its seq with the row locked.
EnqueueTask(t, status) ==
    /\ IsNext(t)
    /\ status # "none" => ~RowLocked
    /\ task' = [task EXCEPT ![t] = "open"]
    /\ change' = [change EXCEPT ![t] = status]
    /\ UNCHANGED <<empStatus, taskAttempts, taskLease, leasedBy, run, account, sessions,
                   graphOn, revived, overwritten>>

\* updateStatus reads the employee outside its transaction, and returns if
\* there is nothing to do.
ReadEmployee(h, status) ==
    /\ edit[h] = NoEdit
    /\ status = "offboarded" \/ empStatus # status
    /\ edit' = [edit EXCEPT ![h] = [read |-> empStatus, to |-> status]]
    /\ UNCHANGED <<empStatus, task, change, taskAttempts, taskLease, leasedBy, run, account, sessions,
                   graphOn, revived, overwritten>>

\* toOffboarded || wasOffboarded, as the read had it.
NeedsTask(e) == "offboarded" \in {e.read, e.to}

\* The transaction of updateStatus when a task is due.  The update is by id
\* alone; a retry (offboarded to offboarded) makes none, and locks nothing.
UpdateWithTask(h, t) ==
    /\ NeedsTask(edit[h])
    /\ EnqueueTask(t, IF edit[h].read = edit[h].to THEN "none" ELSE edit[h].to)
    /\ edit' = [edit EXCEPT ![h] = NoEdit]

\* The one of an edit between active and on_leave: an update and no task.
UpdateWithoutTask(h) ==
    /\ edit[h] # NoEdit /\ ~NeedsTask(edit[h])
    /\ ~RowLocked
    /\ empStatus' = edit[h].to
    /\ overwritten' = (overwritten \/ (empStatus = "offboarded" /\ edit[h].read # "offboarded"))
    /\ edit' = [edit EXCEPT ![h] = NoEdit]
    /\ UNCHANGED <<task, change, taskAttempts, taskLease, leasedBy, run, account, sessions,
                   graphOn, revived>>

\* onApprove of an offboarding, which sets the status whatever it is, and of
\* an onboarding, which does not touch it.
ApproveOffboarding(t) == EnqueueTask(t, "offboarded") /\ UNCHANGED edit
ApproveOnboarding(t) == EnqueueTask(t, "none") /\ UNCHANGED edit

CommitTask(t) ==
    /\ task[t] = "open"
    /\ task' = [task EXCEPT ![t] = "pending"]
    /\ empStatus' = IF change[t] = "none" THEN empStatus ELSE change[t]
    /\ overwritten' = (overwritten /\ change[t] = "none")
    /\ UNCHANGED <<edit, change, taskAttempts, taskLease, leasedBy, run, account, sessions,
                   graphOn, revived>>

-----------------------------------------------------------------------------
(* A claim; claims are serialized by an advisory lock.                     *)

Leased(t) == taskLease[t] \in {"fresh", "short"}

\* Fault: nothing dead-letters a task whose attempts are used up.
Abandoned_Never(t) == FALSE

\* reapAbandoned
TaskAbandoned(t) ==
    task[t] = "pending" /\ taskAttempts[t] >= MaxTaskAttempts /\ ~Leased(t)

\* Fault: the tasks of one employee are not ordered.
Unblocked_Always(t) == TRUE

\* The NOT EXISTS of selectDue, after the abandoned tasks have been reaped.
Unblocked(t) ==
    \A other \in Tasks \ {t} :
        task[other] = "pending" /\ ~TaskAbandoned(other) => t < other /\ ~Leased(other)

\* selectDue returns nothing while Graph is off: the tasks wait.
ClaimTask(w, t) ==
    /\ graphOn
    /\ run[w] = IdleRun
    /\ task[t] = "pending" /\ taskAttempts[t] < MaxTaskAttempts
    /\ ~Leased(t) /\ Unblocked(t)
    /\ task' = [s \in Tasks |-> IF TaskAbandoned(s) THEN "failed" ELSE task[s]]
    /\ taskAttempts' = [taskAttempts EXCEPT ![t] = @ + 1]
    /\ taskLease' = [s \in Tasks |->
          IF s = t THEN "fresh" ELSE IF TaskAbandoned(s) THEN "none" ELSE taskLease[s]]
    /\ leasedBy' = [s \in Tasks |->
          IF s = t THEN w ELSE IF TaskAbandoned(s) THEN NoWorker ELSE leasedBy[s]]
    /\ run' = [run EXCEPT ![w] = [at |-> "claimed", task |-> t]]
    /\ UNCHANGED <<empStatus, edit, change, account, sessions, graphOn, revived, overwritten>>

\* A claim that finds only abandoned tasks, or is made while Graph is off.
ReapTasks ==
    /\ \E t \in Tasks : TaskAbandoned(t)
    /\ task' = [s \in Tasks |-> IF TaskAbandoned(s) THEN "failed" ELSE task[s]]
    /\ taskLease' = [s \in Tasks |-> IF TaskAbandoned(s) THEN "none" ELSE taskLease[s]]
    /\ leasedBy' = [s \in Tasks |-> IF TaskAbandoned(s) THEN NoWorker ELSE leasedBy[s]]
    /\ UNCHANGED <<empStatus, edit, change, taskAttempts, run, account, sessions,
                   graphOn, revived, overwritten>>

-----------------------------------------------------------------------------
(* reconcile()                                                             *)

Goes(w, from, to) ==
    /\ run[w].at = from
    /\ run' = [run EXCEPT ![w] = [at |-> to, task |-> run[w].task]]

\* renewLease, then the first read of the employee.  The renewal asks for the
\* token only: a lease that has lapsed, and that no claim has taken over, is
\* good again whatever other task is leased by now.
RenewAndRead(w) ==
    /\ run[w].at = "claimed"
    /\ LET t == run[w].task IN
       IF leasedBy[t] = w
       THEN /\ taskLease' = [taskLease EXCEPT ![t] = "fresh"]
            /\ Goes(w, "claimed", IF empStatus = "offboarded" THEN "offboarded" ELSE "employed")
            /\ revived' = (revived \/ (~Leased(t) /\ \E s \in Tasks : Leased(s)))
       ELSE /\ run' = [run EXCEPT ![w] = IdleRun]
            /\ UNCHANGED <<taskLease, revived>>
    /\ UNCHANGED <<empStatus, edit, task, change, taskAttempts, leasedBy, account, sessions,
                   graphOn, overwritten>>

\* assertBelongsTo fails: another object's addresses, or a call that failed.
IdentityFails(w, result) ==
    /\ \E from \in {"employed", "offboarded"} : Goes(w, from, result)
    /\ UNCHANGED <<empStatus, edit, task, change, taskAttempts, taskLease, leasedBy, account, sessions,
                   graphOn, revived, overwritten>>

\* The second read, right before the account is enabled.
RereadStatus(w) ==
    /\ Goes(w, "employed", IF empStatus # "offboarded" THEN "reread" ELSE "ok")
    /\ UNCHANGED <<empStatus, edit, task, change, taskAttempts, taskLease, leasedBy, account, sessions,
                   graphOn, revived, overwritten>>

\* Fault: a call is begun however little of the lease is left.
TimeToMutate_Ignored(w) == TRUE

\* assertTimeToMutate: the lease this run renewed is not near its end.
TimeToMutate(w) == leasedBy[run[w].task] = w /\ taskLease[run[w].task] = "fresh"

\* The next call of a run: disable, then revoke; or enable.
Call(at) ==
    CASE at = "offboarded" -> "disabling" [] at = "disabled" -> "revoking" [] OTHER -> "enabling"

BeginCall(w) ==
    /\ run[w].at \in {"offboarded", "disabled", "reread"}
    /\ IF TimeToMutate(w)
       THEN LET t == run[w].task IN
            run' = [run EXCEPT ![w] = [at |-> Call(run[w].at), task |-> t,
                                       inTime |-> leasedBy[t] = w /\ taskLease[t] = "fresh"]]
       ELSE Goes(w, run[w].at, "error")
    /\ UNCHANGED <<empStatus, edit, task, change, taskAttempts, taskLease, leasedBy, account, sessions,
                   graphOn, revived, overwritten>>

AfterCall(at) == IF at = Call("offboarded") THEN "disabled" ELSE "ok"

\* The call is answered; or it failed (a 403 is fatal) without effect; or it
\* took effect and its answer was lost.
EndCall(w, landed, result) ==
    /\ run[w].at \in {"disabling", "revoking", "enabling"}
    /\ run' = [run EXCEPT ![w] = [at |-> IF result = "ok" THEN AfterCall(run[w].at) ELSE result,
                                  task |-> run[w].task]]
    /\ account' = IF landed /\ run[w].at = "disabling" THEN "off"
                  ELSE IF landed /\ run[w].at = "enabling" THEN "on" ELSE account
    /\ sessions' = IF landed /\ run[w].at = "revoking" THEN "revoked" ELSE sessions
    /\ UNCHANGED <<empStatus, edit, task, change, taskAttempts, taskLease, leasedBy,
                   graphOn, revived, overwritten>>

CallEnds(w) ==
    \/ EndCall(w, TRUE, "ok") \/ EndCall(w, TRUE, "error")
    \/ EndCall(w, FALSE, "error") \/ EndCall(w, FALSE, "fatal")

\* markSent and markFailed, in the fenced finish.
TaskRecorded(w) ==
    IF run[w].at = "ok" THEN "sent"
    ELSE IF run[w].at = "fatal" \/ taskAttempts[run[w].task] >= MaxTaskAttempts THEN "failed"
    ELSE "pending"

FinishTask(w) ==
    /\ run[w].at \in {"ok", "error", "fatal"}
    /\ LET t == run[w].task IN
       IF leasedBy[t] = w
       THEN /\ task' = [task EXCEPT ![t] = TaskRecorded(w)]
            /\ taskLease' = [taskLease EXCEPT ![t] = "none"]
            /\ leasedBy' = [leasedBy EXCEPT ![t] = NoWorker]
       ELSE UNCHANGED <<task, taskLease, leasedBy>>
    /\ run' = [run EXCEPT ![w] = IdleRun]
    /\ UNCHANGED <<empStatus, edit, change, taskAttempts, account, sessions,
                   graphOn, revived, overwritten>>

\* The worker dies; a call it had sent has taken effect before, or never will.
WorkerDies(w) ==
    /\ run[w].at # "idle"
    /\ run' = [run EXCEPT ![w] = IdleRun]
    /\ UNCHANGED <<empStatus, edit, task, change, taskAttempts, taskLease, leasedBy, account, sessions,
                   graphOn, revived, overwritten>>

\* With the account on, the person may sign in.
SignIn ==
    /\ account = "on"
    /\ sessions' = "live"
    /\ UNCHANGED <<empStatus, edit, task, change, taskAttempts, taskLease, leasedBy, run, account,
                   graphOn, revived, overwritten>>

\* A lease runs down; a call begun in time ends before it lapses.
LeaseRuns(t) ==
    /\ \/ taskLease[t] = "fresh" /\ taskLease' = [taskLease EXCEPT ![t] = "short"]
       \/ /\ taskLease[t] = "short" /\ taskLease' = [taskLease EXCEPT ![t] = "lapsed"]
          /\ \A w \in GraphWorkers :
                run[w].at \in {"disabling", "revoking", "enabling"} /\ run[w].task = t => ~run[w].inTime
    /\ UNCHANGED <<empStatus, edit, task, change, taskAttempts, leasedBy, run, account, sessions,
                   graphOn, revived, overwritten>>

\* The workers are deployed with a Graph credential, or without one.
ConfigureGraph ==
    /\ graphOn => MayTurnOff
    /\ graphOn' = ~graphOn
    /\ UNCHANGED <<empStatus, edit, task, change, taskAttempts, taskLease, leasedBy, run, account, sessions,
                   revived, overwritten>>

ReconcileStep(w) ==
    \/ RenewAndRead(w) \/ RereadStatus(w) \/ BeginCall(w) \/ CallEnds(w) \/ FinishTask(w)
    \/ \E result \in {"error", "fatal"} : IdentityFails(w, result)

GraphRelaysWork ==
    \/ ReapTasks
    \/ \E w \in GraphWorkers : ReconcileStep(w) \/ WorkerDies(w) \/ \E t \in Tasks : ClaimTask(w, t)

LeasesRun == \E t \in Tasks : LeaseRuns(t)

StatusChanges ==
    \/ \E h \in Editors : \/ \E status \in Targets : ReadEmployee(h, status)
                          \/ UpdateWithoutTask(h)
    \/ \E t \in Tasks : \/ ApproveOffboarding(t) \/ ApproveOnboarding(t) \/ CommitTask(t)
                        \/ \E h \in Editors : UpdateWithTask(h, t)

GraphNext ==
    \/ StatusChanges
    \/ GraphRelaysWork
    \/ LeasesRun
    \/ SignIn
    \/ ConfigureGraph

GraphSpec == GraphInit /\ [][GraphNext]_graphVars

\* The relay of some process runs every ten seconds (not every process is
\* wedged, see OutboxRelay), and time passes.
GraphFairness == WF_graphVars(GraphRelaysWork) /\ WF_graphVars(LeasesRun)

-----------------------------------------------------------------------------
(* Properties                                                              *)

StatusTasks == {t \in Tasks : change[t] # "none" /\ task[t] \notin {"none", "open"}}

\* "a task queued earlier cannot override a later change of status": once the
\* task of the last change of status that has one is sent, and whatever other
\* tasks still wait, run or were given up, the account says what the status
\* says, and an offboarded person has no session left.  Excepted is the time
\* after an edit between active and on_leave that read the employee before an
\* offboarding was committed and wrote over it, without a task, until the
\* next change of status that has one.
AccountFollowsStatus ==
    overwritten \/ \A t \in StatusTasks :
        task[t] = "sent" /\ (\A s \in StatusTasks : s <= t) =>
            IF empStatus = "offboarded" THEN account = "off" /\ sessions = "revoked" ELSE account = "on"

\* "two tasks for one person never overlap": no two calls that change the
\* account are in flight together, unless a worker revived a lease that had
\* lapsed between its claim and its renewal.
OneCallAtATime ==
    revived \/ \A v, w \in GraphWorkers :
        {run[v].at, run[w].at} \subseteq {"disabling", "revoking", "enabling"} => v = w

\* A task that died with its worker does not hold up the later ones for ever:
\* every task ends, unless Graph is switched off ("rows wait").
EveryTaskEnds == \A t \in Tasks : task[t] = "pending" ~> task[t] # "pending" \/ ~graphOn
=============================================================================
