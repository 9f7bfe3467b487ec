--------------------------- MODULE ServicesProofs ---------------------------
(***************************************************************************)
(* Proofs about the two relays that act outside the database, for every    *)
(* number of tasks, deliveries, workers and attempts: the Entra accounts   *)
(* of GraphAccounts (types, OneCallAtATime, AccountFollowsStatus) and the  *)
(* deliveries of WebhookRelay (types, FailedIsFinal).  At the end, what is *)
(* proved of each service is carried over to the services together.        *)
(*                                                                         *)
(* Why the account follows the status.  A run reads the status while it    *)
(* renews its lease, and calls Entra only while that lease is good.  So a  *)
(* run that read an older status keeps every claim away, and the task of   *)
(* the newer status has not been touched: Current.  Once a worker holds    *)
(* that task, every run that can still call Entra agrees with the status,  *)
(* and what the holder has done so far stays done: Progress.               *)
(***************************************************************************)
EXTENDS MCServices, IdempotencyProofs, AuthzCacheProofs, StoredFilesProofs, FilingProofs,
        TLAPS

USE GraphAssumption, WebhookAssumption

-----------------------------------------------------------------------------
(* GraphAccounts: the inductive invariant                                  *)

Calling == {"disabling", "revoking", "enabling"}

\* What a run has read of the employee, by where it is.
AsOffboarded == {"offboarded", "disabling", "disabled", "revoking"}
AsEmployed == {"employed", "reread", "enabling"}

Agrees(at) ==
    /\ at \in AsOffboarded => empStatus = "offboarded"
    /\ at \in AsEmployed => empStatus # "offboarded"

\* The account says what the status says.
Matches == IF empStatus = "offboarded" THEN account = "off" /\ sessions = "revoked" ELSE account = "on"

\* t belongs to the last committed change of status, which no edit without a
\* task has written over.
Last(t) == ~overwritten /\ t \in StatusTasks /\ \A s \in StatusTasks : s <= t

\* No worker ever claimed the task of the last change.
Untouched ==
    \E t \in Tasks :
        Last(t) /\ task[t] = "pending" /\ leasedBy[t] = NoWorker /\ taskAttempts[t] = 0

LeasesPending ==
    \A t \in Tasks :
        /\ leasedBy[t] # NoWorker \/ Leased(t) => task[t] = "pending"
        /\ task[t] \in {"none", "open"} => taskAttempts[t] = 0

\* A call that is in flight has a lease that was not taken over.
CallsLeased ==
    \A w \in GraphWorkers : run[w].at \in Calling =>
        run[w].inTime /\ leasedBy[run[w].task] = w /\ Leased(run[w].task)

OneLease == revived \/ \A s, t \in Tasks : Leased(s) /\ Leased(t) => s = t

\* Seqs are taken in order, and the employee's row is locked by at most one
\* change of status, the latest one.
Serialized ==
    /\ \A s, t \in Tasks : s < t /\ task[t] # "none" => task[s] # "none"
    /\ \A s, t \in Tasks :
          task[t] = "open" /\ change[t] # "none" /\ task[s] # "none" /\ change[s] # "none" => s <= t

\* A run that may still call Entra agrees with the status, or the task of the
\* newer status is untouched, or there is none.
Current ==
    \A w \in GraphWorkers :
        /\ run[w].at \in AsOffboarded \cup AsEmployed
        /\ leasedBy[run[w].task] = w /\ Leased(run[w].task)
        => Agrees(run[w].at) \/ Untouched \/ overwritten

\* What the holder of the last task has done is done.
Progress ==
    \A w \in GraphWorkers : \A t \in Tasks :
        Last(t) /\ run[w].at # "idle" /\ run[w].task = t /\ leasedBy[t] = w =>
            /\ Agrees(run[w].at)
            /\ run[w].at \in {"disabled", "revoking"} => account = "off"
            /\ run[w].at = "ok" => Matches

SentMatches == \A t \in Tasks : Last(t) /\ task[t] = "sent" => Matches

GraphInv ==
    /\ GraphTypeOK /\ LeasesPending /\ CallsLeased /\ OneLease /\ Serialized
    /\ Current /\ Progress /\ SentMatches

PlainAt == {"claimed", "offboarded", "employed", "reread", "disabled", "ok", "error", "fatal"}
PlainRun == [at : PlainAt, task : Tasks]
CallRun == [at : Calling, task : Tasks, inTime : BOOLEAN]
RunMemory == {IdleRun} \cup PlainRun \cup CallRun
EditMemory == {NoEdit} \cup [read : Statuses, to : Statuses]

\* Seqs are numbers.
LEMMA TaskNumbers == \A t \in Tasks : t \in Nat
  BY DEF Tasks

\* A worker that is not idle has a task in mind.
LEMMA RunFields ==
    ASSUME GraphTypeOK, NEW w \in GraphWorkers
    PROVE  /\ run[w] \in RunMemory
           /\ run[w].at \in {"idle"} \cup PlainAt \cup Calling
           /\ run[w].at # "idle" => run[w].task \in Tasks
  <1>1. run[w] \in RunMemory  BY DEF GraphTypeOK, RunMemory, PlainRun, PlainAt, CallRun, Calling
  <1>2. CASE run[w] = IdleRun  BY <1>1, <1>2 DEF IdleRun
  <1>3. CASE run[w] \in PlainRun  BY <1>1, <1>3 DEF PlainRun
  <1>4. CASE run[w] \in CallRun  BY <1>1, <1>4 DEF CallRun
  <1>  QED  BY <1>1, <1>2, <1>3, <1>4 DEF RunMemory

\* A step of one worker.
LEMMA RunOf ==
    ASSUME GraphTypeOK, NEW w \in GraphWorkers, NEW memory \in RunMemory,
           run' = [run EXCEPT ![w] = memory]
    PROVE  /\ run'[w] = memory /\ \A v \in GraphWorkers \ {w} : run'[v] = run[v]
           /\ run' \in [GraphWorkers -> {IdleRun} \cup
                 [at : {"claimed", "offboarded", "employed", "reread", "disabled", "ok", "error", "fatal"},
                  task : Tasks] \cup
                 [at : {"disabling", "revoking", "enabling"}, task : Tasks, inTime : BOOLEAN]]
  BY DEF GraphTypeOK, RunMemory, PlainRun, PlainAt, CallRun, Calling

\* There is one last change.
LEMMA OneLast ==
    ASSUME NEW s \in Tasks, NEW t \in Tasks, Last(s), Last(t)
    PROVE  s = t
  BY TaskNumbers DEF Last

\* Nothing was enqueued.
LEMMA InitGraphInv == GraphInit => GraphInv
  <1>  SUFFICES ASSUME GraphInit PROVE GraphInv  OBVIOUS
  <1>1. GraphTypeOK
    <2>1. taskAttempts \in [Tasks -> 0 .. MaxTaskAttempts]  BY DEF GraphInit
    <2>2. /\ graphOn \in BOOLEAN /\ revived \in BOOLEAN /\ overwritten \in BOOLEAN
          /\ empStatus \in Statuses /\ edit \in [Editors -> EditMemory]
          /\ change \in [Tasks -> {"none"} \cup Statuses]
      BY DEF GraphInit, Statuses, EditMemory
    <2>3. run \in [GraphWorkers -> {IdleRun} \cup
              [at : {"claimed", "offboarded", "employed", "reread", "disabled", "ok", "error", "fatal"},
               task : Tasks] \cup
              [at : {"disabling", "revoking", "enabling"}, task : Tasks, inTime : BOOLEAN]]
      BY DEF GraphInit
    <2>  QED  BY <2>1, <2>2, <2>3 DEF GraphInit, GraphTypeOK, EditMemory
  <1>2. \A w \in GraphWorkers : run[w].at = "idle"  BY DEF GraphInit, IdleRun
  <1>3. StatusTasks = {}  BY DEF GraphInit, StatusTasks
  <1>4. LeasesPending /\ OneLease /\ Serialized
    BY DEF GraphInit, LeasesPending, OneLease, Serialized, Leased
  <1>5. CallsLeased /\ Current
    BY <1>2 DEF CallsLeased, Current, Calling, AsOffboarded, AsEmployed
  <1>6. Progress /\ SentMatches  BY <1>3 DEF Progress, SentMatches, Last
  <1>  QED  BY <1>1, <1>4, <1>5, <1>6 DEF GraphInv

-----------------------------------------------------------------------------
(* GraphAccounts: the steps of a run that change no row                    *)

\* A run goes on within what it has read, and the account changes at most as
\* the holder of the last task, or its having been sent, allows.
LEMMA WorkInv ==
    ASSUME GraphInv, NEW w \in GraphWorkers, NEW memory \in RunMemory,
           run' = [run EXCEPT ![w] = memory],
           UNCHANGED <<empStatus, edit, task, change, taskAttempts, taskLease, leasedBy,
                   graphOn, revived, overwritten>>,
           account' \in {"on", "off"}, sessions' \in {"live", "revoked"},
           memory.at # "idle" => run[w].at # "idle" /\ memory.task = run[w].task,
           memory.at \in AsOffboarded => run[w].at \in AsOffboarded,
           memory.at \in AsEmployed => run[w].at \in AsEmployed,
           memory.at \in Calling =>
               memory.inTime /\ leasedBy[memory.task] = w /\ Leased(memory.task),
           \A t \in Tasks : Last(t) /\ (leasedBy[t] # NoWorker \/ task[t] = "sent") =>
               /\ Matches => Matches'
               /\ empStatus = "offboarded" /\ account = "off" => account' = "off",
           \A t \in Tasks :
               Last(t) /\ memory.at # "idle" /\ memory.task = t /\ leasedBy[t] = w =>
                  /\ memory.at \in {"disabled", "revoking"} => account' = "off"
                  /\ memory.at = "ok" => Matches'
    PROVE  GraphInv'
  <1>  USE DEF GraphInv
  <1>1. /\ run'[w] = memory /\ \A v \in GraphWorkers \ {w} : run'[v] = run[v]
        /\ run' \in [GraphWorkers -> {IdleRun} \cup
              [at : {"claimed", "offboarded", "employed", "reread", "disabled", "ok", "error", "fatal"},
               task : Tasks] \cup
              [at : {"disabling", "revoking", "enabling"}, task : Tasks, inTime : BOOLEAN]]
    BY RunOf
  <1>2. GraphTypeOK'  BY <1>1 DEF GraphTypeOK
  <1>3. LeasesPending' /\ OneLease' /\ Serialized'
    BY DEF LeasesPending, OneLease, Serialized, Leased
  <1>4. CallsLeased'
    <2>  SUFFICES ASSUME NEW v \in GraphWorkers, run'[v].at \in Calling
                  PROVE  run'[v].inTime /\ leasedBy[run'[v].task] = v /\ Leased(run'[v].task)
      BY DEF CallsLeased, Leased
    <2>1. CASE v = w  BY <1>1, <2>1
    <2>2. CASE v # w  BY <1>1, <2>2 DEF CallsLeased
    <2>  QED  BY <2>1, <2>2
  <1>5. /\ \A t \in Tasks : Last(t)' <=> Last(t)
        /\ \A at : Agrees(at)' <=> Agrees(at)
        /\ Untouched' <=> Untouched
    BY DEF Last, StatusTasks, Agrees, Untouched
  <1>6. Current'
    <2>  SUFFICES ASSUME NEW v \in GraphWorkers, run'[v].at \in AsOffboarded \cup AsEmployed,
                         leasedBy[run'[v].task] = v, Leased(run'[v].task)
                  PROVE  Agrees(run'[v].at) \/ Untouched \/ overwritten
      BY <1>5 DEF Current, Leased
    <2>1. CASE v = w
      <3>1. memory.at # "idle"  BY <1>1, <2>1 DEF AsOffboarded, AsEmployed
      <3>2. run[w].at \in AsOffboarded \cup AsEmployed /\ leasedBy[run[w].task] = w /\ Leased(run[w].task)
        BY <1>1, <2>1, <3>1
      <3>3. Agrees(run[w].at) \/ Untouched \/ overwritten  BY <3>2 DEF Current
      <3>  QED  BY <1>1, <2>1, <3>3 DEF Agrees
    <2>2. CASE v # w  BY <1>1, <2>2 DEF Current
    <2>  QED  BY <2>1, <2>2
  <1>7. Progress'
    <2>  SUFFICES ASSUME NEW v \in GraphWorkers, NEW t \in Tasks, Last(t), run'[v].at # "idle",
                         run'[v].task = t, leasedBy[t] = v
                  PROVE  /\ Agrees(run'[v].at)
                         /\ run'[v].at \in {"disabled", "revoking"} => account' = "off"
                         /\ run'[v].at = "ok" => Matches'
      BY <1>5 DEF Progress
    <2>1. CASE v = w
      <3>1. Agrees(run[w].at)  BY <1>1, <2>1 DEF Progress
      <3>  QED  BY <1>1, <2>1, <3>1 DEF Agrees
    <2>2. CASE v # w
      <3>1. leasedBy[t] # NoWorker  OBVIOUS
      <3>2. /\ Agrees(run[v].at) /\ run'[v].at = run[v].at
            /\ run[v].at \in {"disabled", "revoking"} => account = "off"
            /\ run[v].at = "ok" => Matches
        BY <1>1, <2>2 DEF Progress
      <3>3. run[v].at \in {"disabled", "revoking"} => empStatus = "offboarded"
        BY <3>2 DEF Agrees, AsOffboarded
      <3>  QED  BY <3>1, <3>2, <3>3
    <2>  QED  BY <2>1, <2>2
  <1>8. SentMatches'  BY <1>5 DEF SentMatches
  <1>  QED  BY <1>2, <1>3, <1>4, <1>6, <1>7, <1>8

\* The steps of a run between its read and its end, but for the answers.
LEMMA ThinkInv ==
    ASSUME GraphInv, NEW w \in GraphWorkers,
           \/ RereadStatus(w) \/ BeginCall(w) \/ WorkerDies(w)
           \/ \E result \in {"error", "fatal"} : IdentityFails(w, result)
    PROVE  GraphInv'
  <1>  USE DEF GraphInv
  <1>1. UNCHANGED <<empStatus, edit, task, change, taskAttempts, taskLease, leasedBy, account, sessions,
                   graphOn, revived, overwritten>>
    BY DEF RereadStatus, BeginCall, WorkerDies, IdentityFails
  <1>2. (Matches' <=> Matches) /\ account' \in {"on", "off"} /\ sessions' \in {"live", "revoked"}
    BY <1>1 DEF Matches, GraphTypeOK
  <1>3. \A t \in Tasks : Last(t) /\ (leasedBy[t] # NoWorker \/ task[t] = "sent") =>
            /\ Matches => Matches'
            /\ empStatus = "offboarded" /\ account = "off" => account' = "off"
    BY <1>1, <1>2
  <1>4. CASE WorkerDies(w)
    <2>1. PICK memory \in RunMemory : memory = IdleRun  BY DEF RunMemory
    <2>2. memory.at = "idle"  BY <2>1 DEF IdleRun
    <2>3. run' = [run EXCEPT ![w] = memory]  BY <1>4, <2>1 DEF WorkerDies
    <2>4. memory.at \notin AsOffboarded \cup AsEmployed \cup Calling
      BY <2>2 DEF AsOffboarded, AsEmployed, Calling
    <2>  QED  BY <1>1, <1>2, <2>2, <2>3, <2>4, WorkInv
  <1>5. ASSUME NEW to \in {"error", "fatal"}, run[w].at # "idle",
               run' = [run EXCEPT ![w] = [at |-> to, task |-> run[w].task]]
        PROVE  GraphInv'
    <2>1. run[w].task \in Tasks  BY <1>5, RunFields
    <2>2. PICK memory \in RunMemory : memory = [at |-> to, task |-> run[w].task]
      BY <2>1 DEF RunMemory, PlainRun, PlainAt
    <2>3. memory.at = to /\ memory.task = run[w].task  BY <2>2
    <2>4. memory.at \notin AsOffboarded \cup AsEmployed \cup Calling
      BY <2>3 DEF AsOffboarded, AsEmployed, Calling
    <2>5. memory.at \notin {"disabled", "revoking", "ok"}  BY <2>3
    <2>6. run' = [run EXCEPT ![w] = memory] /\ run[w].at # "idle"  BY <1>5, <2>2
    <2>  QED  BY <1>1, <1>2, <2>3, <2>4, <2>5, <2>6, WorkInv
  <1>6. ASSUME NEW result \in {"error", "fatal"}, IdentityFails(w, result) PROVE GraphInv'
    BY <1>5, <1>6 DEF IdentityFails, Goes
  <1>7. CASE RereadStatus(w)
    <2>1. PICK to \in {"reread", "ok"} :
            /\ run[w].at = "employed" /\ run' = [run EXCEPT ![w] = [at |-> to, task |-> run[w].task]]
            /\ to = "ok" => empStatus = "offboarded"
      BY <1>7 DEF RereadStatus, Goes
    <2>2. run[w].task \in Tasks  BY <2>1, RunFields
    <2>3. PICK memory \in RunMemory : memory = [at |-> to, task |-> run[w].task]
      BY <2>2 DEF RunMemory, PlainRun, PlainAt
    <2>4. memory.at = to /\ memory.task = run[w].task  BY <2>3
    <2>5. memory.at \notin AsOffboarded \cup Calling /\ run[w].at \in AsEmployed
      BY <2>1, <2>4 DEF AsOffboarded, AsEmployed, Calling
    <2>6. ASSUME NEW t \in Tasks, Last(t), memory.task = t, leasedBy[t] = w PROVE memory.at # "ok"
      <3>1. Agrees("employed")  BY <2>1, <2>4, <2>6 DEF Progress
      <3>  QED  BY <2>1, <2>4, <3>1 DEF Agrees, AsEmployed
    <2>7. memory.at \notin {"disabled", "revoking"}  BY <2>4
    <2>8. run' = [run EXCEPT ![w] = memory] /\ run[w].at # "idle"  BY <2>1, <2>3
    <2>  QED  BY <1>1, <1>2, <2>4, <2>5, <2>6, <2>7, <2>8, WorkInv
  <1>8. CASE BeginCall(w)
    <2>1. run[w].at \in {"offboarded", "disabled", "reread"}  BY <1>8 DEF BeginCall
    <2>2. run[w].at # "idle" /\ run[w].task \in Tasks  BY <2>1, RunFields
    <2>3. CASE ~TimeToMutate(w)
      <3>1. run' = [run EXCEPT ![w] = [at |-> "error", task |-> run[w].task]]
        BY <1>8, <2>3 DEF BeginCall, Goes
      <3>  QED  BY <1>5, <2>2, <3>1
    <2>4. CASE TimeToMutate(w)
      <3>1. leasedBy[run[w].task] = w /\ taskLease[run[w].task] = "fresh"
        BY <2>4 DEF TimeToMutate
      <3>2. run' = [run EXCEPT ![w] = [at |-> Call(run[w].at), task |-> run[w].task, inTime |-> TRUE]]
        BY <1>8, <2>4, <3>1 DEF BeginCall
      <3>3. /\ Call(run[w].at) \in Calling
            /\ Call(run[w].at) \in AsOffboarded => run[w].at \in AsOffboarded
            /\ Call(run[w].at) \in AsEmployed => run[w].at \in AsEmployed
            /\ Call(run[w].at) = "revoking" => run[w].at = "disabled"
        BY <2>1 DEF Call, Calling, AsOffboarded, AsEmployed
      <3>4. PICK memory \in RunMemory :
              memory = [at |-> Call(run[w].at), task |-> run[w].task, inTime |-> TRUE]
        BY <2>2, <3>3 DEF RunMemory, CallRun
      <3>5. memory.at = Call(run[w].at) /\ memory.task = run[w].task /\ memory.inTime
        BY <3>4
      <3>6. memory.inTime /\ leasedBy[memory.task] = w /\ Leased(memory.task)
        BY <3>1, <3>5 DEF Leased
      <3>7. memory.at \notin {"ok", "disabled", "idle"}  BY <3>3, <3>5 DEF Calling
      <3>8. ASSUME NEW t \in Tasks, Last(t), memory.task = t, leasedBy[t] = w, memory.at = "revoking"
            PROVE  account' = "off"
        BY <1>1, <2>2, <3>3, <3>5, <3>8 DEF Progress
      <3>9. run' = [run EXCEPT ![w] = memory]  BY <3>2, <3>4
      <3>10. /\ memory.at \in AsOffboarded => run[w].at \in AsOffboarded
             /\ memory.at \in AsEmployed => run[w].at \in AsEmployed
        BY <3>3, <3>5
      <3>11. \A t \in Tasks :
                Last(t) /\ memory.at # "idle" /\ memory.task = t /\ leasedBy[t] = w =>
                   /\ memory.at \in {"disabled", "revoking"} => account' = "off"
                   /\ memory.at = "ok" => Matches'
        BY <3>7, <3>8
      <3>12. memory.at # "idle" => run[w].at # "idle" /\ memory.task = run[w].task
        BY <2>2, <3>5
      <3>13. memory.at \in Calling =>
                memory.inTime /\ leasedBy[memory.task] = w /\ Leased(memory.task)
        BY <3>6
      <3>  QED  BY <1>1, <1>2, <1>3, <3>9, <3>10, <3>11, <3>12, <3>13, WorkInv
    <2>  QED  BY <2>3, <2>4
  <1>  QED  BY <1>4, <1>6, <1>7, <1>8

\* A run that calls Entra agrees with the status, unless the task of a newer
\* status is still untouched.
LEMMA CallAgrees ==
    ASSUME GraphInv, NEW w \in GraphWorkers, run[w].at \in Calling,
           NEW t \in Tasks, Last(t), leasedBy[t] # NoWorker \/ task[t] = "sent"
    PROVE  Agrees(run[w].at)
  <1>1. ~Untouched
    <2>  SUFFICES ASSUME NEW s \in Tasks, Last(s), task[s] = "pending", leasedBy[s] = NoWorker PROVE FALSE
      BY DEF Untouched
    <2>1. s = t  BY OneLast
    <2>  QED  BY <2>1
  <1>2. run[w].at \in AsOffboarded \cup AsEmployed  BY DEF Calling, AsOffboarded, AsEmployed
  <1>3. leasedBy[run[w].task] = w /\ Leased(run[w].task)  BY DEF GraphInv, CallsLeased
  <1>4. ~overwritten  BY DEF Last
  <1>  QED  BY <1>1, <1>2, <1>3, <1>4 DEF GraphInv, Current

\* A call is answered, fails or is lost.
LEMMA CallEndsInv ==
    ASSUME GraphInv, NEW w \in GraphWorkers, CallEnds(w)
    PROVE  GraphInv'
  <1>  USE DEF GraphInv
  <1>1. PICK landed \in BOOLEAN, result \in {"ok", "error", "fatal"} :
            EndCall(w, landed, result) /\ (result = "ok" => landed)
    BY DEF CallEnds
  <1>2. /\ run[w].at \in Calling
        /\ UNCHANGED <<empStatus, edit, task, change, taskAttempts, taskLease, leasedBy,
                   graphOn, revived, overwritten>>
        /\ account' = IF landed /\ run[w].at = "disabling" THEN "off"
                      ELSE IF landed /\ run[w].at = "enabling" THEN "on" ELSE account
        /\ sessions' = IF landed /\ run[w].at = "revoking" THEN "revoked" ELSE sessions
    BY <1>1 DEF EndCall, Calling
  <1>3. account' \in {"on", "off"} /\ sessions' \in {"live", "revoked"}
    BY <1>2 DEF GraphTypeOK
  <1>4. run[w].at # "idle" /\ run[w].task \in Tasks  BY <1>2, RunFields DEF Calling
  <1>5. PICK to \in {"disabled", "ok", "error", "fatal"} :
            /\ run' = [run EXCEPT ![w] = [at |-> to, task |-> run[w].task]]
            /\ to = "disabled" => run[w].at = "disabling" /\ landed
            /\ to = "ok" => run[w].at \in {"revoking", "enabling"} /\ landed
    <2>1. (IF result = "ok" THEN AfterCall(run[w].at) ELSE result) \in {"disabled", "ok", "error", "fatal"}
      BY DEF AfterCall
    <2>2. AfterCall(run[w].at) = IF run[w].at = "disabling" THEN "disabled" ELSE "ok"
      BY DEF AfterCall, Call
    <2>  QED  BY <1>1, <1>2, <2>1, <2>2 DEF EndCall, Calling
  <1>6. PICK memory \in RunMemory : memory = [at |-> to, task |-> run[w].task]
    BY <1>4 DEF RunMemory, PlainRun, PlainAt
  <1>7. memory.at = to /\ memory.task = run[w].task  BY <1>6
  <1>8. \A t \in Tasks : Last(t) /\ (leasedBy[t] # NoWorker \/ task[t] = "sent") =>
            /\ Matches => Matches'
            /\ empStatus = "offboarded" /\ account = "off" => account' = "off"
    <2>  SUFFICES ASSUME NEW t \in Tasks, Last(t), leasedBy[t] # NoWorker \/ task[t] = "sent"
                  PROVE  /\ Matches => Matches'
                         /\ empStatus = "offboarded" /\ account = "off" => account' = "off"
      OBVIOUS
    <2>1. Agrees(run[w].at)  BY <1>2, CallAgrees
    <2>2. /\ run[w].at \in {"disabling", "revoking"} => empStatus = "offboarded"
          /\ run[w].at = "enabling" => empStatus # "offboarded"
      BY <2>1 DEF Agrees, AsOffboarded, AsEmployed
    <2>  QED  BY <1>2, <2>2 DEF Matches, Calling
  <1>9. \A t \in Tasks :
            Last(t) /\ memory.at # "idle" /\ memory.task = t /\ leasedBy[t] = w =>
               /\ memory.at \in {"disabled", "revoking"} => account' = "off"
               /\ memory.at = "ok" => Matches'
    <2>  SUFFICES ASSUME NEW t \in Tasks, Last(t), memory.task = t, leasedBy[t] = w
                  PROVE  /\ memory.at \in {"disabled", "revoking"} => account' = "off"
                         /\ memory.at = "ok" => Matches'
      OBVIOUS
    <2>1. Agrees(run[w].at) /\ (run[w].at \in {"disabled", "revoking"} => account = "off")
      BY <1>4, <1>7 DEF Progress
    <2>2. memory.at \in {"disabled", "revoking"} => account' = "off"
      BY <1>2, <1>5, <1>7
    <2>3. memory.at = "ok" => Matches'
      <3>1. CASE run[w].at = "revoking"
        BY <1>2, <1>5, <1>7, <2>1, <3>1 DEF Matches, Agrees, AsOffboarded
      <3>2. CASE run[w].at = "enabling"
        BY <1>2, <1>5, <1>7, <2>1, <3>2 DEF Matches, Agrees, AsEmployed
      <3>  QED  BY <1>5, <1>7, <3>1, <3>2
    <2>  QED  BY <2>2, <2>3
  <1>10. memory.at \in AsOffboarded => run[w].at \in AsOffboarded
    BY <1>5, <1>7 DEF AsOffboarded
  <1>11. memory.at \notin AsEmployed \cup Calling  BY <1>7 DEF AsEmployed, Calling
  <1>12. run' = [run EXCEPT ![w] = memory]  BY <1>5, <1>6
  <1>  QED  BY <1>2, <1>3, <1>4, <1>7, <1>8, <1>9, <1>10, <1>11, <1>12, WorkInv

\* The person signs in.
LEMMA SignInInv ==
    ASSUME GraphInv, SignIn
    PROVE  GraphInv'
  <1>  USE DEF GraphInv
  <1>1. /\ account = "on" /\ sessions' = "live"
        /\ UNCHANGED <<empStatus, edit, task, change, taskAttempts, taskLease, leasedBy, run, account,
                   graphOn, revived, overwritten>>
    BY DEF SignIn
  <1>2. GraphTypeOK'  BY <1>1 DEF GraphTypeOK
  <1>3. LeasesPending' /\ CallsLeased' /\ OneLease' /\ Serialized'
    BY <1>1 DEF LeasesPending, CallsLeased, OneLease, Serialized, Leased
  <1>4. Matches => Matches'  BY <1>1 DEF Matches
  <1>5. /\ \A t \in Tasks : Last(t)' <=> Last(t)
        /\ \A at : Agrees(at)' <=> Agrees(at)
        /\ Untouched' <=> Untouched
    BY <1>1 DEF Last, StatusTasks, Agrees, Untouched
  <1>6. Current'  BY <1>1, <1>5 DEF Current, Leased
  <1>7. Progress'  BY <1>1, <1>4, <1>5 DEF Progress
  <1>8. SentMatches'  BY <1>1, <1>4, <1>5 DEF SentMatches
  <1>  QED  BY <1>2, <1>3, <1>6, <1>7, <1>8

-----------------------------------------------------------------------------
(* GraphAccounts: the steps that change rows and leases                    *)

\* Finishing and reaping tasks leaves the last change what it was.
LEMMA SameLast ==
    ASSUME UNCHANGED <<empStatus, change, account, sessions, overwritten>>,
           \A s \in Tasks : task'[s] \in {"none", "open"} <=> task[s] \in {"none", "open"}
    PROVE  /\ \A t \in Tasks : Last(t)' <=> Last(t)
           /\ \A at : Agrees(at)' <=> Agrees(at)
           /\ Matches' <=> Matches
  <1>1. StatusTasks' = StatusTasks  BY DEF StatusTasks
  <1>  QED  BY <1>1 DEF Last, Agrees, Matches

\* A task is enqueued, in a transaction that is not committed.
LEMMA EnqueueInv ==
    ASSUME GraphInv, NEW t \in Tasks, NEW status \in {"none"} \cup Statuses,
           EnqueueTask(t, status), edit' \in [Editors -> EditMemory]
    PROVE  GraphInv'
  <1>  USE DEF GraphInv
  <1>1. /\ task[t] = "none" /\ \A s \in 1 .. t - 1 : task[s] # "none"
        /\ status # "none" => \A s \in Tasks : task[s] = "open" => change[s] = "none"
        /\ task' = [task EXCEPT ![t] = "open"] /\ change' = [change EXCEPT ![t] = status]
        /\ UNCHANGED <<empStatus, taskAttempts, taskLease, leasedBy, run, account, sessions,
                   graphOn, revived, overwritten>>
    BY DEF EnqueueTask, IsNext, RowLocked
  <1>2. \A s \in Tasks : /\ task'[s] = IF s = t THEN "open" ELSE task[s]
                         /\ change'[s] = IF s = t THEN status ELSE change[s]
    BY <1>1 DEF GraphTypeOK
  <1>3. GraphTypeOK'
    <2>1. task' \in [Tasks -> {"none", "open", "pending", "sent", "failed"}]  BY <1>1 DEF GraphTypeOK
    <2>2. change' \in [Tasks -> {"none"} \cup Statuses]  BY <1>1 DEF GraphTypeOK
    <2>  QED  BY <1>1, <2>1, <2>2 DEF GraphTypeOK, EditMemory
  <1>4. LeasesPending'  BY <1>1, <1>2 DEF LeasesPending, Leased
  <1>5. CallsLeased' /\ OneLease'  BY <1>1 DEF CallsLeased, OneLease, Leased
  <1>6. Serialized'
    <2>1. \A s \in Tasks : s < t => task[s] # "none"  BY <1>1, TaskNumbers DEF Tasks
    <2>2. \A s \in Tasks : t < s => task[s] = "none"  BY <1>1 DEF Serialized
    <2>3. ASSUME NEW r \in Tasks, NEW s \in Tasks, r < s, task'[s] # "none" PROVE task'[r] # "none"
      BY <1>2, <2>1, <2>3 DEF Serialized
    <2>4. ASSUME NEW r \in Tasks, NEW s \in Tasks, task'[s] = "open", change'[s] # "none",
                 task'[r] # "none", change'[r] # "none"
          PROVE  r <= s
      <3>1. CASE s = t  BY <1>2, <2>2, <2>4, <3>1, TaskNumbers
      <3>2. CASE s # t /\ r # t  BY <1>2, <2>4, <3>2 DEF Serialized
      <3>3. CASE s # t /\ r = t  BY <1>1, <1>2, <2>4, <3>3
      <3>  QED  BY <3>1, <3>2, <3>3
    <2>  QED  BY <2>3, <2>4 DEF Serialized
  <1>7. StatusTasks' = StatusTasks  BY <1>1, <1>2 DEF StatusTasks
  <1>8. /\ \A s \in Tasks : Last(s)' <=> Last(s)
        /\ \A at : Agrees(at)' <=> Agrees(at)
        /\ Matches' <=> Matches
    BY <1>1, <1>7 DEF Last, Agrees, Matches
  <1>9. Untouched => Untouched'
    BY <1>1, <1>2, <1>8 DEF Untouched
  <1>10. Current'  BY <1>1, <1>8, <1>9 DEF Current, Leased
  <1>11. Progress' /\ SentMatches'  BY <1>1, <1>2, <1>8 DEF Progress, SentMatches
  <1>  QED  BY <1>3, <1>4, <1>5, <1>6, <1>10, <1>11

\* The transaction commits: what every run has read may be stale now.
LEMMA CommitInv ==
    ASSUME GraphInv, NEW t \in Tasks, CommitTask(t)
    PROVE  GraphInv'
  <1>  USE DEF GraphInv
  <1>1. /\ task[t] = "open" /\ task' = [task EXCEPT ![t] = "pending"]
        /\ empStatus' = IF change[t] = "none" THEN empStatus ELSE change[t]
        /\ UNCHANGED <<edit, change, taskAttempts, taskLease, leasedBy, run, account, sessions,
                   graphOn, revived>>
        /\ overwritten' = (overwritten /\ change[t] = "none")
    BY DEF CommitTask
  <1>2. \A s \in Tasks : task'[s] = IF s = t THEN "pending" ELSE task[s]
    BY <1>1 DEF GraphTypeOK
  <1>3. GraphTypeOK'
    <2>1. change[t] \in {"none"} \cup Statuses  BY DEF GraphTypeOK
    <2>2. empStatus' \in Statuses  BY <1>1, <2>1 DEF GraphTypeOK
    <2>3. overwritten' \in BOOLEAN  BY <1>1
    <2>  QED  BY <1>1, <2>2, <2>3 DEF GraphTypeOK
  <1>4. LeasesPending'  BY <1>1, <1>2 DEF LeasesPending, Leased
  <1>5. CallsLeased' /\ OneLease'  BY <1>1 DEF CallsLeased, OneLease, Leased
  <1>6. Serialized'  BY <1>1, <1>2 DEF Serialized
  <1>7. leasedBy[t] = NoWorker /\ taskAttempts[t] = 0  BY <1>1 DEF LeasesPending
  <1>8. CASE change[t] = "none"
    <2>1. /\ StatusTasks' = StatusTasks /\ empStatus' = empStatus
          /\ overwritten' <=> overwritten
      BY <1>1, <1>2, <1>8 DEF StatusTasks
    <2>2. /\ \A s \in Tasks : Last(s)' <=> Last(s)
          /\ \A at : Agrees(at)' <=> Agrees(at)
          /\ Matches' <=> Matches
      BY <1>1, <2>1 DEF Last, Agrees, Matches
    <2>3. Untouched => Untouched'  BY <1>1, <1>2, <2>2 DEF Untouched
    <2>4. Current'  BY <1>1, <2>1, <2>2, <2>3 DEF Current, Leased
    <2>5. Progress' /\ SentMatches'  BY <1>1, <1>2, <2>2 DEF Progress, SentMatches
    <2>  QED  BY <1>3, <1>4, <1>5, <1>6, <2>4, <2>5
  <1>9. CASE change[t] # "none"
    <2>1. \A s \in Tasks : s \in StatusTasks' => s <= t
      BY <1>1, <1>2, <1>9, TaskNumbers DEF StatusTasks, Serialized
    <2>2. t \in StatusTasks' /\ StatusTasks' \subseteq Tasks  BY <1>1, <1>2, <1>9 DEF StatusTasks
    <2>3. Last(t)'  BY <1>1, <1>9, <2>1, <2>2 DEF Last
    <2>4. \A s \in Tasks : Last(s)' => s = t  BY <2>2, <2>3, TaskNumbers DEF Last
    <2>5. Untouched'  BY <1>1, <1>2, <1>7, <2>3 DEF Untouched
    <2>6. Current'  BY <2>5 DEF Current
    <2>7. Progress'  BY <1>1, <1>7, <2>4 DEF Progress
    <2>8. SentMatches'  BY <1>2, <2>4 DEF SentMatches
    <2>  QED  BY <1>3, <1>4, <1>5, <1>6, <2>6, <2>7, <2>8
  <1>  QED  BY <1>8, <1>9

\* A call of updateStatus reads the employee; the workers are deployed.
LEMMA AsideInv ==
    ASSUME GraphInv, edit' \in [Editors -> EditMemory], graphOn' \in BOOLEAN,
           UNCHANGED <<empStatus, task, change, taskAttempts, taskLease, leasedBy, run, account, sessions,
                       revived, overwritten>>
    PROVE  GraphInv'
  <1>1. GraphTypeOK'  BY DEF GraphInv, GraphTypeOK, EditMemory
  <1>2. LeasesPending' /\ CallsLeased' /\ OneLease' /\ Serialized'
    BY DEF GraphInv, LeasesPending, CallsLeased, OneLease, Serialized, Leased
  <1>3. /\ \A t \in Tasks : Last(t)' <=> Last(t)
        /\ \A at : Agrees(at)' <=> Agrees(at)
        /\ Matches' <=> Matches
    BY SameLast
  <1>4. Untouched' <=> Untouched  BY <1>3 DEF Untouched
  <1>5. Current' /\ Progress' /\ SentMatches'
    BY <1>3, <1>4 DEF GraphInv, Current, Progress, SentMatches, Leased
  <1>  QED  BY <1>1, <1>2, <1>5 DEF GraphInv

\* An edit between active and on_leave commits.  If it ends an offboarding,
\* nothing is claimed of the account until a task says something new.
LEMMA WithoutTaskInv ==
    ASSUME GraphInv, NEW h \in Editors, UpdateWithoutTask(h)
    PROVE  GraphInv'
  <1>  USE DEF GraphInv
  <1>1. /\ UNCHANGED <<task, change, taskAttempts, taskLease, leasedBy, run, account, sessions,
                       graphOn, revived>>
        /\ overwritten' = (overwritten \/ empStatus = "offboarded")
        /\ edit' = [edit EXCEPT ![h] = NoEdit]
    BY DEF UpdateWithoutTask, NeedsTask
  <1>2. empStatus' \in Statuses /\ empStatus' # "offboarded"
    <2>1. edit[h] \in [read : Statuses, to : Statuses] /\ "offboarded" # edit[h].to
      BY DEF UpdateWithoutTask, NeedsTask, GraphTypeOK
    <2>  QED  BY <2>1 DEF UpdateWithoutTask
  <1>3. GraphTypeOK'
    <2>1. overwritten' \in BOOLEAN  BY <1>1
    <2>2. edit' \in [Editors -> EditMemory]  BY <1>1 DEF GraphTypeOK, EditMemory
    <2>  QED  BY <1>1, <1>2, <2>1, <2>2 DEF GraphTypeOK, EditMemory
  <1>4. LeasesPending' /\ CallsLeased' /\ OneLease' /\ Serialized'
    BY <1>1 DEF LeasesPending, CallsLeased, OneLease, Serialized, Leased
  <1>5. CASE overwritten'
    <2>1. \A t \in Tasks : ~Last(t)'  BY <1>5 DEF Last
    <2>  QED  BY <1>3, <1>4, <1>5, <2>1 DEF Current, Progress, SentMatches
  <1>6. CASE ~overwritten'
    <2>1. empStatus # "offboarded" /\ ~overwritten  BY <1>1, <1>6
    <2>2. StatusTasks' = StatusTasks  BY <1>1 DEF StatusTasks
    <2>3. \A t \in Tasks : Last(t)' <=> Last(t)  BY <1>6, <2>1, <2>2 DEF Last
    <2>4. /\ \A at : Agrees(at)' <=> Agrees(at)
          /\ Matches' <=> Matches
      BY <1>1, <1>2, <2>1 DEF Agrees, Matches
    <2>5. Untouched' <=> Untouched  BY <1>1, <2>3 DEF Untouched
    <2>6. Current' /\ Progress' /\ SentMatches'
      BY <1>1, <2>1, <2>3, <2>4, <2>5 DEF Current, Progress, SentMatches, Leased
    <2>  QED  BY <1>3, <1>4, <2>6
  <1>  QED  BY <1>5, <1>6

\* Abandoned tasks are given up, by themselves or in a claim; no lease is
\* good when a task is claimed.
LEMMA ReapInv ==
    ASSUME GraphInv, ReapTasks
    PROVE  GraphInv'
  <1>  USE DEF GraphInv
  <1>1. /\ task' = [s \in Tasks |-> IF TaskAbandoned(s) THEN "failed" ELSE task[s]]
        /\ taskLease' = [s \in Tasks |-> IF TaskAbandoned(s) THEN "none" ELSE taskLease[s]]
        /\ leasedBy' = [s \in Tasks |-> IF TaskAbandoned(s) THEN NoWorker ELSE leasedBy[s]]
        /\ UNCHANGED <<empStatus, edit, change, taskAttempts, run, account, sessions,
                   graphOn, revived, overwritten>>
    BY DEF ReapTasks
  <1>2. ASSUME NEW s \in Tasks
        PROVE  /\ task[s] \in {"none", "open", "sent"} => task'[s] = task[s]
               /\ task'[s] = task[s] \/ (task[s] = "pending" /\ task'[s] = "failed")
               /\ Leased(s)' <=> Leased(s)
               /\ leasedBy'[s] # NoWorker \/ Leased(s) =>
                      task'[s] = task[s] /\ leasedBy'[s] = leasedBy[s]
               /\ taskAttempts[s] = 0 => task'[s] = task[s] /\ leasedBy'[s] = leasedBy[s]
    <2>1. CASE TaskAbandoned(s)
      <3>1. task[s] = "pending" /\ taskAttempts[s] # 0 /\ ~Leased(s)
        BY <2>1 DEF TaskAbandoned
      <3>  QED  BY <1>1, <2>1, <3>1 DEF Leased
    <2>2. CASE ~TaskAbandoned(s)  BY <1>1, <2>2 DEF Leased
    <2>  QED  BY <2>1, <2>2
  <1>3. GraphTypeOK'  BY <1>1 DEF GraphTypeOK
  <1>4. LeasesPending'
    <2>  SUFFICES ASSUME NEW s \in Tasks
                  PROVE  /\ leasedBy'[s] # NoWorker \/ Leased(s)' => task'[s] = "pending"
                         /\ task'[s] \in {"none", "open"} => taskAttempts[s] = 0
      BY <1>1 DEF LeasesPending
    <2>1. leasedBy'[s] # NoWorker \/ Leased(s)' => task'[s] = "pending"
      BY <1>2 DEF LeasesPending
    <2>  QED  BY <1>2, <2>1 DEF LeasesPending
  <1>5. CallsLeased'
    <2>  SUFFICES ASSUME NEW w \in GraphWorkers, run[w].at \in Calling
                  PROVE  run[w].inTime /\ leasedBy'[run[w].task] = w /\ Leased(run[w].task)'
      BY <1>1 DEF CallsLeased, Leased
    <2>1. PICK s \in Tasks : s = run[w].task  BY RunFields DEF Calling
    <2>2. run[w].inTime /\ leasedBy[s] = w /\ Leased(s)  BY <2>1 DEF CallsLeased
    <2>3. leasedBy'[s] = w /\ Leased(s)'  BY <1>2, <2>2
    <2>4. Leased(run[w].task)' <=> Leased(s)'  BY <1>1, <2>1 DEF Leased
    <2>  QED  BY <2>1, <2>2, <2>3, <2>4
  <1>6. OneLease'  BY <1>1, <1>2 DEF OneLease
  <1>7. Serialized'  BY <1>1, <1>2 DEF Serialized
  <1>8. /\ \A s \in Tasks : Last(s)' <=> Last(s)
        /\ \A at : Agrees(at)' <=> Agrees(at)
        /\ Matches' <=> Matches
    <2>1. \A s \in Tasks : task'[s] \in {"none", "open"} <=> task[s] \in {"none", "open"}  BY <1>2
    <2>  QED  BY <1>1, <2>1, SameLast
  <1>9. Untouched => Untouched'  BY <1>1, <1>2, <1>8 DEF Untouched
  <1>10. Current'
    <2>  SUFFICES ASSUME NEW w \in GraphWorkers, run[w].at \in AsOffboarded \cup AsEmployed,
                         leasedBy'[run[w].task] = w, Leased(run[w].task)'
                  PROVE  Agrees(run[w].at) \/ Untouched \/ overwritten
      BY <1>1, <1>8, <1>9 DEF Current, Leased
    <2>1. PICK s \in Tasks : s = run[w].task  BY RunFields DEF AsOffboarded, AsEmployed
    <2>2. leasedBy'[s] = w /\ Leased(s)'  BY <1>1, <2>1 DEF Leased
    <2>3. leasedBy[s] = w /\ Leased(s)  BY <1>2, <2>2
    <2>  QED  BY <2>1, <2>3 DEF Current
  <1>11. Progress' /\ SentMatches'
    <2>1. Progress'  BY <1>1, <1>2, <1>8 DEF Progress
    <2>2. SentMatches'  BY <1>2, <1>8 DEF SentMatches
    <2>  QED  BY <2>1, <2>2
  <1>  QED  BY <1>3, <1>4, <1>5, <1>6, <1>7, <1>10, <1>11

\* The tasks of one person are claimed while no lease is good: the NOT EXISTS
\* of selectDue refuses a task beside a leased one.
LEMMA ClaimedAlone ==
    ASSUME GraphInv, NEW w \in GraphWorkers, NEW t \in Tasks, ClaimTask(w, t), NEW s \in Tasks
    PROVE  ~Leased(s)
  <1>1. ~Leased(t) /\ Unblocked(t)  BY DEF ClaimTask
  <1>2. ASSUME s # t, Leased(s) PROVE FALSE
    <2>1. task[s] = "pending" /\ ~TaskAbandoned(s)  BY <1>2 DEF GraphInv, LeasesPending, TaskAbandoned
    <2>  QED  BY <1>1, <1>2, <2>1 DEF Unblocked
  <1>  QED  BY <1>1, <1>2

\* A worker claims a task.
LEMMA ClaimInv ==
    ASSUME GraphInv, NEW w \in GraphWorkers, NEW t \in Tasks, ClaimTask(w, t)
    PROVE  GraphInv'
  <1>  USE DEF GraphInv
  <1>1. /\ run[w] = IdleRun /\ task[t] = "pending" /\ taskAttempts[t] < MaxTaskAttempts
        /\ task' = [s \in Tasks |-> IF TaskAbandoned(s) THEN "failed" ELSE task[s]]
        /\ taskAttempts' = [taskAttempts EXCEPT ![t] = @ + 1]
        /\ taskLease' = [s \in Tasks |->
              IF s = t THEN "fresh" ELSE IF TaskAbandoned(s) THEN "none" ELSE taskLease[s]]
        /\ leasedBy' = [s \in Tasks |->
              IF s = t THEN w ELSE IF TaskAbandoned(s) THEN NoWorker ELSE leasedBy[s]]
        /\ run' = [run EXCEPT ![w] = [at |-> "claimed", task |-> t]]
        /\ UNCHANGED <<empStatus, edit, change, account, sessions, graphOn, revived, overwritten>>
    BY DEF ClaimTask
  <1>2. PICK memory \in RunMemory : memory = [at |-> "claimed", task |-> t]
    BY DEF RunMemory, PlainRun, PlainAt
  <1>3. memory.at = "claimed" /\ memory.task = t  BY <1>2
  <1>4. /\ run'[w] = memory /\ \A v \in GraphWorkers \ {w} : run'[v] = run[v]
        /\ run' \in [GraphWorkers -> {IdleRun} \cup
              [at : {"claimed", "offboarded", "employed", "reread", "disabled", "ok", "error", "fatal"},
               task : Tasks] \cup
              [at : {"disabling", "revoking", "enabling"}, task : Tasks, inTime : BOOLEAN]]
    BY <1>1, <1>2, RunOf
  <1>5. \A s \in Tasks : ~Leased(s)  BY ClaimedAlone
  <1>6. /\ task'[t] = "pending" /\ leasedBy'[t] = w /\ taskLease'[t] = "fresh"
    <2>1. ~TaskAbandoned(t)
      <3>1. taskAttempts[t] \in 0 .. MaxTaskAttempts  BY DEF GraphTypeOK
      <3>  QED  BY <1>1, <3>1 DEF TaskAbandoned
    <2>  QED  BY <1>1, <2>1
  <1>7. ASSUME NEW s \in Tasks, s # t
        PROVE  /\ ~Leased(s)' /\ taskAttempts'[s] = taskAttempts[s]
               /\ task'[s] = task[s] \/ (task[s] = "pending" /\ task'[s] = "failed")
               /\ leasedBy'[s] # NoWorker => leasedBy'[s] = leasedBy[s] /\ task'[s] = task[s]
    <2>1. taskAttempts'[s] = taskAttempts[s]  BY <1>1, <1>7 DEF GraphTypeOK
    <2>2. CASE TaskAbandoned(s)  BY <1>1, <1>7, <2>1, <2>2 DEF TaskAbandoned, Leased
    <2>3. CASE ~TaskAbandoned(s)  BY <1>1, <1>5, <1>7, <2>1, <2>3 DEF Leased
    <2>  QED  BY <2>2, <2>3
  <1>8. GraphTypeOK'
    <2>1. task' \in [Tasks -> {"none", "open", "pending", "sent", "failed"}]
      BY <1>1 DEF GraphTypeOK
    <2>2. taskAttempts' \in [Tasks -> 0 .. MaxTaskAttempts]
      <3>1. taskAttempts[t] \in 0 .. MaxTaskAttempts  BY DEF GraphTypeOK
      <3>2. taskAttempts[t] + 1 \in 0 .. MaxTaskAttempts  BY <1>1, <3>1
      <3>  QED  BY <1>1, <3>2 DEF GraphTypeOK
    <2>3. taskLease' \in [Tasks -> {"none", "fresh", "short", "lapsed"}]  BY <1>1 DEF GraphTypeOK
    <2>4. leasedBy' \in [Tasks -> GraphWorkers \cup {NoWorker}]  BY <1>1 DEF GraphTypeOK
    <2>  QED  BY <1>1, <1>4, <2>1, <2>2, <2>3, <2>4 DEF GraphTypeOK
  <1>9. LeasesPending'
    <2>  SUFFICES ASSUME NEW s \in Tasks
                  PROVE  /\ leasedBy'[s] # NoWorker \/ Leased(s)' => task'[s] = "pending"
                         /\ task'[s] \in {"none", "open"} => taskAttempts'[s] = 0
      BY DEF LeasesPending
    <2>1. CASE s = t  BY <1>6, <2>1
    <2>2. CASE s # t  BY <1>7, <2>2 DEF LeasesPending
    <2>  QED  BY <2>1, <2>2
  <1>10. CallsLeased'
    <2>1. \A v \in GraphWorkers : run[v].at \notin Calling
      BY <1>5, RunFields DEF CallsLeased, Calling
    <2>2. \A v \in GraphWorkers : run'[v].at \notin Calling
      BY <1>3, <1>4, <2>1 DEF Calling
    <2>  QED  BY <2>2 DEF CallsLeased
  <1>11. OneLease'
    <2>1. \A s \in Tasks : Leased(s)' => s = t  BY <1>7
    <2>  QED  BY <2>1 DEF OneLease
  <1>12. \A s \in Tasks : /\ task'[s] \in {"none", "open"} <=> task[s] \in {"none", "open"}
                          /\ task'[s] = "none" <=> task[s] = "none"
                          /\ task'[s] = "open" <=> task[s] = "open"
                          /\ task'[s] = "sent" => task[s] = "sent"
    BY <1>1, <1>6, <1>7
  <1>13. Serialized'  BY <1>1, <1>12 DEF Serialized
  <1>14. /\ \A s \in Tasks : Last(s)' <=> Last(s)
         /\ \A at : Agrees(at)' <=> Agrees(at)
         /\ Matches' <=> Matches
    BY <1>1, <1>12, SameLast
  <1>15. Current'
    <2>  SUFFICES ASSUME NEW v \in GraphWorkers, run'[v].at \in AsOffboarded \cup AsEmployed,
                         NEW s \in Tasks, s = run'[v].task, leasedBy'[s] = v, Leased(s)'
                  PROVE  FALSE
      <3>1. \A v \in GraphWorkers : run'[v].at \in AsOffboarded \cup AsEmployed => run'[v].task \in Tasks
        BY <1>3, <1>4, RunFields DEF AsOffboarded, AsEmployed
      <3>  QED  BY <3>1 DEF Current, Leased
    <2>1. v # w  BY <1>3, <1>4 DEF AsOffboarded, AsEmployed
    <2>2. s = t  BY <1>7
    <2>  QED  BY <1>6, <2>1, <2>2
  <1>16. Progress'
    <2>  SUFFICES ASSUME NEW v \in GraphWorkers, NEW s \in Tasks, Last(s), run'[v].at # "idle",
                         run'[v].task = s, leasedBy'[s] = v
                  PROVE  /\ Agrees(run'[v].at)
                         /\ run'[v].at \in {"disabled", "revoking"} => account = "off"
                         /\ run'[v].at = "ok" => Matches
      BY <1>1, <1>14 DEF Progress
    <2>1. CASE v = w  BY <1>3, <1>4, <2>1 DEF Agrees, AsOffboarded, AsEmployed
    <2>2. CASE v # w
      <3>1. s # t /\ leasedBy'[s] # NoWorker  BY <1>6, <2>2
      <3>2. leasedBy[s] = v /\ run'[v] = run[v]  BY <1>4, <1>7, <2>2, <3>1
      <3>  QED  BY <3>2 DEF Progress
    <2>  QED  BY <2>1, <2>2
  <1>17. SentMatches'  BY <1>12, <1>14 DEF SentMatches
  <1>  QED  BY <1>8, <1>9, <1>10, <1>11, <1>13, <1>15, <1>16, <1>17

\* A worker that lost its task leaves it alone.
LEMMA LostInv ==
    ASSUME GraphInv, NEW w \in GraphWorkers, run' = [run EXCEPT ![w] = IdleRun],
           UNCHANGED <<empStatus, edit, task, change, taskAttempts, taskLease, leasedBy, account, sessions,
                   graphOn, revived, overwritten>>
    PROVE  GraphInv'
  <1>1. PICK memory \in RunMemory : memory = IdleRun  BY DEF RunMemory
  <1>2. memory.at = "idle"  BY <1>1 DEF IdleRun
  <1>3. memory.at \notin AsOffboarded \cup AsEmployed \cup Calling
    BY <1>2 DEF AsOffboarded, AsEmployed, Calling
  <1>4. (Matches' <=> Matches) /\ account' \in {"on", "off"} /\ sessions' \in {"live", "revoked"}
    BY DEF Matches, GraphInv, GraphTypeOK
  <1>5. run' = [run EXCEPT ![w] = memory]  BY <1>1
  <1>  QED  BY <1>2, <1>3, <1>4, <1>5, WorkInv

\* A worker renews its lease and reads the employee.
LEMMA RenewInv ==
    ASSUME GraphInv, NEW w \in GraphWorkers, RenewAndRead(w)
    PROVE  GraphInv'
  <1>  USE DEF GraphInv
  <1>1. /\ run[w].at = "claimed"
        /\ UNCHANGED <<empStatus, edit, task, change, taskAttempts, leasedBy, account, sessions,
                   graphOn, overwritten>>
    BY DEF RenewAndRead
  <1>2. PICK t \in Tasks : t = run[w].task  BY <1>1, RunFields
  <1>3. CASE leasedBy[t] # w  BY <1>1, <1>2, <1>3, LostInv DEF RenewAndRead
  <1>4. CASE leasedBy[t] = w
    <2>0. PICK seen : seen = IF empStatus = "offboarded" THEN "offboarded" ELSE "employed"
      OBVIOUS
    <2>1. /\ taskLease' = [taskLease EXCEPT ![t] = "fresh"]
          /\ run' = [run EXCEPT ![w] = [at |-> seen, task |-> t]]
          /\ revived' = (revived \/ (~Leased(t) /\ \E s \in Tasks : Leased(s)))
      BY <1>2, <1>4, <2>0 DEF RenewAndRead, Goes
    <2>2. seen \in {"employed", "offboarded"} /\ (seen = "offboarded" <=> empStatus = "offboarded")
      BY <2>0
    <2>3. PICK memory \in RunMemory : memory = [at |-> seen, task |-> t]
      BY <2>2 DEF RunMemory, PlainRun, PlainAt
    <2>4. memory.at = seen /\ memory.task = t  BY <2>3
    <2>5. /\ run'[w] = memory /\ \A v \in GraphWorkers \ {w} : run'[v] = run[v]
          /\ run' \in [GraphWorkers -> {IdleRun} \cup
                [at : {"claimed", "offboarded", "employed", "reread", "disabled", "ok", "error", "fatal"},
                 task : Tasks] \cup
                [at : {"disabling", "revoking", "enabling"}, task : Tasks, inTime : BOOLEAN]]
      BY <2>1, <2>3, RunOf
    <2>6. /\ \A s \in Tasks : Leased(s)' <=> Leased(s) \/ s = t
          /\ taskLease' \in [Tasks -> {"none", "fresh", "short", "lapsed"}]
      BY <2>1 DEF Leased, GraphTypeOK
    <2>7. revived' \in BOOLEAN  BY <2>1
    <2>8. GraphTypeOK'  BY <1>1, <2>5, <2>6, <2>7 DEF GraphTypeOK
    <2>9. LeasesPending'  BY <1>1, <1>4, <2>6 DEF LeasesPending
    <2>10. CallsLeased'
      <3>  SUFFICES ASSUME NEW v \in GraphWorkers, run'[v].at \in Calling,
                           NEW s \in Tasks, s = run'[v].task
                    PROVE  run'[v].inTime /\ leasedBy[s] = v /\ Leased(s)'
        <4>1. \A v \in GraphWorkers : run'[v].at \in Calling => run'[v].task \in Tasks
          BY <2>2, <2>4, <2>5, RunFields DEF Calling
        <4>  QED  BY <1>1, <4>1 DEF CallsLeased, Leased
      <3>1. v # w  BY <2>2, <2>4, <2>5 DEF Calling
      <3>2. run'[v] = run[v]  BY <2>5, <3>1
      <3>3. run[v].inTime /\ leasedBy[s] = v /\ Leased(s)  BY <3>2 DEF CallsLeased
      <3>  QED  BY <2>6, <3>2, <3>3
    <2>11. OneLease'
      <3>1. CASE revived'  BY <3>1 DEF OneLease
      <3>2. CASE ~revived'
        <4>1. \A r, s \in Tasks : Leased(r) /\ Leased(s) => r = s  BY <2>1, <3>2 DEF OneLease
        <4>2. Leased(t) \/ \A s \in Tasks : ~Leased(s)  BY <2>1, <3>2
        <4>  QED  BY <2>6, <4>1, <4>2 DEF OneLease
      <3>  QED  BY <3>1, <3>2
    <2>12. Serialized'  BY <1>1 DEF Serialized
    <2>13. /\ \A s \in Tasks : Last(s)' <=> Last(s)
           /\ \A at : Agrees(at)' <=> Agrees(at)
           /\ Matches' <=> Matches
           /\ Untouched' <=> Untouched
      <3>1. /\ \A s \in Tasks : Last(s)' <=> Last(s)
            /\ \A at : Agrees(at)' <=> Agrees(at)
            /\ Matches' <=> Matches
        BY <1>1, SameLast
      <3>  QED  BY <1>1, <3>1 DEF Untouched
    <2>14. Agrees(memory.at) /\ memory.at \notin {"disabled", "revoking", "ok"}
      BY <2>2, <2>4 DEF Agrees, AsOffboarded, AsEmployed
    <2>15. Current'
      <3>  SUFFICES ASSUME NEW v \in GraphWorkers, run'[v].at \in AsOffboarded \cup AsEmployed,
                           NEW s \in Tasks, s = run'[v].task, leasedBy[s] = v, Leased(s)'
                    PROVE  Agrees(run'[v].at) \/ Untouched \/ overwritten
        <4>1. \A v \in GraphWorkers : run'[v].at \in AsOffboarded \cup AsEmployed => run'[v].task \in Tasks
          BY <2>4, <2>5, RunFields DEF AsOffboarded, AsEmployed
        <4>  QED  BY <1>1, <2>13, <4>1 DEF Current, Leased
      <3>1. CASE v = w  BY <2>5, <2>14, <3>1
      <3>2. CASE v # w
        <4>1. run'[v] = run[v] /\ s # t  BY <1>4, <2>5, <3>2
        <4>2. Leased(s)  BY <2>6, <4>1
        <4>  QED  BY <4>1, <4>2 DEF Current
      <3>  QED  BY <3>1, <3>2
    <2>16. Progress'
      <3>  SUFFICES ASSUME NEW v \in GraphWorkers, NEW s \in Tasks, Last(s), run'[v].at # "idle",
                           run'[v].task = s, leasedBy[s] = v
                    PROVE  /\ Agrees(run'[v].at)
                           /\ run'[v].at \in {"disabled", "revoking"} => account = "off"
                           /\ run'[v].at = "ok" => Matches
        BY <1>1, <2>13 DEF Progress
      <3>1. CASE v = w  BY <2>5, <2>14, <3>1
      <3>2. CASE v # w  BY <2>5, <3>2 DEF Progress
      <3>  QED  BY <3>1, <3>2
    <2>17. SentMatches'  BY <1>1, <2>13 DEF SentMatches
    <2>  QED  BY <2>8, <2>9, <2>10, <2>11, <2>12, <2>15, <2>16, <2>17
  <1>  QED  BY <1>3, <1>4

\* A worker records how its run ended, if the task is still its own.
LEMMA FinishInv ==
    ASSUME GraphInv, NEW w \in GraphWorkers, FinishTask(w)
    PROVE  GraphInv'
  <1>  USE DEF GraphInv
  <1>1. /\ run[w].at \in {"ok", "error", "fatal"} /\ run' = [run EXCEPT ![w] = IdleRun]
        /\ UNCHANGED <<empStatus, edit, change, taskAttempts, account, sessions,
                   graphOn, revived, overwritten>>
    BY DEF FinishTask
  <1>2. PICK t \in Tasks : t = run[w].task  BY <1>1, RunFields
  <1>3. CASE leasedBy[t] # w
    <2>1. UNCHANGED <<task, taskLease, leasedBy>>  BY <1>2, <1>3 DEF FinishTask
    <2>  QED  BY <1>1, <2>1, LostInv
  <1>4. CASE leasedBy[t] = w
    <2>1. PICK recorded \in {"sent", "failed", "pending"} :
            /\ task' = [task EXCEPT ![t] = recorded]
            /\ recorded = "sent" => run[w].at = "ok"
      <3>1. /\ TaskRecorded(w) \in {"sent", "failed", "pending"}
            /\ TaskRecorded(w) = "sent" => run[w].at = "ok"
        BY DEF TaskRecorded
      <3>  QED  BY <1>2, <1>4, <3>1 DEF FinishTask
    <2>2. /\ taskLease' = [taskLease EXCEPT ![t] = "none"]
          /\ leasedBy' = [leasedBy EXCEPT ![t] = NoWorker]
      BY <1>2, <1>4 DEF FinishTask
    <2>3. task[t] = "pending"  BY <1>4 DEF LeasesPending
    <2>4. \A s \in Tasks : /\ task'[s] = IF s = t THEN recorded ELSE task[s]
                           /\ leasedBy'[s] = IF s = t THEN NoWorker ELSE leasedBy[s]
                           /\ Leased(s)' <=> Leased(s) /\ s # t
      BY <2>1, <2>2 DEF GraphTypeOK, Leased
    <2>5. /\ run'[w] = IdleRun /\ \A v \in GraphWorkers \ {w} : run'[v] = run[v]
          /\ run' \in [GraphWorkers -> {IdleRun} \cup
                [at : {"claimed", "offboarded", "employed", "reread", "disabled", "ok", "error", "fatal"},
                 task : Tasks] \cup
                [at : {"disabling", "revoking", "enabling"}, task : Tasks, inTime : BOOLEAN]]
      BY <1>1, RunOf DEF RunMemory
    <2>6. run'[w].at = "idle"  BY <2>5 DEF IdleRun
    <2>7. GraphTypeOK'
      <3>1. task' \in [Tasks -> {"none", "open", "pending", "sent", "failed"}]
        BY <2>1 DEF GraphTypeOK
      <3>2. /\ taskLease' \in [Tasks -> {"none", "fresh", "short", "lapsed"}]
            /\ leasedBy' \in [Tasks -> GraphWorkers \cup {NoWorker}]
        BY <2>2 DEF GraphTypeOK
      <3>  QED  BY <1>1, <2>5, <3>1, <3>2 DEF GraphTypeOK
    <2>8. LeasesPending'  BY <1>1, <2>4 DEF LeasesPending
    <2>9. OneLease'  BY <1>1, <2>4 DEF OneLease
    <2>10. ASSUME NEW v \in GraphWorkers, run'[v].at # "idle"
           PROVE  v # w /\ run'[v] = run[v] /\ run'[v].task \in Tasks
      BY <2>5, <2>6, <2>10, RunFields
    <2>11. CallsLeased'
      <3>  SUFFICES ASSUME NEW v \in GraphWorkers, run'[v].at \in Calling,
                           NEW s \in Tasks, s = run'[v].task
                    PROVE  run'[v].inTime /\ leasedBy'[s] = v /\ Leased(s)'
        BY <2>10 DEF CallsLeased, Leased, Calling
      <3>1. v # w /\ run'[v] = run[v]  BY <2>10 DEF Calling
      <3>2. run[v].inTime /\ leasedBy[s] = v /\ Leased(s)  BY <3>1 DEF CallsLeased
      <3>3. s # t  BY <1>4, <3>1, <3>2
      <3>  QED  BY <2>4, <3>1, <3>2, <3>3
    <2>12. Serialized'  BY <1>1, <2>3, <2>4 DEF Serialized
    <2>13. /\ \A s \in Tasks : Last(s)' <=> Last(s)
           /\ \A at : Agrees(at)' <=> Agrees(at)
           /\ Matches' <=> Matches
      <3>1. \A s \in Tasks : task'[s] \in {"none", "open"} <=> task[s] \in {"none", "open"}
        BY <2>3, <2>4
      <3>  QED  BY <1>1, <3>1, SameLast
    <2>14. Untouched => Untouched'
      <3>1. \A s \in Tasks : leasedBy[s] = NoWorker => s # t  BY <1>4
      <3>  QED  BY <1>1, <2>4, <2>13, <3>1 DEF Untouched
    <2>15. Current'
      <3>  SUFFICES ASSUME NEW v \in GraphWorkers, run'[v].at \in AsOffboarded \cup AsEmployed,
                           NEW s \in Tasks, s = run'[v].task, leasedBy'[s] = v, Leased(s)'
                    PROVE  Agrees(run'[v].at) \/ Untouched \/ overwritten
        <4>1. \A v \in GraphWorkers : run'[v].at \in AsOffboarded \cup AsEmployed => run'[v].task \in Tasks
          BY <2>10 DEF AsOffboarded, AsEmployed
        <4>  QED  BY <1>1, <2>13, <2>14, <4>1 DEF Current, Leased
      <3>1. run'[v] = run[v]  BY <2>10 DEF AsOffboarded, AsEmployed
      <3>2. leasedBy[s] = v /\ Leased(s)  BY <2>4
      <3>  QED  BY <3>1, <3>2 DEF Current
    <2>16. Progress'
      <3>  SUFFICES ASSUME NEW v \in GraphWorkers, NEW s \in Tasks, Last(s), run'[v].at # "idle",
                           run'[v].task = s, leasedBy'[s] = v
                    PROVE  /\ Agrees(run'[v].at)
                           /\ run'[v].at \in {"disabled", "revoking"} => account = "off"
                           /\ run'[v].at = "ok" => Matches
        BY <1>1, <2>13 DEF Progress
      <3>1. run'[v] = run[v] /\ leasedBy[s] = v  BY <2>4, <2>10
      <3>  QED  BY <3>1 DEF Progress
    <2>17. SentMatches'
      <3>  SUFFICES ASSUME NEW s \in Tasks, Last(s), task'[s] = "sent" PROVE Matches
        BY <2>13 DEF SentMatches
      <3>1. CASE s = t  BY <1>1, <1>2, <1>4, <2>1, <2>4, <3>1 DEF Progress
      <3>2. CASE s # t  BY <2>4, <3>2 DEF SentMatches
      <3>  QED  BY <3>1, <3>2
    <2>  QED  BY <2>7, <2>8, <2>9, <2>11, <2>12, <2>15, <2>16, <2>17
  <1>  QED  BY <1>3, <1>4

\* A lease runs down; it does not lapse under a call.
LEMMA LeaseRunsInv ==
    ASSUME GraphInv, NEW t \in Tasks, LeaseRuns(t)
    PROVE  GraphInv'
  <1>  USE DEF GraphInv
  <1>1. UNCHANGED <<empStatus, edit, task, change, taskAttempts, leasedBy, run, account, sessions,
                   graphOn, revived, overwritten>>
    BY DEF LeaseRuns
  <1>2. PICK rest \in {"short", "lapsed"} :
          /\ taskLease' = [taskLease EXCEPT ![t] = rest]
          /\ rest = "short" => taskLease[t] = "fresh"
          /\ rest = "lapsed" =>
                \A w \in GraphWorkers : run[w].at \in Calling /\ run[w].task = t => ~run[w].inTime
    BY DEF LeaseRuns, Calling
  <1>3. /\ taskLease' \in [Tasks -> {"none", "fresh", "short", "lapsed"}]
        /\ \A s \in Tasks : (Leased(s)' => Leased(s)) /\ (s # t \/ rest = "short" => Leased(s)' = Leased(s))
    BY <1>2 DEF GraphTypeOK, Leased
  <1>4. GraphTypeOK'  BY <1>1, <1>3 DEF GraphTypeOK
  <1>5. LeasesPending' /\ OneLease'
    BY <1>1, <1>3 DEF LeasesPending, OneLease
  <1>6. CallsLeased'
    <2>  SUFFICES ASSUME NEW w \in GraphWorkers, run[w].at \in Calling, NEW s \in Tasks, s = run[w].task
                  PROVE  run[w].inTime /\ leasedBy[s] = w /\ Leased(s)'
      <3>1. \A w \in GraphWorkers : run[w].at \in Calling => run[w].task \in Tasks
        BY RunFields DEF Calling
      <3>  QED  BY <1>1, <3>1 DEF CallsLeased, Leased
    <2>1. run[w].inTime /\ leasedBy[s] = w /\ Leased(s)  BY DEF CallsLeased
    <2>2. s # t \/ rest = "short"  BY <1>2, <2>1
    <2>  QED  BY <1>3, <2>1, <2>2
  <1>7. Serialized'  BY <1>1 DEF Serialized
  <1>8. /\ \A s \in Tasks : Last(s)' <=> Last(s)
        /\ \A at : Agrees(at)' <=> Agrees(at)
        /\ Matches' <=> Matches
    BY <1>1, SameLast
  <1>9. Untouched' <=> Untouched  BY <1>1, <1>8 DEF Untouched
  <1>10. Current'
    <2>  SUFFICES ASSUME NEW w \in GraphWorkers, run[w].at \in AsOffboarded \cup AsEmployed,
                         NEW s \in Tasks, s = run[w].task, leasedBy[s] = w, Leased(s)'
                  PROVE  Agrees(run[w].at) \/ Untouched \/ overwritten
      <3>1. \A w \in GraphWorkers : run[w].at \in AsOffboarded \cup AsEmployed => run[w].task \in Tasks
        BY RunFields DEF AsOffboarded, AsEmployed
      <3>  QED  BY <1>1, <1>8, <1>9, <3>1 DEF Current, Leased
    <2>1. Leased(s)  BY <1>3
    <2>  QED  BY <2>1 DEF Current
  <1>11. Progress' /\ SentMatches'  BY <1>1, <1>8 DEF Progress, SentMatches
  <1>  QED  BY <1>4, <1>5, <1>6, <1>7, <1>10, <1>11

-----------------------------------------------------------------------------
(* GraphAccounts: theorems                                                 *)

\* Every step keeps the invariant.
LEMMA NextGraphInv == GraphInv /\ [GraphNext]_graphVars => GraphInv'
  <1>  SUFFICES ASSUME GraphInv, [GraphNext]_graphVars PROVE GraphInv'  OBVIOUS
  <1>1. CASE UNCHANGED graphVars
    <2>1. UNCHANGED <<empStatus, edit, task, change, taskAttempts, taskLease, leasedBy, run, account, sessions,
                   graphOn, revived, overwritten>>
      BY <1>1 DEF graphVars
    <2>2. GraphTypeOK' /\ LeasesPending' /\ CallsLeased' /\ OneLease' /\ Serialized'
      BY <2>1 DEF GraphInv, GraphTypeOK, LeasesPending, CallsLeased, OneLease, Serialized, Leased
    <2>3. /\ \A t \in Tasks : Last(t)' <=> Last(t)
          /\ \A at : Agrees(at)' <=> Agrees(at)
          /\ Matches' <=> Matches
      BY <2>1, SameLast
    <2>4. Untouched' <=> Untouched  BY <2>1, <2>3 DEF Untouched
    <2>5. Current' /\ Progress' /\ SentMatches'
      BY <2>1, <2>3, <2>4 DEF GraphInv, Current, Progress, SentMatches, Leased
    <2>  QED  BY <2>2, <2>5 DEF GraphInv
  <1>2. ASSUME NEW w \in GraphWorkers, ReconcileStep(w) \/ WorkerDies(w) PROVE GraphInv'
    BY <1>2, RenewInv, ThinkInv, CallEndsInv, FinishInv DEF ReconcileStep
  <1>3. CASE GraphRelaysWork
    BY <1>2, <1>3, ReapInv, ClaimInv DEF GraphRelaysWork
  <1>4. CASE LeasesRun  BY <1>4, LeaseRunsInv DEF LeasesRun
  <1>5. \A h \in Editors : edit[h] \in EditMemory /\ edit \in [Editors -> EditMemory]
    BY DEF GraphInv, GraphTypeOK, EditMemory
  <1>6. ASSUME NEW h \in Editors, NEW status \in Targets, ReadEmployee(h, status) PROVE GraphInv'
    <2>1. empStatus \in Statuses /\ status \in Statuses /\ graphOn \in BOOLEAN
      BY DEF GraphInv, GraphTypeOK
    <2>2. edit' \in [Editors -> EditMemory]
      BY <1>5, <1>6, <2>1 DEF ReadEmployee, EditMemory
    <2>  QED  BY <1>6, <2>1, <2>2, AsideInv DEF ReadEmployee
  <1>7. CASE ConfigureGraph
    <2>1. edit' \in [Editors -> EditMemory] /\ graphOn' \in BOOLEAN
      BY <1>7 DEF ConfigureGraph, GraphInv, GraphTypeOK, EditMemory
    <2>  QED  BY <1>7, <2>1, AsideInv DEF ConfigureGraph
  <1>8. ASSUME NEW h \in Editors, NEW t \in Tasks, UpdateWithTask(h, t) PROVE GraphInv'
    <2>1. PICK status : status = IF edit[h].read = edit[h].to THEN "none" ELSE edit[h].to
      OBVIOUS
    <2>2. status \in {"none"} \cup Statuses
      <3>1. CASE edit[h] = NoEdit  BY <2>1, <3>1 DEF NoEdit
      <3>2. CASE edit[h] \in [read : Statuses, to : Statuses]  BY <2>1, <3>2
      <3>  QED  BY <1>5, <3>1, <3>2 DEF EditMemory
    <2>3. edit' \in [Editors -> EditMemory]  BY <1>5, <1>8 DEF UpdateWithTask, EditMemory
    <2>4. EnqueueTask(t, status)  BY <1>8, <2>1 DEF UpdateWithTask
    <2>  QED  BY <2>2, <2>3, <2>4, EnqueueInv
  <1>9. ASSUME NEW t \in Tasks, ApproveOffboarding(t) \/ ApproveOnboarding(t) PROVE GraphInv'
    <2>1. edit' \in [Editors -> EditMemory]
      BY <1>9 DEF ApproveOffboarding, ApproveOnboarding, GraphInv, GraphTypeOK, EditMemory
    <2>2. "offboarded" \in Statuses  BY DEF Statuses
    <2>  QED  BY <1>9, <2>1, <2>2, EnqueueInv DEF ApproveOffboarding, ApproveOnboarding
  <1>10. CASE StatusChanges
    BY <1>6, <1>8, <1>9, <1>10, CommitInv, WithoutTaskInv DEF StatusChanges
  <1>  QED  BY <1>1, <1>3, <1>4, <1>7, <1>10, SignInInv DEF GraphNext

\* The leases of graph_task_outbox and what the runs have read fit together.
THEOREM GraphInvariance == GraphSpec => []GraphInv
  BY InitGraphInv, NextGraphInv, PTL DEF GraphSpec

\* The rows, the runs and the account have their types.
THEOREM GraphTypeCorrect == GraphSpec => []GraphTypeOK
  <1>1. GraphInv => GraphTypeOK  BY DEF GraphInv
  <1>  QED  BY <1>1, GraphInvariance, PTL

\* Once the task of the last change of status is sent, the Entra account says
\* what the employee's status says, whatever the other tasks and workers do.
THEOREM AccountsFollow == GraphSpec => []AccountFollowsStatus
  <1>1. ASSUME GraphInv PROVE AccountFollowsStatus
    <2>1. StatusTasks \subseteq Tasks  BY DEF StatusTasks
    <2>  QED  BY <1>1, <2>1 DEF GraphInv, SentMatches, Last, Matches, AccountFollowsStatus
  <1>  QED  BY <1>1, GraphInvariance, PTL

\* Two calls that change one account are never in flight together, unless a
\* lapsed lease was revived beside another.
THEOREM CallsAlone == GraphSpec => []OneCallAtATime
  <1>1. ASSUME GraphInv PROVE OneCallAtATime
    <2>  SUFFICES ASSUME ~revived, NEW v \in GraphWorkers, NEW w \in GraphWorkers,
                         {run[v].at, run[w].at} \subseteq Calling
                  PROVE  v = w
      BY DEF OneCallAtATime, Calling
    <2>1. run[v].task \in Tasks /\ run[w].task \in Tasks  BY <1>1, RunFields DEF GraphInv, Calling
    <2>2. /\ leasedBy[run[v].task] = v /\ Leased(run[v].task)
          /\ leasedBy[run[w].task] = w /\ Leased(run[w].task)
      BY <1>1 DEF GraphInv, CallsLeased
    <2>  QED  BY <1>1, <2>1, <2>2 DEF GraphInv, OneLease
  <1>  QED  BY <1>1, GraphInvariance, PTL

-----------------------------------------------------------------------------
(* WebhookRelay                                                            *)

\* Nobody holds a delivery that has failed: the lease_token is cleared with it.
FailedUnheld == \A d \in Deliveries : hookStatus[d] = "failed" => holder[d] = Nobody

WebhookInv == WebhookTypeOK /\ FailedUnheld

SendRun == [at : {"claimed", "posting", "accepted", "refused"}, row : Deliveries]

\* A relay that is not idle has a delivery in mind.
LEMMA SenderFields ==
    ASSUME WebhookTypeOK, NEW w \in Senders
    PROVE  sender[w].at # "idle" => sender[w] \in SendRun /\ sender[w].row \in Deliveries
  <1>1. sender[w] \in {IdleSender} \cup SendRun  BY DEF WebhookTypeOK, SendRun
  <1>2. CASE sender[w] = IdleSender  BY <1>2 DEF IdleSender
  <1>3. CASE sender[w] \in SendRun  BY <1>3 DEF SendRun
  <1>  QED  BY <1>1, <1>2, <1>3

\* Nothing was fanned out.
LEMMA InitWebhookInv == WebhookInit => WebhookInv
  <1>  SUFFICES ASSUME WebhookInit PROVE WebhookInv  OBVIOUS
  <1>1. hookAttempts \in [Deliveries -> 0 .. MaxDeliveries]  BY DEF WebhookInit
  <1>2. manualRetries \in 0 .. MaxManualRetries  BY DEF WebhookInit
  <1>3. WebhookTypeOK  BY <1>1, <1>2 DEF WebhookInit, WebhookTypeOK
  <1>  QED  BY <1>3 DEF WebhookInit, WebhookInv, FailedUnheld

\* A claim reaps, expires and stamps: what it fails is fenced, and what it
\* stamps has an attempt left.
LEMMA ClaimHooksInv ==
    ASSUME WebhookInv, NEW w \in Senders, ClaimHooks(w)
    PROVE  /\ WebhookInv'
           /\ \A d \in Deliveries : hookStatus[d] = "failed" => hookStatus'[d] = "failed"
  <1>  USE DEF WebhookInv
  <1>1. PICK expired \in SUBSET Expirable :
          \E chosen \in {{}} \cup {{d} : d \in SelectDue(expired)} :
             ClaimDeliveries(w, expired, chosen)
    BY DEF ClaimHooks
  <1>2. PICK chosen \in {{}} \cup {{d} : d \in SelectDue(expired)} :
          ClaimDeliveries(w, expired, chosen)
    BY <1>1
  <1>3. chosen \subseteq SelectDue(expired)  BY <1>2
  <1>4. /\ \A d \in chosen : /\ d \in Deliveries /\ hookStatus[d] = "pending"
                             /\ d \notin Reaped \cup expired /\ ~(hookAttempts[d] >= MaxDeliveries)
        /\ \A d \in Reaped \cup expired : d \in Deliveries /\ hookStatus[d] = "pending"
    BY <1>3 DEF SelectDue, PendingUnleased, Reaped, Expirable
  <1>5. /\ hookStatus' = [d \in Deliveries |->
              IF d \in Reaped \cup expired THEN "failed" ELSE hookStatus[d]]
        /\ hookAttempts' = [d \in Deliveries |->
              IF d \in chosen THEN hookAttempts[d] + 1 ELSE hookAttempts[d]]
        /\ holder' = [d \in Deliveries |->
              IF d \in chosen THEN w ELSE IF d \in Reaped \cup expired THEN Nobody ELSE holder[d]]
        /\ leaseLive' = (leaseLive \cup chosen) \ (Reaped \cup expired)
        /\ owed' = owed \ chosen /\ UNCHANGED <<overAge, subscription, manualRetries>>
    BY <1>2 DEF ClaimDeliveries, Fenced
  <1>6. hookAttempts' \in [Deliveries -> 0 .. MaxDeliveries]
    <2>1. ASSUME NEW d \in Deliveries PROVE hookAttempts'[d] \in 0 .. MaxDeliveries
      <3>1. hookAttempts[d] \in 0 .. MaxDeliveries  BY DEF WebhookTypeOK
      <3>2. CASE d \in chosen
        <4>1. hookAttempts'[d] = hookAttempts[d] + 1 /\ ~(hookAttempts[d] >= MaxDeliveries)
          BY <1>4, <1>5, <3>2
        <4>  QED  BY <3>1, <4>1
      <3>3. CASE d \notin chosen  BY <1>5, <3>1, <3>3
      <3>  QED  BY <3>2, <3>3
    <2>  QED  BY <1>5, <2>1
  <1>7. sender' \in [Senders -> {IdleSender} \cup SendRun]
    <2>1. (IF chosen = {} THEN IdleSender ELSE [at |-> "claimed", row |-> CHOOSE d \in chosen : TRUE])
             \in {IdleSender} \cup SendRun
      <3>1. CASE chosen # {}
        <4>1. (CHOOSE d \in chosen : TRUE) \in chosen  BY <3>1
        <4>2. (CHOOSE d \in chosen : TRUE) \in Deliveries  BY <1>4, <4>1
        <4>  QED  BY <3>1, <4>2 DEF SendRun
      <3>  QED  BY <3>1
    <2>2. sender \in [Senders -> {IdleSender} \cup SendRun]  BY DEF WebhookTypeOK, SendRun
    <2>  QED  BY <1>2, <2>1, <2>2 DEF ClaimDeliveries
  <1>8. WebhookTypeOK'
    <2>1. /\ hookStatus' \in [Deliveries -> {"none", "pending", "delivered", "failed", "gone"}]
          /\ holder' \in [Deliveries -> Senders \cup {Nobody}]
      BY <1>5 DEF WebhookTypeOK
    <2>2. leaseLive' \in SUBSET Deliveries /\ owed' \in SUBSET Deliveries
      BY <1>4, <1>5 DEF WebhookTypeOK
    <2>  QED  BY <1>5, <1>6, <1>7, <2>1, <2>2 DEF WebhookTypeOK, SendRun
  <1>9. FailedUnheld'
    <2>  SUFFICES ASSUME NEW d \in Deliveries, hookStatus'[d] = "failed" PROVE holder'[d] = Nobody
      BY DEF FailedUnheld
    <2>1. d \notin chosen  BY <1>4, <1>5
    <2>2. CASE d \in Reaped \cup expired  BY <1>5, <2>1, <2>2
    <2>3. CASE d \notin Reaped \cup expired  BY <1>5, <2>1, <2>3 DEF FailedUnheld
    <2>  QED  BY <2>2, <2>3
  <1>10. \A d \in Deliveries : hookStatus[d] = "failed" => hookStatus'[d] = "failed"  BY <1>5
  <1>  QED  BY <1>8, <1>9, <1>10

\* A relay renews, posts, records or dies; a delivery that has failed is not
\* held, so nothing is recorded over it.
LEMMA SenderInv ==
    ASSUME WebhookInv, NEW w \in Senders, SenderStep(w) \/ SenderDies(w)
    PROVE  /\ WebhookInv'
           /\ \A d \in Deliveries : hookStatus[d] = "failed" => hookStatus'[d] = "failed"
  <1>  USE DEF WebhookInv
  <1>1. UNCHANGED <<hookAttempts, overAge, subscription, manualRetries, owed>>
    BY DEF SenderStep, SenderDies, RenewHook, FinishHook, Posted
  <1>2. sender \in [Senders -> {IdleSender} \cup SendRun]  BY DEF WebhookTypeOK, SendRun
  <1>3. ASSUME UNCHANGED <<hookStatus, holder>>, leaseLive' \in SUBSET Deliveries,
               sender' \in [Senders -> {IdleSender} \cup SendRun]
        PROVE  /\ WebhookInv'
               /\ \A d \in Deliveries : hookStatus[d] = "failed" => hookStatus'[d] = "failed"
    BY <1>1, <1>3 DEF WebhookTypeOK, FailedUnheld, SendRun
  <1>4. CASE SenderDies(w)
    <2>1. leaseLive' \in SUBSET Deliveries  BY <1>4 DEF SenderDies, WebhookTypeOK
    <2>  QED  BY <1>2, <1>3, <1>4, <2>1 DEF SenderDies
  <1>5. ASSUME NEW to \in {"posting", "accepted", "refused"}, sender[w].at # "idle",
               sender' = [sender EXCEPT ![w].at = to]
        PROVE  sender' \in [Senders -> {IdleSender} \cup SendRun]
    <2>1. sender[w] \in SendRun  BY <1>5, SenderFields
    <2>2. [sender[w] EXCEPT !.at = to] \in SendRun  BY <2>1 DEF SendRun
    <2>3. sender' = [sender EXCEPT ![w] = [sender[w] EXCEPT !.at = to]]  BY <1>5
    <2>  QED  BY <1>2, <2>2, <2>3
  <1>6. ASSUME NEW got \in {"accepted", "refused"}, Posted(w, got)
        PROVE  /\ WebhookInv'
               /\ \A d \in Deliveries : hookStatus[d] = "failed" => hookStatus'[d] = "failed"
    <2>1. sender' \in [Senders -> {IdleSender} \cup SendRun]  BY <1>5, <1>6 DEF Posted
    <2>2. leaseLive' \in SUBSET Deliveries  BY <1>6 DEF Posted, WebhookTypeOK
    <2>  QED  BY <1>3, <1>6, <2>1, <2>2 DEF Posted
  <1>7. CASE RenewHook(w)
    <2>1. sender[w].at = "claimed" /\ UNCHANGED <<hookStatus, holder>>  BY <1>7 DEF RenewHook
    <2>2. sender[w].row \in Deliveries  BY <2>1, SenderFields
    <2>3. leaseLive' \in SUBSET Deliveries  BY <1>7, <2>2 DEF RenewHook, WebhookTypeOK
    <2>4. sender' \in [Senders -> {IdleSender} \cup SendRun]
      <3>1. CASE holder[sender[w].row] = w
        BY <1>5, <1>7, <2>1, <3>1 DEF RenewHook
      <3>2. CASE holder[sender[w].row] # w
        BY <1>2, <1>7, <3>2 DEF RenewHook
      <3>  QED  BY <3>1, <3>2
    <2>  QED  BY <1>3, <2>1, <2>3, <2>4
  <1>8. CASE FinishHook(w)
    <2>1. sender[w].at \in {"accepted", "refused"} /\ sender' = [sender EXCEPT ![w] = IdleSender]
      BY <1>8 DEF FinishHook
    <2>2. sender' \in [Senders -> {IdleSender} \cup SendRun]  BY <1>2, <2>1
    <2>3. PICK d \in Deliveries : d = sender[w].row  BY <2>1, SenderFields
    <2>4. CASE holder[d] # w
      <3>1. UNCHANGED <<hookStatus, holder, leaseLive>>  BY <1>8, <2>3, <2>4 DEF FinishHook
      <3>2. leaseLive' \in SUBSET Deliveries  BY <3>1 DEF WebhookTypeOK
      <3>  QED  BY <1>3, <2>2, <3>1, <3>2
    <2>5. CASE holder[d] = w
      <3>1. PICK recorded \in {"delivered", "failed", "pending"} :
              hookStatus' = [hookStatus EXCEPT ![d] = recorded]
        <4>1. Recorded(w) \in {"delivered", "failed", "pending"}  BY DEF Recorded
        <4>  QED  BY <1>8, <2>3, <2>5, <4>1 DEF FinishHook
      <3>2. holder' = [holder EXCEPT ![d] = Nobody] /\ leaseLive' = leaseLive \ {d}
        BY <1>8, <2>3, <2>5 DEF FinishHook
      <3>3. hookStatus[d] # "failed"  BY <2>5 DEF FailedUnheld
      <3>4. \A e \in Deliveries : /\ hookStatus'[e] = IF e = d THEN recorded ELSE hookStatus[e]
                                  /\ holder'[e] = IF e = d THEN Nobody ELSE holder[e]
        BY <3>1, <3>2 DEF WebhookTypeOK
      <3>5. /\ hookStatus' \in [Deliveries -> {"none", "pending", "delivered", "failed", "gone"}]
            /\ holder' \in [Deliveries -> Senders \cup {Nobody}]
        BY <3>1, <3>2 DEF WebhookTypeOK
      <3>6. leaseLive' \in SUBSET Deliveries  BY <3>2 DEF WebhookTypeOK
      <3>7. WebhookTypeOK'  BY <1>1, <2>2, <3>5, <3>6 DEF WebhookTypeOK, SendRun
      <3>8. FailedUnheld'  BY <3>4 DEF FailedUnheld
      <3>9. \A e \in Deliveries : hookStatus[e] = "failed" => hookStatus'[e] = "failed"
        BY <3>3, <3>4
      <3>  QED  BY <3>7, <3>8, <3>9
    <2>  QED  BY <2>4, <2>5
  <1>  QED  BY <1>4, <1>6, <1>7, <1>8 DEF SenderStep

\* The API and time: what is retried is not failed, what is deleted is gone.
LEMMA HookApiInv ==
    ASSUME WebhookInv,
           \/ \E d \in Deliveries : Fanout(d) \/ RetryDelivery(d)
           \/ \E on \in BOOLEAN : SetActive(on)
           \/ DeleteSubscription
           \/ TimePasses
    PROVE  /\ WebhookInv'
           /\ \A d \in Deliveries : hookStatus[d] = "failed" /\ hookStatus'[d] # "failed" =>
                 RetryDelivery(d) \/ hookStatus'[d] = "gone"
  <1>  USE DEF WebhookInv
  <1>  DEFINE Final == \A d \in Deliveries : hookStatus[d] = "failed" /\ hookStatus'[d] # "failed" =>
                          RetryDelivery(d) \/ hookStatus'[d] = "gone"
  <1>1. ASSUME NEW d \in Deliveries, Fanout(d) \/ RetryDelivery(d) PROVE WebhookInv' /\ Final
    <2>1. /\ hookStatus' = [hookStatus EXCEPT ![d] = "pending"]
          /\ UNCHANGED <<hookAttempts, overAge, holder, leaseLive, subscription, sender>>
      BY <1>1 DEF Fanout, RetryDelivery
    <2>2. manualRetries' \in 0 .. MaxManualRetries
      <3>1. manualRetries \in 0 .. MaxManualRetries  BY DEF WebhookTypeOK
      <3>2. \/ manualRetries' = manualRetries
            \/ manualRetries' = manualRetries + 1 /\ manualRetries < MaxManualRetries
        BY <1>1 DEF Fanout, RetryDelivery
      <3>  QED  BY <3>1, <3>2
    <2>3. owed' \in SUBSET Deliveries  BY <1>1 DEF Fanout, RetryDelivery, WebhookTypeOK
    <2>4. hookStatus' \in [Deliveries -> {"none", "pending", "delivered", "failed", "gone"}]
      BY <2>1 DEF WebhookTypeOK
    <2>5. WebhookTypeOK'  BY <2>1, <2>2, <2>3, <2>4 DEF WebhookTypeOK
    <2>6. \A e \in Deliveries : hookStatus'[e] = IF e = d THEN "pending" ELSE hookStatus[e]
      BY <2>1 DEF WebhookTypeOK
    <2>7. FailedUnheld'  BY <2>1, <2>6 DEF FailedUnheld
    <2>8. Final
      <3>1. hookStatus[d] = "failed" => RetryDelivery(d)  BY <1>1 DEF Fanout
      <3>  QED  BY <2>6, <3>1
    <2>  QED  BY <2>5, <2>7, <2>8
  <1>2. ASSUME NEW on \in BOOLEAN, SetActive(on) PROVE WebhookInv' /\ Final
    <2>1. /\ subscription' \in {"active", "inactive", "deleted"}
          /\ UNCHANGED <<hookStatus, hookAttempts, overAge, holder, leaseLive, sender, manualRetries, owed>>
      BY <1>2 DEF SetActive
    <2>  QED  BY <2>1 DEF WebhookTypeOK, FailedUnheld
  <1>3. ASSUME DeleteSubscription PROVE WebhookInv' /\ Final
    <2>1. /\ subscription' = "deleted" /\ leaseLive' = {} /\ owed' = {} /\ overAge' = {}
          /\ hookStatus' = [d \in Deliveries |-> IF hookStatus[d] = "none" THEN "none" ELSE "gone"]
          /\ holder' = [d \in Deliveries |-> Nobody]
          /\ UNCHANGED <<hookAttempts, sender, manualRetries>>
      BY <1>3 DEF DeleteSubscription
    <2>2. WebhookTypeOK'  BY <2>1 DEF WebhookTypeOK
    <2>3. FailedUnheld' /\ Final  BY <2>1 DEF FailedUnheld
    <2>  QED  BY <2>2, <2>3
  <1>4. ASSUME TimePasses PROVE WebhookInv' /\ Final
    <2>1. /\ UNCHANGED <<hookStatus, hookAttempts, holder, subscription, sender, manualRetries, owed>>
          /\ leaseLive' \in SUBSET Deliveries /\ overAge' \in SUBSET Deliveries
      BY <1>4 DEF TimePasses, LeaseLapses, Ages, WebhookTypeOK
    <2>  QED  BY <2>1 DEF WebhookTypeOK, FailedUnheld
  <1>  QED  BY <1>1, <1>2, <1>3, <1>4

\* Every step keeps the invariant, and the deliveries that have failed.
LEMMA NextWebhookInv ==
    ASSUME WebhookInv, [WebhookNext]_hookVars
    PROVE  /\ WebhookInv'
           /\ \A d \in Deliveries : hookStatus[d] = "failed" /\ hookStatus'[d] # "failed" =>
                 RetryDelivery(d) \/ hookStatus'[d] = "gone"
  <1>1. CASE UNCHANGED hookVars
    BY <1>1 DEF hookVars, WebhookInv, WebhookTypeOK, FailedUnheld
  <1>2. CASE RelaysWork
    <2>1. PICK w \in Senders : ClaimHooks(w) \/ SenderStep(w) \/ SenderDies(w)  BY <1>2 DEF RelaysWork
    <2>  QED  BY <2>1, ClaimHooksInv, SenderInv
  <1>3. CASE \/ \E d \in Deliveries : Fanout(d) \/ RetryDelivery(d)
             \/ \E on \in BOOLEAN : SetActive(on)
             \/ DeleteSubscription
             \/ TimePasses
    BY <1>3, HookApiInv
  <1>  QED  BY <1>1, <1>2, <1>3 DEF WebhookNext

\* A delivery that has failed has no lease_token.
THEOREM WebhookInvariance == WebhookSpec => []WebhookInv
  <1>1. WebhookInv /\ [WebhookNext]_hookVars => WebhookInv'  BY NextWebhookInv
  <1>  QED  BY <1>1, InitWebhookInv, PTL DEF WebhookSpec

\* The deliveries, the leases and the relays have their types: no delivery is
\* claimed more often than maxAttempts.
THEOREM WebhookTypeCorrect == WebhookSpec => []WebhookTypeOK
  <1>1. WebhookInv => WebhookTypeOK  BY DEF WebhookInv
  <1>  QED  BY <1>1, WebhookInvariance, PTL

\* A relay that lost its lease cannot write over a delivery that was expired,
\* abandoned or given up: only a manual retry and the deletion of the
\* subscription do.
THEOREM FailedDeliveriesStay == WebhookSpec => FailedIsFinal
  <1>1. WebhookInv /\ [WebhookNext]_hookVars =>
            [\A d \in Deliveries : hookStatus[d] = "failed" /\ hookStatus'[d] # "failed" =>
                RetryDelivery(d) \/ hookStatus'[d] = "gone"]_hookVars
    BY NextWebhookInv
  <1>  QED  BY <1>1, WebhookInvariance, PTL DEF WebhookSpec, FailedIsFinal


-----------------------------------------------------------------------------
(* The services together                                                   *)

\* No step of one service touches another, so a behaviour of the services
\* together is a behaviour of each: what is proved of one holds in MCServices.
THEOREM ServicesKeepTheirSpecs ==
    Spec => /\ IdempotencySpec /\ AuthzSpec /\ WebhookSpec /\ GraphSpec
            /\ FilesSpec /\ DeskSpec /\ AccessSpec
  <1>  USE DEF IdempotencyMoves, AuthzMoves, WebhookMoves, GraphMoves, FilesMoves, DeskMoves,
               AccessMoves
  <1>1. Init => /\ IdempotencyInit /\ AuthzInit /\ WebhookInit /\ GraphInit
                /\ FilesInit /\ DeskInit /\ AccessInit
    BY DEF Init
  <1>2. [Next]_vars => [IdempotencyNext]_idempotencyVars  BY DEF Next, vars
  <1>3. [Next]_vars => [AuthzNext]_authzVars  BY DEF Next, vars
  <1>4. [Next]_vars => [WebhookNext]_hookVars  BY DEF Next, vars
  <1>5. [Next]_vars => [GraphNext]_graphVars  BY DEF Next, vars
  <1>6. [Next]_vars => [FilesNext]_fileVars  BY DEF Next, vars
  <1>7. [Next]_vars => [DeskNext]_deskVars  BY DEF Next, vars
  <1>8. [Next]_vars => [AccessNext]_accessVars  BY DEF Next, vars
  <1>  QED
    BY <1>1, <1>2, <1>3, <1>4, <1>5, <1>6, <1>7, <1>8, PTL
    DEF Spec, IdempotencySpec, AuthzSpec, WebhookSpec, GraphSpec, FilesSpec, DeskSpec, AccessSpec

\* Type correctness of every service.
THEOREM ServicesTypeCorrect == Spec => []TypeOK
  <1>1. KeyInv => IdempotencyTypeOK  BY DEF KeyInv
  <1>2. (IdempotencyTypeOK /\ AuthzTypeOK /\ WebhookTypeOK /\ GraphTypeOK
            /\ FilesTypeOK /\ DeskTypeOK /\ AccessTypeOK) => TypeOK
    BY DEF TypeOK
  <1>  QED
    BY <1>1, <1>2, ServicesKeepTheirSpecs, KeyInvariance, AuthzTypeCorrect, WebhookTypeCorrect,
       GraphTypeCorrect, FilesTypeCorrect, DeskTypeCorrect, AccessTypeCorrect, PTL

=============================================================================
