----------------------------- MODULE RelayPass -----------------------------
(***************************************************************************)
(* How the calls of relay() share passes inside one worker process:        *)
(* relay(), runOnce() and the finally block of runOncePass() in            *)
(* libs/platform/src/outbox/abstract-outbox-relay.ts.  The cron calls      *)
(* relay() every few seconds, and every NOTIFY calls it too                *)
(* (outbox-wake.service.ts).                                               *)
(*                                                                         *)
(* The two fields inFlight and queued hold promises.  A promise made by    *)
(* runOnce() has a pass running behind it; a promise made by               *)
(* inFlight.then(() => runOnce()) waits for the one before it: it starts a *)
(* pass when that one is fulfilled, and is rejected, without a pass, when  *)
(* that one is rejected.  What a pass does is in OutboxRelay; here it ends *)
(* well, or it throws (claim() could not reach the database).              *)
(***************************************************************************)
CONSTANTS
    Callers,   \* the cron and the wake handlers: calls not yet returned
    Promises,  \* names of promises, used again when nothing refers to them
    Null

ASSUME PromisesAssumption == Null \notin Promises

VARIABLES
    inFlight,  \* this.inFlight
    queued,    \* this.queued
    state,     \* of each promise
    after,     \* the promise whose then() made this one
    awaits,    \* the promise each caller was given
    served,    \* history: a pass started at or after the caller's call
    threw      \* history: some pass threw

vars == <<inFlight, queued, state, after, awaits, served, threw>>

States  == {"free", "waiting", "running", "fulfilled", "rejected"}
Settled == {"fulfilled", "rejected"}

TypeOK ==
    /\ inFlight \in Promises \cup {Null}
    /\ queued \in Promises \cup {Null}
    /\ state \in [Promises -> States]
    /\ after \in [Promises -> Promises \cup {Null}]
    /\ awaits \in [Callers -> Promises \cup {Null}]
    /\ served \in [Callers -> BOOLEAN]
    /\ threw \in BOOLEAN

Init ==
    /\ inFlight = Null
    /\ queued = Null
    /\ state = [p \in Promises |-> "free"]
    /\ after = [p \in Promises |-> Null]
    /\ awaits = [c \in Callers |-> Null]
    /\ served = [c \in Callers |-> FALSE]
    /\ threw = FALSE

\* Every caller that waits when a pass starts is served by it.
Served(waiting) == [c \in Callers |-> served[c] \/ c \in waiting]

Waiting == {c \in Callers : awaits[c] # Null}

-----------------------------------------------------------------------------
(* relay()                                                                 *)

\* No pass in flight: start one.
StartPass(c, p) ==
    /\ awaits[c] = Null
    /\ inFlight = Null
    /\ state[p] = "free"
    /\ inFlight' = p
    /\ state' = [state EXCEPT ![p] = "running"]
    /\ awaits' = [awaits EXCEPT ![c] = p]
    /\ served' = [Served(Waiting) EXCEPT ![c] = TRUE]
    /\ UNCHANGED <<queued, after, threw>>

\* A pass in flight and none queued behind it: queue one.
QueuePass(c, p) ==
    /\ awaits[c] = Null
    /\ inFlight # Null /\ queued = Null
    /\ state[p] = "free"
    /\ queued' = p
    /\ state' = [state EXCEPT ![p] = "waiting"]
    /\ after' = [after EXCEPT ![p] = inFlight]
    /\ awaits' = [awaits EXCEPT ![c] = p]
    /\ served' = [served EXCEPT ![c] = FALSE]
    /\ UNCHANGED <<inFlight, threw>>

\* Fault: a caller is given the pass in flight, which may have read the
\* table already.
Shared_InFlight == inFlight

Shared == queued

\* A pass in flight and one queued: share the queued one.
JoinQueued(c) ==
    /\ awaits[c] = Null
    /\ inFlight # Null /\ queued # Null
    /\ awaits' = [awaits EXCEPT ![c] = Shared]
    /\ served' = [served EXCEPT ![c] = FALSE]
    /\ UNCHANGED <<inFlight, queued, state, after, threw>>

-----------------------------------------------------------------------------
(* runOncePass(), its finally block, and the promises it settles.          *)

\* Fault: inFlight is cleared although a pass is queued.
HandOff_Cleared == inFlight' = Null /\ queued' = Null

\* Fault: queued keeps the promise that is now in flight.
HandOff_KeepsQueued == inFlight' = queued /\ queued' = queued

\* The queued pass becomes the one in flight before anything else can run.
HandOff == inFlight' = queued /\ queued' = Null

EndPass(p, how) ==
    /\ state[p] = "running"
    /\ HandOff
    /\ state' = [state EXCEPT ![p] = how]
    /\ threw' = (threw \/ how = "rejected")
    /\ UNCHANGED <<after, awaits, served>>

\* The then() callback of the queued pass: runOnce() starts.
ContinueQueued(p) ==
    /\ state[p] = "waiting"
    /\ state[after[p]] = "fulfilled"
    /\ state' = [state EXCEPT ![p] = "running"]
    /\ after' = [after EXCEPT ![p] = Null]
    /\ served' = Served(Waiting)
    /\ UNCHANGED <<inFlight, queued, awaits, threw>>

\* A then() on a rejected promise passes the rejection on.  No pass starts,
\* so no finally block runs: inFlight and queued stay as they are.
RejectQueued(p) ==
    /\ state[p] = "waiting"
    /\ state[after[p]] = "rejected"
    /\ state' = [state EXCEPT ![p] = "rejected"]
    /\ after' = [after EXCEPT ![p] = Null]
    /\ UNCHANGED <<inFlight, queued, awaits, served, threw>>

\* The caller's await ends, or throws into the log of the cron.
Return(c) ==
    /\ awaits[c] # Null
    /\ state[awaits[c]] \in Settled
    /\ awaits' = [awaits EXCEPT ![c] = Null]
    /\ UNCHANGED <<inFlight, queued, state, after, served, threw>>

\* Nothing refers to a settled promise any more: its name is free again.
Collect(p) ==
    /\ state[p] \in Settled
    /\ p \notin {inFlight, queued}
    /\ \A q \in Promises : after[q] # p
    /\ \A c \in Callers : awaits[c] # p
    /\ state' = [state EXCEPT ![p] = "free"]
    /\ UNCHANGED <<inFlight, queued, after, awaits, served, threw>>

-----------------------------------------------------------------------------
Call(c) == (\E p \in Promises : StartPass(c, p) \/ QueuePass(c, p)) \/ JoinQueued(c)

Next ==
    \/ \E c \in Callers : Call(c) \/ Return(c)
    \/ \E p \in Promises : \/ \E how \in Settled : EndPass(p, how)
                           \/ ContinueQueued(p) \/ RejectQueued(p) \/ Collect(p)

Spec == Init /\ [][Next]_vars

\* The cron keeps calling, a pass ends (every call in it has a timeout), not
\* every pass throws, and promises are settled and collected.
Fairness ==
    /\ \A c \in Callers : WF_vars(Call(c)) /\ WF_vars(Return(c))
    /\ \A p \in Promises :
          /\ WF_vars(\E how \in Settled : EndPass(p, how))
          /\ SF_vars(EndPass(p, "fulfilled"))
          /\ WF_vars(ContinueQueued(p)) /\ WF_vars(RejectQueued(p))
          /\ WF_vars(Collect(p))

FairSpec == Spec /\ Fairness

-----------------------------------------------------------------------------
(* Properties                                                              *)

\* However the calls race with the end of a pass, a process never runs two
\* passes at the same time, and a burst of calls shares one extra pass: no
\* pass is waiting but the one next in line and the one behind it.
OnePassAtATime ==
    \A p \in Promises :
        /\ state[p] = "running" => p = inFlight
        /\ state[p] = "waiting" => p \in {inFlight, queued}

\* "every caller still awaits a pass that STARTS AFTER their own call, never
\* the one already in flight": what a caller awaits is not fulfilled before
\* a pass has started at or after its call.
AwaitsLaterPass ==
    \A c \in Callers : awaits[c] # Null /\ state[awaits[c]] = "fulfilled" => served[c]

\* As long as no pass throws, every call is followed by the start of a pass.
ServedUnlessThrown ==
    \A c \in Callers : awaits[c] # Null ~> served[c] \/ threw

\* outbox-wake.service.ts: "A missed notify (the listener was down, the
\* connection dropped) is recovered by the next tick": as long as relay() is
\* called, passes keep starting.
PassesKeepStarting == []<>(\E p \in Promises : state[p] = "running")
=============================================================================
