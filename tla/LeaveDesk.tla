------------------------------ MODULE LeaveDesk ------------------------------
(***************************************************************************)
(* What one employee files for one attendance month - leave, work from     *)
(* home and justifications - and the closing of that month:                *)
(* libs/modules/workforce/src/application (workforce.service.ts,           *)
(* attendance.service.ts, leave-balance.service.ts and the type            *)
(* definitions) with domain/attendance-month-lock.ts.                      *)
(*                                                                         *)
(* Filing checks the month and the balance, inserts the row under the lock *)
(* of the employee, submits the approval item and links the two: five      *)
(* moments, a pod may die between any two.  The engine decides an item in  *)
(* one transaction that holds the item row and the lock of the month, and  *)
(* the hook in it reads the domain row before it writes it.  A row without *)
(* a request id is written directly.  RequestEngine has what the engine    *)
(* itself does; here an item is its status.                                *)
(***************************************************************************)
EXTENDS Naturals, FiniteSets

CONSTANTS
    Asks,      \* each is filed at most once, and a leave costs one day
    Forms,     \* bound: what the asks may be, functions from Asks to their kind
               \* and a slot, the same for two asks whose windows overlap
    Clerks,    \* calls to review or cancel in flight at the same time
    Allowance, \* days of leave that are accrued and carried over
    PodsDie    \* whether a pod may die while it files an ask

AskKinds == {"leave", "wfh", "justification"}

ASSUME DeskAssumption == /\ Forms \subseteq [Asks -> [kind : AskKinds, slot : Nat]]
                         /\ IsFiniteSet(Asks)
                         /\ Allowance \in Nat /\ PodsDie \in BOOLEAN

VARIABLES
    form,        \* the kind and the time of each ask, fixed when it is filed
    ask,         \* status of the row: leave_requests, wfh_requests, justifications
    item,        \* status of its item in request_items
    hasItem,     \* rows whose request_id is set
    monthClosed, \* a row of attendance_month_closes
    filing,      \* how far the call that files an ask has come
    desk,        \* the memory of a call that reviews or cancels
    swept,       \* what the expiry sweep found overdue and has not written yet
    bypassed     \* history: rows written by a call that saw no request id

deskVars == <<form, ask, item, hasItem, monthClosed, filing, desk, swept, bypassed>>

IdleClerk == [at |-> "idle"]
Verbs == {"approve", "reject", "cancel"}
Outcome(verb) == CASE verb = "approve" -> "approved"
                   [] verb = "reject"  -> "rejected"
                   [] verb = "cancel"  -> "cancelled"
Decided == {"approved", "rejected", "cancelled"}

DeskTypeOK ==
    /\ form \in Forms
    /\ ask \in [Asks -> {"none", "pending"} \cup Decided]
    /\ item \in [Asks -> {"none", "pending", "expired"} \cup Decided]
    /\ {hasItem, swept, bypassed} \subseteq SUBSET Asks
    /\ monthClosed \in BOOLEAN
    /\ filing \in [Asks -> {"new", "open", "fits", "stale", "inserted", "submitted", "done", "dead"}]
    /\ desk \in [Clerks -> {IdleClerk} \cup
          [at : {"read", "hook"}, ask : Asks, verb : Verbs, linked : BOOLEAN]]

DeskInit ==
    /\ form \in Forms
    /\ ask = [a \in Asks |-> "none"] /\ item = [a \in Asks |-> "none"]
    /\ hasItem = {} /\ swept = {} /\ bypassed = {}
    /\ monthClosed = FALSE
    /\ filing = [a \in Asks |-> "new"]
    /\ desk = [c \in Clerks |-> IdleClerk]

Live(a) == ask[a] \in {"pending", "approved"}

-----------------------------------------------------------------------------
(* createLeave, createWfh, createJustification                             *)

MovesOn(a, from, to) == filing[a] = from /\ filing' = [filing EXCEPT ![a] = to]

\* assertMonthsOpen, outside any transaction.
CheckMonth(a) ==
    /\ ~monthClosed
    /\ MovesOn(a, "new", IF form[a].kind = "leave" THEN "open" ELSE "fits")
    /\ UNCHANGED <<form, ask, item, hasItem, monthClosed, desk, swept, bypassed>>

\* Fault: pending requests do not count against the balance.
ConsumedDays_Approved == Cardinality({a \in Asks : form[a].kind = "leave" /\ ask[a] = "approved"})

ConsumedDays == Cardinality({a \in Asks : form[a].kind = "leave" /\ Live(a)})

\* assertSufficientBalance, outside any transaction too.
CheckBalance(a) ==
    /\ ConsumedDays < Allowance
    /\ MovesOn(a, "open", "fits")
    /\ UNCHANGED <<form, ask, item, hasItem, monthClosed, desk, swept, bypassed>>

\* Two asks for the same time.  A justification explains days and does not
\* spend them.
Clash(a, b) ==
    /\ a # b /\ form[a].slot = form[b].slot
    /\ "justification" \notin {form[a].kind, form[b].kind}

\* Fault: leave does not look at work from home, nor work from home at leave.
Overlapping_SameKind(a) == {b \in Asks : Live(b) /\ Clash(a, b) /\ form[a].kind = form[b].kind}

\* overlappingLeaveCandidates and overlappingWfhWindows
Overlapping(a) == {b \in Asks : Live(b) /\ Clash(a, b)}

\* The look for overlapping rows and the insert, under the lock of the
\* employee.  A leave makes the balance that other calls have read stale.
InsertAsk(a) ==
    /\ filing[a] \in {"fits", "stale"}
    /\ Overlapping(a) = {}
    /\ ask' = [ask EXCEPT ![a] = "pending"]
    /\ filing' = [b \in Asks |->
          IF b = a THEN "inserted"
          ELSE IF filing[b] = "fits" /\ form[a].kind = "leave" THEN "stale" ELSE filing[b]]
    /\ UNCHANGED <<form, item, hasItem, monthClosed, desk, swept, bypassed>>

\* engine.submit
SubmitAsk(a) ==
    /\ MovesOn(a, "inserted", "submitted")
    /\ item' = [item EXCEPT ![a] = "pending"]
    /\ UNCHANGED <<form, ask, hasItem, monthClosed, desk, swept, bypassed>>

\* setLeaveRequestId and its siblings
LinkAsk(a) ==
    /\ MovesOn(a, "submitted", "done")
    /\ hasItem' = hasItem \cup {a}
    /\ UNCHANGED <<form, ask, item, monthClosed, desk, swept, bypassed>>

FilingDies(a) ==
    /\ PodsDie /\ filing[a] \in {"inserted", "submitted"}
    /\ filing' = [filing EXCEPT ![a] = "dead"]
    /\ UNCHANGED <<form, ask, item, hasItem, monthClosed, desk, swept, bypassed>>

-----------------------------------------------------------------------------
(* Decisions through the engine, from the pages of the module or from the  *)
(* general queue of requests                                               *)

Hooked == {desk[c].ask : c \in {c \in Clerks : desk[c].at = "hook"}}

\* Fault: the hook does not look at the row it is about to write.
AssertPending_Skipped(a) == TRUE

AssertPending(a) == ask[a] = "pending"

\* assertMonthsOpenInTx; no two transactions hold the lock of the month.
MonthOpenInTx == ~monthClosed /\ Hooked = {}

\* The engine read the item while it was open, which may be long ago, and
\* updates it by its id; then the hook of the type looks.
EngineBegins(c, a, verb) ==
    /\ desk[c] = IdleClerk /\ item[a] # "none" /\ a \notin Hooked
    /\ AssertPending(a) /\ MonthOpenInTx
    /\ desk' = [desk EXCEPT ![c] = [at |-> "hook", ask |-> a, verb |-> verb, linked |-> TRUE]]
    /\ UNCHANGED <<form, ask, item, hasItem, monthClosed, filing, swept, bypassed>>

\* The hook writes the row by its id, and the transaction commits.
EngineCommits(c) ==
    /\ desk[c].at = "hook"
    /\ LET a == desk[c].ask IN
       /\ ask'  = [ask EXCEPT ![a] = Outcome(desk[c].verb)]
       /\ item' = [item EXCEPT ![a] = Outcome(desk[c].verb)]
    /\ desk' = [desk EXCEPT ![c] = IdleClerk]
    /\ UNCHANGED <<form, hasItem, monthClosed, filing, swept, bypassed>>

\* Fault: the sweep passes over what belongs to a closed month.
OverdueItems_OpenMonth == {a \in Asks : item[a] = "pending" /\ ~monthClosed}

\* findExpired: any open item may be past its deadline.
OverdueItems == {a \in Asks : item[a] = "pending"}

SweepFinds(a) ==
    /\ a \in OverdueItems \ swept
    /\ swept' = swept \cup {a}
    /\ UNCHANGED <<form, ask, item, hasItem, monthClosed, filing, desk, bypassed>>

\* engine.expire and onExpire, which look at nothing.
ExpireItem(a) ==
    /\ a \in swept \ Hooked
    /\ swept' = swept \ {a}
    /\ item' = [item EXCEPT ![a] = "expired"]
    /\ ask' = [ask EXCEPT ![a] = "cancelled"]
    /\ UNCHANGED <<form, hasItem, monthClosed, filing, desk, bypassed>>

-----------------------------------------------------------------------------
(* Decisions that write the row directly                                   *)

\* reviewLeave and cancelLeave of a row without a request id, cancelLeave of
\* an approved row, cancelWfh of a row without a request id.
WritesDirectly(a, verb) ==
    \/ form[a].kind = "leave" /\ a \notin hasItem /\ ask[a] = "pending"
    \/ form[a].kind = "leave" /\ verb = "cancel" /\ ask[a] = "approved"
    \/ form[a].kind = "wfh" /\ verb = "cancel" /\ a \notin hasItem /\ ask[a] = "pending"

\* The row is read and the month is looked at.
ReadRow(c, a, verb) ==
    /\ desk[c] = IdleClerk /\ ~monthClosed
    /\ WritesDirectly(a, verb)
    /\ desk' = [desk EXCEPT ![c] =
          [at |-> "read", ask |-> a, verb |-> verb, linked |-> a \in hasItem]]
    /\ UNCHANGED <<form, ask, item, hasItem, monthClosed, filing, swept, bypassed>>

\* setLeaveStatus, setWfhStatus: by the id.
WriteRow(c) ==
    /\ desk[c].at = "read"
    /\ ask' = [ask EXCEPT ![desk[c].ask] = Outcome(desk[c].verb)]
    /\ bypassed' = IF desk[c].linked THEN bypassed ELSE bypassed \cup {desk[c].ask}
    /\ desk' = [desk EXCEPT ![c] = IdleClerk]
    /\ UNCHANGED <<form, item, hasItem, monthClosed, filing, swept>>

-----------------------------------------------------------------------------
(* closeMonth, reopenMonth                                                 *)

\* Fault: the close does not take the lock of the month.
MonthLockFree_Ignored == TRUE

MonthLockFree == Hooked = {}

CloseMonth ==
    /\ ~monthClosed /\ MonthLockFree
    /\ monthClosed' = TRUE
    /\ UNCHANGED <<form, ask, item, hasItem, filing, desk, swept, bypassed>>

ReopenMonth ==
    /\ monthClosed
    /\ monthClosed' = FALSE
    /\ UNCHANGED <<form, ask, item, hasItem, filing, desk, swept, bypassed>>

FilingStep(a) ==
    CheckMonth(a) \/ CheckBalance(a) \/ InsertAsk(a) \/ SubmitAsk(a) \/ LinkAsk(a)

DeskNext ==
    \/ \E a \in Asks : FilingStep(a) \/ FilingDies(a) \/ SweepFinds(a) \/ ExpireItem(a)
    \/ \E c \in Clerks : \/ EngineCommits(c) \/ WriteRow(c)
                         \/ \E a \in Asks, verb \in Verbs :
                               EngineBegins(c, a, verb) \/ ReadRow(c, a, verb)
    \/ CloseMonth \/ ReopenMonth

DeskSpec == DeskInit /\ [][DeskNext]_deskVars

\* A filing that does not die goes on once its row is there, a transaction
\* ends, and the sweep comes every few minutes.
DeskFairness ==
    /\ \A a \in Asks : /\ WF_deskVars(SubmitAsk(a) \/ LinkAsk(a))
                       /\ WF_deskVars(SweepFinds(a)) /\ WF_deskVars(ExpireItem(a))
    /\ \A c \in Clerks : WF_deskVars(EngineCommits(c))

-----------------------------------------------------------------------------
(* Properties                                                              *)

\* "a person cannot be on leave and working from home at once": no two live
\* rows cover the same time, unless one of them was decided by a call that
\* saw it without a request id and wrote it after it had been given up.
NoDoubleBooking ==
    \A a, b \in Asks : Clash(a, b) /\ Live(a) /\ Live(b) => {a, b} \cap bypassed # {}

\* "a cancel and an approve racing through two doors" do not both write: the
\* status of a decided row is changed only by a direct write, by the expiry
\* of an item, and by a hook that such a write has crossed.
DecisionStands ==
    [][\A a \in Asks : ask[a] \in Decided /\ ask'[a] # ask[a] =>
          \/ ExpireItem(a)
          \/ \E c \in Clerks : /\ desk[c] # IdleClerk /\ desk[c].ask = a
                               /\ WriteRow(c) \/ (EngineCommits(c) /\ a \in bypassed)]_deskVars

\* "a closed month accepts no new leave, WFH or justification, no decision
\* on a pending one, and no cancellation": no decision of the engine lands in
\* a closed month.  What still does is a filing or a direct write that looked
\* at the month while it was open, and an expiry.
ClosedMonthIsQuiet ==
    [][monthClosed /\ ask' # ask =>
          \/ \E a \in Asks : InsertAsk(a) \/ ExpireItem(a)
          \/ \E c \in Clerks : WriteRow(c)]_deskVars

LeaveDays == Cardinality({a \in Asks : form[a].kind = "leave" /\ Live(a)})

\* "two simultaneous submissions would otherwise both read the same balance
\* and both pass": the leave of a year goes over what is available only by an
\* insert whose balance was read before another insert, or next to a row that
\* a call which saw no request id has approved.
OverdrawnOnlyByRace ==
    [][LeaveDays' > Allowance /\ LeaveDays' > LeaveDays =>
          \/ \E a \in Asks : filing[a] = "stale" /\ InsertAsk(a)
          \/ \E b \in bypassed' : form[b].kind = "leave" /\ ask'[b] = "approved"]_deskVars

\* A request nobody answers is given up after its review window, whatever
\* becomes of the month, so the days it holds come back.  The exception is
\* the row whose filing died before its item was there.
EveryAskEnds ==
    \A a \in Asks : ask[a] = "pending" ~>
        (ask[a] # "pending" \/ (item[a] = "none" /\ filing[a] = "dead"))
=============================================================================
