---------------------------- MODULE FilingProofs ----------------------------
(***************************************************************************)
(* Proofs about the two services that file requests with the engine:       *)
(* LeaveDesk (leave, work from home and justifications of one employee in  *)
(* one month) and AccessGrants (access requests and their grants).  They   *)
(* hold for every set of asks, clerks and approvers, whichever pods die.   *)
(***************************************************************************)
EXTENDS LeaveDesk, AccessGrants, FiniteSetTheorems, TLAPS

USE DeskAssumption, AccessAssumption

-----------------------------------------------------------------------------
(* LeaveDesk: the inductive invariant                                      *)

\* A row exists from its insert on, and the item and the sweep come later.
RowFirst ==
    \A a \in Asks :
        /\ ask[a] = "none" <=> filing[a] \in {"new", "open", "fits", "stale"}
        /\ ask[a] = "none" => item[a] = "none"
        /\ item[a] = "none" => a \notin swept
        /\ a \in bypassed => ask[a] \in Decided

AtHook(c) == desk[c].at = "hook"

\* A transaction in its hook holds the lock of the open month, alone, and the
\* row is as the hook has read it, unless a direct write has crossed it.
HookHolds ==
    \A c \in Clerks : AtHook(c) =>
        /\ ~monthClosed
        /\ ask[desk[c].ask] = "pending" \/ desk[c].ask \in bypassed
        /\ \A d \in Clerks : AtHook(d) => c = d

\* A direct write is about a row that is there; one that saw a request id
\* cancels a row that was approved.
ReadHolds ==
    \A c \in Clerks : desk[c].at = "read" =>
        /\ ask[desk[c].ask] # "none"
        /\ desk[c].linked => desk[c].verb = "cancel" /\ ask[desk[c].ask] \in Decided

DeskInv == DeskTypeOK /\ RowFirst /\ HookHolds /\ ReadHolds /\ NoDoubleBooking

\* A clerk that is not idle has the fields of a call.
LEMMA DeskFields ==
    ASSUME DeskTypeOK, NEW c \in Clerks
    PROVE  /\ desk[c] = IdleClerk <=> desk[c].at = "idle"
           /\ desk[c].at \in {"idle", "read", "hook"}
           /\ desk[c].at # "idle" =>
                 desk[c].ask \in Asks /\ desk[c].verb \in Verbs /\ desk[c].linked \in BOOLEAN
  <1>1. desk[c] \in {IdleClerk} \cup [at : {"read", "hook"}, ask : Asks, verb : Verbs, linked : BOOLEAN]
    BY DEF DeskTypeOK
  <1>2. CASE desk[c] = IdleClerk  BY <1>2 DEF IdleClerk
  <1>3. CASE desk[c] # IdleClerk  BY <1>1, <1>3 DEF IdleClerk
  <1>  QED  BY <1>2, <1>3

\* The verdict of a call decides a row.
LEMMA OutcomeDecides ==
    ASSUME NEW verb \in Verbs
    PROVE  /\ Outcome(verb) \in Decided /\ (verb = "cancel" => Outcome(verb) = "cancelled")
           /\ Outcome(verb) = "approved" => verb = "approve"
  BY DEF Verbs, Outcome, Decided

\* An empty desk.
LEMMA InitDeskInv == DeskInit => DeskInv
  <1>  SUFFICES ASSUME DeskInit PROVE DeskInv  OBVIOUS
  <1>1. DeskTypeOK  BY DEF DeskInit, DeskTypeOK
  <1>2. RowFirst /\ NoDoubleBooking  BY DEF DeskInit, RowFirst, NoDoubleBooking, Live
  <1>3. HookHolds /\ ReadHolds  BY DEF DeskInit, HookHolds, ReadHolds, AtHook, IdleClerk
  <1>  QED  BY <1>1, <1>2, <1>3 DEF DeskInv

\* Checking, submitting, linking and dying move a filing on, and leave the
\* rows alone.
LEMMA FilingInv ==
    ASSUME DeskInv, NEW a \in Asks,
           CheckMonth(a) \/ CheckBalance(a) \/ SubmitAsk(a) \/ LinkAsk(a) \/ FilingDies(a)
    PROVE  DeskInv'
  <1>1. UNCHANGED <<form, ask, monthClosed, desk, swept, bypassed>>
    BY DEF CheckMonth, CheckBalance, SubmitAsk, LinkAsk, FilingDies
  <1>2. PICK st \in {"open", "fits", "submitted", "done", "dead"} :
          /\ filing' = [filing EXCEPT ![a] = st]
          /\ filing[a] \in {"new", "open", "fits", "stale"} <=> st \in {"new", "open", "fits", "stale"}
    BY DEF CheckMonth, CheckBalance, SubmitAsk, LinkAsk, FilingDies, MovesOn
  <1>3. item' = item \/ (item' = [item EXCEPT ![a] = "pending"] /\ filing[a] = "inserted")
    BY DEF CheckMonth, CheckBalance, SubmitAsk, LinkAsk, FilingDies, MovesOn
  <1>4. hasItem' = hasItem \/ hasItem' = hasItem \cup {a}
    BY DEF CheckMonth, CheckBalance, SubmitAsk, LinkAsk, FilingDies
  <1>5. DeskTypeOK'  BY <1>1, <1>2, <1>3, <1>4 DEF DeskInv, DeskTypeOK
  <1>6. RowFirst'  BY <1>1, <1>2, <1>3 DEF DeskInv, RowFirst, DeskTypeOK
  <1>7. HookHolds' /\ ReadHolds' /\ NoDoubleBooking'
    BY <1>1 DEF DeskInv, HookHolds, ReadHolds, AtHook, NoDoubleBooking, Clash, Live
  <1>  QED  BY <1>5, <1>6, <1>7 DEF DeskInv

\* The insert looks for overlapping rows in the same transaction.
LEMMA InsertAskInv ==
    ASSUME DeskInv, NEW a \in Asks, InsertAsk(a)
    PROVE  DeskInv'
  <1>  USE DEF DeskInv
  <1>1. DeskTypeOK'  BY DEF InsertAsk, DeskTypeOK
  <1>2. ask[a] = "none" /\ item[a] = "none"  BY DEF InsertAsk, RowFirst
  <1>3. \A b \in Asks : ask'[b] = IF b = a THEN "pending" ELSE ask[b]
    BY DEF InsertAsk, DeskTypeOK
  <1>4. RowFirst'
    <2>1. \A b \in Asks : filing'[b] \in {"new", "open", "fits", "stale"} <=>
                           b # a /\ filing[b] \in {"new", "open", "fits", "stale"}
      BY DEF InsertAsk, DeskTypeOK
    <2>  QED  BY <1>2, <1>3, <2>1 DEF RowFirst, InsertAsk, Decided
  <1>5. HookHolds' /\ ReadHolds'
    <2>1. \A c \in Clerks : desk[c].at # "idle" => desk[c].ask \in Asks  BY DeskFields
    <2>2. ASSUME NEW c \in Clerks, AtHook(c) PROVE desk[c].ask # a
      BY <1>2, <2>2 DEF HookHolds, RowFirst, Decided
    <2>3. HookHolds'  BY <1>3, <2>1, <2>2 DEF InsertAsk, HookHolds, AtHook
    <2>4. ReadHolds'  BY <1>2, <1>3, <2>1 DEF InsertAsk, ReadHolds
    <2>  QED  BY <2>3, <2>4
  <1>6. NoDoubleBooking'
    <2>1. \A b \in Asks : Live(b) => ~Clash(a, b) /\ ~Clash(b, a)
      BY DEF InsertAsk, Overlapping, Clash
    <2>  QED  BY <1>3, <2>1 DEF InsertAsk, NoDoubleBooking, Clash, Live
  <1>  QED  BY <1>1, <1>4, <1>5, <1>6

\* A clerk reads: an engine transaction enters its hook, or a direct write
\* looks at the row and the month.
LEMMA ReadsInv ==
    ASSUME DeskInv, NEW c \in Clerks, NEW a \in Asks, NEW verb \in Verbs,
           EngineBegins(c, a, verb) \/ ReadRow(c, a, verb)
    PROVE  DeskInv'
  <1>  USE DEF DeskInv
  <1>1. PICK m \in [at : {"read", "hook"}, ask : Asks, verb : Verbs, linked : BOOLEAN] :
          /\ desk' = [desk EXCEPT ![c] = m] /\ m.ask = a /\ m.verb = verb
          /\ m.at = "hook" => /\ ~monthClosed /\ ask[a] = "pending" /\ Hooked = {}
          /\ m.at = "read" => /\ m.linked = (a \in hasItem) /\ WritesDirectly(a, verb)
    <2>1. CASE EngineBegins(c, a, verb)
      <3>  DEFINE m == [at |-> "hook", ask |-> a, verb |-> verb, linked |-> TRUE]
      <3>1. m \in [at : {"read", "hook"}, ask : Asks, verb : Verbs, linked : BOOLEAN]  OBVIOUS
      <3>  QED  BY <2>1, <3>1 DEF EngineBegins, AssertPending, MonthOpenInTx
    <2>2. CASE ReadRow(c, a, verb)
      <3>  DEFINE m == [at |-> "read", ask |-> a, verb |-> verb, linked |-> a \in hasItem]
      <3>1. m \in [at : {"read", "hook"}, ask : Asks, verb : Verbs, linked : BOOLEAN]  OBVIOUS
      <3>  QED  BY <2>2, <3>1 DEF ReadRow
    <2>  QED  BY <2>1, <2>2
  <1>2. UNCHANGED <<form, ask, item, hasItem, monthClosed, filing, swept, bypassed>>
    BY DEF EngineBegins, ReadRow
  <1>3. DeskTypeOK'  BY <1>1, <1>2 DEF DeskTypeOK
  <1>4. \A d \in Clerks : desk'[d] = IF d = c THEN m ELSE desk[d]  BY <1>1 DEF DeskTypeOK
  <1>5. Hooked = {} => \A d \in Clerks : ~AtHook(d)  BY DEF Hooked, AtHook
  <1>6. HookHolds'  BY <1>1, <1>2, <1>4, <1>5 DEF HookHolds, AtHook
  <1>7. ReadHolds'
    <2>1. WritesDirectly(a, verb) => /\ ask[a] \in {"pending", "approved"}
                                     /\ a \in hasItem => verb = "cancel" /\ ask[a] = "approved"
      BY DEF WritesDirectly
    <2>  QED  BY <1>1, <1>2, <1>4, <2>1 DEF ReadHolds, Decided
  <1>8. RowFirst' /\ NoDoubleBooking'
    BY <1>2 DEF RowFirst, NoDoubleBooking, Clash, Live
  <1>  QED  BY <1>3, <1>6, <1>7, <1>8

\* The hook writes the row: it was pending, or it is bypassed.
LEMMA EngineCommitsInv ==
    ASSUME DeskInv, NEW c \in Clerks, EngineCommits(c)
    PROVE  DeskInv'
  <1>  USE DEF DeskInv
  <1>1. desk[c].ask \in Asks /\ desk[c].verb \in Verbs /\ AtHook(c)
    BY DeskFields DEF EngineCommits, AtHook
  <1>2. PICK a \in Asks : a = desk[c].ask  BY <1>1
  <1>3. PICK out \in Decided : out = Outcome(desk[c].verb)  BY <1>1, OutcomeDecides
  <1>4. /\ ask' = [ask EXCEPT ![a] = out] /\ item' = [item EXCEPT ![a] = out]
        /\ desk' = [desk EXCEPT ![c] = IdleClerk]
        /\ UNCHANGED <<form, hasItem, monthClosed, filing, swept, bypassed>>
    BY <1>2, <1>3 DEF EngineCommits
  <1>5. ask[a] = "pending" \/ a \in bypassed  BY <1>1, <1>2 DEF HookHolds
  <1>6. ask[a] # "none" /\ out # "none"  BY <1>5 DEF RowFirst, Decided
  <1>7. DeskTypeOK'  BY <1>4 DEF DeskTypeOK
  <1>8. \A b \in Asks : ask'[b] = (IF b = a THEN out ELSE ask[b]) /\ item'[b] = (IF b = a THEN out ELSE item[b])
    BY <1>4 DEF DeskTypeOK
  <1>9. \A d \in Clerks : desk'[d] = IF d = c THEN IdleClerk ELSE desk[d]  BY <1>4 DEF DeskTypeOK
  <1>10. RowFirst'  BY <1>4, <1>6, <1>8 DEF RowFirst
  <1>11. HookHolds'
    <2>1. \A d \in Clerks : ~AtHook(d)'
      BY <1>1, <1>9 DEF HookHolds, AtHook, IdleClerk
    <2>  QED  BY <2>1 DEF HookHolds
  <1>12. ReadHolds'
    <2>1. \A d \in Clerks : desk'[d].at = "read" => desk'[d] = desk[d] /\ desk[d].ask \in Asks
      BY <1>9, DeskFields DEF IdleClerk
    <2>  QED  BY <1>6, <1>8, <2>1 DEF ReadHolds, Decided
  <1>13. NoDoubleBooking'
    BY <1>4, <1>5, <1>8 DEF NoDoubleBooking, Clash, Live
  <1>  QED  BY <1>7, <1>10, <1>11, <1>12, <1>13

\* A direct write: of a row without a request id, which makes it bypassed, or
\* the cancellation of an approved one.
LEMMA WriteRowInv ==
    ASSUME DeskInv, NEW c \in Clerks, WriteRow(c)
    PROVE  DeskInv'
  <1>  USE DEF DeskInv
  <1>1. desk[c].ask \in Asks /\ desk[c].verb \in Verbs /\ desk[c].linked \in BOOLEAN
    BY DeskFields DEF WriteRow
  <1>2. PICK a \in Asks : a = desk[c].ask  BY <1>1
  <1>3. PICK out \in Decided : out = Outcome(desk[c].verb)  BY <1>1, OutcomeDecides
  <1>4. /\ ask' = [ask EXCEPT ![a] = out] /\ desk' = [desk EXCEPT ![c] = IdleClerk]
        /\ UNCHANGED <<form, item, hasItem, monthClosed, filing, swept>>
    BY <1>2, <1>3 DEF WriteRow
  <1>5. \/ ~desk[c].linked /\ bypassed' = bypassed \cup {a}
        \/ desk[c].linked /\ bypassed' = bypassed /\ out = "cancelled" /\ ask[a] \in Decided
    BY <1>1, <1>2, <1>3, OutcomeDecides DEF WriteRow, ReadHolds
  <1>6. ask[a] # "none" /\ out # "none"  BY <1>2 DEF WriteRow, ReadHolds, Decided
  <1>7. DeskTypeOK'
    <2>1. bypassed' \in SUBSET Asks  BY <1>5 DEF DeskTypeOK
    <2>  QED  BY <1>4, <2>1 DEF DeskTypeOK
  <1>8. \A b \in Asks : ask'[b] = IF b = a THEN out ELSE ask[b]  BY <1>4 DEF DeskTypeOK
  <1>9. \A d \in Clerks : desk'[d] = IF d = c THEN IdleClerk ELSE desk[d]  BY <1>4 DEF DeskTypeOK
  <1>10. RowFirst'  BY <1>4, <1>5, <1>6, <1>8 DEF RowFirst
  <1>11. \A d \in Clerks : desk'[d].at # "idle" => desk'[d] = desk[d] /\ desk[d].ask \in Asks
    BY <1>9, DeskFields DEF IdleClerk
  <1>12. HookHolds'
    <2>1. ASSUME NEW d \in Clerks, AtHook(d)' PROVE ask'[desk[d].ask] = "pending" \/ desk[d].ask \in bypassed'
      <3>1. AtHook(d) /\ desk[d].ask \in Asks  BY <1>11, <2>1 DEF AtHook
      <3>2. ask[desk[d].ask] = "pending" \/ desk[d].ask \in bypassed  BY <3>1 DEF HookHolds
      <3>  QED  BY <1>5, <1>8, <3>1, <3>2 DEF Decided
    <2>  QED  BY <1>4, <1>11, <2>1 DEF HookHolds, AtHook
  <1>13. ReadHolds'  BY <1>6, <1>8, <1>11 DEF ReadHolds
  <1>14. NoDoubleBooking'
    BY <1>4, <1>5, <1>8 DEF NoDoubleBooking, Clash, Live
  <1>  QED  BY <1>7, <1>10, <1>12, <1>13, <1>14

\* The sweep gives a row up, and looks at nothing.
LEMMA ExpireItemInv ==
    ASSUME DeskInv, NEW a \in Asks, ExpireItem(a)
    PROVE  DeskInv'
  <1>  USE DEF DeskInv
  <1>1. /\ ask' = [ask EXCEPT ![a] = "cancelled"] /\ item' = [item EXCEPT ![a] = "expired"]
        /\ swept' = swept \ {a} /\ a \in swept /\ a \notin Hooked
        /\ UNCHANGED <<form, hasItem, monthClosed, filing, desk, bypassed>>
    BY DEF ExpireItem
  <1>2. DeskTypeOK'  BY <1>1 DEF DeskTypeOK, Decided
  <1>3. \A b \in Asks : ask'[b] = (IF b = a THEN "cancelled" ELSE ask[b])
                        /\ item'[b] = (IF b = a THEN "expired" ELSE item[b])
    BY <1>1 DEF DeskTypeOK
  <1>4. ask[a] # "none"  BY <1>1 DEF RowFirst
  <1>5. RowFirst'  BY <1>1, <1>3, <1>4 DEF RowFirst, Decided
  <1>6. \A c \in Clerks : /\ AtHook(c) => desk[c].ask \in Asks \ {a}
                          /\ desk[c].at = "read" => desk[c].ask \in Asks
    BY <1>1, DeskFields DEF AtHook, Hooked
  <1>7. HookHolds'  BY <1>1, <1>3, <1>6 DEF HookHolds, AtHook
  <1>8. ReadHolds'  BY <1>1, <1>3, <1>6 DEF ReadHolds, Decided
  <1>9. NoDoubleBooking'  BY <1>1, <1>3 DEF NoDoubleBooking, Clash, Live
  <1>  QED  BY <1>2, <1>5, <1>7, <1>8, <1>9

\* What the sweep finds, and the month, touch no row.
LEMMA MonthInv ==
    ASSUME DeskInv,
           \/ \E a \in Asks : SweepFinds(a)
           \/ CloseMonth \/ ReopenMonth \/ UNCHANGED deskVars
    PROVE  DeskInv'
  <1>  USE DEF DeskInv
  <1>1. UNCHANGED <<form, ask, item, hasItem, filing, desk, bypassed>>
    BY DEF SweepFinds, CloseMonth, ReopenMonth, deskVars
  <1>2. \/ swept' = swept \/ \E a \in Asks : item[a] = "pending" /\ swept' = swept \cup {a}
    BY DEF SweepFinds, CloseMonth, ReopenMonth, deskVars, OverdueItems
  <1>3. /\ monthClosed' \in BOOLEAN
        /\ (\E c \in Clerks : AtHook(c)) => monthClosed' = FALSE
    <2>1. CASE CloseMonth  BY <2>1 DEF CloseMonth, MonthLockFree, Hooked, AtHook
    <2>2. CASE ReopenMonth  BY <2>2 DEF ReopenMonth
    <2>3. CASE UNCHANGED monthClosed  BY <2>3 DEF DeskTypeOK, HookHolds
    <2>  QED  BY <2>1, <2>2, <2>3 DEF SweepFinds, deskVars
  <1>4. DeskTypeOK'
    <2>1. swept' \in SUBSET Asks  BY <1>2 DEF DeskTypeOK
    <2>  QED  BY <1>1, <1>3, <2>1 DEF DeskTypeOK
  <1>5. RowFirst'  BY <1>1, <1>2 DEF RowFirst
  <1>6. HookHolds'  BY <1>1, <1>3 DEF HookHolds, AtHook
  <1>7. ReadHolds' /\ NoDoubleBooking'  BY <1>1 DEF ReadHolds, NoDoubleBooking, Clash, Live
  <1>  QED  BY <1>4, <1>5, <1>6, <1>7

\* Every step of the desk preserves the invariant.
LEMMA NextDeskInv == DeskInv /\ [DeskNext]_deskVars => DeskInv'
  BY FilingInv, InsertAskInv, ReadsInv, EngineCommitsInv, WriteRowInv, ExpireItemInv, MonthInv
     DEF DeskNext, FilingStep

\* The desk keeps its inductive invariant.
THEOREM DeskInvariance == DeskSpec => []DeskInv
  BY InitDeskInv, NextDeskInv, PTL DEF DeskSpec

\* The lock of the employee keeps two live rows off the same time: only a row
\* decided by a call that saw no request id can break that.
THEOREM BookedOnce == DeskSpec => []NoDoubleBooking
  <1>1. DeskInv => NoDoubleBooking  BY DEF DeskInv
  <1>  QED  BY <1>1, DeskInvariance, PTL

\* Every variable of the desk keeps its type.
THEOREM DeskTypeCorrect == DeskSpec => []DeskTypeOK
  <1>1. DeskInv => DeskTypeOK  BY DEF DeskInv
  <1>  QED  BY <1>1, DeskInvariance, PTL

\* Which steps write rows at all.
LEMMA RowWriters ==
    ASSUME DeskNext, ask' # ask
    PROVE  \/ \E a \in Asks : InsertAsk(a) \/ ExpireItem(a)
           \/ \E c \in Clerks : WriteRow(c) \/ EngineCommits(c)
  BY DEF DeskNext, FilingStep, CheckMonth, CheckBalance, SubmitAsk, LinkAsk, FilingDies, SweepFinds,
         EngineBegins, ReadRow, CloseMonth, ReopenMonth

\* A cancel and an approve that race through two doors do not both write: the
\* row lock of the item and the assertPending of the hook see to it.
THEOREM DecisionsStand == DeskSpec => DecisionStands
  <1>  DEFINE A == \A a \in Asks : ask[a] \in Decided /\ ask'[a] # ask[a] =>
              \/ ExpireItem(a)
              \/ \E c \in Clerks : /\ desk[c] # IdleClerk /\ desk[c].ask = a
                                   /\ WriteRow(c) \/ (EngineCommits(c) /\ a \in bypassed)
  <1>1. DeskInv /\ [DeskNext]_deskVars => [A]_deskVars
    <2>  SUFFICES ASSUME DeskInv, DeskNext, NEW a \in Asks, ask[a] \in Decided, ask'[a] # ask[a]
                  PROVE  \/ ExpireItem(a)
                         \/ \E c \in Clerks : /\ desk[c] # IdleClerk /\ desk[c].ask = a
                                              /\ WriteRow(c) \/ (EngineCommits(c) /\ a \in bypassed)
      OBVIOUS
    <2>  USE DEF DeskInv
    <2>1. ASSUME NEW b \in Asks, InsertAsk(b) PROVE FALSE
      <3>1. ask[b] = "none"  BY <2>1 DEF InsertAsk, RowFirst
      <3>2. a # b  BY <3>1 DEF Decided
      <3>  QED  BY <2>1, <3>2 DEF InsertAsk, DeskTypeOK
    <2>2. ASSUME NEW b \in Asks, ExpireItem(b) PROVE ExpireItem(a)
      <3>1. a = b  BY <2>2 DEF ExpireItem, DeskTypeOK
      <3>  QED  BY <2>2, <3>1
    <2>3. ASSUME NEW c \in Clerks, WriteRow(c) PROVE desk[c] # IdleClerk /\ desk[c].ask = a
      BY <2>3, DeskFields DEF WriteRow, DeskTypeOK
    <2>4. ASSUME NEW c \in Clerks, EngineCommits(c)
          PROVE  desk[c] # IdleClerk /\ desk[c].ask = a /\ a \in bypassed
      <3>1. desk[c] # IdleClerk /\ desk[c].ask = a
        BY <2>4, DeskFields DEF EngineCommits, DeskTypeOK
      <3>2. ask[a] = "pending" \/ a \in bypassed  BY <2>4, <3>1 DEF EngineCommits, HookHolds, AtHook
      <3>  QED  BY <3>1, <3>2 DEF Decided
    <2>  QED  BY <2>1, <2>2, <2>3, <2>4, RowWriters
  <1>  QED  BY <1>1, DeskInvariance, PTL DEF DeskSpec, DecisionStands

\* No decision of the engine lands in a closed month, since the transaction
\* and the close take the same lock.
THEOREM ClosedMonthsAreQuiet == DeskSpec => ClosedMonthIsQuiet
  <1>  DEFINE A == monthClosed /\ ask' # ask =>
              \/ \E a \in Asks : InsertAsk(a) \/ ExpireItem(a)
              \/ \E c \in Clerks : WriteRow(c)
  <1>1. DeskInv /\ [DeskNext]_deskVars => [A]_deskVars
    <2>1. DeskInv /\ monthClosed => \A c \in Clerks : ~EngineCommits(c)
      BY DEF DeskInv, HookHolds, AtHook, EngineCommits
    <2>  QED  BY <2>1, RowWriters
  <1>  QED  BY <1>1, DeskInvariance, PTL DEF DeskSpec, ClosedMonthIsQuiet

-----------------------------------------------------------------------------
(* LeaveDesk: the balance                                                  *)

LeaveRows == {a \in Asks : form[a].kind = "leave" /\ Live(a)}

\* The rows that somebody approved past the engine.
ByPass == {b \in bypassed : form[b].kind = "leave" /\ ask[b] = "approved"}

\* A filing that has checked the balance, and that no insert has overtaken
\* since, still finds it sufficient, but for the rows approved past the engine.
BalanceHolds ==
    \A a \in Asks : filing[a] = "fits" /\ form[a].kind = "leave" =>
        Cardinality(LeaveRows \ ByPass) < Allowance

\* The cardinality of a part of the asks.
LEMMA AskCount ==
    ASSUME NEW S \in SUBSET Asks, NEW T, T \subseteq S
    PROVE  /\ IsFiniteSet(S) /\ IsFiniteSet(T)
           /\ Cardinality(S) \in Nat /\ Cardinality(T) \in Nat /\ Cardinality(T) <= Cardinality(S)
  <1>1. IsFiniteSet(S)  BY FS_Subset
  <1>  QED  BY <1>1, FS_Subset, FS_CardinalityType

\* One more ask counts one more.
LEMMA AskAdded ==
    ASSUME NEW S \in SUBSET Asks, NEW a \in Asks, NEW T, T \subseteq S \cup {a}
    PROVE  Cardinality(T) <= Cardinality(S) + 1
  <1>1. IsFiniteSet(S) /\ Cardinality(S) \in Nat  BY AskCount
  <1>2. S \cup {a} \in SUBSET Asks  OBVIOUS
  <1>3. Cardinality(T) <= Cardinality(S \cup {a}) /\ Cardinality(T) \in Nat  BY <1>2, AskCount
  <1>4. Cardinality(S \cup {a}) = IF a \in S THEN Cardinality(S) ELSE Cardinality(S) + 1
    BY <1>1, FS_AddElement
  <1>5. CASE a \in S  BY <1>1, <1>3, <1>4, <1>5
  <1>6. CASE a \notin S  BY <1>1, <1>3, <1>4, <1>6
  <1>  QED  BY <1>5, <1>6

\* How the rows that count change: an insert may add its own, nothing else
\* adds any.
LEMMA LeaveRowsStep ==
    ASSUME DeskInv, [DeskNext]_deskVars
    PROVE  \/ (LeaveRows \ ByPass)' \subseteq LeaveRows \ ByPass
           \/ \E a \in Asks : InsertAsk(a) /\ form[a].kind = "leave"
  <1>  USE DEF DeskInv
  <1>0. form' = form
    BY DEF DeskNext, FilingStep, CheckMonth, CheckBalance, InsertAsk, SubmitAsk, LinkAsk, FilingDies,
           SweepFinds, ExpireItem, EngineBegins, EngineCommits, ReadRow, WriteRow, CloseMonth,
           ReopenMonth, deskVars
  <1>1. CASE ask' = ask
    <2>1. bypassed' = bypassed \/ \E c \in Clerks : WriteRow(c)
      BY DEF DeskNext, FilingStep, CheckMonth, CheckBalance, InsertAsk, SubmitAsk, LinkAsk, FilingDies,
             SweepFinds, ExpireItem, EngineBegins, EngineCommits, ReadRow, CloseMonth,
             ReopenMonth, deskVars
    <2>2. bypassed \subseteq bypassed'  BY <2>1 DEF WriteRow
    <2>  QED  BY <1>0, <1>1, <2>2 DEF LeaveRows, ByPass, Live
  <1>2. ASSUME NEW a \in Asks, InsertAsk(a), form[a].kind # "leave"
        PROVE  (LeaveRows \ ByPass)' \subseteq LeaveRows \ ByPass
    <2>1. \A b \in Asks \ {a} : ask'[b] = ask[b]  BY <1>2 DEF InsertAsk, DeskTypeOK
    <2>  QED  BY <1>0, <1>2, <2>1 DEF LeaveRows, ByPass, Live, InsertAsk
  <1>3. ASSUME NEW a \in Asks, ExpireItem(a)
        PROVE  (LeaveRows \ ByPass)' \subseteq LeaveRows \ ByPass
    <2>1. \A b \in Asks : ask'[b] = IF b = a THEN "cancelled" ELSE ask[b]
      BY <1>3 DEF ExpireItem, DeskTypeOK
    <2>  QED  BY <1>0, <1>3, <2>1 DEF LeaveRows, ByPass, Live, ExpireItem
  <1>4. ASSUME NEW c \in Clerks, WriteRow(c)
        PROVE  (LeaveRows \ ByPass)' \subseteq LeaveRows \ ByPass
    <2>1. desk[c].ask \in Asks /\ desk[c].verb \in Verbs /\ desk[c].linked \in BOOLEAN
      BY <1>4, DeskFields DEF WriteRow
    <2>2. PICK a \in Asks : a = desk[c].ask  BY <2>1
    <2>3. PICK out \in Decided : out = Outcome(desk[c].verb)  BY <2>1, OutcomeDecides
    <2>4. \A b \in Asks : ask'[b] = IF b = a THEN out ELSE ask[b]
      BY <1>4, <2>2, <2>3 DEF WriteRow, DeskTypeOK
    <2>5. a \in bypassed' \/ out = "cancelled"
      BY <1>4, <2>1, <2>2, <2>3, OutcomeDecides DEF WriteRow, ReadHolds
    <2>6. bypassed \subseteq bypassed'  BY <1>4 DEF WriteRow
    <2>  QED  BY <1>0, <2>4, <2>5, <2>6 DEF LeaveRows, ByPass, Live, Decided
  <1>5. ASSUME NEW c \in Clerks, EngineCommits(c)
        PROVE  (LeaveRows \ ByPass)' \subseteq LeaveRows \ ByPass
    <2>1. desk[c].ask \in Asks /\ desk[c].verb \in Verbs
      BY <1>5, DeskFields DEF EngineCommits
    <2>2. PICK a \in Asks : a = desk[c].ask  BY <2>1
    <2>3. PICK out \in Decided : out = Outcome(desk[c].verb)  BY <2>1, OutcomeDecides
    <2>4. /\ \A b \in Asks : ask'[b] = IF b = a THEN out ELSE ask[b]
          /\ bypassed' = bypassed
      BY <1>5, <2>2, <2>3 DEF EngineCommits, DeskTypeOK
    <2>5. ask[a] = "pending" \/ a \in bypassed
      BY <1>5, <2>2 DEF EngineCommits, HookHolds, AtHook
    <2>6. \A b \in bypassed : ask[b] # "pending"  BY DEF RowFirst, DeskTypeOK, Decided
    <2>  QED  BY <1>0, <2>4, <2>5, <2>6 DEF LeaveRows, ByPass, Live, Decided
  <1>  QED  BY <1>1, <1>2, <1>3, <1>4, <1>5, RowWriters DEF deskVars

\* The balance that a filing has checked is kept.
LEMMA BalanceStep ==
    ASSUME DeskInv, BalanceHolds, [DeskNext]_deskVars
    PROVE  BalanceHolds'
  <1>  SUFFICES ASSUME NEW a \in Asks, filing'[a] = "fits", form'[a].kind = "leave"
                PROVE  Cardinality((LeaveRows \ ByPass)') < Allowance
    BY DEF BalanceHolds
  <1>0. form' = form
    BY DEF DeskNext, FilingStep, CheckMonth, CheckBalance, InsertAsk, SubmitAsk, LinkAsk, FilingDies,
           SweepFinds, ExpireItem, EngineBegins, EngineCommits, ReadRow, WriteRow, CloseMonth,
           ReopenMonth, deskVars
  <1>1. ASSUME NEW b \in Asks, InsertAsk(b) PROVE form[b].kind # "leave"
    BY <1>0, <1>1 DEF InsertAsk
  <1>2. (LeaveRows \ ByPass)' \subseteq LeaveRows \ ByPass  BY <1>1, LeaveRowsStep
  <1>3. LeaveRows \ ByPass \in SUBSET Asks  BY DEF LeaveRows
  <1>4. /\ Cardinality((LeaveRows \ ByPass)') <= Cardinality(LeaveRows \ ByPass)
        /\ Cardinality(LeaveRows \ ByPass) \in Nat /\ Cardinality((LeaveRows \ ByPass)') \in Nat
    BY <1>2, <1>3, AskCount
  <1>5. Cardinality(LeaveRows \ ByPass) < Allowance
    <2>1. CASE filing[a] = "fits"  BY <1>0, <2>1 DEF BalanceHolds
    <2>2. CASE CheckBalance(a)
      <3>1. Cardinality(LeaveRows) < Allowance  BY <2>2 DEF CheckBalance, ConsumedDays, LeaveRows
      <3>2. Cardinality(LeaveRows \ ByPass) <= Cardinality(LeaveRows)
            /\ Cardinality(LeaveRows) \in Nat
        BY AskCount DEF LeaveRows
      <3>  QED  BY <1>4, <3>1, <3>2
    <2>3. filing[a] = "fits" \/ CheckBalance(a)
      <3>1. CASE filing' = filing  BY <3>1
      <3>2. ASSUME NEW b \in Asks,
                   CheckMonth(b) \/ CheckBalance(b) \/ SubmitAsk(b) \/ LinkAsk(b) \/ FilingDies(b)
            PROVE  filing[a] = "fits" \/ CheckBalance(a)
        BY <1>0, <3>2 DEF CheckMonth, CheckBalance, SubmitAsk, LinkAsk, FilingDies, MovesOn, DeskInv,
                          DeskTypeOK
      <3>3. ASSUME NEW b \in Asks, InsertAsk(b) PROVE filing[a] = "fits"
        BY <3>3 DEF InsertAsk
      <3>  QED
        BY <3>1, <3>2, <3>3 DEF DeskNext, FilingStep, SweepFinds, ExpireItem, EngineBegins,
           EngineCommits, ReadRow, WriteRow, CloseMonth, ReopenMonth, deskVars
    <2>  QED  BY <2>1, <2>2, <2>3
  <1>  QED  BY <1>4, <1>5

\* The days that are asked for exceed what is available only where a balance
\* was read before another insert, or next to a row approved past the engine.
THEOREM OverdraftsAreRaces == DeskSpec => OverdrawnOnlyByRace
  <1>  DEFINE A == LeaveDays' > Allowance /\ LeaveDays' > LeaveDays =>
              \/ \E a \in Asks : filing[a] = "stale" /\ InsertAsk(a)
              \/ \E b \in bypassed' : form[b].kind = "leave" /\ ask'[b] = "approved"
  <1>1. DeskInit => DeskInv /\ BalanceHolds
    BY InitDeskInv DEF DeskInit, BalanceHolds
  <1>2. DeskInv /\ BalanceHolds /\ [DeskNext]_deskVars => (DeskInv /\ BalanceHolds)'
    BY NextDeskInv, BalanceStep
  <1>3. DeskInv /\ BalanceHolds /\ [DeskNext]_deskVars => [A]_deskVars
    <2>  SUFFICES ASSUME DeskInv, BalanceHolds, DeskNext,
                         LeaveDays' > Allowance, LeaveDays' > LeaveDays,
                         ~\E b \in bypassed' : form[b].kind = "leave" /\ ask'[b] = "approved"
                  PROVE  \E a \in Asks : filing[a] = "stale" /\ InsertAsk(a)
      OBVIOUS
    <2>1. LeaveDays = Cardinality(LeaveRows) /\ LeaveDays' = Cardinality(LeaveRows')
      BY DEF LeaveDays, LeaveRows
    <2>2. form' = form
      BY DEF DeskNext, FilingStep, CheckMonth, CheckBalance, InsertAsk, SubmitAsk, LinkAsk, FilingDies,
             SweepFinds, ExpireItem, EngineBegins, EngineCommits, ReadRow, WriteRow, CloseMonth,
             ReopenMonth
    <2>3. ByPass' = {}  BY <2>2 DEF ByPass
    <2>4. LeaveRows \in SUBSET Asks  BY DEF LeaveRows
    <2>5. ~(LeaveRows' \subseteq LeaveRows)  BY <2>1, <2>4, AskCount
    <2>6. PICK a \in Asks : InsertAsk(a) /\ form[a].kind = "leave"
      BY <2>3, <2>5, LeaveRowsStep
    <2>7. ByPass = {}
      <3>1. ask[a] = "none"  BY <2>6 DEF InsertAsk, DeskInv, RowFirst
      <3>2. bypassed' = bypassed /\ \A b \in Asks \ {a} : ask'[b] = ask[b]
        BY <2>6 DEF InsertAsk, DeskInv, DeskTypeOK
      <3>  QED  BY <2>2, <2>3, <3>1, <3>2 DEF ByPass, DeskInv, DeskTypeOK
    <2>8. LeaveRows' \subseteq LeaveRows \cup {a}
      <3>1. \A b \in Asks \ {a} : ask'[b] = ask[b]  BY <2>6 DEF InsertAsk, DeskInv, DeskTypeOK
      <3>  QED  BY <2>2, <3>1 DEF LeaveRows, Live
    <2>9. Cardinality(LeaveRows') <= Cardinality(LeaveRows) + 1  BY <2>4, <2>8, AskAdded
    <2>10. filing[a] # "fits"
      <3>1. SUFFICES ASSUME filing[a] = "fits" PROVE FALSE  OBVIOUS
      <3>2. LeaveRows \ ByPass = LeaveRows  BY <2>7
      <3>3. Cardinality(LeaveRows) < Allowance  BY <2>6, <3>1, <3>2 DEF BalanceHolds
      <3>4. Cardinality(LeaveRows) \in Nat /\ Cardinality(LeaveRows') \in Nat
        <4>1. LeaveRows' \in SUBSET Asks  BY DEF LeaveRows
        <4>  QED  BY <2>4, <4>1, AskCount
      <3>  QED  BY <2>1, <2>9, <3>3, <3>4
    <2>  QED  BY <2>6, <2>10 DEF InsertAsk
  <1>  QED  BY <1>1, <1>2, <1>3, PTL DEF DeskSpec, OverdrawnOnlyByRace

-----------------------------------------------------------------------------
(* AccessGrants                                                            *)

AboutAccess(c, r) == approver[c] # IdleApprover /\ approver[c].req = r

\* What one grant, issued in order, has settled: the item is closed, and
\* whoever still has a decision in mind read it before.
Settled ==
    \A r \in AccessAsks : issued[r] > 0 /\ r \notin disordered \cup accBypassed =>
        /\ issued[r] = 1 /\ accItem[r] = "approved" /\ accRow[r] = "approved"
        /\ \A c \in Approvers : AboutAccess(c, r) => approver[c].late

\* No more grants are in force than were issued.
ForceWithinIssued == \A r \in AccessAsks : inForce[r] <= issued[r]

AccessInv == AccessTypeOK /\ ForceWithinIssued /\ Settled /\ LeaverKeepsNothing

ApproverType ==
    [at : OpenItem \cup {"unlinked"}, req : AccessAsks, verb : AccessVerbs, late : BOOLEAN]

\* A call in flight has the fields of one.
LEMMA ApproverFields ==
    ASSUME AccessTypeOK, NEW c \in Approvers, approver[c] # IdleApprover
    PROVE  /\ approver[c] \in ApproverType
           /\ approver[c].at \in OpenItem \cup {"unlinked"} /\ approver[c].req \in AccessAsks
           /\ approver[c].verb \in AccessVerbs /\ approver[c].late \in BOOLEAN
  BY DEF AccessTypeOK, ApproverType

\* Nothing is filed, read or granted.
LEMMA InitAccessInv == AccessInit => AccessInv
  <1>  SUFFICES ASSUME AccessInit PROVE AccessInv  OBVIOUS
  <1>1. AccessTypeOK
    <2>1. 0 \in 0 .. MaxIssued  OBVIOUS
    <2>2. issued \in [AccessAsks -> 0 .. MaxIssued] /\ inForce \in [AccessAsks -> 0 .. MaxIssued]
      BY <2>1 DEF AccessInit
    <2>3. /\ accRow \in [AccessAsks -> {"none", "pending", "approved", "rejected", "expired"}]
          /\ accItem \in [AccessAsks -> {"none", "approved", "rejected", "cancelled", "expired"} \cup OpenItem]
          /\ approver \in [Approvers -> {IdleApprover} \cup ApproverType]
      BY DEF AccessInit
    <2>4. left \in BOOLEAN /\ {accLinked, lateGranted, accBypassed, disordered} \subseteq SUBSET AccessAsks
      BY DEF AccessInit
    <2>  QED  BY <2>2, <2>3, <2>4 DEF AccessTypeOK, ApproverType
  <1>2. ForceWithinIssued /\ Settled /\ LeaverKeepsNothing
    BY DEF AccessInit, ForceWithinIssued, Settled, LeaverKeepsNothing
  <1>  QED  BY <1>1, <1>2 DEF AccessInv

\* Filing: the row, the item, the link.
LEMMA FileAccessInv ==
    ASSUME AccessInv, NEW r \in AccessAsks, InsertAccess(r) \/ SubmitAccess(r) \/ LinkAccess(r)
    PROVE  AccessInv'
  <1>1. UNCHANGED <<issued, inForce, left, approver, lateGranted, accBypassed, disordered>>
    BY DEF InsertAccess, SubmitAccess, LinkAccess
  <1>2. AccessTypeOK'
    BY DEF AccessInv, AccessTypeOK, InsertAccess, SubmitAccess, LinkAccess, OpenItem
  <1>3. ForceWithinIssued' /\ LeaverKeepsNothing'
    BY <1>1 DEF AccessInv, ForceWithinIssued, LeaverKeepsNothing
  <1>4. \A q \in AccessAsks : /\ accRow[q] = "approved" => accRow'[q] = "approved"
                              /\ accItem[q] = "approved" => accItem'[q] = "approved"
    BY DEF AccessInv, AccessTypeOK, InsertAccess, SubmitAccess, LinkAccess
  <1>5. Settled'  BY <1>1, <1>4 DEF AccessInv, Settled, AboutAccess
  <1>  QED  BY <1>2, <1>3, <1>5 DEF AccessInv

\* A call reads an open item, or a pending row without a request id: neither
\* is what a grant issued in order leaves.
LEMMA ReadAccessInv ==
    ASSUME AccessInv, NEW c \in Approvers, NEW r \in AccessAsks, NEW verb \in AccessVerbs,
           ReadAccessItem(c, r, verb) \/ ReadUnlinked(c, r, verb)
    PROVE  AccessInv'
  <1>1. UNCHANGED <<accRow, accItem, accLinked, issued, inForce, left, lateGranted, accBypassed, disordered>>
    BY DEF ReadAccessItem, ReadUnlinked
  <1>2. PICK m \in ApproverType : m.req = r /\ approver' = [approver EXCEPT ![c] = m]
    <2>1. CASE ReadAccessItem(c, r, verb)
      <3>  DEFINE m == [at |-> IF accItem[r] = "pending" THEN "pending" ELSE "in_review",
                        req |-> r, verb |-> verb, late |-> FALSE]
      <3>1. m \in ApproverType  BY DEF ApproverType, OpenItem
      <3>  QED  BY <2>1, <3>1 DEF ReadAccessItem
    <2>2. CASE ReadUnlinked(c, r, verb)
      <3>  DEFINE m == [at |-> "unlinked", req |-> r, verb |-> verb, late |-> FALSE]
      <3>1. m \in ApproverType  BY DEF ApproverType
      <3>  QED  BY <2>2, <3>1 DEF ReadUnlinked
    <2>  QED  BY <2>1, <2>2
  <1>3. AccessTypeOK'  BY <1>1, <1>2 DEF AccessInv, AccessTypeOK, ApproverType
  <1>4. ~(accItem[r] = "approved" /\ accRow[r] = "approved")
    BY DEF ReadAccessItem, ReadUnlinked, Decidable, OpenItem
  <1>5. Settled'
    <2>1. \A d \in Approvers : approver'[d] = IF d = c THEN m ELSE approver[d]
      BY <1>2 DEF AccessInv, AccessTypeOK
    <2>  QED  BY <1>1, <1>2, <1>4, <2>1 DEF AccessInv, Settled, AboutAccess
  <1>6. ForceWithinIssued' /\ LeaverKeepsNothing'
    BY <1>1 DEF AccessInv, ForceWithinIssued, LeaverKeepsNothing
  <1>  QED  BY <1>3, <1>5, <1>6 DEF AccessInv

\* What a call that returns leaves in the memory of the others.
LEMMA ReturnsFacts ==
    ASSUME AccessTypeOK, NEW c \in Approvers, approver[c] # IdleApprover, NEW closes \in BOOLEAN,
           Returns(c, closes)
    PROVE  /\ approver' \in [Approvers -> {IdleApprover} \cup ApproverType]
           /\ disordered' \in SUBSET AccessAsks /\ disordered \subseteq disordered'
           /\ approver[c].late => approver[c].req \in disordered'
           /\ disordered' \subseteq disordered \cup {approver[c].req}
           /\ \A d \in Approvers, r \in AccessAsks : AboutAccess(d, r)' =>
                 /\ AboutAccess(d, r) /\ d # c
                 /\ approver'[d].late = (approver[d].late \/ (closes /\ r = approver[c].req))
  <1>1. approver[c].req \in AccessAsks  BY ApproverFields
  <1>2. ASSUME NEW d \in Approvers
        PROVE  /\ approver'[d] \in {IdleApprover} \cup ApproverType
               /\ \A r \in AccessAsks : AboutAccess(d, r)' =>
                     /\ AboutAccess(d, r) /\ d # c
                     /\ approver'[d].late = (approver[d].late \/ (closes /\ r = approver[c].req))
    <2>1. CASE d = c
      <3>1. approver'[d] = IdleApprover  BY <2>1 DEF Returns
      <3>2. \A r \in AccessAsks : ~AboutAccess(d, r)'  BY <3>1 DEF AboutAccess
      <3>  QED  BY <3>1, <3>2
    <2>2. CASE d # c /\ closes /\ approver[d] # IdleApprover /\ approver[d].req = approver[c].req
      <3>1. approver'[d] = [approver[d] EXCEPT !.late = TRUE]  BY <2>2 DEF Returns
      <3>2. approver[d] \in ApproverType  BY <2>2, ApproverFields
      <3>3. approver'[d] \in ApproverType /\ approver'[d].req = approver[d].req /\ approver'[d].late = TRUE
        BY <3>1, <3>2 DEF ApproverType
      <3>  QED  BY <2>2, <3>3 DEF AboutAccess
    <2>3. CASE d # c /\ ~(closes /\ approver[d] # IdleApprover /\ approver[d].req = approver[c].req)
      <3>1. approver'[d] = approver[d]  BY <2>3 DEF Returns
      <3>2. approver[d] \in {IdleApprover} \cup ApproverType  BY DEF AccessTypeOK, ApproverType
      <3>3. approver[d] # IdleApprover => approver[d].late \in BOOLEAN  BY ApproverFields
      <3>  QED  BY <2>3, <3>1, <3>2, <3>3 DEF AboutAccess
    <2>  QED  BY <2>1, <2>2, <2>3
  <1>3. /\ disordered' \in SUBSET AccessAsks /\ disordered \subseteq disordered'
        /\ approver[c].late => approver[c].req \in disordered'
        /\ disordered' \subseteq disordered \cup {approver[c].req}
    BY <1>1 DEF Returns, AccessTypeOK
  <1>4. approver' \in [Approvers -> {IdleApprover} \cup ApproverType]
    <2>1. DOMAIN approver' = Approvers /\ approver' = [d \in Approvers |-> approver'[d]]
      BY DEF Returns
    <2>  QED  BY <1>2, <2>1
  <1>  QED  BY <1>2, <1>3, <1>4

\* What a decision writes in order settles or stays settled; what it writes
\* late makes the request disordered.
LEMMA SettledStep ==
    ASSUME AccessInv, NEW c \in Approvers, NEW r \in AccessAsks, AboutAccess(c, r), NEW closes \in BOOLEAN,
           Returns(c, closes), accBypassed \subseteq accBypassed',
           \A q \in AccessAsks \ {r} : /\ issued'[q] = issued[q] /\ accItem'[q] = accItem[q]
                                       /\ accRow'[q] = accRow[q],
           issued'[r] # issued[r] => /\ closes /\ issued'[r] = issued[r] + 1
                                     /\ r \in accBypassed' \/ accItem'[r] = "approved"
                                     /\ accRow'[r] = "approved"
    PROVE  Settled'
  <1>  SUFFICES ASSUME NEW q \in AccessAsks, issued'[q] > 0, q \notin disordered' \cup accBypassed'
                PROVE  /\ issued'[q] = 1 /\ accItem'[q] = "approved" /\ accRow'[q] = "approved"
                       /\ \A d \in Approvers : AboutAccess(d, q)' => approver'[d].late
    BY DEF Settled
  <1>1. AccessTypeOK /\ approver[c] # IdleApprover /\ approver[c].req = r
    BY DEF AccessInv, AboutAccess
  <1>2. /\ disordered \subseteq disordered' /\ (approver[c].late => r \in disordered')
        /\ \A d \in Approvers, p \in AccessAsks : AboutAccess(d, p)' =>
              /\ AboutAccess(d, p) /\ d # c
              /\ approver'[d].late = (approver[d].late \/ (closes /\ p = r))
    BY <1>1, ReturnsFacts
  <1>3. q \notin disordered \cup accBypassed  BY <1>2
  <1>4. issued[q] > 0 => /\ issued[q] = 1 /\ accItem[q] = "approved" /\ accRow[q] = "approved"
                         /\ \A d \in Approvers : AboutAccess(d, q) => approver[d].late
    BY <1>3 DEF AccessInv, Settled
  <1>5. CASE q # r  BY <1>2, <1>4, <1>5
  <1>6. CASE q = r
    <2>1. ~(issued[q] > 0)  BY <1>2, <1>4, <1>6
    <2>2. issued[q] \in Nat  BY <1>1 DEF AccessTypeOK
    <2>3. issued[q] = 0 /\ issued'[q] # issued[q]  BY <2>1, <2>2
    <2>  QED  BY <1>2, <1>6, <2>3
  <1>  QED  BY <1>5, <1>6

\* The first approval moves the item on.
LEMMA ApproveStepInv ==
    ASSUME AccessInv, NEW c \in Approvers, ApproveStep(c)
    PROVE  AccessInv'
  <1>1. AccessTypeOK /\ approver[c] # IdleApprover  BY DEF AccessInv, ApproveStep
  <1>2. PICK r \in AccessAsks : r = approver[c].req  BY <1>1, ApproverFields
  <1>3. /\ accItem' = [accItem EXCEPT ![r] = "in_review"] /\ Returns(c, FALSE)
        /\ UNCHANGED <<accRow, accLinked, issued, inForce, left, lateGranted, accBypassed>>
    BY <1>2 DEF ApproveStep
  <1>4. approver' \in [Approvers -> {IdleApprover} \cup ApproverType] /\ disordered' \in SUBSET AccessAsks
    BY <1>1, <1>3, ReturnsFacts
  <1>5. AccessTypeOK'  BY <1>1, <1>3, <1>4 DEF AccessTypeOK, ApproverType, OpenItem
  <1>6. ForceWithinIssued' /\ LeaverKeepsNothing'
    BY <1>3 DEF AccessInv, ForceWithinIssued, LeaverKeepsNothing
  <1>7. Settled'
    <2>1. \A q \in AccessAsks \ {r} : accItem'[q] = accItem[q]  BY <1>1, <1>3 DEF AccessTypeOK
    <2>2. AboutAccess(c, r)  BY <1>1, <1>2 DEF AboutAccess
    <2>  QED  BY <1>3, <2>1, <2>2, SettledStep
  <1>  QED  BY <1>5, <1>6, <1>7 DEF AccessInv

\* A grant is issued.
LEMMA IssueGrantInv ==
    ASSUME AccessInv, NEW c \in Approvers, IssueGrant(c)
    PROVE  AccessInv'
  <1>1. AccessTypeOK /\ approver[c] # IdleApprover  BY DEF AccessInv, IssueGrant
  <1>2. PICK r \in AccessAsks : r = approver[c].req  BY <1>1, ApproverFields
  <1>  DEFINE direct == approver[c].at = "unlinked"
  <1>3. /\ issued[r] < MaxIssued /\ accRow' = [accRow EXCEPT ![r] = "approved"]
        /\ accItem' = [accItem EXCEPT ![r] = IF direct THEN @ ELSE "approved"]
        /\ issued' = [issued EXCEPT ![r] = @ + 1] /\ inForce' = [inForce EXCEPT ![r] = @ + 1]
        /\ lateGranted' = IF left THEN lateGranted \cup {r} ELSE lateGranted
        /\ accBypassed' = IF direct THEN accBypassed \cup {r} ELSE accBypassed
        /\ Returns(c, TRUE) /\ UNCHANGED <<accLinked, left>>
    BY <1>2 DEF IssueGrant
  <1>  HIDE DEF direct
  <1>4. approver' \in [Approvers -> {IdleApprover} \cup ApproverType] /\ disordered' \in SUBSET AccessAsks
    BY <1>1, <1>3, ReturnsFacts
  <1>5. /\ issued \in [AccessAsks -> 0 .. MaxIssued] /\ inForce \in [AccessAsks -> 0 .. MaxIssued]
        /\ accRow \in [AccessAsks -> {"none", "pending", "approved", "rejected", "expired"}]
        /\ accItem \in [AccessAsks -> {"none", "approved", "rejected", "cancelled", "expired"} \cup OpenItem]
    BY <1>1 DEF AccessTypeOK
  <1>6. issued[r] + 1 \in 0 .. MaxIssued /\ inForce[r] + 1 \in 0 .. MaxIssued
        /\ inForce[r] + 1 <= issued[r] + 1
    <2>1. issued[r] \in 0 .. MaxIssued /\ inForce[r] \in 0 .. MaxIssued  BY <1>5
    <2>2. inForce[r] <= issued[r]  BY DEF AccessInv, ForceWithinIssued
    <2>  QED  BY <1>3, <2>1, <2>2
  <1>7. /\ issued' \in [AccessAsks -> 0 .. MaxIssued] /\ inForce' \in [AccessAsks -> 0 .. MaxIssued]
        /\ \A q \in AccessAsks : /\ issued'[q] = (IF q = r THEN issued[r] + 1 ELSE issued[q])
                                 /\ inForce'[q] = (IF q = r THEN inForce[r] + 1 ELSE inForce[q])
    BY <1>3, <1>5, <1>6
  <1>8. AccessTypeOK'
    <2>1. accRow' \in [AccessAsks -> {"none", "pending", "approved", "rejected", "expired"}]
      BY <1>3, <1>5
    <2>2. accItem' \in [AccessAsks -> {"none", "approved", "rejected", "cancelled", "expired"} \cup OpenItem]
      BY <1>3, <1>5
    <2>3. lateGranted' \in SUBSET AccessAsks /\ accBypassed' \in SUBSET AccessAsks
          /\ accLinked' \in SUBSET AccessAsks /\ left' \in BOOLEAN
      BY <1>1, <1>3 DEF AccessTypeOK
    <2>  QED  BY <1>4, <1>7, <2>1, <2>2, <2>3 DEF AccessTypeOK, ApproverType
  <1>9. ForceWithinIssued'  BY <1>6, <1>7 DEF AccessInv, ForceWithinIssued
  <1>10. LeaverKeepsNothing'  BY <1>3, <1>7 DEF AccessInv, LeaverKeepsNothing
  <1>11. Settled'
    <2>1. \A q \in AccessAsks \ {r} : /\ issued'[q] = issued[q] /\ accItem'[q] = accItem[q]
                                      /\ accRow'[q] = accRow[q]
      BY <1>3, <1>5, <1>7
    <2>2. /\ issued'[r] = issued[r] + 1 /\ accRow'[r] = "approved"
          /\ r \in accBypassed' \/ accItem'[r] = "approved"
      BY <1>3, <1>5, <1>7
    <2>3. AboutAccess(c, r)  BY <1>1, <1>2 DEF AboutAccess
    <2>4. accBypassed \subseteq accBypassed'  BY <1>3
    <2>  QED  BY <1>3, <2>1, <2>2, <2>3, <2>4, SettledStep
  <1>  QED  BY <1>8, <1>9, <1>10, <1>11 DEF AccessInv

\* A decision that closes the request without a grant.
LEMMA CloseAccessInv ==
    ASSUME AccessInv, NEW c \in Approvers, CloseAccess(c)
    PROVE  AccessInv'
  <1>1. AccessTypeOK /\ approver[c] # IdleApprover  BY DEF AccessInv, CloseAccess
  <1>2. PICK r \in AccessAsks : r = approver[c].req  BY <1>1, ApproverFields
  <1>3. approver[c].verb \in AccessVerbs  BY <1>1, ApproverFields
  <1>4. PICK out \in {"rejected", "cancelled", "expired"} :
          /\ accItem' = [accItem EXCEPT ![r] = IF approver[c].at = "unlinked" THEN @ ELSE out]
          /\ accRow' = [accRow EXCEPT ![r] = IF approver[c].verb = "cancel" THEN @ ELSE out]
          /\ out = "cancelled" => approver[c].verb = "cancel"
    BY <1>2, <1>3 DEF CloseAccess, AccessVerbs
  <1>5. Returns(c, TRUE) /\ UNCHANGED <<accLinked, issued, inForce, left, lateGranted, accBypassed>>
    BY DEF CloseAccess
  <1>6. approver' \in [Approvers -> {IdleApprover} \cup ApproverType] /\ disordered' \in SUBSET AccessAsks
    BY <1>1, <1>5, ReturnsFacts
  <1>7. AccessTypeOK'
    <2>1. accRow' \in [AccessAsks -> {"none", "pending", "approved", "rejected", "expired"}]
      BY <1>1, <1>4 DEF AccessTypeOK
    <2>2. accItem' \in [AccessAsks -> {"none", "approved", "rejected", "cancelled", "expired"} \cup OpenItem]
      BY <1>1, <1>4 DEF AccessTypeOK
    <2>  QED  BY <1>1, <1>5, <1>6, <2>1, <2>2 DEF AccessTypeOK, ApproverType
  <1>8. ForceWithinIssued' /\ LeaverKeepsNothing'
    BY <1>5 DEF AccessInv, ForceWithinIssued, LeaverKeepsNothing
  <1>9. Settled'
    <2>1. \A q \in AccessAsks \ {r} : accItem'[q] = accItem[q] /\ accRow'[q] = accRow[q]
      BY <1>1, <1>4 DEF AccessTypeOK
    <2>2. AboutAccess(c, r)  BY <1>1, <1>2 DEF AboutAccess
    <2>  QED  BY <1>5, <2>1, <2>2, SettledStep
  <1>  QED  BY <1>7, <1>8, <1>9 DEF AccessInv

\* A call fails.
LEMMA AccessCallFailsInv ==
    ASSUME AccessInv, NEW c \in Approvers, AccessCallFails(c)
    PROVE  AccessInv'
  <1>1. /\ approver' = [approver EXCEPT ![c] = IdleApprover]
        /\ UNCHANGED <<accRow, accItem, accLinked, issued, inForce, left, lateGranted, accBypassed, disordered>>
    BY DEF AccessCallFails
  <1>2. AccessTypeOK'  BY <1>1 DEF AccessInv, AccessTypeOK
  <1>3. \A d \in Approvers : approver'[d] = IF d = c THEN IdleApprover ELSE approver[d]
    BY <1>1 DEF AccessInv, AccessTypeOK
  <1>4. ForceWithinIssued' /\ LeaverKeepsNothing' /\ Settled'
    BY <1>1, <1>3 DEF AccessInv, ForceWithinIssued, LeaverKeepsNothing, Settled, AboutAccess
  <1>  QED  BY <1>2, <1>4 DEF AccessInv

\* Grants end: one by one, or all of them when the employee leaves.
LEMMA GrantsEndInv ==
    ASSUME AccessInv, (\E r \in AccessAsks : GrantEnds(r)) \/ OffboardGrantee \/ UNCHANGED accessVars
    PROVE  AccessInv'
  <1>1. UNCHANGED <<accRow, accItem, accLinked, issued, approver, lateGranted, accBypassed, disordered>>
    BY DEF GrantEnds, OffboardGrantee, accessVars
  <1>2. /\ inForce \in [AccessAsks -> 0 .. MaxIssued] /\ issued \in [AccessAsks -> 0 .. MaxIssued]
        /\ left \in BOOLEAN
    BY DEF AccessInv, AccessTypeOK
  <1>3. /\ inForce' \in [AccessAsks -> 0 .. MaxIssued] /\ left' \in BOOLEAN
        /\ \A q \in AccessAsks : inForce'[q] <= inForce[q]
        /\ left' # left => \A q \in AccessAsks : inForce'[q] = 0
    <2>1. ASSUME NEW r \in AccessAsks, GrantEnds(r)
          PROVE  /\ inForce' \in [AccessAsks -> 0 .. MaxIssued] /\ left' = left
                 /\ \A q \in AccessAsks : inForce'[q] <= inForce[q]
      <3>1. /\ inForce' = [inForce EXCEPT ![r] = @ - 1] /\ left' = left /\ inForce[r] > 0
        BY <2>1 DEF GrantEnds
      <3>2. inForce[r] - 1 \in 0 .. MaxIssued /\ inForce[r] - 1 <= inForce[r]  BY <1>2, <3>1
      <3>3. \A q \in AccessAsks : inForce[q] <= inForce[q]  BY <1>2
      <3>  QED  BY <1>2, <3>1, <3>2, <3>3
    <2>2. CASE OffboardGrantee  BY <1>2, <2>2 DEF OffboardGrantee, GrantsRevoked
    <2>3. CASE UNCHANGED accessVars  BY <1>2, <2>3 DEF accessVars
    <2>  QED  BY <1>2, <2>1, <2>2, <2>3
  <1>4. AccessTypeOK'  BY <1>1, <1>3 DEF AccessInv, AccessTypeOK
  <1>5. ForceWithinIssued'
    <2>  SUFFICES ASSUME NEW q \in AccessAsks PROVE inForce'[q] <= issued'[q]
      BY DEF ForceWithinIssued
    <2>1. inForce[q] <= issued[q] /\ inForce'[q] <= inForce[q] /\ issued'[q] = issued[q]
      BY <1>1, <1>3 DEF AccessInv, ForceWithinIssued
    <2>2. inForce[q] \in Nat /\ issued[q] \in Nat /\ inForce'[q] \in Nat  BY <1>2, <1>3
    <2>  QED  BY <2>1, <2>2
  <1>6. LeaverKeepsNothing'
    <2>  SUFFICES ASSUME left', NEW q \in AccessAsks, inForce'[q] > 0 PROVE q \in lateGranted
      BY <1>1 DEF LeaverKeepsNothing
    <2>1. inForce[q] \in Nat /\ inForce'[q] \in Nat  BY <1>2, <1>3
    <2>2. inForce'[q] <= inForce[q] /\ inForce'[q] # 0  BY <1>3, <2>1
    <2>3. inForce[q] > 0  BY <2>1, <2>2
    <2>4. left  BY <1>3, <2>2
    <2>  QED  BY <2>3, <2>4 DEF AccessInv, LeaverKeepsNothing
  <1>7. Settled'  BY <1>1 DEF AccessInv, Settled, AboutAccess
  <1>  QED  BY <1>4, <1>5, <1>6, <1>7 DEF AccessInv

\* Every step preserves the invariant.
LEMMA NextAccessInv == AccessInv /\ [AccessNext]_accessVars => AccessInv'
  BY FileAccessInv, ReadAccessInv, ApproveStepInv, IssueGrantInv, CloseAccessInv,
     AccessCallFailsInv, GrantsEndInv DEF AccessNext

\* The access requests keep their inductive invariant.
THEOREM AccessInvariance == AccessSpec => []AccessInv
  BY InitAccessInv, NextAccessInv, PTL DEF AccessSpec

\* Every variable of the access requests keeps its type.
THEOREM AccessTypeCorrect == AccessSpec => []AccessTypeOK
  <1>1. AccessInv => AccessTypeOK  BY DEF AccessInv
  <1>  QED  BY <1>1, AccessInvariance, PTL

\* onApprove inserts a second grant of a request only after a decision that
\* crossed another one, or one that saw no request id.
THEOREM GrantedOnce == AccessSpec => []OneGrantEach
  <1>1. AccessInv => OneGrantEach
    <2>  SUFFICES ASSUME AccessInv, NEW r \in AccessAsks, issued[r] > 1
                  PROVE  r \in disordered \cup accBypassed
      BY DEF OneGrantEach
    <2>1. issued[r] \in Nat  BY DEF AccessInv, AccessTypeOK
    <2>2. issued[r] > 0 /\ issued[r] # 1  BY <2>1
    <2>  QED  BY <2>2 DEF AccessInv, Settled
  <1>  QED  BY <1>1, AccessInvariance, PTL

\* The offboarding hook revokes every grant that is in force, so a leaver
\* holds none but what was approved after they left.
THEOREM LeaversHoldNothing == AccessSpec => []LeaverKeepsNothing
  <1>1. AccessInv => LeaverKeepsNothing  BY DEF AccessInv
  <1>  QED  BY <1>1, AccessInvariance, PTL

=============================================================================
