----------------------------- MODULE MCServices -----------------------------
(***************************************************************************)
(* The services around the request engine, each from its own initial       *)
(* state.  They share no state: an action of one leaves the variables of   *)
(* the others alone, and every property speaks of one of them.  So a       *)
(* behaviour moves one service, its focus, and the states are the sum and  *)
(* not the product of theirs.                                              *)
(***************************************************************************)
EXTENDS Idempotency, AuthzCache, WebhookRelay, GraphAccounts, StoredFiles, LeaveDesk,
        AccessGrants, TLC

CONSTANTS
    f1, f2, other,  \* two request bodies; the copy that carries the second
    first,          \* the ask that is the first of a pair of MCForms
    Focus           \* the services of the run

MCFingerprint == [c \in Copies |-> IF c = other THEN f2 ELSE f1]
MCForms ==
    LET Day(kind, n) == [kind |-> kind, slot |-> n] IN
    {[a \in Asks |-> IF a = first THEN p[1] ELSE p[2]] : p \in
        {<<Day("leave", 1), Day("leave", 2)>>,
         <<Day("leave", 1), Day("wfh", 1)>>,
         <<Day("wfh", 1), Day("justification", 1)>>}}

\* Services.cfg gives the two actors of every service the same two names.  No
\* service tells them apart, and only one moves, so to swap them in all is a
\* symmetry of whichever it is.
Symmetry == Permutations(GraphWorkers)

VARIABLE focus

Init ==
    /\ focus \in Focus
    /\ IdempotencyInit /\ AuthzInit /\ WebhookInit /\ GraphInit /\ FilesInit /\ DeskInit
    /\ AccessInit
    \* What a service may start with is of no interest to the others.
    /\ focus # "authz" => carriers = {}
    /\ focus # "leave" => form = CHOOSE f \in Forms : TRUE

IdempotencyMoves == focus = "idempotency" /\ IdempotencyNext
    /\ UNCHANGED <<focus, authzVars, hookVars, graphVars, fileVars, deskVars, accessVars>>
AuthzMoves == focus = "authz" /\ AuthzNext
    /\ UNCHANGED <<focus, idempotencyVars, hookVars, graphVars, fileVars, deskVars, accessVars>>
WebhookMoves == focus = "webhooks" /\ WebhookNext
    /\ UNCHANGED <<focus, idempotencyVars, authzVars, graphVars, fileVars, deskVars, accessVars>>
GraphMoves == focus = "accounts" /\ GraphNext
    /\ UNCHANGED <<focus, idempotencyVars, authzVars, hookVars, fileVars, deskVars, accessVars>>
FilesMoves == focus = "files" /\ FilesNext
    /\ UNCHANGED <<focus, idempotencyVars, authzVars, hookVars, graphVars, deskVars, accessVars>>
DeskMoves == focus = "leave" /\ DeskNext
    /\ UNCHANGED <<focus, idempotencyVars, authzVars, hookVars, graphVars, fileVars, accessVars>>
AccessMoves == focus = "access" /\ AccessNext
    /\ UNCHANGED <<focus, idempotencyVars, authzVars, hookVars, graphVars, fileVars, deskVars>>

Next == \/ IdempotencyMoves \/ AuthzMoves \/ WebhookMoves
        \/ GraphMoves \/ FilesMoves \/ DeskMoves \/ AccessMoves

vars == <<focus, idempotencyVars, authzVars, hookVars, graphVars, fileVars,
          deskVars, accessVars>>

Spec == Init /\ [][Next]_vars

\* A service that is not the focus stays in its initial state, where none of
\* the fair actions is enabled: the fairness of one asks nothing of the others.
FairSpec == /\ Spec
            /\ IdempotencyFairness /\ WebhookFairness /\ GraphFairness /\ DeskFairness

\* Every variable of every service stays in its type: attempts within the
\* attempts that are allowed, ages within the times to live.
TypeOK == /\ IdempotencyTypeOK /\ AuthzTypeOK /\ WebhookTypeOK
          /\ GraphTypeOK /\ FilesTypeOK /\ DeskTypeOK /\ AccessTypeOK
=============================================================================
