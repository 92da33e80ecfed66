------------------------- MODULE ObservationDelivery -------------------------
(***************************************************************************)
(* What the observation queue promises its callers (repositories/queue.rs),*)
(* in terms of payloads alone: a payload whose enqueue() returned Ok is    *)
(* owed to the gateway.  It stops being owed only when a sender that was   *)
(* handed it reports an outcome, or once its attempts are exhausted.       *)
(***************************************************************************)
EXTENDS Naturals

CONSTANTS Payloads, Senders

VARIABLES
    owed,      \* payloads the queue still has to deliver
    accepted,  \* how many enqueue() calls returned Ok, by payload
    inHand,    \* payloads each sender has been handed and may report on
    worn       \* payloads with no attempts left

vars == <<owed, accepted, inHand, worn>>

Init ==
    /\ owed = {}
    /\ accepted = [h \in Payloads |-> 0]
    /\ inHand = [s \in Senders |-> {}]
    /\ worn = {}

\* An enqueue() that returns Ok leaves its payload owed, whatever was there before.
Accept(h) ==
    /\ owed' = owed \cup {h}
    /\ accepted' = [accepted EXCEPT ![h] = accepted[h] + 1]
    /\ UNCHANGED <<inHand, worn>>

Take(s, H) ==
    /\ H \subseteq owed
    /\ inHand' = [inHand EXCEPT ![s] = H]
    /\ UNCHANGED <<owed, accepted, worn>>

\* An attempt may be a payload's last one.
Attempt(s) ==
    /\ worn' \subseteq worn \cup inHand[s]
    /\ UNCHANGED <<owed, accepted, inHand>>

Settle(s, H) ==
    /\ H \subseteq inHand[s]
    /\ owed' = owed \ H
    /\ worn' \subseteq worn
    /\ UNCHANGED <<accepted, inHand>>

Abandon(H) ==
    /\ H \subseteq worn
    /\ owed' = owed \ H
    /\ worn' \subseteq worn
    /\ UNCHANGED <<accepted, inHand>>

\* Senders let go of what they hold: one that is done with it, or all of them in a crash.
LetGo(S) ==
    /\ inHand' = [s \in Senders |-> IF s \in S THEN {} ELSE inHand[s]]
    /\ UNCHANGED <<owed, accepted, worn>>

Next ==
    \/ \E h \in Payloads : Accept(h)
    \/ \E s \in Senders, H \in SUBSET Payloads : Take(s, H) \/ Settle(s, H)
    \/ \E s \in Senders : Attempt(s)
    \/ \E H \in SUBSET Payloads : Abandon(H)
    \/ \E S \in SUBSET Senders : LetGo(S)

Spec == Init /\ [][Next]_vars
=============================================================================
