----------------------------- MODULE EventDelivery -----------------------------
(***************************************************************************)
(* What the outbox promises the CRM and the consoles: an event is sent     *)
(* until it is taken, refused or has been sent often enough; its outcome   *)
(* is recorded once, and announced at most once, after it stands.          *)
(***************************************************************************)
EXTENDS Naturals

CONSTANTS Event, MaxAttempts

VARIABLES
    outcome,   \* outcome[e]: "NONE" before e is saved, "OPEN" until it is recorded
    requests,  \* requests[e]: requests the CRM was sent
    accepted,  \* accepted[e]: the CRM has processed e
    refused,   \* refused[e]: the CRM has refused e for good
    notified   \* notified[e]: announcements to the consoles

vars == <<outcome, requests, accepted, refused, notified>>

Init ==
    /\ outcome = [e \in Event |-> "NONE"]
    /\ requests = [e \in Event |-> 0]
    /\ accepted = [e \in Event |-> FALSE]
    /\ refused = [e \in Event |-> FALSE]
    /\ notified = [e \in Event |-> 0]

Save(e) ==
    /\ outcome[e] = "NONE"
    /\ outcome' = [outcome EXCEPT ![e] = "OPEN"]
    /\ UNCHANGED <<requests, accepted, refused, notified>>

\* The CRM is asked again only while it has not refused, and so often at most.
Send(e, processed, no) ==
    /\ outcome[e] = "OPEN"
    /\ ~refused[e]
    /\ requests[e] < MaxAttempts
    /\ requests' = [requests EXCEPT ![e] = @ + 1]
    /\ accepted' = [accepted EXCEPT ![e] = @ \/ processed]
    /\ refused' = [refused EXCEPT ![e] = no]
    /\ UNCHANGED <<outcome, notified>>

Deliver(e) ==
    /\ outcome[e] = "OPEN"
    /\ accepted[e] /\ ~refused[e]
    /\ outcome' = [outcome EXCEPT ![e] = "PUBLISHED"]
    /\ UNCHANGED <<requests, accepted, refused, notified>>

\* Nothing is given up while the CRM could still be asked.
GiveUp(e) ==
    /\ outcome[e] = "OPEN"
    /\ refused[e] \/ requests[e] = MaxAttempts
    /\ outcome' = [outcome EXCEPT ![e] = "DEAD_LETTER"]
    /\ UNCHANGED <<requests, accepted, refused, notified>>

Announce(e) ==
    /\ outcome[e] = "PUBLISHED"
    /\ notified[e] = 0
    /\ notified' = [notified EXCEPT ![e] = 1]
    /\ UNCHANGED <<outcome, requests, accepted, refused>>

Next ==
    \E e \in Event :
        \/ Save(e) \/ Deliver(e) \/ GiveUp(e) \/ Announce(e)
        \/ \E processed, no \in BOOLEAN : Send(e, processed, no)

Spec == Init /\ [][Next]_vars

===============================================================================
