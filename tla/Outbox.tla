-------------------------------- MODULE Outbox --------------------------------
(***************************************************************************)
(* The transactional outbox: rows of outbox_events, the dispatcher         *)
(* processes that claim them in batches, and the CRM endpoint they call.   *)
(*                                                                         *)
(* The two timestamps of a row are modelled by the time that is left of    *)
(* them, which Tick takes down to 0.                                       *)
(***************************************************************************)
EXTENDS Integers, FiniteSets

CONSTANTS
    Event,        \* events, one row each
    Dispatcher,   \* processes in OutboxDispatcher.run_loop
    None,
    BatchSize,    \* claim_pending_events: batch_size
    Lease,        \* lease_seconds
    MaxAttempts,  \* OutboxDispatcher.max_attempts
    BaseBackoff,  \* base_backoff_seconds
    MaxBackoff,   \* max_backoff_seconds
    MaxFaults     \* bound: crashes and database errors

ASSUME EventAssumption == IsFiniteSet(Event) /\ None \notin Event

ASSUME BoundsAssumption ==
    /\ BatchSize \in Nat \ {0} /\ Lease \in Nat
    /\ MaxAttempts \in Nat \ {0} /\ MaxFaults \in Nat

\* min(max_backoff, base_backoff * 2 ** (attempt_count - 1))
Backoff(n) ==
    LET b == BaseBackoff * 2^(n - 1)
    IN  IF b <= MaxBackoff THEN b ELSE MaxBackoff

ASSUME BackoffAssumption == \A n \in 1..MaxAttempts : Backoff(n) \in Nat

VARIABLES
    status,    \* status[e]: column of e's row, "ABSENT" before its insert
    attempts,  \* attempts[e]: attempt_count
    created,   \* created[e]: rank of created_at, 0 before the insert
    lock,      \* lock[e]: what is left until locked_until < now
    wait,      \* wait[e]: what is left until next_attempt_at <= now
    pc,        \* pc[d]: where dispatcher d is
    claim,     \* claim[d][e]: attempt_count in d's claim of e, 0 for no claim
    at,        \* at[d]: the event d is dispatching
    answer,    \* answer[d]: what the CRM answered
    requests,  \* requests[e]: requests made for e
    accepted,  \* accepted[e]: the CRM has processed e
    refused,   \* refused[e]: an answer for e was permanent
    notified,  \* notified[e]: notifications broadcast for e
    faults     \* faults so far

rowVars  == <<status, attempts, created, lock, wait>>
dspVars  == <<pc, claim, at, answer>>
crmVars  == <<requests, accepted, refused, notified>>
vars     == <<status, attempts, created, lock, wait, pc, claim, at, answer,
              requests, accepted, refused, notified, faults>>

OutboxStatus == {"ABSENT", "PENDING", "DELIVERING", "PUBLISHED",
                 "RETRY_SCHEDULED", "DEAD_LETTER"}

\* Answers by what publish_event makes of them: 2xx, 409, transport errors
\* and the other codes, permanent codes and unexpected exceptions.
Answer == {"ok", "conflict", "retry", "fatal"}

NoClaim == [e \in Event |-> 0]

Saved == {e \in Event : status[e] # "ABSENT"}

Batch(d) == {e \in Event : claim[d][e] > 0}

\* Claims are dispatched in the order they were selected, by created_at.
First(e, events) == e \in events /\ \A f \in events : created[e] <= created[f]

Init ==
    /\ status = [e \in Event |-> "ABSENT"]
    /\ attempts = [e \in Event |-> 0]
    /\ created = [e \in Event |-> 0]
    /\ lock = [e \in Event |-> 0]
    /\ wait = [e \in Event |-> 0]
    /\ pc = [d \in Dispatcher |-> "idle"]
    /\ claim = [d \in Dispatcher |-> NoClaim]
    /\ at = [d \in Dispatcher |-> None]
    /\ answer = [d \in Dispatcher |-> "retry"]
    /\ requests = [e \in Event |-> 0]
    /\ accepted = [e \in Event |-> FALSE]
    /\ refused = [e \in Event |-> FALSE]
    /\ notified = [e \in Event |-> 0]
    /\ faults = 0

---------------------------------------------------------------------------

\* save_event, committed with the decision or review it announces.
SaveEvent(e) ==
    /\ status[e] = "ABSENT"
    /\ status' = [status EXCEPT ![e] = "PENDING"]
    /\ created' = [created EXCEPT ![e] = Cardinality(Saved) + 1]
    /\ UNCHANGED <<attempts, lock, wait, dspVars, crmVars, faults>>

\* Mutant: an event that still waits for its answer is claimed again once
\* the lease is over.
ClaimableAgain(e) ==
    /\ status[e] \in {"PENDING", "RETRY_SCHEDULED", "DELIVERING"}
    /\ lock[e] = 0
    /\ wait[e] = 0

\* Mutant: retries are not selected.
ClaimableOnce(e) == status[e] = "PENDING" /\ lock[e] = 0 /\ wait[e] = 0

Claimable(e) ==
    /\ status[e] \in {"PENDING", "RETRY_SCHEDULED"}
    /\ lock[e] = 0
    /\ wait[e] = 0

\* SELECT ... ORDER BY created_at LIMIT batch_size FOR UPDATE SKIP LOCKED,
\* the update of the selected rows, and the commit.  Before the commit the
\* rows are locked and skipped by others, after it they are DELIVERING.
ClaimBatch(d) ==
    LET open == {e \in Event : Claimable(e)} IN
    /\ pc[d] = "idle"
    /\ \E batch \in SUBSET open :
          /\ batch # {}
          /\ Cardinality(batch) <= BatchSize
          /\ batch = open \/ Cardinality(batch) = BatchSize
          /\ \A e \in batch : \A f \in open \ batch : created[e] < created[f]
          /\ status' = [e \in Event |-> IF e \in batch THEN "DELIVERING" ELSE status[e]]
          /\ attempts' = [e \in Event |-> IF e \in batch THEN attempts[e] + 1
                                                         ELSE attempts[e]]
          /\ lock' = [e \in Event |-> IF e \in batch THEN Lease + 1 ELSE lock[e]]
          /\ claim' = [claim EXCEPT ![d] =
                 [e \in Event |-> IF e \in batch THEN attempts[e] + 1 ELSE 0]]
    /\ pc' = [pc EXCEPT ![d] = "deliver"]
    /\ UNCHANGED <<created, wait, at, answer, crmVars, faults>>

\* publish_event.  The request may be processed and its answer lost; an
\* event the CRM has processed may be answered by 409.
Publish(d) ==
    /\ pc[d] = "deliver"
    /\ \E e \in Event, a \in Answer, processed \in BOOLEAN :
          /\ First(e, Batch(d))
          /\ a = "ok" => processed
          /\ a = "conflict" => accepted[e]
          /\ at' = [at EXCEPT ![d] = e]
          /\ answer' = [answer EXCEPT ![d] = a]
          /\ requests' = [requests EXCEPT ![e] = @ + 1]
          /\ accepted' = [accepted EXCEPT ![e] = @ \/ processed]
          /\ refused' = [refused EXCEPT ![e] = @ \/ a = "fatal"]
    /\ pc' = [pc EXCEPT ![d] = "answered"]
    /\ UNCHANGED <<rowVars, claim, notified, faults>>

\* Mutant: a lost answer counts as a delivery.
Delivered(a) == a # "fatal"

Success(a) == a \in {"ok", "conflict"}

\* Mutants: one attempt too many, one too few.
ExhaustedLate(n) == n > MaxAttempts
ExhaustedEarly(n) == n >= MaxAttempts - 1

Exhausted(n) == n >= MaxAttempts

\* The claim at[d] is done with; the dispatcher goes on to the next one.
Forget(d) == claim' = [claim EXCEPT ![d][at[d]] = 0]

NextClaim(d) ==
    pc' = [pc EXCEPT ![d] = IF Batch(d) \ {at[d]} = {} THEN "idle" ELSE "deliver"]

MarkPublished(d) ==
    /\ pc[d] = "answered"
    /\ Success(answer[d])
    /\ status' = [status EXCEPT ![at[d]] = "PUBLISHED"]
    /\ lock' = [lock EXCEPT ![at[d]] = 0]
    /\ pc' = [pc EXCEPT ![d] = "broadcast"]
    /\ UNCHANGED <<attempts, created, wait, claim, at, answer, crmVars, faults>>

\* Redis may refuse the notification, which is only logged.
Broadcast(d) ==
    /\ pc[d] = "broadcast"
    /\ \E n \in {0, 1} : notified' = [notified EXCEPT ![at[d]] = @ + n]
    /\ Forget(d)
    /\ NextClaim(d)
    /\ at' = [at EXCEPT ![d] = None]
    /\ UNCHANGED <<rowVars, answer, requests, accepted, refused, faults>>

MarkDeadLetter(d) ==
    /\ pc[d] = "answered"
    /\ answer[d] = "fatal" \/ (~Success(answer[d]) /\ Exhausted(claim[d][at[d]]))
    /\ status' = [status EXCEPT ![at[d]] = "DEAD_LETTER"]
    /\ lock' = [lock EXCEPT ![at[d]] = 0]
    /\ Forget(d)
    /\ NextClaim(d)
    /\ at' = [at EXCEPT ![d] = None]
    /\ UNCHANGED <<attempts, created, wait, answer, crmVars, faults>>

MarkRetry(d) ==
    /\ pc[d] = "answered"
    /\ ~Success(answer[d]) /\ answer[d] # "fatal" /\ ~Exhausted(claim[d][at[d]])
    /\ status' = [status EXCEPT ![at[d]] = "RETRY_SCHEDULED"]
    /\ wait' = [wait EXCEPT ![at[d]] = Backoff(claim[d][at[d]])]
    /\ lock' = [lock EXCEPT ![at[d]] = 0]
    /\ Forget(d)
    /\ NextClaim(d)
    /\ at' = [at EXCEPT ![d] = None]
    /\ UNCHANGED <<attempts, created, answer, crmVars, faults>>

\* The process dies, or the transaction that records the outcome fails: the
\* loop starts over and the rest of the batch is forgotten.
Fault(d) ==
    /\ pc[d] # "idle"
    /\ faults < MaxFaults
    /\ faults' = faults + 1
    /\ pc' = [pc EXCEPT ![d] = "idle"]
    /\ claim' = [claim EXCEPT ![d] = NoClaim]
    /\ at' = [at EXCEPT ![d] = None]
    /\ UNCHANGED <<rowVars, answer, crmVars>>

Tick ==
    /\ \E e \in Event : wait[e] > 0 \/ lock[e] > 0
    /\ wait' = [e \in Event |-> IF wait[e] > 0 THEN wait[e] - 1 ELSE 0]
    /\ lock' = [e \in Event |-> IF lock[e] > 0 THEN lock[e] - 1 ELSE 0]
    /\ UNCHANGED <<status, attempts, created, dspVars, crmVars, faults>>

---------------------------------------------------------------------------

Step(d) ==
    \/ ClaimBatch(d) \/ Publish(d) \/ MarkPublished(d) \/ Broadcast(d)
    \/ MarkDeadLetter(d) \/ MarkRetry(d)

Next ==
    \/ Tick
    \/ \E e \in Event : SaveEvent(e)
    \/ \E d \in Dispatcher : Step(d) \/ Fault(d)

Spec == Init /\ [][Next]_vars

\* The loop polls for ever, every request and statement ends (the HTTP
\* client has a timeout), and time passes.
Fairness == WF_vars(Tick) /\ \A d \in Dispatcher : WF_vars(Step(d))

FairSpec == Spec /\ Fairness

---------------------------------------------------------------------------
(* Properties *)

\* Type invariant of the outbox.
TypeOK ==
    /\ status \in [Event -> OutboxStatus]
    /\ attempts \in [Event -> Nat]
    /\ created \in [Event -> Nat]
    /\ lock \in [Event -> Nat]
    /\ wait \in [Event -> Nat]
    /\ pc \in [Dispatcher -> {"idle", "deliver", "answered", "broadcast"}]
    /\ claim \in [Dispatcher -> [Event -> Nat]]
    /\ at \in [Dispatcher -> Event \cup {None}]
    /\ answer \in [Dispatcher -> Answer]
    /\ requests \in [Event -> Nat]
    /\ accepted \in [Event -> BOOLEAN]
    /\ refused \in [Event -> BOOLEAN]
    /\ notified \in [Event -> Nat]
    /\ faults \in Nat

\* An event is in the hands of one dispatcher at most, which may therefore
\* mark the outcome without looking at the row: the marks of outbox_repository
\* check neither the lease nor the status.
OneHolder ==
    \A e \in Event, c, d \in Dispatcher :
        claim[c][e] > 0 /\ claim[d][e] > 0 => c = d

\* PUBLISHED says that the CRM has processed the event, whatever requests
\* and answers were lost and whoever crashed in between.
PublishedWasAccepted ==
    \A e \in Event : status[e] = "PUBLISHED" => accepted[e]

\* Crashes and retries never send more requests than attempts were counted,
\* nor count more than max_attempts.
RequestsBounded ==
    \A e \in Event : requests[e] <= attempts[e] /\ attempts[e] <= MaxAttempts

\* The consoles hear of an event at most once, and only of a published one.
NotifiedOnce ==
    \A e \in Event :
        /\ notified[e] <= 1
        /\ notified[e] > 0 => status[e] = "PUBLISHED"

\* The outcome of an event, once recorded, stands.
OutcomeIsFinal ==
    [][\A e \in Event : status[e] \in {"PUBLISHED", "DEAD_LETTER"}
                            => status'[e] = status[e]]_vars

Settled(e) == status[e] \in {"PUBLISHED", "DEAD_LETTER"}

\* While no dispatcher fails, every event is published or given up, however
\* the CRM answers and whichever dispatcher takes it.
EventSettles ==
    [](faults = 0) => \A e \in Event : status[e] = "PENDING" ~> Settled(e)

\* At-least-once delivery: the CRM processes every event, unless it is given
\* up as a dead letter, even if a dispatcher fails.
DeliveredAtLeastOnce ==
    \A e \in Event :
        status[e] = "PENDING" ~> accepted[e] \/ status[e] = "DEAD_LETTER"

---------------------------------------------------------------------------
(* The inductive invariant behind the safety properties *)

\* A claim is of a DELIVERING row at its current attempt; it stays with the
\* dispatcher through the broadcast, when the row is PUBLISHED already.
ClaimsMatchRows ==
    \A d \in Dispatcher, e \in Event : claim[d][e] > 0 =>
        /\ claim[d][e] = attempts[e]
        /\ IF pc[d] = "broadcast" /\ at[d] = e
           THEN status[e] = "PUBLISHED" /\ notified[e] = 0
           ELSE status[e] = "DELIVERING"

\* Which attempts have been spent on a request.
AttemptsSpent ==
    \A e \in Event :
        /\ requests[e] <= attempts[e]
        /\ attempts[e] <= MaxAttempts
        /\ status[e] \in {"ABSENT", "PENDING", "RETRY_SCHEDULED"}
               => attempts[e] < MaxAttempts
        /\ \A d \in Dispatcher :
              claim[d][e] > 0 /\ at[d] # e => requests[e] < attempts[e]

\* A dispatcher between its request and its mark.
InFlight ==
    \A d \in Dispatcher :
        IF pc[d] \in {"answered", "broadcast"}
        THEN /\ at[d] \in Event
             /\ claim[d][at[d]] > 0
             /\ Success(answer[d]) => accepted[at[d]]
             /\ answer[d] = "fatal" => refused[at[d]]
        ELSE at[d] = None

\* Every attempt that is over was one request: only the attempt of a claim that
\* waits for its turn, or was lost to a fault, is without.
AttemptsAreRequests ==
    \A e \in Event :
        /\ status[e] \in {"ABSENT", "PENDING", "RETRY_SCHEDULED"}
               => requests[e] = attempts[e]
        /\ \A d \in Dispatcher : claim[d][e] > 0 =>
              requests[e] = IF at[d] = e THEN attempts[e] ELSE attempts[e] - 1

\* A refusal is the last that is heard of an event: nobody holds it but who
\* has the answer in hand.
RefusalsStand ==
    \A e \in Event : refused[e] =>
        /\ status[e] \in {"DELIVERING", "DEAD_LETTER"}
        /\ \A d \in Dispatcher : claim[d][e] > 0 =>
              pc[d] = "answered" /\ at[d] = e /\ answer[d] = "fatal"

\* An event is given up only after a permanent refusal or its last attempt.
DeadLetterJustified ==
    \A e \in Event : status[e] = "DEAD_LETTER" =>
                        refused[e] \/ attempts[e] = MaxAttempts

Unnotified == \A e \in Event : status[e] # "PUBLISHED" => notified[e] = 0

OutboxInv ==
    /\ OneHolder /\ ClaimsMatchRows /\ AttemptsSpent /\ InFlight /\ Unnotified
    /\ PublishedWasAccepted /\ DeadLetterJustified /\ NotifiedOnce

---------------------------------------------------------------------------
(* The outbox implements EventDelivery *)

Outcome(e) ==
    CASE status[e] = "ABSENT" -> "NONE"
      [] Settled(e) -> status[e]
      [] OTHER -> "OPEN"

Delivery == INSTANCE EventDelivery WITH outcome <- [e \in Event |-> Outcome(e)]

\* Claims, leases, batches and faults of any number of dispatchers never show
\* in what the CRM and the consoles see: no request after a refusal or beyond
\* max_attempts, no event given up that could have been sent again, no
\* announcement of what does not stand (dispatcher.py:38-149).
ImplementsDelivery == Delivery!Spec

=============================================================================
