---------------------------- MODULE Outbox_proofs ----------------------------
(***************************************************************************)
(* Proofs about the outbox: its types, the inductive invariant OutboxInv,  *)
(* and the safety properties that follow from it, for any sets of events   *)
(* and dispatchers, any bounds, and any number of faults.                  *)
(***************************************************************************)
EXTENDS Outbox, FiniteSetTheorems, TLAPS

\* The rank given to a new event is a number.
LEMMA SavedCount == Cardinality(Saved) \in Nat
<1>1. Saved \subseteq Event /\ IsFiniteSet(Event)
  BY EventAssumption DEF Saved
<1> QED
  BY <1>1, FS_Subset, FS_CardinalityType

LEMMA InitType == Init => TypeOK
BY DEF Init, TypeOK, NoClaim, OutboxStatus, Answer

LEMMA ForgetType ==
    ASSUME TypeOK, NEW d \in Dispatcher, at[d] \in Event, Forget(d), NextClaim(d)
    PROVE  /\ claim' \in [Dispatcher -> [Event -> Nat]]
           /\ pc' \in [Dispatcher -> {"idle", "deliver", "answered", "broadcast"}]
<1>1. claim[d] \in [Event -> Nat]
  BY DEF TypeOK
<1>2. [claim[d] EXCEPT ![at[d]] = 0] \in [Event -> Nat]
  BY <1>1
<1>3. claim' \in [Dispatcher -> [Event -> Nat]]
  BY <1>2 DEF Forget, TypeOK
<1>4. pc' \in [Dispatcher -> {"idle", "deliver", "answered", "broadcast"}]
  BY DEF NextClaim, TypeOK
<1> QED
  BY <1>3, <1>4

\* An attempt that is not the last has a backoff.
LEMMA BackoffType ==
    ASSUME NEW n \in Nat, n > 0, ~Exhausted(n)
    PROVE  Backoff(n) \in Nat
<1>1. n \in 1..MaxAttempts
  BY BoundsAssumption DEF Exhausted
<1> QED
  BY <1>1, BackoffAssumption

LEMMA StepType ==
    ASSUME TypeOK, OutboxInv, [Next]_vars
    PROVE  TypeOK'
<1> USE DEF rowVars, dspVars, crmVars
<1>1. CASE UNCHANGED vars
  BY <1>1 DEF vars, TypeOK
<1>2. CASE Tick
  BY <1>2 DEF Tick, TypeOK
<1>3. ASSUME NEW e \in Event, SaveEvent(e) PROVE TypeOK'
  <2>1. Cardinality(Saved) + 1 \in Nat
    BY SavedCount
  <2> QED BY <1>3, <2>1 DEF SaveEvent, TypeOK, OutboxStatus
<1>4. ASSUME NEW d \in Dispatcher, ClaimBatch(d) PROVE TypeOK'
  <2>1. PICK batch \in SUBSET Event :
          /\ status' = [e \in Event |-> IF e \in batch THEN "DELIVERING" ELSE status[e]]
          /\ attempts' = [e \in Event |-> IF e \in batch THEN attempts[e] + 1
                                                         ELSE attempts[e]]
          /\ lock' = [e \in Event |-> IF e \in batch THEN Lease + 1 ELSE lock[e]]
          /\ claim' = [claim EXCEPT ![d] =
                 [e \in Event |-> IF e \in batch THEN attempts[e] + 1 ELSE 0]]
    BY <1>4 DEF ClaimBatch
  <2>2. [e \in Event |-> IF e \in batch THEN attempts[e] + 1 ELSE 0] \in [Event -> Nat]
    BY DEF TypeOK
  <2>3. claim' \in [Dispatcher -> [Event -> Nat]]
    BY <2>1, <2>2 DEF TypeOK
  <2>4. status' \in [Event -> OutboxStatus]
    BY <2>1 DEF TypeOK, OutboxStatus
  <2>5. attempts' \in [Event -> Nat] /\ lock' \in [Event -> Nat]
    BY <2>1, BoundsAssumption DEF TypeOK
  <2> QED BY <1>4, <2>3, <2>4, <2>5 DEF ClaimBatch, TypeOK
<1>5. ASSUME NEW d \in Dispatcher, Publish(d) PROVE TypeOK'
  BY <1>5 DEF Publish, TypeOK
<1>6. ASSUME NEW d \in Dispatcher, pc[d] \in {"answered", "broadcast"}
      PROVE  at[d] \in Event /\ claim[d][at[d]] \in Nat /\ claim[d][at[d]] > 0
  BY <1>6 DEF OutboxInv, InFlight, TypeOK
<1>7. ASSUME NEW d \in Dispatcher, MarkPublished(d) PROVE TypeOK'
  BY <1>7, <1>6 DEF MarkPublished, TypeOK, OutboxStatus
<1>8. ASSUME NEW d \in Dispatcher, Broadcast(d) PROVE TypeOK'
  <2>1. at[d] \in Event /\ Forget(d) /\ NextClaim(d)
    BY <1>8, <1>6 DEF Broadcast
  <2> QED BY <1>8, <2>1, ForgetType DEF Broadcast, TypeOK
<1>9. ASSUME NEW d \in Dispatcher, MarkDeadLetter(d) PROVE TypeOK'
  <2>1. at[d] \in Event /\ Forget(d) /\ NextClaim(d)
    BY <1>9, <1>6 DEF MarkDeadLetter
  <2> QED BY <1>9, <2>1, ForgetType DEF MarkDeadLetter, TypeOK, OutboxStatus
<1>10. ASSUME NEW d \in Dispatcher, MarkRetry(d) PROVE TypeOK'
  <2>1. at[d] \in Event /\ Forget(d) /\ NextClaim(d) /\ Backoff(claim[d][at[d]]) \in Nat
    BY <1>10, <1>6, BackoffType DEF MarkRetry
  <2> QED BY <1>10, <2>1, ForgetType DEF MarkRetry, TypeOK, OutboxStatus
<1>11. ASSUME NEW d \in Dispatcher, Fault(d) PROVE TypeOK'
  <2>1. NoClaim \in [Event -> Nat]
    BY DEF NoClaim
  <2> QED BY <1>11, <2>1 DEF Fault, TypeOK
<1> QED
  BY <1>1, <1>2, <1>3, <1>4, <1>5, <1>7, <1>8, <1>9, <1>10, <1>11 DEF Next, Step

---------------------------------------------------------------------------

LEMMA InitInv == Init => OutboxInv
BY BoundsAssumption DEF Init, OutboxInv, OneHolder, ClaimsMatchRows, AttemptsSpent,
   InFlight, Unnotified, PublishedWasAccepted, DeadLetterJustified, NotifiedOnce, NoClaim

\* A claim takes rows that nobody holds.
LEMMA ClaimInv ==
    ASSUME TypeOK, OutboxInv, NEW d \in Dispatcher, ClaimBatch(d)
    PROVE  OutboxInv'
<1>1. PICK batch \in SUBSET {e \in Event : Claimable(e)} :
        /\ status' = [e \in Event |-> IF e \in batch THEN "DELIVERING" ELSE status[e]]
        /\ attempts' = [e \in Event |-> IF e \in batch THEN attempts[e] + 1
                                                       ELSE attempts[e]]
        /\ claim' = [claim EXCEPT ![d] =
               [e \in Event |-> IF e \in batch THEN attempts[e] + 1 ELSE 0]]
  BY DEF ClaimBatch
<1>2. /\ pc[d] = "idle" /\ pc' = [pc EXCEPT ![d] = "deliver"]
      /\ UNCHANGED <<at, answer, requests, accepted, refused, notified>>
  BY DEF ClaimBatch, crmVars
<1>3. at[d] = None
  BY <1>2 DEF OutboxInv, InFlight
<1>4. \A e \in batch : e \in Event /\ status[e] \in {"PENDING", "RETRY_SCHEDULED"}
  BY <1>1 DEF Claimable
<1>5. \A e \in batch : \A c \in Dispatcher : ~(claim[c][e] > 0)
  BY <1>4 DEF OutboxInv, ClaimsMatchRows
<1>6. /\ \A e \in Event : claim'[d][e] = IF e \in batch THEN attempts[e] + 1 ELSE 0
      /\ \A c \in Dispatcher : c # d => claim'[c] = claim[c] /\ pc'[c] = pc[c]
      /\ \A e \in Event : /\ e \in batch => attempts'[e] = attempts[e] + 1
                                            /\ status'[e] = "DELIVERING"
                          /\ e \notin batch => attempts'[e] = attempts[e]
                                               /\ status'[e] = status[e]
  BY <1>1, <1>2 DEF TypeOK
<1>7. OneHolder'
  <2> SUFFICES ASSUME NEW e \in Event, NEW b \in Dispatcher, NEW c \in Dispatcher,
                      claim'[b][e] > 0, claim'[c][e] > 0
               PROVE  b = c
    BY DEF OneHolder
  <2> QED BY <1>5, <1>6 DEF OutboxInv, OneHolder
<1>8. ClaimsMatchRows'
  BY <1>2, <1>3, <1>5, <1>6 DEF OutboxInv, ClaimsMatchRows
<1>9. AttemptsSpent'
  <2> SUFFICES ASSUME NEW e \in Event
               PROVE  /\ requests'[e] <= attempts'[e]
                      /\ attempts'[e] <= MaxAttempts
                      /\ status'[e] \in {"ABSENT", "PENDING", "RETRY_SCHEDULED"}
                             => attempts'[e] < MaxAttempts
                      /\ \A c \in Dispatcher :
                            claim'[c][e] > 0 /\ at'[c] # e => requests'[e] < attempts'[e]
    BY DEF AttemptsSpent
  <2>1. attempts[e] \in Nat /\ requests[e] \in Nat /\ MaxAttempts \in Nat
    BY BoundsAssumption DEF TypeOK
  <2>2. CASE e \in batch
    BY <1>2, <1>4, <1>6, <2>1, <2>2 DEF OutboxInv, AttemptsSpent
  <2>3. CASE e \notin batch
    BY <1>2, <1>6, <2>1, <2>3 DEF OutboxInv, AttemptsSpent
  <2> QED BY <2>2, <2>3
<1>10. InFlight'
  <2> SUFFICES ASSUME NEW c \in Dispatcher
               PROVE  IF pc'[c] \in {"answered", "broadcast"}
                      THEN /\ at'[c] \in Event
                           /\ claim'[c][at'[c]] > 0
                           /\ Success(answer'[c]) => accepted'[at'[c]]
                           /\ answer'[c] = "fatal" => refused'[at'[c]]
                      ELSE at'[c] = None
    BY DEF InFlight, Success
  <2>1. CASE c = d
    BY <1>2, <1>3, <2>1 DEF TypeOK
  <2>2. CASE c # d
    BY <1>2, <1>6, <2>2 DEF OutboxInv, InFlight
  <2> QED BY <2>1, <2>2
<1>11. \A e \in Event : status'[e] \in {"PUBLISHED", "DEAD_LETTER"} =>
          status[e] = status'[e] /\ attempts'[e] = attempts[e]
  BY <1>6
<1>12. \A e \in Event : status[e] = "PUBLISHED" => status'[e] = "PUBLISHED"
  BY <1>4, <1>6
<1>13. Unnotified' /\ PublishedWasAccepted' /\ DeadLetterJustified' /\ NotifiedOnce'
  BY <1>2, <1>11, <1>12 DEF OutboxInv, Unnotified, PublishedWasAccepted,
     DeadLetterJustified, NotifiedOnce
<1> QED
  BY <1>7, <1>8, <1>9, <1>10, <1>13 DEF OutboxInv

\* A request uses up the attempt that its claim has counted.
LEMMA PublishInv ==
    ASSUME TypeOK, OutboxInv, NEW d \in Dispatcher, Publish(d)
    PROVE  OutboxInv'
<1>1. PICK e \in Event, a \in Answer, processed \in BOOLEAN :
        /\ First(e, Batch(d))
        /\ a = "ok" => processed
        /\ a = "conflict" => accepted[e]
        /\ at' = [at EXCEPT ![d] = e]
        /\ answer' = [answer EXCEPT ![d] = a]
        /\ requests' = [requests EXCEPT ![e] = @ + 1]
        /\ accepted' = [accepted EXCEPT ![e] = @ \/ processed]
        /\ refused' = [refused EXCEPT ![e] = @ \/ a = "fatal"]
  BY DEF Publish
<1>2. /\ pc[d] = "deliver" /\ pc' = [pc EXCEPT ![d] = "answered"]
      /\ UNCHANGED <<status, attempts, claim, notified>>
  BY DEF Publish, rowVars
<1>3. at[d] = None /\ None \notin Event
  BY <1>2, EventAssumption DEF OutboxInv, InFlight
<1>4. claim[d][e] > 0
  BY <1>1 DEF First, Batch
<1>5. \A c \in Dispatcher : c # d => ~(claim[c][e] > 0)
  BY <1>4 DEF OutboxInv, OneHolder
<1>6. \A f \in Event : accepted[f] => accepted'[f]
  BY <1>1 DEF TypeOK
<1>7. \A f \in Event : refused[f] => refused'[f]
  BY <1>1 DEF TypeOK
<1>8. OneHolder'
  BY <1>2 DEF OutboxInv, OneHolder
<1>9. ClaimsMatchRows'
  <2> SUFFICES ASSUME NEW c \in Dispatcher, NEW f \in Event, claim[c][f] > 0
               PROVE  /\ claim[c][f] = attempts[f]
                      /\ IF pc'[c] = "broadcast" /\ at'[c] = f
                         THEN status[f] = "PUBLISHED" /\ notified[f] = 0
                         ELSE status[f] = "DELIVERING"
    BY <1>2 DEF ClaimsMatchRows
  <2>1. CASE c = d
    BY <1>2, <2>1 DEF OutboxInv, ClaimsMatchRows, TypeOK
  <2>2. CASE c # d
    BY <1>1, <1>2, <2>2 DEF OutboxInv, ClaimsMatchRows, TypeOK
  <2> QED BY <2>1, <2>2
<1>10. AttemptsSpent'
  <2> SUFFICES ASSUME NEW f \in Event
               PROVE  /\ requests'[f] <= attempts[f]
                      /\ attempts[f] <= MaxAttempts
                      /\ status[f] \in {"ABSENT", "PENDING", "RETRY_SCHEDULED"}
                             => attempts[f] < MaxAttempts
                      /\ \A c \in Dispatcher :
                            claim[c][f] > 0 /\ at'[c] # f => requests'[f] < attempts[f]
    BY <1>2 DEF AttemptsSpent
  <2>1. attempts[f] \in Nat /\ requests[f] \in Nat
    BY DEF TypeOK
  <2>2. CASE f = e
    <3>1. requests[f] < attempts[f]
      BY <1>3, <1>4, <2>2 DEF OutboxInv, AttemptsSpent
    <3>2. requests'[f] = requests[f] + 1 /\ at'[d] = f
      BY <1>1, <2>2 DEF TypeOK
    <3> QED BY <1>5, <2>1, <2>2, <3>1, <3>2 DEF OutboxInv, AttemptsSpent
  <2>3. CASE f # e
    <3>1. requests'[f] = requests[f]
      BY <1>1, <2>3 DEF TypeOK
    <3>2. \A c \in Dispatcher : at'[c] # f => at[c] # f
      BY <1>1, <1>3, <2>3 DEF TypeOK
    <3> QED BY <3>1, <3>2 DEF OutboxInv, AttemptsSpent
  <2> QED BY <2>2, <2>3
<1>11. InFlight'
  <2> SUFFICES ASSUME NEW c \in Dispatcher
               PROVE  IF pc'[c] \in {"answered", "broadcast"}
                      THEN /\ at'[c] \in Event
                           /\ claim[c][at'[c]] > 0
                           /\ Success(answer'[c]) => accepted'[at'[c]]
                           /\ answer'[c] = "fatal" => refused'[at'[c]]
                      ELSE at'[c] = None
    BY <1>2 DEF InFlight, Success
  <2>1. CASE c = d
    BY <1>1, <1>2, <1>4, <2>1 DEF Success, TypeOK
  <2>2. CASE c # d
    BY <1>1, <1>2, <1>6, <1>7, <2>2 DEF OutboxInv, InFlight, TypeOK
  <2> QED BY <2>1, <2>2
<1>12. Unnotified' /\ NotifiedOnce'
  BY <1>2 DEF OutboxInv, Unnotified, NotifiedOnce
<1>13. PublishedWasAccepted' /\ DeadLetterJustified'
  BY <1>2, <1>6, <1>7 DEF OutboxInv, PublishedWasAccepted, DeadLetterJustified
<1> QED
  BY <1>8, <1>9, <1>10, <1>11, <1>12, <1>13 DEF OutboxInv

\* What a dispatcher that has its answer knows of its event.
LEMMA Holding ==
    ASSUME TypeOK, OutboxInv, NEW d \in Dispatcher, pc[d] \in {"answered", "broadcast"},
           NEW e, e = at[d]
    PROVE  /\ e \in Event /\ claim[d][e] > 0 /\ claim[d][e] = attempts[e]
           /\ \A c \in Dispatcher : c # d => ~(claim[c][e] > 0) /\ at[c] # e
           /\ pc[d] = "answered" => status[e] = "DELIVERING"
           /\ pc[d] = "broadcast" => status[e] = "PUBLISHED" /\ notified[e] = 0
<1>1. e \in Event /\ claim[d][e] > 0
  BY DEF OutboxInv, InFlight
<1>2. \A c \in Dispatcher : c # d => ~(claim[c][e] > 0)
  BY <1>1 DEF OutboxInv, OneHolder
<1>3. \A c \in Dispatcher : c # d => at[c] # e
  BY <1>1, <1>2, EventAssumption DEF OutboxInv, InFlight
<1> QED
  BY <1>1, <1>2, <1>3 DEF OutboxInv, ClaimsMatchRows

LEMMA MarkPublishedInv ==
    ASSUME TypeOK, OutboxInv, NEW d \in Dispatcher, MarkPublished(d)
    PROVE  OutboxInv'
<1> DEFINE e == at[d]
<1>1. /\ pc[d] = "answered" /\ pc' = [pc EXCEPT ![d] = "broadcast"]
      /\ Success(answer[d]) /\ status' = [status EXCEPT ![e] = "PUBLISHED"]
      /\ UNCHANGED <<attempts, claim, at, answer, requests, accepted, refused, notified>>
  BY DEF MarkPublished, crmVars
<1>2. /\ e \in Event /\ claim[d][e] > 0 /\ claim[d][e] = attempts[e]
      /\ \A c \in Dispatcher : c # d => ~(claim[c][e] > 0) /\ at[c] # e
      /\ status[e] = "DELIVERING"
  BY <1>1, Holding
<1>3. accepted[e] /\ notified[e] = 0
  BY <1>1, <1>2 DEF OutboxInv, InFlight, Unnotified
<1>4. status'[e] = "PUBLISHED" /\ \A f \in Event : f # e => status'[f] = status[f]
  BY <1>1, <1>2 DEF TypeOK
<1>5. pc'[d] = "broadcast" /\ \A c \in Dispatcher : c # d => pc'[c] = pc[c]
  BY <1>1 DEF TypeOK
<1> HIDE DEF e
<1>6. OneHolder'
  BY <1>1 DEF OutboxInv, OneHolder
<1>7. ClaimsMatchRows'
  <2> SUFFICES ASSUME NEW c \in Dispatcher, NEW f \in Event, claim[c][f] > 0
               PROVE  /\ claim[c][f] = attempts[f]
                      /\ IF pc'[c] = "broadcast" /\ at[c] = f
                         THEN status'[f] = "PUBLISHED" /\ notified[f] = 0
                         ELSE status'[f] = "DELIVERING"
    BY <1>1 DEF ClaimsMatchRows
  <2>1. CASE c = d /\ f = e
    BY <1>2, <1>3, <1>4, <1>5, <2>1 DEF e
  <2>2. CASE c = d /\ f # e
    BY <1>1, <1>4, <1>5, <2>2 DEF OutboxInv, ClaimsMatchRows, e
  <2>3. CASE c # d
    BY <1>2, <1>4, <1>5, <2>3 DEF OutboxInv, ClaimsMatchRows
  <2> QED BY <2>1, <2>2, <2>3
<1>8. AttemptsSpent'
  BY <1>1, <1>4 DEF OutboxInv, AttemptsSpent
<1>9. InFlight'
  BY <1>1, <1>5 DEF OutboxInv, InFlight
<1>10. Unnotified' /\ NotifiedOnce'
  BY <1>1, <1>3, <1>4 DEF OutboxInv, Unnotified, NotifiedOnce
<1>11. PublishedWasAccepted' /\ DeadLetterJustified'
  BY <1>1, <1>3, <1>4 DEF OutboxInv, PublishedWasAccepted, DeadLetterJustified
<1> QED
  BY <1>6, <1>7, <1>8, <1>9, <1>10, <1>11 DEF OutboxInv

\* Forgetting the claim in hand, whatever the row becomes: the parts of the
\* invariant that speak of claims, when status and notified change for the
\* event in hand alone.
LEMMA ForgetInv ==
    ASSUME TypeOK, OutboxInv, NEW d \in Dispatcher, NEW e, e = at[d],
           pc[d] \in {"answered", "broadcast"},
           Forget(d), NextClaim(d), at' = [at EXCEPT ![d] = None],
           UNCHANGED <<attempts, answer, requests, accepted, refused>>,
           \A f \in Event : f # e => status'[f] = status[f] /\ notified'[f] = notified[f],
           status'[e] \in {"ABSENT", "PENDING", "RETRY_SCHEDULED"}
               => attempts[e] < MaxAttempts
    PROVE  OneHolder' /\ ClaimsMatchRows' /\ AttemptsSpent' /\ InFlight'
<1>1. /\ e \in Event
      /\ \A c \in Dispatcher : c # d => ~(claim[c][e] > 0) /\ at[c] # e
  BY Holding
<1>2. /\ \A c \in Dispatcher : c # d => claim'[c] = claim[c]
      /\ \A f \in Event : f # e => claim'[d][f] = claim[d][f]
      /\ claim'[d][e] = 0
  BY <1>1 DEF Forget, TypeOK
<1>3. /\ \A c \in Dispatcher : c # d => pc'[c] = pc[c] /\ at'[c] = at[c]
      /\ pc'[d] \in {"idle", "deliver"} /\ at'[d] = None
  BY DEF NextClaim, TypeOK
<1>4. \A c \in Dispatcher, f \in Event :
         claim'[c][f] > 0 => f # e /\ claim'[c][f] = claim[c][f]
  BY <1>1, <1>2
<1>5. OneHolder'
  BY <1>4 DEF OutboxInv, OneHolder
<1>6. ClaimsMatchRows'
  <2> SUFFICES ASSUME NEW c \in Dispatcher, NEW f \in Event, claim'[c][f] > 0
               PROVE  /\ claim'[c][f] = attempts[f]
                      /\ IF pc'[c] = "broadcast" /\ at'[c] = f
                         THEN status'[f] = "PUBLISHED" /\ notified'[f] = 0
                         ELSE status'[f] = "DELIVERING"
    BY DEF ClaimsMatchRows
  <2>1. f # e /\ claim[c][f] > 0 /\ claim'[c][f] = claim[c][f]
    BY <1>4
  <2>2. status'[f] = status[f] /\ notified'[f] = notified[f]
    BY <2>1
  <2>3. CASE c = d
    BY <1>3, <2>1, <2>2, <2>3 DEF OutboxInv, ClaimsMatchRows
  <2>4. CASE c # d
    BY <1>3, <2>1, <2>2, <2>4 DEF OutboxInv, ClaimsMatchRows
  <2> QED BY <2>3, <2>4
<1>7. AttemptsSpent'
  <2> SUFFICES ASSUME NEW f \in Event
               PROVE  /\ requests[f] <= attempts[f]
                      /\ attempts[f] <= MaxAttempts
                      /\ status'[f] \in {"ABSENT", "PENDING", "RETRY_SCHEDULED"}
                             => attempts[f] < MaxAttempts
                      /\ \A c \in Dispatcher :
                            claim'[c][f] > 0 /\ at'[c] # f => requests[f] < attempts[f]
    BY DEF AttemptsSpent
  <2>1. CASE f = e
    BY <1>4, <2>1 DEF OutboxInv, AttemptsSpent
  <2>2. CASE f # e
    <3>1. \A c \in Dispatcher : claim'[c][f] > 0 /\ at'[c] # f
                                    => claim[c][f] > 0 /\ at[c] # f
      BY <1>3, <1>4, <2>2
    <3> QED BY <2>2, <3>1 DEF OutboxInv, AttemptsSpent
  <2> QED BY <2>1, <2>2
<1>8. InFlight'
  <2> SUFFICES ASSUME NEW c \in Dispatcher
               PROVE  IF pc'[c] \in {"answered", "broadcast"}
                      THEN /\ at'[c] \in Event
                           /\ claim'[c][at'[c]] > 0
                           /\ Success(answer[c]) => accepted[at'[c]]
                           /\ answer[c] = "fatal" => refused[at'[c]]
                      ELSE at'[c] = None
    BY DEF InFlight, Success
  <2>1. CASE c = d
    BY <1>3, <2>1
  <2>2. CASE c # d
    BY <1>2, <1>3, <2>2 DEF OutboxInv, InFlight
  <2> QED BY <2>1, <2>2
<1> QED
  BY <1>5, <1>6, <1>7, <1>8

LEMMA BroadcastInv ==
    ASSUME TypeOK, OutboxInv, NEW d \in Dispatcher, Broadcast(d)
    PROVE  OutboxInv'
<1> DEFINE e == at[d]
<1>1. /\ pc[d] = "broadcast" /\ Forget(d) /\ NextClaim(d) /\ at' = [at EXCEPT ![d] = None]
      /\ UNCHANGED <<status, attempts, answer, requests, accepted, refused>>
  BY DEF Broadcast, rowVars
<1>2. e \in Event /\ status[e] = "PUBLISHED" /\ notified[e] = 0
  BY <1>1, Holding
<1>3. /\ notified'[e] \in {0, 1}
      /\ \A f \in Event : f # e => notified'[f] = notified[f]
  BY <1>2 DEF Broadcast, TypeOK
<1> HIDE DEF e
<1>4. OneHolder' /\ ClaimsMatchRows' /\ AttemptsSpent' /\ InFlight'
  BY <1>1, <1>2, <1>3, ForgetInv DEF e
<1>5. Unnotified' /\ NotifiedOnce'
  BY <1>1, <1>2, <1>3 DEF OutboxInv, Unnotified, NotifiedOnce
<1>6. PublishedWasAccepted' /\ DeadLetterJustified'
  BY <1>1 DEF OutboxInv, PublishedWasAccepted, DeadLetterJustified
<1> QED
  BY <1>4, <1>5, <1>6 DEF OutboxInv

LEMMA MarkDeadLetterInv ==
    ASSUME TypeOK, OutboxInv, NEW d \in Dispatcher, MarkDeadLetter(d)
    PROVE  OutboxInv'
<1> DEFINE e == at[d]
<1>1. /\ pc[d] = "answered" /\ Forget(d) /\ NextClaim(d) /\ at' = [at EXCEPT ![d] = None]
      /\ answer[d] = "fatal" \/ Exhausted(claim[d][e])
      /\ status' = [status EXCEPT ![e] = "DEAD_LETTER"]
      /\ UNCHANGED <<attempts, answer, requests, accepted, refused, notified>>
  BY DEF MarkDeadLetter, crmVars
<1>2. /\ e \in Event /\ claim[d][e] = attempts[e] /\ status[e] = "DELIVERING"
      /\ attempts[e] \in Nat
  BY <1>1, Holding DEF TypeOK
<1>3. refused[e] \/ attempts[e] = MaxAttempts
  BY <1>1, <1>2, BoundsAssumption DEF OutboxInv, InFlight, AttemptsSpent, Exhausted
<1>4. status'[e] = "DEAD_LETTER" /\ \A f \in Event : f # e => status'[f] = status[f]
  BY <1>1, <1>2 DEF TypeOK
<1> HIDE DEF e
<1>5. OneHolder' /\ ClaimsMatchRows' /\ AttemptsSpent' /\ InFlight'
  BY <1>1, <1>4, ForgetInv DEF e
<1>6. Unnotified' /\ NotifiedOnce'
  BY <1>1, <1>2, <1>4 DEF OutboxInv, Unnotified, NotifiedOnce
<1>7. PublishedWasAccepted' /\ DeadLetterJustified'
  BY <1>1, <1>3, <1>4 DEF OutboxInv, PublishedWasAccepted, DeadLetterJustified
<1> QED
  BY <1>5, <1>6, <1>7 DEF OutboxInv

LEMMA MarkRetryInv ==
    ASSUME TypeOK, OutboxInv, NEW d \in Dispatcher, MarkRetry(d)
    PROVE  OutboxInv'
<1> DEFINE e == at[d]
<1>1. /\ pc[d] = "answered" /\ Forget(d) /\ NextClaim(d) /\ at' = [at EXCEPT ![d] = None]
      /\ ~Exhausted(claim[d][e])
      /\ status' = [status EXCEPT ![e] = "RETRY_SCHEDULED"]
      /\ UNCHANGED <<attempts, answer, requests, accepted, refused, notified>>
  BY DEF MarkRetry, crmVars
<1>2. /\ e \in Event /\ claim[d][e] = attempts[e] /\ status[e] = "DELIVERING"
      /\ attempts[e] \in Nat
  BY <1>1, Holding DEF TypeOK
<1>3. attempts[e] < MaxAttempts
  BY <1>1, <1>2, BoundsAssumption DEF Exhausted
<1>4. status'[e] = "RETRY_SCHEDULED" /\ \A f \in Event : f # e => status'[f] = status[f]
  BY <1>1, <1>2 DEF TypeOK
<1> HIDE DEF e
<1>5. OneHolder' /\ ClaimsMatchRows' /\ AttemptsSpent' /\ InFlight'
  BY <1>1, <1>3, <1>4, ForgetInv DEF e
<1>6. Unnotified' /\ NotifiedOnce'
  BY <1>1, <1>2, <1>4 DEF OutboxInv, Unnotified, NotifiedOnce
<1>7. PublishedWasAccepted' /\ DeadLetterJustified'
  BY <1>1, <1>4 DEF OutboxInv, PublishedWasAccepted, DeadLetterJustified
<1> QED
  BY <1>5, <1>6, <1>7 DEF OutboxInv

\* A fault only forgets claims.
LEMMA FaultInv ==
    ASSUME TypeOK, OutboxInv, NEW d \in Dispatcher, Fault(d)
    PROVE  OutboxInv'
<1>1. /\ UNCHANGED <<status, attempts, answer, requests, accepted, refused, notified>>
      /\ pc'[d] = "idle" /\ at'[d] = None /\ \A e \in Event : claim'[d][e] = 0
      /\ \A c \in Dispatcher : c # d => /\ pc'[c] = pc[c] /\ at'[c] = at[c]
                                        /\ claim'[c] = claim[c]
  BY DEF Fault, TypeOK, NoClaim, rowVars, crmVars
<1>2. OneHolder'
  BY <1>1 DEF OutboxInv, OneHolder
<1>3. ClaimsMatchRows'
  BY <1>1 DEF OutboxInv, ClaimsMatchRows
<1>4. AttemptsSpent'
  <2>1. \A c \in Dispatcher, e \in Event :
           claim'[c][e] > 0 /\ at'[c] # e => claim[c][e] > 0 /\ at[c] # e
    BY <1>1
  <2> QED BY <1>1, <2>1 DEF OutboxInv, AttemptsSpent
<1>5. InFlight'
  <2> SUFFICES ASSUME NEW c \in Dispatcher
               PROVE  IF pc'[c] \in {"answered", "broadcast"}
                      THEN /\ at'[c] \in Event
                           /\ claim'[c][at'[c]] > 0
                           /\ Success(answer[c]) => accepted[at'[c]]
                           /\ answer[c] = "fatal" => refused[at'[c]]
                      ELSE at'[c] = None
    BY <1>1 DEF InFlight, Success
  <2>1. CASE c = d
    BY <1>1, <2>1
  <2>2. CASE c # d
    BY <1>1, <2>2 DEF OutboxInv, InFlight
  <2> QED BY <2>1, <2>2
<1>6. Unnotified' /\ NotifiedOnce' /\ PublishedWasAccepted' /\ DeadLetterJustified'
  BY <1>1 DEF OutboxInv, Unnotified, NotifiedOnce, PublishedWasAccepted, DeadLetterJustified
<1> QED
  BY <1>2, <1>3, <1>4, <1>5, <1>6 DEF OutboxInv

\* Time, new events and stuttering disturb no claim.
LEMMA OtherInv ==
    ASSUME TypeOK, OutboxInv,
           UNCHANGED vars \/ Tick \/ (\E e \in Event : SaveEvent(e))
    PROVE  OutboxInv'
<1>1. /\ UNCHANGED <<attempts, pc, claim, at, answer, requests, accepted, refused, notified>>
      /\ \A e \in Event : \/ status'[e] = status[e]
                          \/ status[e] = "ABSENT" /\ status'[e] = "PENDING"
  <2>1. ASSUME NEW e \in Event, SaveEvent(e)
        PROVE  \A f \in Event : \/ status'[f] = status[f]
                                \/ status[f] = "ABSENT" /\ status'[f] = "PENDING"
    BY <2>1 DEF SaveEvent, TypeOK
  <2>2. ASSUME NEW e \in Event, SaveEvent(e)
        PROVE  UNCHANGED <<attempts, pc, claim, at, answer, requests, accepted, refused,
                           notified>>
    BY <2>2 DEF SaveEvent, dspVars, crmVars
  <2>3. CASE UNCHANGED vars \/ Tick
    BY <2>3 DEF Tick, vars, dspVars, crmVars
  <2> QED BY <2>1, <2>2, <2>3
<1>2. OneHolder' /\ InFlight'
  BY <1>1 DEF OutboxInv, OneHolder, InFlight
<1>3. ClaimsMatchRows'
  BY <1>1 DEF OutboxInv, ClaimsMatchRows
<1>4. AttemptsSpent'
  BY <1>1 DEF OutboxInv, AttemptsSpent
<1>5. Unnotified' /\ NotifiedOnce' /\ PublishedWasAccepted' /\ DeadLetterJustified'
  BY <1>1 DEF OutboxInv, Unnotified, NotifiedOnce, PublishedWasAccepted, DeadLetterJustified
<1> QED
  BY <1>2, <1>3, <1>4, <1>5 DEF OutboxInv

LEMMA StepInv ==
    ASSUME TypeOK, OutboxInv, [Next]_vars
    PROVE  OutboxInv'
BY ClaimInv, PublishInv, MarkPublishedInv, BroadcastInv, MarkDeadLetterInv, MarkRetryInv,
   FaultInv, OtherInv DEF Next, Step

---------------------------------------------------------------------------

\* Every reachable state has its types and satisfies the invariant.
THEOREM OutboxInvariant == Spec => [](TypeOK /\ OutboxInv)
<1>1. Init => TypeOK /\ OutboxInv
  BY InitType, InitInv
<1>2. TypeOK /\ OutboxInv /\ [Next]_vars => (TypeOK /\ OutboxInv)'
  BY StepType, StepInv
<1> QED
  BY <1>1, <1>2, PTL DEF Spec

\* An event is never in the hands of two dispatchers.
THEOREM ExclusiveClaims == Spec => []OneHolder
<1>1. OutboxInv => OneHolder
  BY DEF OutboxInv
<1> QED
  BY <1>1, OutboxInvariant, PTL

\* A row is PUBLISHED only if the CRM has processed its event.
THEOREM PublishedAccepted == Spec => []PublishedWasAccepted
<1>1. OutboxInv => PublishedWasAccepted
  BY DEF OutboxInv
<1> QED
  BY <1>1, OutboxInvariant, PTL

\* No more requests than counted attempts, no more attempts than allowed.
THEOREM BoundedRequests == Spec => []RequestsBounded
<1>1. OutboxInv => RequestsBounded
  BY DEF OutboxInv, AttemptsSpent, RequestsBounded
<1> QED
  BY <1>1, OutboxInvariant, PTL

\* An event is given up only after a refusal or its last attempt.
THEOREM DeadLetters == Spec => []DeadLetterJustified
<1>1. OutboxInv => DeadLetterJustified
  BY DEF OutboxInv
<1> QED
  BY <1>1, OutboxInvariant, PTL

\* The consoles hear of an event at most once, and only of a published one.
THEOREM OneNotification == Spec => []NotifiedOnce
<1>1. OutboxInv => NotifiedOnce
  BY DEF OutboxInv
<1> QED
  BY <1>1, OutboxInvariant, PTL

\* A published or given-up event stays so.
THEOREM FinalOutcome == Spec => OutcomeIsFinal
<1> DEFINE Keeps == \A e \in Event : status[e] \in {"PUBLISHED", "DEAD_LETTER"}
                                         => status'[e] = status[e]
<1>1. TypeOK /\ OutboxInv /\ [Next]_vars => Keeps
  <2> SUFFICES ASSUME TypeOK, OutboxInv, [Next]_vars, NEW e \in Event,
                      status[e] \in {"PUBLISHED", "DEAD_LETTER"}
               PROVE  status'[e] = status[e]
    OBVIOUS
  <2>1. ASSUME NEW d \in Dispatcher, ClaimBatch(d) PROVE status'[e] = status[e]
    <3>1. ~Claimable(e)
      BY DEF Claimable
    <3> QED BY <2>1, <3>1 DEF ClaimBatch
  <2>2. ASSUME NEW d \in Dispatcher, pc[d] = "answered" PROVE e # at[d]
    BY <2>2, Holding
  <2>3. ASSUME NEW d \in Dispatcher, MarkPublished(d) \/ MarkDeadLetter(d) \/ MarkRetry(d)
        PROVE  status'[e] = status[e]
    BY <2>2, <2>3 DEF MarkPublished, MarkDeadLetter, MarkRetry, TypeOK
  <2>4. ASSUME NEW d \in Dispatcher, Publish(d) \/ Broadcast(d) \/ Fault(d)
        PROVE  status'[e] = status[e]
    BY <2>4 DEF Publish, Broadcast, Fault, rowVars
  <2>5. CASE UNCHANGED vars \/ Tick
    BY <2>5 DEF vars, Tick
  <2>6. ASSUME NEW f \in Event, SaveEvent(f) PROVE status'[e] = status[e]
    BY <2>6 DEF SaveEvent, TypeOK
  <2> QED BY <2>1, <2>3, <2>4, <2>5, <2>6 DEF Next, Step
<1>2. TypeOK /\ OutboxInv /\ [Next]_vars => [Keeps]_vars
  BY <1>1
<1> QED
  BY <1>2, OutboxInvariant, PTL DEF Spec, OutcomeIsFinal

---------------------------------------------------------------------------
(* The outbox implements EventDelivery.  Its requests and refusals need two  *)
(* facts more than OutboxInv.                                               *)

RequestsInv == AttemptsAreRequests /\ RefusalsStand

LEMMA InitRequests == Init => RequestsInv
BY DEF Init, RequestsInv, AttemptsAreRequests, RefusalsStand, NoClaim

\* A claim counts an attempt of rows that nobody holds and nobody has refused.
LEMMA ClaimRequests ==
    ASSUME TypeOK, OutboxInv, RequestsInv, NEW d \in Dispatcher, ClaimBatch(d)
    PROVE  RequestsInv'
<1>1. PICK batch \in SUBSET {e \in Event : Claimable(e)} :
        /\ status' = [e \in Event |-> IF e \in batch THEN "DELIVERING" ELSE status[e]]
        /\ attempts' = [e \in Event |-> IF e \in batch THEN attempts[e] + 1
                                                       ELSE attempts[e]]
        /\ claim' = [claim EXCEPT ![d] =
               [e \in Event |-> IF e \in batch THEN attempts[e] + 1 ELSE 0]]
  BY DEF ClaimBatch
<1>2. /\ pc[d] = "idle" /\ UNCHANGED <<at, answer, requests, refused>>
      /\ \A c \in Dispatcher : c # d => pc'[c] = pc[c]
  BY DEF ClaimBatch, crmVars, TypeOK
<1>3. at[d] = None /\ \A e \in Event : at[d] # e
  BY <1>2, EventAssumption DEF OutboxInv, InFlight
<1>4. \A e \in batch : e \in Event /\ status[e] \in {"PENDING", "RETRY_SCHEDULED"}
  BY <1>1 DEF Claimable
<1>5. \A e \in batch : \A c \in Dispatcher : ~(claim[c][e] > 0)
  BY <1>4 DEF OutboxInv, ClaimsMatchRows
<1>6. \A e \in batch : requests[e] = attempts[e] /\ ~refused[e]
  BY <1>4 DEF RequestsInv, AttemptsAreRequests, RefusalsStand
<1>7. /\ \A e \in Event : claim'[d][e] = IF e \in batch THEN attempts[e] + 1 ELSE 0
      /\ \A c \in Dispatcher : c # d => claim'[c] = claim[c]
      /\ \A e \in Event : /\ e \in batch => /\ attempts'[e] = attempts[e] + 1
                                            /\ status'[e] = "DELIVERING"
                          /\ e \notin batch => attempts'[e] = attempts[e]
                                               /\ status'[e] = status[e]
  BY <1>1 DEF TypeOK
<1>8. ASSUME NEW e \in Event, NEW c \in Dispatcher, claim'[c][e] > 0
      PROVE  \/ c = d /\ e \in batch
             \/ c # d /\ e \notin batch /\ claim[c][e] > 0
  BY <1>5, <1>7, <1>8
<1>9. AttemptsAreRequests'
  <2> SUFFICES ASSUME NEW e \in Event
               PROVE  /\ status'[e] \in {"ABSENT", "PENDING", "RETRY_SCHEDULED"}
                            => requests[e] = attempts'[e]
                      /\ \A c \in Dispatcher : claim'[c][e] > 0 =>
                            requests[e] = IF at[c] = e THEN attempts'[e]
                                          ELSE attempts'[e] - 1
    BY <1>2 DEF AttemptsAreRequests
  <2>1. attempts[e] \in Nat
    BY DEF TypeOK
  <2>2. CASE e \in batch
    BY <1>3, <1>6, <1>7, <1>8, <2>1, <2>2
  <2>3. CASE e \notin batch
    BY <1>7, <1>8, <2>3 DEF RequestsInv, AttemptsAreRequests
  <2> QED BY <2>2, <2>3
<1>10. RefusalsStand'
  <2> SUFFICES ASSUME NEW e \in Event, refused[e]
               PROVE  /\ status'[e] \in {"DELIVERING", "DEAD_LETTER"}
                      /\ \A c \in Dispatcher : claim'[c][e] > 0 =>
                            pc'[c] = "answered" /\ at[c] = e /\ answer[c] = "fatal"
    BY <1>2 DEF RefusalsStand
  <2> QED BY <1>2, <1>6, <1>7, <1>8 DEF RequestsInv, RefusalsStand
<1> QED
  BY <1>9, <1>10 DEF RequestsInv

\* What a dispatcher knows of the event that it sends: nobody else has it, an
\* attempt has no request yet, and nobody has refused it.
LEMMA Sending ==
    ASSUME TypeOK, OutboxInv, RequestsInv, NEW d \in Dispatcher, pc[d] = "deliver",
           NEW e \in Event, claim[d][e] > 0
    PROVE  /\ at[d] = None /\ status[e] = "DELIVERING" /\ ~refused[e]
           /\ requests[e] = attempts[e] - 1 /\ requests[e] < MaxAttempts
           /\ \A c \in Dispatcher : c # d => ~(claim[c][e] > 0)
<1>1. at[d] = None /\ at[d] # e
  BY EventAssumption DEF OutboxInv, InFlight
<1>2. requests[e] \in Nat /\ attempts[e] \in Nat /\ MaxAttempts \in Nat
  BY BoundsAssumption DEF TypeOK
<1>3. status[e] = "DELIVERING" /\ attempts[e] <= MaxAttempts
  BY DEF OutboxInv, ClaimsMatchRows, AttemptsSpent
<1>4. requests[e] = attempts[e] - 1 /\ ~refused[e]
  BY <1>1 DEF RequestsInv, AttemptsAreRequests, RefusalsStand
<1>5. \A c \in Dispatcher : c # d => ~(claim[c][e] > 0)
  BY DEF OutboxInv, OneHolder
<1> QED
  BY <1>1, <1>2, <1>3, <1>4, <1>5

\* A request makes good for the attempt that was counted.
LEMMA PublishRequests ==
    ASSUME TypeOK, OutboxInv, RequestsInv, NEW d \in Dispatcher, Publish(d)
    PROVE  RequestsInv'
<1>1. PICK e \in Event, a \in Answer, processed \in BOOLEAN :
        /\ First(e, Batch(d))
        /\ at' = [at EXCEPT ![d] = e]
        /\ answer' = [answer EXCEPT ![d] = a]
        /\ requests' = [requests EXCEPT ![e] = @ + 1]
        /\ refused' = [refused EXCEPT ![e] = @ \/ a = "fatal"]
  BY DEF Publish
<1>2. /\ pc[d] = "deliver" /\ pc' = [pc EXCEPT ![d] = "answered"]
      /\ UNCHANGED <<status, attempts, claim>>
  BY DEF Publish, rowVars
<1>3. claim[d][e] > 0
  BY <1>1 DEF First, Batch
<1>4. /\ at[d] = None /\ status[e] = "DELIVERING" /\ ~refused[e]
      /\ requests[e] = attempts[e] - 1
      /\ \A c \in Dispatcher : c # d => ~(claim[c][e] > 0)
  BY <1>2, <1>3, Sending
<1>5. /\ at'[d] = e /\ answer'[d] = a /\ pc'[d] = "answered"
      /\ \A c \in Dispatcher : c # d => /\ at'[c] = at[c] /\ answer'[c] = answer[c]
                                        /\ pc'[c] = pc[c]
  BY <1>1, <1>2 DEF TypeOK
<1>6. /\ requests'[e] = requests[e] + 1 /\ (refused'[e] <=> a = "fatal")
      /\ \A f \in Event : f # e => requests'[f] = requests[f] /\ refused'[f] = refused[f]
  BY <1>1, <1>4 DEF TypeOK
<1>7. AttemptsAreRequests'
  <2> SUFFICES ASSUME NEW f \in Event
               PROVE  /\ status[f] \in {"ABSENT", "PENDING", "RETRY_SCHEDULED"}
                            => requests'[f] = attempts[f]
                      /\ \A c \in Dispatcher : claim[c][f] > 0 =>
                            requests'[f] = IF at'[c] = f THEN attempts[f]
                                           ELSE attempts[f] - 1
    BY <1>2 DEF AttemptsAreRequests
  <2>1. CASE f = e
    <3>1. attempts[e] \in Nat /\ requests'[e] = attempts[e]
      BY <1>4, <1>6 DEF TypeOK
    <3> QED BY <1>4, <1>5, <2>1, <3>1
  <2>2. CASE f # e
    <3>1. \A c \in Dispatcher : at'[c] = f <=> at[c] = f
      BY <1>4, <1>5, <2>2, EventAssumption
    <3> QED BY <1>6, <2>2, <3>1 DEF RequestsInv, AttemptsAreRequests
  <2> QED BY <2>1, <2>2
<1>8. RefusalsStand'
  <2> SUFFICES ASSUME NEW f \in Event, refused'[f]
               PROVE  /\ status[f] \in {"DELIVERING", "DEAD_LETTER"}
                      /\ \A c \in Dispatcher : claim[c][f] > 0 =>
                            pc'[c] = "answered" /\ at'[c] = f /\ answer'[c] = "fatal"
    BY <1>2 DEF RefusalsStand
  <2>1. CASE f = e
    BY <1>4, <1>5, <1>6, <2>1
  <2>2. CASE f # e
    <3>1. refused[f] /\ ~(claim[d][f] > 0)
      BY <1>2, <1>6, <2>2 DEF RequestsInv, RefusalsStand
    <3> QED BY <1>5, <3>1 DEF RequestsInv, RefusalsStand
  <2> QED BY <2>1, <2>2
<1> QED
  BY <1>7, <1>8 DEF RequestsInv

\* Whoever forgets a claim leaves the other events as they are; the row it had
\* in hand is as RequestsInv wants it.
LEMMA ForgetRequests ==
    ASSUME TypeOK, OutboxInv, RequestsInv, NEW d \in Dispatcher, NEW e, e = at[d],
           pc[d] \in {"answered", "broadcast"},
           Forget(d), NextClaim(d), at' = [at EXCEPT ![d] = None],
           UNCHANGED <<attempts, answer, requests, refused>>,
           \A f \in Event : f # e => status'[f] = status[f],
           refused[e] => status'[e] \in {"DELIVERING", "DEAD_LETTER"}
    PROVE  RequestsInv'
<1>1. /\ e \in Event /\ claim[d][e] > 0
      /\ \A c \in Dispatcher : c # d => ~(claim[c][e] > 0) /\ at[c] # e
  BY Holding
<1>2. /\ \A c \in Dispatcher : c # d => claim'[c] = claim[c]
      /\ \A f \in Event : f # e => claim'[d][f] = claim[d][f]
      /\ claim'[d][e] = 0
  BY <1>1 DEF Forget, TypeOK
<1>3. /\ \A c \in Dispatcher : c # d => pc'[c] = pc[c] /\ at'[c] = at[c]
      /\ at'[d] = None
  BY DEF NextClaim, TypeOK
<1>4. \A c \in Dispatcher, f \in Event :
         claim'[c][f] > 0 => f # e /\ claim[c][f] > 0
  BY <1>1, <1>2
<1>5. requests[e] = attempts[e]
  BY <1>1 DEF RequestsInv, AttemptsAreRequests
<1>6. AttemptsAreRequests'
  <2> SUFFICES ASSUME NEW f \in Event
               PROVE  /\ status'[f] \in {"ABSENT", "PENDING", "RETRY_SCHEDULED"}
                            => requests[f] = attempts[f]
                      /\ \A c \in Dispatcher : claim'[c][f] > 0 =>
                            requests[f] = IF at'[c] = f THEN attempts[f]
                                          ELSE attempts[f] - 1
    BY DEF AttemptsAreRequests
  <2>1. CASE f = e
    BY <1>4, <1>5, <2>1
  <2>2. CASE f # e
    <3>1. \A c \in Dispatcher : at'[c] = f <=> at[c] = f
      BY <1>3, <2>2, EventAssumption
    <3> QED BY <1>4, <2>2, <3>1 DEF RequestsInv, AttemptsAreRequests
  <2> QED BY <2>1, <2>2
<1>7. RefusalsStand'
  <2> SUFFICES ASSUME NEW f \in Event, refused[f]
               PROVE  /\ status'[f] \in {"DELIVERING", "DEAD_LETTER"}
                      /\ \A c \in Dispatcher : claim'[c][f] > 0 =>
                            pc'[c] = "answered" /\ at'[c] = f /\ answer[c] = "fatal"
    BY DEF RefusalsStand
  <2>1. CASE f = e
    BY <1>4, <2>1
  <2>2. CASE f # e
    <3>1. ~(claim[d][f] > 0)
      BY <2>2 DEF RequestsInv, RefusalsStand
    <3> QED BY <1>2, <1>3, <1>4, <2>2, <3>1 DEF RequestsInv, RefusalsStand
  <2> QED BY <2>1, <2>2
<1> QED
  BY <1>6, <1>7 DEF RequestsInv

\* Whoever publishes has not heard a refusal.
LEMMA MarkPublishedRequests ==
    ASSUME TypeOK, OutboxInv, RequestsInv, NEW d \in Dispatcher, MarkPublished(d)
    PROVE  RequestsInv' /\ ~refused[at[d]]
<1> DEFINE e == at[d]
<1>1. /\ pc[d] = "answered" /\ pc' = [pc EXCEPT ![d] = "broadcast"]
      /\ Success(answer[d]) /\ status' = [status EXCEPT ![e] = "PUBLISHED"]
      /\ UNCHANGED <<attempts, claim, at, answer, requests, refused>>
  BY DEF MarkPublished, crmVars
<1>2. /\ e \in Event /\ claim[d][e] > 0
      /\ \A c \in Dispatcher : c # d => ~(claim[c][e] > 0)
  BY <1>1, Holding
<1>3. ~refused[e] /\ requests[e] = attempts[e]
  BY <1>1, <1>2 DEF RequestsInv, RefusalsStand, AttemptsAreRequests, Success
<1>4. status'[e] = "PUBLISHED" /\ \A f \in Event : f # e => status'[f] = status[f]
  BY <1>1, <1>2 DEF TypeOK
<1>5. \A c \in Dispatcher : c # d => pc'[c] = pc[c]
  BY <1>1 DEF TypeOK
<1>6. \A f \in Event : f # e /\ refused[f] => ~(claim[d][f] > 0)
  BY <1>2 DEF RequestsInv, RefusalsStand
<1> HIDE DEF e
<1>7. AttemptsAreRequests'
  BY <1>1, <1>4 DEF RequestsInv, AttemptsAreRequests
<1>8. RefusalsStand'
  BY <1>1, <1>3, <1>4, <1>5, <1>6 DEF RequestsInv, RefusalsStand
<1> QED
  BY <1>3, <1>7, <1>8 DEF RequestsInv, e

LEMMA ForgettingRequests ==
    ASSUME TypeOK, OutboxInv, RequestsInv, NEW d \in Dispatcher,
           Broadcast(d) \/ MarkDeadLetter(d) \/ MarkRetry(d)
    PROVE  RequestsInv'
<1> DEFINE e == at[d]
<1>1. pc[d] \in {"answered", "broadcast"} /\ e \in Event /\ claim[d][e] > 0
  BY Holding DEF Broadcast, MarkDeadLetter, MarkRetry
<1>2. /\ Forget(d) /\ NextClaim(d) /\ at' = [at EXCEPT ![d] = None]
      /\ UNCHANGED <<attempts, answer, requests, refused>>
  BY DEF Broadcast, MarkDeadLetter, MarkRetry, rowVars, crmVars
<1>3. \A f \in Event : f # e => status'[f] = status[f]
  BY <1>1 DEF Broadcast, MarkDeadLetter, MarkRetry, rowVars, TypeOK
<1>4. refused[e] => pc[d] = "answered" /\ answer[d] = "fatal"
  BY <1>1 DEF RequestsInv, RefusalsStand
<1>5. refused[e] => status'[e] \in {"DELIVERING", "DEAD_LETTER"}
  BY <1>1, <1>4 DEF Broadcast, MarkDeadLetter, MarkRetry, TypeOK
<1> HIDE DEF e
<1> QED
  BY <1>1, <1>2, <1>3, <1>5, ForgetRequests DEF e

\* A fault forgets claims; their attempts stay counted, their rows DELIVERING.
LEMMA FaultRequests ==
    ASSUME TypeOK, OutboxInv, RequestsInv, NEW d \in Dispatcher, Fault(d)
    PROVE  RequestsInv'
<1>1. /\ UNCHANGED <<status, attempts, answer, requests, refused>>
      /\ \A e \in Event : claim'[d][e] = 0
      /\ \A c \in Dispatcher : c # d => /\ pc'[c] = pc[c] /\ at'[c] = at[c]
                                        /\ claim'[c] = claim[c]
  BY DEF Fault, TypeOK, NoClaim, rowVars, crmVars
<1>2. AttemptsAreRequests'
  BY <1>1 DEF RequestsInv, AttemptsAreRequests
<1>3. RefusalsStand'
  BY <1>1 DEF RequestsInv, RefusalsStand
<1> QED
  BY <1>2, <1>3 DEF RequestsInv

\* Nor do time, new events and stuttering send or refuse anything.
LEMMA OtherRequests ==
    ASSUME TypeOK, OutboxInv, RequestsInv,
           UNCHANGED vars \/ Tick \/ (\E e \in Event : SaveEvent(e))
    PROVE  RequestsInv'
<1>1. /\ UNCHANGED <<attempts, pc, claim, at, answer, requests, refused>>
      /\ \A e \in Event : \/ status'[e] = status[e]
                          \/ status[e] = "ABSENT" /\ status'[e] = "PENDING"
  <2>1. CASE \E e \in Event : SaveEvent(e)
    BY <2>1 DEF SaveEvent, TypeOK, dspVars, crmVars
  <2>2. CASE UNCHANGED vars \/ Tick
    BY <2>2 DEF Tick, vars, dspVars, crmVars
  <2> QED BY <2>1, <2>2
<1>2. AttemptsAreRequests'
  BY <1>1 DEF RequestsInv, AttemptsAreRequests
<1>3. RefusalsStand'
  BY <1>1 DEF RequestsInv, RefusalsStand
<1> QED
  BY <1>2, <1>3 DEF RequestsInv

LEMMA StepRequests ==
    ASSUME TypeOK, OutboxInv, RequestsInv, [Next]_vars
    PROVE  RequestsInv'
BY ClaimRequests, PublishRequests, MarkPublishedRequests, ForgettingRequests,
   FaultRequests, OtherRequests DEF Next, Step

LEMMA RequestsInvariant == Spec => []RequestsInv
<1>1. Init => RequestsInv
  BY InitRequests
<1>2. TypeOK /\ OutboxInv /\ RequestsInv /\ [Next]_vars => RequestsInv'
  BY StepRequests
<1> QED
  BY <1>1, <1>2, OutboxInvariant, PTL DEF Spec

\* What EventDelivery sees of the rows.
Outcomes == [e \in Event |-> Outcome(e)]

Unseen == UNCHANGED <<Outcomes, requests, accepted, refused, notified>>

\* A row that keeps its outcome keeps it for EventDelivery.
LEMMA SameOutcomes ==
    ASSUME \A e \in Event : Outcome(e)' = Outcome(e)
    PROVE  Outcomes' = Outcomes
BY DEF Outcomes

\* When one row gets another status.
LEMMA OneOutcome ==
    ASSUME TypeOK, NEW e \in Event, NEW s, status' = [status EXCEPT ![e] = s],
           s \in {"PENDING", "PUBLISHED", "DEAD_LETTER"}
    PROVE  Outcomes' = [Outcomes EXCEPT ![e] = IF s = "PENDING" THEN "OPEN" ELSE s]
<1>1. status'[e] = s /\ \A f \in Event : f # e => status'[f] = status[f]
  BY DEF TypeOK
<1>2. Outcome(e)' = IF s = "PENDING" THEN "OPEN" ELSE s
  BY <1>1 DEF Outcome, Settled
<1>3. \A f \in Event : f # e => Outcome(f)' = Outcome(f)
  BY <1>1 DEF Outcome, Settled
<1> QED
  BY <1>2, <1>3 DEF Outcomes

\* Claims, retries, faults and time are not seen.
LEMMA UnseenSteps ==
    ASSUME TypeOK, OutboxInv,
           \/ UNCHANGED vars \/ Tick
           \/ \E d \in Dispatcher : ClaimBatch(d) \/ MarkRetry(d) \/ Fault(d)
    PROVE  Unseen
<1>1. UNCHANGED <<requests, accepted, refused, notified>>
  BY DEF vars, crmVars, Tick, ClaimBatch, MarkRetry, Fault
<1>2. CASE UNCHANGED vars \/ Tick \/ \E d \in Dispatcher : Fault(d)
  <2>1. UNCHANGED status
    BY <1>2 DEF vars, rowVars, Tick, Fault
  <2> QED BY <1>1, <2>1, SameOutcomes DEF Unseen, Outcome, Settled
<1>3. ASSUME NEW d \in Dispatcher, ClaimBatch(d) PROVE Unseen
  <2>1. PICK batch \in SUBSET {e \in Event : Claimable(e)} :
          status' = [e \in Event |-> IF e \in batch THEN "DELIVERING" ELSE status[e]]
    BY <1>3 DEF ClaimBatch
  <2>2. \A e \in Event : Outcome(e)' = Outcome(e)
    BY <2>1 DEF Claimable, Outcome, Settled
  <2> QED BY <1>1, <2>2, SameOutcomes DEF Unseen
<1>4. ASSUME NEW d \in Dispatcher, MarkRetry(d) PROVE Unseen
  <2>1. /\ at[d] \in Event /\ status[at[d]] = "DELIVERING"
        /\ status' = [status EXCEPT ![at[d]] = "RETRY_SCHEDULED"]
    BY <1>4, Holding DEF MarkRetry
  <2>2. \A e \in Event : Outcome(e)' = Outcome(e)
    BY <2>1 DEF Outcome, Settled, TypeOK
  <2> QED BY <1>1, <2>2, SameOutcomes DEF Unseen
<1> QED
  BY <1>2, <1>3, <1>4

LEMMA SaveDelivery ==
    ASSUME TypeOK, NEW e \in Event, SaveEvent(e)
    PROVE  Delivery!Save(e)
<1>1. Outcomes' = [Outcomes EXCEPT ![e] = "OPEN"]
  BY OneOutcome DEF SaveEvent
<1>2. Outcomes[e] = "NONE"
  BY DEF Outcomes, Outcome, Settled, SaveEvent
<1> QED
  BY <1>1, <1>2 DEF SaveEvent, crmVars, Delivery!Save, Outcomes

LEMMA SendDelivery ==
    ASSUME TypeOK, OutboxInv, RequestsInv, NEW d \in Dispatcher, Publish(d)
    PROVE  Delivery!Next
<1>1. PICK e \in Event, a \in Answer, processed \in BOOLEAN :
        /\ First(e, Batch(d))
        /\ requests' = [requests EXCEPT ![e] = @ + 1]
        /\ accepted' = [accepted EXCEPT ![e] = @ \/ processed]
        /\ refused' = [refused EXCEPT ![e] = @ \/ a = "fatal"]
  BY DEF Publish
<1>2. pc[d] = "deliver" /\ UNCHANGED status /\ UNCHANGED notified
  BY DEF Publish, rowVars
<1>3. claim[d][e] > 0
  BY <1>1 DEF First, Batch
<1>4. status[e] = "DELIVERING" /\ ~refused[e] /\ requests[e] < MaxAttempts
  BY <1>2, <1>3, Sending
<1>5. Outcomes[e] = "OPEN" /\ Outcomes' = Outcomes
  BY <1>2, <1>4, SameOutcomes DEF Outcomes, Outcome, Settled
<1> DEFINE no == a = "fatal"
<1>6. no \in BOOLEAN /\ refused' = [refused EXCEPT ![e] = no]
  BY <1>1, <1>4 DEF TypeOK
<1> HIDE DEF no
<1>7. Delivery!Send(e, processed, no)
  BY <1>1, <1>2, <1>4, <1>5, <1>6 DEF Delivery!Send, Outcomes
<1> QED
  BY <1>6, <1>7 DEF Delivery!Next

\* A delivery is recorded once the CRM has taken the event and not refused it.
LEMMA DeliverDelivery ==
    ASSUME TypeOK, OutboxInv, RequestsInv, NEW d \in Dispatcher, MarkPublished(d)
    PROVE  Delivery!Deliver(at[d]) /\ at[d] \in Event
<1> DEFINE e == at[d]
<1>1. /\ pc[d] = "answered" /\ Success(answer[d])
      /\ status' = [status EXCEPT ![e] = "PUBLISHED"]
      /\ UNCHANGED <<requests, accepted, refused, notified>>
  BY DEF MarkPublished, crmVars
<1>2. e \in Event /\ status[e] = "DELIVERING"
  BY <1>1, Holding
<1>3. accepted[e] /\ ~refused[e]
  BY <1>1, MarkPublishedRequests DEF OutboxInv, InFlight
<1> HIDE DEF e
<1>4. Outcomes' = [Outcomes EXCEPT ![e] = "PUBLISHED"]
  BY <1>1, <1>2, OneOutcome
<1>5. Outcomes[e] = "OPEN"
  BY <1>2 DEF Outcomes, Outcome, Settled
<1> QED
  BY <1>1, <1>2, <1>3, <1>4, <1>5 DEF Delivery!Deliver, Outcomes, e

\* What is given up was refused, or was really sent max_attempts times.
LEMMA GiveUpDelivery ==
    ASSUME TypeOK, OutboxInv, RequestsInv, NEW d \in Dispatcher, MarkDeadLetter(d)
    PROVE  Delivery!GiveUp(at[d]) /\ at[d] \in Event
<1> DEFINE e == at[d]
<1>1. /\ pc[d] = "answered" /\ (answer[d] = "fatal" \/ Exhausted(claim[d][e]))
      /\ status' = [status EXCEPT ![e] = "DEAD_LETTER"]
      /\ UNCHANGED <<requests, accepted, refused, notified>>
  BY DEF MarkDeadLetter, crmVars
<1>2. /\ e \in Event /\ status[e] = "DELIVERING"
      /\ claim[d][e] > 0 /\ claim[d][e] = attempts[e]
  BY <1>1, Holding
<1>3. requests[e] = attempts[e]
  BY <1>2 DEF RequestsInv, AttemptsAreRequests
<1>4. refused[e] \/ requests[e] = MaxAttempts
  <2>1. attempts[e] \in Nat /\ attempts[e] <= MaxAttempts /\ MaxAttempts \in Nat
    BY <1>2, BoundsAssumption DEF TypeOK, OutboxInv, AttemptsSpent
  <2>2. answer[d] = "fatal" => refused[e]
    BY <1>1 DEF OutboxInv, InFlight
  <2> QED BY <1>1, <1>2, <1>3, <2>1, <2>2 DEF Exhausted
<1> HIDE DEF e
<1>5. Outcomes' = [Outcomes EXCEPT ![e] = "DEAD_LETTER"]
  BY <1>1, <1>2, OneOutcome
<1>6. Outcomes[e] = "OPEN"
  BY <1>2 DEF Outcomes, Outcome, Settled
<1> QED
  BY <1>1, <1>2, <1>4, <1>5, <1>6 DEF Delivery!GiveUp, Outcomes, e

\* A notification is the only one, or is lost, which nobody sees.
LEMMA AnnounceDelivery ==
    ASSUME TypeOK, OutboxInv, NEW d \in Dispatcher, Broadcast(d)
    PROVE  (Delivery!Announce(at[d]) /\ at[d] \in Event) \/ Unseen
<1> DEFINE e == at[d]
<1>1. /\ pc[d] = "broadcast" /\ UNCHANGED <<status, requests, accepted, refused>>
      /\ \E n \in {0, 1} : notified' = [notified EXCEPT ![e] = @ + n]
  BY DEF Broadcast, rowVars
<1>2. e \in Event /\ status[e] = "PUBLISHED" /\ notified[e] = 0
  BY <1>1, Holding
<1> HIDE DEF e
<1>3. Outcomes' = Outcomes /\ Outcomes[e] = "PUBLISHED"
  BY <1>1, <1>2, SameOutcomes DEF Outcomes, Outcome, Settled
<1>4. notified' = [notified EXCEPT ![e] = 1] \/ notified' = notified
  <2>1. PICK n \in {0, 1} : notified' = [notified EXCEPT ![e] = @ + n]
    BY <1>1
  <2>2. notified' = [notified EXCEPT ![e] = n]
    BY <1>2, <2>1
  <2>3. CASE n = 0
    BY <1>2, <2>2, <2>3 DEF TypeOK
  <2> QED BY <2>2, <2>3
<1> QED
  BY <1>1, <1>2, <1>3, <1>4 DEF Delivery!Announce, Unseen, Outcomes, e

\* The outbox implements EventDelivery: claims, leases, batches, retries and
\* faults of any number of dispatchers do not show in what the CRM and the
\* consoles see (dispatcher.py:38-149, outbox_repository.py:21-117).
THEOREM DeliveryImplemented == Spec => ImplementsDelivery
<1>1. Init => Delivery!Init
  BY DEF Init, Delivery!Init, Outcome, Settled
<1>2. TypeOK /\ OutboxInv /\ RequestsInv /\ [Next]_vars
        => [Delivery!Next]_<<Outcomes, requests, accepted, refused, notified>>
  <2> SUFFICES ASSUME TypeOK, OutboxInv, RequestsInv, [Next]_vars
               PROVE  Delivery!Next \/ Unseen
    BY DEF Unseen
  <2>1. ASSUME NEW e \in Event, SaveEvent(e) PROVE Delivery!Next
    BY <2>1, SaveDelivery DEF Delivery!Next
  <2>2. ASSUME NEW d \in Dispatcher, Publish(d) PROVE Delivery!Next
    BY <2>2, SendDelivery
  <2>3. ASSUME NEW d \in Dispatcher, MarkPublished(d) PROVE Delivery!Next
    BY <2>3, DeliverDelivery DEF Delivery!Next
  <2>4. ASSUME NEW d \in Dispatcher, MarkDeadLetter(d) PROVE Delivery!Next
    BY <2>4, GiveUpDelivery DEF Delivery!Next
  <2>5. ASSUME NEW d \in Dispatcher, Broadcast(d) PROVE Delivery!Next \/ Unseen
    BY <2>5, AnnounceDelivery DEF Delivery!Next
  <2>6. CASE \/ UNCHANGED vars \/ Tick
             \/ \E d \in Dispatcher : ClaimBatch(d) \/ MarkRetry(d) \/ Fault(d)
    BY <2>6, UnseenSteps
  <2> QED BY <2>1, <2>2, <2>3, <2>4, <2>5, <2>6 DEF Next, Step
<1>3. /\ Delivery!vars = <<Outcomes, requests, accepted, refused, notified>>
      /\ Delivery!vars' = <<Outcomes', requests', accepted', refused', notified'>>
  BY DEF Delivery!vars, Outcomes
<1>4. TypeOK /\ OutboxInv /\ RequestsInv /\ [Next]_vars => [Delivery!Next]_(Delivery!vars)
  BY <1>2, <1>3
<1> QED
  BY <1>1, <1>4, OutboxInvariant, RequestsInvariant, PTL
     DEF Spec, ImplementsDelivery, Delivery!Spec

=============================================================================
