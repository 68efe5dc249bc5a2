----------------------------- MODULE HumanReview -----------------------------
(***************************************************************************)
(* Reviews of gate decisions by several people at once: the requests of    *)
(* POST /evaluations/{id}/review, each one transaction at READ COMMITTED   *)
(* over a row of gate_decisions and the rows it inserts.                   *)
(*                                                                         *)
(* A request for a decision that is absent or of another tenant ends in a  *)
(* 404 and changes nothing; Reviewer is the people of the sale's tenant.   *)
(***************************************************************************)
EXTENDS Integers, Sequences

CONSTANTS
    Gate,        \* ids of gate decisions
    Reviewer,    \* people, each with one request at a time
    None,
    MaxRequests  \* bound: requests in a behaviour

ASSUME GateAssumption == None \notin Gate

ASSUME BoundAssumption == MaxRequests \in Nat

VARIABLES
    gate,     \* gate[g]: status column of g's row, "ABSENT" before its insert
    history,  \* history[g]: the decision and the committed reviews, in commit
              \* order; a review with its audit_events and outbox_events rows
    req,      \* req[r]: what the request of r has read and written so far
    clock,    \* values of datetime.now() handed out, as ranks
    requests  \* requests so far

vars == <<gate, history, req, clock, requests>>

Status == {"PASSED", "HELD", "REVIEW_REQUIRED"}

Action == {"OVERRIDE_TO_PASS", "CONFIRM_HOLD", "CANCEL_SALE"}

\* Allowed business QA gate transitions, without PENDING and CANCELLED: no
\* decision is ever in these.
GateTransitions ==
    [s \in Status |->
        CASE s = "HELD" -> {"PASSED", "REVIEW_REQUIRED"}
          [] s = "REVIEW_REQUIRED" -> {"PASSED", "HELD"}
          [] s = "PASSED" -> {}]

\* new_gate_status: a cancelled sale leaves its decision HELD.
NewStatus(a) == IF a = "OVERRIDE_TO_PASS" THEN "PASSED" ELSE "HELD"

\* What a row of history says.  prev is the audited previous_gate_status,
\* base the number of rows committed when it was read; reviewed is
\* reviewed_at, stamped is created_at of the audit and outbox events.
Entry == [action : Action \cup {"DECIDED"}, prev : Status, new : Status,
          base : Nat, reviewed : Nat, stamped : Nat]

Request == [pc : {"idle", "loaded", "recorded", "updated"}, gate : Gate \cup {None},
            action : Action, prev : Status, base : Nat, reviewed : Nat, stamped : Nat]

Idle == [pc |-> "idle", gate |-> None, action |-> "CONFIRM_HOLD", prev |-> "HELD",
         base |-> 0, reviewed |-> 0, stamped |-> 0]

Init ==
    /\ gate = [g \in Gate |-> "ABSENT"]
    /\ history = [g \in Gate |-> <<>>]
    /\ req = [r \in Reviewer |-> Idle]
    /\ clock = 0
    /\ requests = 0

---------------------------------------------------------------------------

\* save_gate_decision and the event of the evaluation, in one transaction of
\* a worker.
Decide(g) ==
    /\ gate[g] = "ABSENT"
    /\ \E s \in Status :
          /\ gate' = [gate EXCEPT ![g] = s]
          /\ history' = [history EXCEPT ![g] = <<
                 [action |-> "DECIDED", prev |-> s, new |-> s,
                  base |-> 0, reviewed |-> clock, stamped |-> clock]>>]
    /\ clock' = clock + 1
    /\ UNCHANGED <<req, requests>>

\* Mutant: the state of the decision is not validated.
Unvalidated(g) == gate[g] # "ABSENT"

\* What get_gate_decision_by_id and the state validation let through.
Reviewable(g) == gate[g] \notin {"ABSENT", "PASSED"}

\* The request reads the decision.  It takes no lock.
Load(r, g, a) ==
    /\ req[r].pc = "idle"
    /\ requests < MaxRequests
    /\ Reviewable(g)
    /\ req' = [req EXCEPT ![r] =
           [pc |-> "loaded", gate |-> g, action |-> a, prev |-> gate[g],
            base |-> Len(history[g]), reviewed |-> 0, stamped |-> 0]]
    /\ requests' = requests + 1
    /\ UNCHANGED <<gate, history, clock>>

\* HumanReview.create and save_human_review: the foreign key's share lock
\* goes with the updates of others.
Record(r) ==
    /\ req[r].pc = "loaded"
    /\ req' = [req EXCEPT ![r].pc = "recorded", ![r].reviewed = clock]
    /\ clock' = clock + 1
    /\ UNCHANGED <<gate, history, requests>>

\* Mutant: the status is written without holding the row.
NoRowLock(g) == TRUE

\* The UPDATE of a row waits for the transaction that has updated it.
RowFree(g) == \A q \in Reviewer : req[q].pc = "updated" => req[q].gate # g

\* Mutant: the events are stamped before the row is updated.
StampedEarly(r) == req[r].reviewed

\* created_at of the audit event and of the outbox event.
Stamp(r) == clock

\* update_gate_decision_status, record_event and save_event: an UPDATE by
\* id, whatever the row now says, and two inserts behind its lock.
Update(r) ==
    /\ req[r].pc = "recorded"
    /\ RowFree(req[r].gate)
    /\ req' = [req EXCEPT ![r].pc = "updated", ![r].stamped = Stamp(r)]
    /\ clock' = clock + 1
    /\ UNCHANGED <<gate, history, requests>>

\* uow.commit() in submit_human_review.
Commit(r) ==
    LET q == req[r] IN
    /\ q.pc = "updated"
    /\ gate' = [gate EXCEPT ![q.gate] = NewStatus(q.action)]
    /\ history' = [history EXCEPT ![q.gate] = Append(@,
           [action |-> q.action, prev |-> q.prev, new |-> NewStatus(q.action),
            base |-> q.base, reviewed |-> q.reviewed, stamped |-> q.stamped])]
    /\ req' = [req EXCEPT ![r] = Idle]
    /\ UNCHANGED <<clock, requests>>

\* uow.rollback(): an exception or a lost connection anywhere before the
\* commit, an unknown reviewer's foreign key among them.
Abort(r) ==
    /\ req[r].pc # "idle"
    /\ req' = [req EXCEPT ![r] = Idle]
    /\ UNCHANGED <<gate, history, clock, requests>>

Next ==
    \/ \E g \in Gate : Decide(g)
    \/ \E r \in Reviewer, g \in Gate, a \in Action : Load(r, g, a)
    \/ \E r \in Reviewer : Record(r) \/ Update(r) \/ Commit(r) \/ Abort(r)

Spec == Init /\ [][Next]_vars

---------------------------------------------------------------------------
(* Properties *)

\* The tables and the requests hold values of their types.
TypeOK ==
    /\ gate \in [Gate -> Status \cup {"ABSENT"}]
    /\ history \in [Gate -> Seq(Entry)]
    /\ req \in [Reviewer -> Request]
    /\ clock \in Nat
    /\ requests \in 0..MaxRequests

\* Whoever orders the events of a decision by created_at, as the dispatcher
\* and the audit index do, ends at the status in the table: the stamps follow
\* the order of the commits although they are taken before them
\* (human_review_service.py:79-118, outbox_repository.py:60).
EventOrderTellsStatus ==
    \A g \in Gate : \A i \in DOMAIN history[g] :
        (\A k \in DOMAIN history[g] : history[g][k].stamped <= history[g][i].stamped)
            => gate[g] = history[g][i].new

\* A review that began after the one before it was committed moves the
\* decision along GATE_TRANSITIONS (domain/state.py:54-74) and audits the
\* status it really found: nothing but an overlap undoes a pass.
SequentialReviewsFollowTheTable ==
    \A g \in Gate : \A i \in 2..Len(history[g]) :
        LET before == history[g][i - 1]
            entry  == history[g][i]
        IN  entry.base = i - 1 =>
                /\ entry.prev = before.new
                /\ entry.new \in GateTransitions[before.new] \cup {before.new}
                /\ before.new # "PASSED"

\* The table says what the last commit said.
StatusOfLast(g) ==
    /\ gate[g] = "ABSENT" <=> history[g] = <<>>
    /\ history[g] # <<>> => gate[g] = history[g][Len(history[g])].new

\* Stamps follow the commits.
StampsOrdered(g) ==
    \A i, k \in DOMAIN history[g] :
        /\ i < k => history[g][i].stamped < history[g][k].stamped
        /\ history[g][i].stamped < clock

\* A read is of a committed status that was not PASSED; x is an entry or a
\* request and n the number of entries it may have seen.
ReadOf(x, g, n) ==
    /\ x.base \in 1..n
    /\ x.prev = history[g][x.base].new
    /\ x.prev # "PASSED"

\* A request behind the row lock is alone and its stamp is the latest.
Holds(r) ==
    /\ req[r].stamped < clock
    /\ \A i \in DOMAIN history[req[r].gate] :
          history[req[r].gate][i].stamped < req[r].stamped
    /\ \A q \in Reviewer \ {r} : req[q].pc = "updated" => req[q].gate # req[r].gate

\* The inductive invariant of the reviews: status, stamps and reads fit the
\* committed history, and updates exclude each other
\* (human_review_service.py:28-118).
ReviewInv ==
    /\ TypeOK
    /\ \A g \in Gate : StatusOfLast(g) /\ StampsOrdered(g)
    /\ \A g \in Gate : \A i \in 2..Len(history[g]) : ReadOf(history[g][i], g, i - 1)
    /\ \A r \in Reviewer : req[r].pc # "idle" =>
          req[r].gate \in Gate /\ ReadOf(req[r], req[r].gate, Len(history[req[r].gate]))
    /\ \A r \in Reviewer : req[r].pc = "updated" => Holds(r)

\* domain/state.py:72 calls PASSED a terminal clean state, and
\* test_state_transitions.py:45 forbids the way back.
GateTransitionsRespected ==
    [][\A g \in Gate : gate[g] \in Status =>
          gate'[g] \in GateTransitions[gate[g]] \cup {gate[g]}]_vars

=============================================================================
