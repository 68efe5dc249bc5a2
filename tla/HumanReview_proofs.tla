-------------------------- MODULE HumanReview_proofs --------------------------
(***************************************************************************)
(* Theorems about HumanReview, for any sets of decisions and reviewers and *)
(* any number of requests.                                                 *)
(***************************************************************************)
EXTENDS HumanReview, TLAPS

\* What TypeOK says of a history.
LEMMA HistoryTyped ==
    ASSUME TypeOK, NEW g \in Gate
    PROVE  /\ history[g] \in Seq(Entry)
           /\ Len(history[g]) \in Nat
           /\ DOMAIN history[g] = 1..Len(history[g])
           /\ \A i \in DOMAIN history[g] : history[g][i] \in Entry
           /\ \A i \in DOMAIN history[g] : history[g][i].stamped \in Nat
<1>1. history[g] \in Seq(Entry)
  BY DEF TypeOK
<1>2. \A i \in DOMAIN history[g] : history[g][i] \in Entry
  BY <1>1
<1>3. \A e \in Entry : e.stamped \in Nat
  BY DEF Entry
<1> QED
  BY <1>1, <1>2, <1>3

\* A decision that may be reviewed has a history and a status.
LEMMA ReviewableHasHistory ==
    ASSUME ReviewInv, NEW g \in Gate, Reviewable(g)
    PROVE  /\ gate[g] \in Status \ {"PASSED"}
           /\ Len(history[g]) \in Nat \ {0}
           /\ gate[g] = history[g][Len(history[g])].new
<1>1. gate[g] \in Status \ {"PASSED"}
  BY DEF ReviewInv, TypeOK, Reviewable
<1>2. history[g] # <<>> /\ gate[g] = history[g][Len(history[g])].new
  BY <1>1 DEF ReviewInv, StatusOfLast, Reviewable
<1>3. history[g] \in Seq(Entry)
  BY DEF ReviewInv, TypeOK
<1> QED
  BY <1>1, <1>2, <1>3

\* The initial state satisfies the inductive invariant.
LEMMA InitReview == Init => ReviewInv
<1> SUFFICES ASSUME Init PROVE ReviewInv
  OBVIOUS
<1>1. TypeOK
  <2>1. Idle \in Request
    BY DEF Idle, Request, Action, Status
  <2>2. <<>> \in Seq(Entry)
    OBVIOUS
  <2>3. 0 \in 0..MaxRequests
    BY BoundAssumption
  <2> QED
    BY <2>1, <2>2, <2>3 DEF Init, TypeOK
<1>2. ASSUME NEW g \in Gate PROVE StatusOfLast(g) /\ StampsOrdered(g)
  <2>1. gate[g] = "ABSENT" /\ history[g] = <<>>
    BY DEF Init
  <2>2. \A i \in DOMAIN history[g] : FALSE
    BY <2>1
  <2> QED
    BY <2>1, <2>2 DEF StatusOfLast, StampsOrdered
<1>3. \A g \in Gate : \A i \in 2..Len(history[g]) : ReadOf(history[g][i], g, i - 1)
  BY DEF Init
<1>4. \A r \in Reviewer : req[r].pc = "idle"
  BY DEF Init, Idle
<1> QED
  BY <1>1, <1>2, <1>3, <1>4 DEF ReviewInv

\* The commit of a decision.
LEMMA DecideReview ==
    ASSUME ReviewInv, NEW d \in Gate, Decide(d)
    PROVE  ReviewInv'
<1>1. PICK s \in Status :
         /\ gate' = [gate EXCEPT ![d] = s]
         /\ history' = [history EXCEPT ![d] = <<
                [action |-> "DECIDED", prev |-> s, new |-> s,
                 base |-> 0, reviewed |-> clock, stamped |-> clock]>>]
  BY DEF Decide
<1> DEFINE e == [action |-> "DECIDED", prev |-> s, new |-> s,
                 base |-> 0, reviewed |-> clock, stamped |-> clock]
<1>2. clock' = clock + 1 /\ UNCHANGED <<req, requests>> /\ clock \in Nat
  BY DEF Decide, ReviewInv, TypeOK
<1>3. e \in Entry
  BY <1>2 DEF Entry, Action
<1>4. TypeOK'
  BY <1>1, <1>2, <1>3 DEF ReviewInv, TypeOK
<1>5. \A g \in Gate \ {d} : history'[g] = history[g] /\ gate'[g] = gate[g]
  BY <1>1 DEF ReviewInv, TypeOK
<1>6. history'[d] = <<e>> /\ gate'[d] = s
  BY <1>1 DEF ReviewInv, TypeOK
<1> HIDE DEF e
<1>61. e.new = s /\ e.stamped = clock
  BY DEF e
<1>62. /\ Len(history'[d]) = 1 /\ DOMAIN history'[d] = 1..1
       /\ history'[d][1] = e /\ history'[d] # <<>>
  BY <1>6
<1>7. history[d] = <<>> /\ Len(history[d]) = 0
  BY DEF Decide, ReviewInv, StatusOfLast
<1>8. ASSUME NEW g \in Gate
      PROVE  (StatusOfLast(g) /\ StampsOrdered(g))'
  <2>1. CASE g = d
    <3>1. StatusOfLast(d)'
      BY <1>6, <1>61, <1>62 DEF StatusOfLast, Status
    <3>2. \A i \in DOMAIN history'[d] : i = 1
      BY <1>62
    <3>3. StampsOrdered(d)'
      BY <1>2, <1>61, <1>62, <3>2 DEF StampsOrdered
    <3> QED
      BY <2>1, <3>1, <3>3
  <2>2. CASE g # d
    <3>1. StatusOfLast(g) /\ StampsOrdered(g)
      BY DEF ReviewInv
    <3>2. \A i \in DOMAIN history[g] : history[g][i].stamped \in Nat
      BY HistoryTyped DEF ReviewInv
    <3> QED
      BY <1>2, <1>5, <2>2, <3>1, <3>2 DEF StatusOfLast, StampsOrdered
  <2> QED
    BY <2>1, <2>2
<1>9. ASSUME NEW g \in Gate, NEW i \in 2..Len(history'[g])
      PROVE  ReadOf(history[g][i], g, i - 1)'
  <2>1. g # d
    <3>1. 2..1 = {}
      OBVIOUS
    <3> QED
      BY <1>62, <1>9, <3>1
  <2>2. ReadOf(history[g][i], g, i - 1)
    BY <1>5, <2>1 DEF ReviewInv
  <2> QED
    BY <1>5, <2>1, <2>2 DEF ReadOf
<1>10. ASSUME NEW r \in Reviewer, req[r].pc # "idle"
       PROVE  req[r].gate \in Gate \ {d}
  BY <1>7, <1>10 DEF ReviewInv, ReadOf
<1>11. ASSUME NEW r \in Reviewer, req'[r].pc # "idle"
       PROVE  (req[r].gate \in Gate
               /\ ReadOf(req[r], req[r].gate, Len(history[req[r].gate])))'
  <2>1. req'[r] = req[r] /\ req[r].gate \in Gate \ {d}
    BY <1>2, <1>10, <1>11
  <2>2. ReadOf(req[r], req[r].gate, Len(history[req[r].gate]))
    BY <1>11, <2>1 DEF ReviewInv
  <2> QED
    BY <1>5, <2>1, <2>2 DEF ReadOf
<1>12. ASSUME NEW r \in Reviewer, req'[r].pc = "updated"
       PROVE  Holds(r)'
  <2>1. Holds(r) /\ req' = req /\ req[r].gate \in Gate \ {d} /\ req[r].stamped \in Nat
    BY <1>2, <1>10, <1>12 DEF ReviewInv, TypeOK, Request
  <2> QED
    BY <1>2, <1>5, <2>1 DEF Holds
<1> QED
  BY <1>4, <1>8, <1>9, <1>11, <1>12 DEF ReviewInv

\* Steps of a request that leave the tables alone: what they need to say of
\* the request they move.
LEMMA RequestReview ==
    ASSUME ReviewInv, NEW r \in Reviewer, NEW q \in Request,
           UNCHANGED <<gate, history>>,
           req' = [req EXCEPT ![r] = q],
           clock' \in {clock, clock + 1}, requests' \in 0..MaxRequests,
           q.pc # "idle" => q.gate \in Gate /\ ReadOf(q, q.gate, Len(history[q.gate])),
           q.pc = "updated" =>
               /\ RowFree(q.gate) /\ q.stamped = clock /\ clock' = clock + 1
    PROVE  ReviewInv'
<1>1. clock \in Nat /\ clock' \in Nat /\ clock <= clock'
  BY DEF ReviewInv, TypeOK
<1>2. TypeOK'
  BY <1>1 DEF ReviewInv, TypeOK
<1>3. req'[r] = q /\ \A p \in Reviewer \ {r} : req'[p] = req[p]
  BY DEF ReviewInv, TypeOK
<1>4. ASSUME NEW g \in Gate
      PROVE  /\ (StatusOfLast(g) /\ StampsOrdered(g))'
             /\ \A i \in DOMAIN history[g] : history[g][i].stamped < clock
  <2>1. StatusOfLast(g) /\ StampsOrdered(g)
    BY DEF ReviewInv
  <2>2. \A i \in DOMAIN history[g] : history[g][i].stamped \in Nat
    BY HistoryTyped DEF ReviewInv
  <2> QED
    BY <1>1, <2>1, <2>2 DEF StatusOfLast, StampsOrdered
<1>5. (\A g \in Gate : \A i \in 2..Len(history[g]) : ReadOf(history[g][i], g, i - 1))'
  BY DEF ReviewInv, ReadOf
<1>6. ASSUME NEW p \in Reviewer, req'[p].pc # "idle"
      PROVE  (req[p].gate \in Gate
              /\ ReadOf(req[p], req[p].gate, Len(history[req[p].gate])))'
  <2>1. CASE p = r
    BY <1>3, <1>6, <2>1 DEF ReadOf
  <2>2. CASE p # r
    BY <1>3, <1>6, <2>2 DEF ReviewInv, ReadOf
  <2> QED
    BY <2>1, <2>2
<1>7. ASSUME NEW p \in Reviewer, req'[p].pc = "updated"
      PROVE  Holds(p)'
  <2>1. CASE p = r
    <3>1. q.gate \in Gate /\ q.stamped = clock /\ RowFree(q.gate) /\ clock' = clock + 1
      BY <1>3, <1>7, <2>1
    <3> QED
      BY <1>1, <1>3, <1>4, <2>1, <3>1 DEF Holds, RowFree
  <2>2. CASE p # r
    <3>1. Holds(p) /\ req[p].stamped \in Nat /\ req'[p] = req[p] /\ req[p].pc = "updated"
      BY <1>3, <1>7, <2>2 DEF ReviewInv, TypeOK, Request
    <3>2. q.pc = "updated" => q.gate # req[p].gate
      BY <3>1 DEF RowFree
    <3> QED
      BY <1>1, <1>3, <3>1, <3>2 DEF Holds
  <2> QED
    BY <2>1, <2>2
<1> QED
  BY <1>2, <1>4, <1>5, <1>6, <1>7 DEF ReviewInv

\* Reading, recording and updating.
LEMMA WorkReview ==
    ASSUME ReviewInv, NEW r \in Reviewer,
           \/ \E g \in Gate, a \in Action : Load(r, g, a)
           \/ Record(r)
           \/ Update(r)
           \/ Abort(r)
    PROVE  ReviewInv'
<1>1. req[r] \in Request /\ clock \in Nat /\ requests \in 0..MaxRequests /\ MaxRequests \in Nat
  BY BoundAssumption DEF ReviewInv, TypeOK
<1>2. req[r].pc # "idle" => /\ req[r].gate \in Gate
                            /\ ReadOf(req[r], req[r].gate, Len(history[req[r].gate]))
  BY DEF ReviewInv
<1>3. ASSUME NEW g \in Gate, NEW a \in Action, Load(r, g, a)
      PROVE  ReviewInv'
  <2> DEFINE q == [pc |-> "loaded", gate |-> g, action |-> a, prev |-> gate[g],
                   base |-> Len(history[g]), reviewed |-> 0, stamped |-> 0]
  <2>1. /\ gate[g] \in Status \ {"PASSED"}
        /\ Len(history[g]) \in Nat \ {0}
        /\ gate[g] = history[g][Len(history[g])].new
    BY <1>3, ReviewableHasHistory DEF Load
  <2>2. q \in Request
    BY <2>1 DEF Request
  <2>3. ReadOf(q, g, Len(history[g]))
    BY <2>1 DEF ReadOf
  <2>4. requests' \in 0..MaxRequests
    BY <1>1, <1>3 DEF Load
  <2>5. req' = [req EXCEPT ![r] = q] /\ UNCHANGED <<gate, history, clock>>
    BY <1>3 DEF Load
  <2> QED
    BY <2>2, <2>3, <2>4, <2>5, RequestReview
<1>4. CASE Record(r)
  <2> DEFINE q == [req[r] EXCEPT !.pc = "recorded", !.reviewed = clock]
  <2>1. q \in Request /\ q.pc = "recorded"
    BY <1>1 DEF Request
  <2>2. q.gate \in Gate /\ ReadOf(q, q.gate, Len(history[q.gate]))
    BY <1>1, <1>2, <1>4 DEF Record, ReadOf, Request
  <2>3. req' = [req EXCEPT ![r] = q]
    BY <1>4 DEF Record, ReviewInv, TypeOK
  <2> QED
    BY <1>1, <1>4, <2>1, <2>2, <2>3, RequestReview DEF Record
<1>5. CASE Update(r)
  <2> DEFINE q == [req[r] EXCEPT !.pc = "updated", !.stamped = clock]
  <2>1. q \in Request /\ q.stamped = clock /\ q.gate = req[r].gate
    BY <1>1 DEF Request
  <2>2. q.gate \in Gate /\ ReadOf(q, q.gate, Len(history[q.gate]))
    BY <1>1, <1>2, <1>5 DEF Update, ReadOf, Request
  <2>3. req' = [req EXCEPT ![r] = q]
    BY <1>5 DEF Update, Stamp, ReviewInv, TypeOK
  <2> QED
    BY <1>1, <1>5, <2>1, <2>2, <2>3, RequestReview DEF Update
<1>6. CASE Abort(r)
  <2>1. Idle \in Request /\ Idle.pc = "idle"
    BY DEF Idle, Request, Action, Status
  <2> QED
    BY <1>1, <1>6, <2>1, RequestReview DEF Abort
<1> QED
  BY <1>3, <1>4, <1>5, <1>6

\* The commit of a review.
LEMMA CommitReview ==
    ASSUME ReviewInv, NEW r \in Reviewer, Commit(r)
    PROVE  ReviewInv'
<1> DEFINE q == req[r]
           d == q.gate
           n == Len(history[d])
           e == [action |-> q.action, prev |-> q.prev, new |-> NewStatus(q.action),
                 base |-> q.base, reviewed |-> q.reviewed, stamped |-> q.stamped]
<1>1. q \in Request /\ q.pc = "updated" /\ clock \in Nat
  BY DEF Commit, ReviewInv, TypeOK
<1>2. d \in Gate /\ ReadOf(q, d, n) /\ Holds(r)
  BY <1>1 DEF ReviewInv
<1>3. /\ gate' = [gate EXCEPT ![d] = NewStatus(q.action)]
      /\ history' = [history EXCEPT ![d] = Append(@, e)]
      /\ req' = [req EXCEPT ![r] = Idle]
      /\ UNCHANGED <<clock, requests>>
  BY DEF Commit
<1>4. e \in Entry /\ e.new \in Status
  BY <1>1 DEF Entry, Request, NewStatus, Status, Action
<1>5. Idle \in Request /\ Idle.pc = "idle"
  BY DEF Idle, Request, Action, Status
<1>6. TypeOK'
  BY <1>2, <1>3, <1>4, <1>5 DEF ReviewInv, TypeOK
<1>7. \A g \in Gate \ {d} : history'[g] = history[g] /\ gate'[g] = gate[g]
  BY <1>3 DEF ReviewInv, TypeOK
<1>8. history[d] \in Seq(Entry) /\ n \in Nat /\ DOMAIN history[d] = 1..n
  BY <1>2, HistoryTyped DEF ReviewInv
<1>9. /\ Len(history'[d]) = n + 1 /\ history'[d][n + 1] = e /\ history'[d] # <<>>
      /\ \A i \in 1..n : history'[d][i] = history[d][i]
      /\ gate'[d] = e.new
  <2>1. history'[d] = Append(history[d], e)
    BY <1>2, <1>3 DEF ReviewInv, TypeOK
  <2>2. gate'[d] = NewStatus(q.action)
    BY <1>2, <1>3 DEF ReviewInv, TypeOK
  <2> HIDE DEF d, n, q
  <2>3. Len(Append(history[d], e)) = n + 1 /\ Append(history[d], e)[n + 1] = e
    BY <1>4, <1>8 DEF n
  <2>4. \A i \in 1..n : Append(history[d], e)[i] = history[d][i]
    BY <1>4, <1>8 DEF n
  <2>5. Append(history[d], e) # <<>>
    BY <1>4, <1>8
  <2> QED
    BY <2>1, <2>2, <2>3, <2>4, <2>5
<1>10. \A p \in Reviewer \ {r} : req'[p] = req[p]
  BY <1>3 DEF ReviewInv, TypeOK
<1>11. req'[r].pc = "idle"
  BY <1>3, <1>5 DEF ReviewInv, TypeOK
<1> HIDE DEF e
<1>12. ASSUME NEW g \in Gate
       PROVE  (StatusOfLast(g) /\ StampsOrdered(g))'
  <2>1. StatusOfLast(g) /\ StampsOrdered(g)
    BY DEF ReviewInv
  <2>2. CASE g = d
    <3>1. StatusOfLast(g)'
      BY <1>4, <1>9, <2>2 DEF StatusOfLast, Status
    <3>2. DOMAIN history'[d] = 1..(n + 1) /\ DOMAIN history[d] = 1..n
      <4>1. history'[d] \in Seq(Entry)
        BY <1>2, <1>6 DEF TypeOK
      <4> QED
        BY <1>8, <1>9, <4>1
    <3>3. e.stamped = q.stamped
      BY DEF e
    <3>4. \A i \in 1..n : history[d][i].stamped < q.stamped
      BY <1>2, <3>2 DEF Holds
    <3>5. q.stamped < clock
      BY <1>2 DEF Holds
    <3>6. ASSUME NEW i \in 1..(n + 1), NEW k \in 1..(n + 1)
          PROVE  /\ i < k => history'[d][i].stamped < history'[d][k].stamped
                 /\ history'[d][i].stamped < clock
      <4> HIDE DEF d, n, q
      <4>1. CASE i = n + 1
        BY <1>8, <1>9, <3>3, <3>5, <4>1
      <4>2. CASE i # n + 1 /\ k = n + 1
        <5>1. i \in 1..n
          BY <1>8, <4>2
        <5>2. history'[d][i] = history[d][i] /\ history'[d][k].stamped = q.stamped
          BY <1>9, <3>3, <4>2, <5>1
        <5>3. history[d][i].stamped < clock
          BY <2>1, <2>2, <3>2, <5>1 DEF StampsOrdered
        <5> QED
          BY <3>4, <5>1, <5>2, <5>3
      <4>3. CASE i # n + 1 /\ k # n + 1
        <5>1. i \in 1..n /\ k \in 1..n
          BY <1>8, <4>3
        <5>2. history'[d][i] = history[d][i] /\ history'[d][k] = history[d][k]
          BY <1>9, <5>1
        <5> QED
          BY <2>1, <2>2, <3>2, <5>1, <5>2 DEF StampsOrdered
      <4> QED
        BY <4>1, <4>2, <4>3
    <3>7. StampsOrdered(g)'
      BY <1>3, <2>2, <3>2, <3>6 DEF StampsOrdered
    <3> QED
      BY <3>1, <3>7
  <2>3. CASE g # d
    BY <1>3, <1>7, <2>1, <2>3 DEF StatusOfLast, StampsOrdered
  <2> QED
    BY <2>2, <2>3
<1>13. ASSUME NEW g \in Gate, NEW i \in 2..Len(history'[g])
       PROVE  ReadOf(history[g][i], g, i - 1)'
  <2>1. CASE g = d /\ i = n + 1
    <3>1. e.base = q.base /\ e.prev = q.prev
      BY DEF e
    <3> HIDE DEF d, n, q
    <3>2. q.base \in 1..n /\ q.prev = history[d][q.base].new /\ q.prev # "PASSED"
      BY <1>2 DEF ReadOf
    <3>3. i - 1 = n /\ history'[d][i] = e /\ history'[d][q.base] = history[d][q.base]
      BY <1>8, <1>9, <2>1, <3>2
    <3> QED
      BY <2>1, <3>1, <3>2, <3>3 DEF ReadOf
  <2>2. CASE g = d /\ i # n + 1
    <3>1. i \in 2..n
      BY <1>8, <1>9, <2>2
    <3>2. ReadOf(history[d][i], d, i - 1)
      BY <1>2, <3>1 DEF ReviewInv
    <3> HIDE DEF d, n, q
    <3>3. history[d][i].base \in 1..(i - 1) /\ history[d][i].base \in 1..n
      BY <1>8, <3>1, <3>2 DEF ReadOf
    <3>4. /\ history'[d][i] = history[d][i]
          /\ history'[d][history[d][i].base] = history[d][history[d][i].base]
      BY <1>8, <1>9, <3>1, <3>3
    <3> QED
      BY <2>2, <3>2, <3>4 DEF ReadOf
  <2>3. CASE g # d
    <3>1. ReadOf(history[g][i], g, i - 1)
      BY <1>7, <2>3 DEF ReviewInv
    <3> QED
      BY <1>7, <2>3, <3>1 DEF ReadOf
  <2> QED
    BY <2>1, <2>2, <2>3
<1>14. ASSUME NEW p \in Reviewer, req'[p].pc # "idle"
       PROVE  (req[p].gate \in Gate
               /\ ReadOf(req[p], req[p].gate, Len(history[req[p].gate])))'
  <2>1. /\ req'[p] = req[p] /\ req[p].gate \in Gate
        /\ ReadOf(req[p], req[p].gate, Len(history[req[p].gate]))
    BY <1>10, <1>11, <1>14 DEF ReviewInv
  <2>2. CASE req[p].gate = d
    <3> HIDE DEF d, n, q
    <3>1. /\ req[p].base \in 1..Len(history[d]) /\ req[p].prev = history[d][req[p].base].new
          /\ req[p].prev # "PASSED"
      BY <2>1, <2>2 DEF ReadOf
    <3>2. req[p].base \in 1..n /\ req[p].base \in 1..(n + 1)
      BY <1>8, <3>1 DEF n
    <3>3. history'[d][req[p].base] = history[d][req[p].base]
      BY <1>9, <3>2
    <3> QED
      BY <1>9, <2>1, <2>2, <3>1, <3>2, <3>3 DEF ReadOf
  <2>3. CASE req[p].gate # d
    BY <1>7, <2>1, <2>3 DEF ReadOf
  <2> QED
    BY <2>2, <2>3
<1>15. ASSUME NEW p \in Reviewer, req'[p].pc = "updated"
       PROVE  Holds(p)'
  <2>1. p # r /\ req'[p] = req[p] /\ Holds(p) /\ req[p].gate \in Gate
    BY <1>10, <1>11, <1>15 DEF ReviewInv
  <2>2. req[p].gate # d
    BY <1>2, <1>15, <2>1 DEF Holds
  <2>3. history'[req[p].gate] = history[req[p].gate]
    BY <1>7, <2>1, <2>2
  <2> QED
    BY <1>3, <1>10, <1>11, <2>1, <2>3 DEF Holds
<1> QED
  BY <1>6, <1>12, <1>13, <1>14, <1>15 DEF ReviewInv

\* ReviewInv is invariant.
THEOREM ReviewInvariant == Spec => []ReviewInv
<1>1. ASSUME ReviewInv, Next PROVE ReviewInv'
  BY <1>1, DecideReview, WorkReview, CommitReview DEF Next
<1>2. ASSUME ReviewInv, UNCHANGED vars PROVE ReviewInv'
  BY <1>2 DEF vars, ReviewInv, TypeOK, StatusOfLast, StampsOrdered, ReadOf, Holds
<1> QED
  BY <1>1, <1>2, InitReview, PTL DEF Spec

\* The events of a decision, ordered by created_at, end at the status in the
\* table (human_review_service.py:79-118).
THEOREM EventsInOrder == Spec => []EventOrderTellsStatus
<1>1. ReviewInv => EventOrderTellsStatus
  <2> SUFFICES ASSUME ReviewInv, NEW g \in Gate, NEW i \in DOMAIN history[g],
                      \A k \in DOMAIN history[g] :
                          history[g][k].stamped <= history[g][i].stamped
               PROVE  gate[g] = history[g][i].new
    BY DEF EventOrderTellsStatus
  <2>1. StatusOfLast(g) /\ StampsOrdered(g)
    BY DEF ReviewInv
  <2> DEFINE n == Len(history[g])
  <2>2. n \in Nat /\ DOMAIN history[g] = 1..n
    BY HistoryTyped DEF ReviewInv
  <2>3. i \in 1..n /\ n \in 1..n /\ history[g] # <<>>
    BY <2>2
  <2>5. history[g][n].stamped \in Nat /\ history[g][i].stamped \in Nat
    BY <2>2, <2>3, HistoryTyped DEF ReviewInv
  <2>6. i = n
    BY <2>1, <2>2, <2>3, <2>5 DEF StampsOrdered
  <2> QED
    BY <2>1, <2>3, <2>6 DEF StatusOfLast
<1> QED
  BY <1>1, ReviewInvariant, PTL

\* Reviews that do not overlap follow GATE_TRANSITIONS and leave a pass alone
\* (human_review_service.py:42-45, domain/state.py:54-74).
THEOREM SequentialReviews == Spec => []SequentialReviewsFollowTheTable
<1>1. ReviewInv => SequentialReviewsFollowTheTable
  <2> SUFFICES ASSUME ReviewInv, NEW g \in Gate, NEW i \in 2..Len(history[g]),
                      history[g][i].base = i - 1
               PROVE  /\ history[g][i].prev = history[g][i - 1].new
                      /\ history[g][i].new \in
                            GateTransitions[history[g][i - 1].new] \cup {history[g][i - 1].new}
                      /\ history[g][i - 1].new # "PASSED"
    BY DEF SequentialReviewsFollowTheTable
  <2>1. ReadOf(history[g][i], g, i - 1) /\ history[g] \in Seq(Entry)
    BY DEF ReviewInv, TypeOK
  <2>2. history[g][i] \in Entry /\ history[g][i - 1] \in Entry
    BY <2>1
  <2> QED
    BY <2>1, <2>2 DEF ReadOf, Entry, GateTransitions, Status
<1> QED
  BY <1>1, ReviewInvariant, PTL

=============================================================================
