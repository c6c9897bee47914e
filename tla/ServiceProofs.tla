--------------------------- MODULE ServiceProofs ---------------------------
(***************************************************************************)
(* Theorems about Signer for clients that post a call again only when no   *)
(* goroutine is on it, and a node whose errors mean refusal: a call is     *)
(* executed at most once, failed and mined are what they say, and the      *)
(* signer implements CallService.  Last, when the line of nonces has no    *)
(* hole.                                                                   *)
(***************************************************************************)
EXTENDS SignerProofs, FiniteSetTheorems

-----------------------------------------------------------------------------
(* The invariant.                                                          *)

\* No two goroutines work on one request.
Alone ==
    \A v, w \in Workers :
        worker[v].id # None /\ worker[v].id = worker[w].id => v = w

\* The account's nonces order what the node has.
ChainInv ==
    /\ \A t \in mempool : t.nonce >= accountNonce
    /\ \A t, u \in mempool : t.nonce = u.nonce => t = u
    /\ \A r \in receipts : r.nonce < accountNonce
    /\ \A r, q \in receipts : r.nonce = q.nonce => r = q

\* What is live is the transaction the row names, and the row says so.
RowInv ==
    \A i \in Ids : \A n \in Live(i) :
        request[i].status \in {"submitted", "mined"} /\ n = request[i].nonce

\* What a goroutine knows of its row and of the node at its next statement.
PointInv(w) ==
    LET v == worker[w]
        row == request[v.id]
    IN
    /\ v.pc = "lock" => row.status \in {"init", "failed"}
    /\ v.pc \in {"remote", "check", "commit"} => row.status = "in_progress"
    /\ v.pc \in {"broadcast", "removing", "lookup", "await", "record"} =>
            row.status = "submitted" /\ row.nonce = v.row.nonce
    /\ v.pc \in {"broadcast", "removing", "failing"} => Live(v.id) = {}
    /\ v.pc = "failing" => row.status \in {"in_progress", "submitted"}

PointsInv == \A w \in Workers : PointInv(w)

ServiceInv ==
    /\ TypeInv /\ CallInv /\ MinedInv
    /\ Alone /\ ChainInv /\ RowInv /\ PointsInv

\* What is live of a request, member by member.
LEMMA LiveIs ==
  ASSUME NEW i
  PROVE  \A n : n \in Live(i) <=>
            \/ \E t \in mempool : t.req = i /\ t.nonce = n
            \/ \E r \in receipts : r.req = i /\ r.ok /\ r.nonce = n
  BY DEF Live

LEMMA StepTypes ==
  ASSUME TypeInv, Next
  PROVE  TypeInv'
  BY NextCases, NodeTypeInv, HandlerTypeInv, SignTypeInv, SubmitTypeInv,
     SettleTypeInv, ProcessTypeInv

LEMMA InitService ==
  ASSUME Init
  PROVE  ServiceInv
<1>1. TypeInv
  BY InitTypeInv
<1>2. Idle.id = None /\ Idle.pc = "idle"
  BY DEF Idle
<1>3. CallInv
  BY <1>2, SignerAssumption DEF Init, CallInv, CallsDeduplicated
<1>4. MinedInv
  BY <1>2 DEF Init, MinedInv, MinedIsTrue, NoRow
<1>5. Alone /\ PointsInv
  BY <1>2 DEF Init, Alone, PointsInv, PointInv
<1>6. ChainInv /\ RowInv
  BY LiveIs DEF Init, ChainInv, RowInv
<1> QED BY <1>1, <1>3, <1>4, <1>5, <1>6 DEF ServiceInv

-----------------------------------------------------------------------------
(* One goroutine a request.                                                *)

LEMMA StepAlone ==
  ASSUME ~Overlap, ServiceInv, Next
  PROVE  Alone'
<1> USE DEF ServiceInv
<1> SUFFICES ASSUME NEW v \in Workers, NEW w \in Workers, v # w,
                    worker'[v].id # None, worker'[v].id = worker'[w].id
             PROVE  FALSE
  BY DEF Alone
<1> DEFINE Begins(x) == Create(x) \/ \E c \in Calls : Post(x, c)
<1>1. ASSUME NEW x \in Workers, NEW y \in Workers, x # y, Begins(x)
      PROVE  /\ worker'[y] = worker[y]
             /\ worker'[x].id # None => worker'[x].id # worker[y].id
  <2>1. worker'[y] = worker[y]
    BY <1>1 DEF Create, Post, TypeInv, TypeOK
  <2>2. CASE Create(x)
    <3>1. PICK i \in Ids :
            /\ request[i] = NoRow
            /\ worker' = [worker EXCEPT ![x] = [Idle EXCEPT !.pc = "read", !.id = i]]
      BY <2>2 DEF Create
    <3>2. worker'[x].id = i /\ i # None
      BY <3>1, SignerAssumption DEF TypeInv, TypeOK, Idle
    <3> QED BY <2>1, <3>1, <3>2 DEF CallInv
  <2>3. ASSUME NEW c \in Calls, Post(x, c) PROVE worker'[x].id # worker[y].id \/ worker[y].id = None
    <3>1. ~WorksOn(y, c)
      BY <2>3 DEF Post
    <3>2. worker'[x].id = contractCall[c]
      BY <2>3 DEF Post, Idle, TypeInv, TypeOK
    <3> QED BY <3>1, <3>2 DEF WorksOn
  <2>4. worker'[x].id # None => worker'[x].id # worker[y].id
    BY <1>1, <2>2, <2>3
  <2> QED BY <2>1, <2>4
<1>2. CASE Begins(v)
  BY <1>1, <1>2
<1>3. CASE Begins(w)
  BY <1>1, <1>3
<1>4. CASE ~Begins(v) /\ ~Begins(w)
  <2>1. worker'[v].id = worker[v].id /\ worker'[w].id = worker[w].id
    BY <1>4, IdsKept
  <2> QED BY <2>1 DEF Alone
<1> QED BY <1>2, <1>3, <1>4

-----------------------------------------------------------------------------
(* Steps of one goroutine.                                                 *)

\* What w does to its own row, the others do not notice.
LEMMA MoveKeeps ==
  ASSUME ServiceInv, NEW w \in Workers, NEW g, worker' = [worker EXCEPT ![w] = g],
         UNCHANGED nodeVars, PointInv(w)',
         \/ UNCHANGED request
         \/ /\ worker[w].id \in Ids
            /\ \E row : request' = [request EXCEPT ![worker[w].id] = row]
            /\ \A n \in Live(worker[w].id) :
                    /\ request'[worker[w].id].status \in {"submitted", "mined"}
                    /\ n = request'[worker[w].id].nonce
  PROVE  ChainInv' /\ RowInv' /\ PointsInv'
<1> USE DEF ServiceInv
<1>1. \A i : Live(i)' = Live(i)
  BY DEF Live, nodeVars
<1>2. ChainInv'
  BY DEF ChainInv, nodeVars
<1>3. \A i \in Ids : request'[i] = request[i] \/ (worker[w].id \in Ids /\ i = worker[w].id)
  BY DEF TypeInv, TypeOK
<1>4. RowInv'
  BY <1>1, <1>3 DEF RowInv
<1>5. ASSUME NEW v \in Workers, v # w PROVE PointInv(v)'
  <2>1. worker'[v] = worker[v] /\ worker[v] \in Goroutine
    BY <1>5 DEF TypeInv, TypeOK
  <2>2. CASE worker[v].pc \in Awaiting
    <3>1. worker[v].id \in Ids /\ worker[v].id # None
      BY <2>2, SignerAssumption DEF TypeInv, Assigned
    <3>2. worker[v].id # worker[w].id
      BY <1>5, <3>1 DEF Alone
    <3>3. request'[worker[v].id] = request[worker[v].id]
      BY <1>3, <3>1, <3>2
    <3> QED BY <1>1, <2>1, <3>3 DEF PointsInv, PointInv
  <2>3. CASE worker[v].pc \notin Awaiting
    BY <2>1, <2>3 DEF PointInv, Awaiting
  <2> QED BY <2>2, <2>3
<1> QED BY <1>2, <1>4, <1>5 DEF PointsInv

LEMMA FinishKeeps ==
  ASSUME ServiceInv, NEW w \in Workers, Finish(w), UNCHANGED <<request, nodeVars>>
  PROVE  ChainInv' /\ RowInv' /\ PointsInv'
<1>1. PointInv(w)'
  BY IdleType DEF Finish, PointInv, ServiceInv, TypeInv, TypeOK
<1> QED BY <1>1, MoveKeeps DEF Finish

LEMMA KillKeeps ==
  ASSUME ServiceInv, NEW P, KillProcess(P), UNCHANGED <<request, nodeVars>>
  PROVE  ChainInv' /\ RowInv' /\ PointsInv'
<1>1. \A i : Live(i)' = Live(i)
  BY DEF Live, nodeVars
<1>2. ChainInv' /\ RowInv'
  BY <1>1 DEF ServiceInv, ChainInv, RowInv, nodeVars
<1>3. ASSUME NEW w \in Workers PROVE PointInv(w)'
  <2>1. CASE worker'[w] = Idle
    BY <2>1, IdleType DEF PointInv
  <2>2. CASE worker'[w] = worker[w]
    BY <1>1, <2>2 DEF ServiceInv, PointsInv, PointInv
  <2> QED BY <2>1, <2>2 DEF KillProcess
<1> QED BY <1>2, <1>3 DEF PointsInv

\* Moving without a word to the database or the node.
LEMMA GotoKeeps ==
  ASSUME ServiceInv, NEW w \in Workers, NEW p, Goto(w, p),
         UNCHANGED <<request, nodeVars>>,
         \/ worker[w].pc = "commit" /\ p = "failing"
         \/ worker[w].pc = "broadcast" /\ p = "removing"
         \/ worker[w].pc = "lookup" /\ p = "await"
         \/ worker[w].pc = "await" /\ p = "record"
         \/ worker[w].pc = "await" /\ p = "failing" /\ Live(worker[w].id) = {}
  PROVE  ChainInv' /\ RowInv' /\ PointsInv'
<1> USE DEF ServiceInv
<1>1. worker[w] \in Goroutine /\ worker[w].id \in Ids
  BY DEF TypeInv, TypeOK, Assigned, Awaiting
<1>2. /\ worker'[w].pc = p /\ worker'[w].id = worker[w].id
      /\ worker'[w].row = worker[w].row
  BY <1>1 DEF Goto, TypeInv, TypeOK, Goroutine
<1>3. \A i : Live(i)' = Live(i)
  BY DEF Live, nodeVars
<1>4. PointInv(w)
  BY DEF PointsInv
<1>5. PointInv(w)'
  <2>1. CASE worker[w].pc = "commit"
    <3>1. Live(worker[w].id) = {}
      BY <1>1, <1>4, <2>1 DEF RowInv, PointInv
    <3> QED BY <1>2, <1>3, <1>4, <2>1, <3>1 DEF PointInv
  <2>2. CASE worker[w].pc # "commit"
    BY <1>2, <1>3, <1>4, <2>2 DEF PointInv
  <2> QED BY <2>1, <2>2
<1>6. \E g : worker' = [worker EXCEPT ![w] = g]
  BY DEF Goto
<1> QED BY <1>5, <1>6, MoveKeeps

LEMMA HandlerKeeps ==
  ASSUME ServiceInv, NEW w \in Workers, Handler(w) \/ \E c \in Calls : Post(w, c)
  PROVE  ChainInv' /\ RowInv' /\ PointsInv'
<1> USE DEF ServiceInv
<1>1. CASE Create(w)
  <2>1. PICK i \in Ids :
          /\ request[i] = NoRow
          /\ request' = [request EXCEPT ![i] = [NoRow EXCEPT !.status = "init"]]
          /\ worker' = [worker EXCEPT ![w] = [Idle EXCEPT !.pc = "read", !.id = i]]
    BY <1>1 DEF Create
  <2>2. UNCHANGED nodeVars
    BY <1>1 DEF Create
  <2>3. \A j : Live(j)' = Live(j)
    BY <2>2 DEF Live, nodeVars
  <2>4. Live(i) = {}
    BY <2>1 DEF RowInv, NoRow
  <2>5. \A j \in Ids : j # i => request'[j] = request[j]
    BY <2>1 DEF TypeInv, TypeOK
  <2>6. RowInv' /\ ChainInv'
    BY <2>2, <2>3, <2>4, <2>5 DEF RowInv, ChainInv, nodeVars
  <2>7. ASSUME NEW v \in Workers PROVE PointInv(v)'
    <3>1. CASE v = w
      BY <2>1, <3>1, IdleType DEF PointInv, TypeInv, TypeOK, Goroutine
    <3>2. CASE v # w
      <4>1. worker'[v] = worker[v]
        BY <2>1, <3>2 DEF TypeInv, TypeOK
      <4>2. CASE worker[v].pc \in Awaiting
        <5>1. worker[v].id \in Ids /\ worker[v].id # None /\ request[worker[v].id] # NoRow
          BY <4>2, SignerAssumption DEF TypeInv, Assigned, CallInv
        <5>2. request'[worker[v].id] = request[worker[v].id]
          BY <2>1, <2>5, <5>1
        <5> QED BY <2>3, <4>1, <5>2 DEF PointsInv, PointInv
      <4>3. CASE worker[v].pc \notin Awaiting
        BY <4>1, <4>3 DEF PointInv, Awaiting
      <4> QED BY <4>2, <4>3
    <3> QED BY <3>1, <3>2
  <2> QED BY <2>6, <2>7 DEF PointsInv
<1>2. CASE CreateRefused(w)
  BY <1>2, FinishKeeps DEF CreateRefused, Finish, dbVars
<1>3. ASSUME NEW c \in Calls, Post(w, c)
      PROVE  ChainInv' /\ RowInv' /\ PointsInv'
  <2> DEFINE g == IF contractCall[c] = None
                  THEN [Idle EXCEPT !.pc = "create", !.call = c]
                  ELSE [Idle EXCEPT !.pc = "read", !.id = contractCall[c]]
  <2>1. worker' = [worker EXCEPT ![w] = g] /\ UNCHANGED <<request, nodeVars>>
    BY <1>3 DEF Post, dbVars
  <2>2. g.pc \in {"create", "read"}
    BY DEF Idle
  <2> HIDE DEF g
  <2>3. worker'[w].pc \in {"create", "read"}
    BY <2>1, <2>2 DEF TypeInv, TypeOK
  <2>4. PointInv(w)'
    BY <2>3 DEF PointInv
  <2> QED BY <2>1, <2>4, MoveKeeps
<1> QED BY <1>1, <1>2, <1>3 DEF Handler

LEMMA SignKeeps ==
  ASSUME ServiceInv, NEW w \in Workers, Sign(w)
  PROVE  ChainInv' /\ RowInv' /\ PointsInv'
<1> USE DEF ServiceInv
<1> DEFINE v == worker[w]
<1>0. v \in Goroutine /\ (v.pc \in Awaiting => v.id \in Ids) /\ PointInv(w)
  BY DEF TypeInv, TypeOK, Assigned, PointsInv
<1>1. CASE Read(w)
  <2> DEFINE row == request[v.id]
             g == CASE row.status \in {"init", "failed"} ->
                         [v EXCEPT !.pc = "lock", !.row = row]
                    [] row.status = "submitted" ->
                         [v EXCEPT !.pc = "lookup", !.row = row]
                    [] OTHER -> Idle
  <2>1. worker' = [worker EXCEPT ![w] = g] /\ UNCHANGED <<request, nodeVars>>
    BY <1>1 DEF Read, TypeInv, TypeOK, dbVars
  <2>2. worker'[w] = g
    BY <2>1 DEF TypeInv, TypeOK
  <2>3. \/ /\ row.status \in {"init", "failed"}
           /\ g = [v EXCEPT !.pc = "lock", !.row = row]
        \/ row.status = "submitted" /\ g = [v EXCEPT !.pc = "lookup", !.row = row]
        \/ g = Idle
    OBVIOUS
  <2>4. \/ row.status \in {"init", "failed"} /\ g.pc = "lock" /\ g.id = v.id
        \/ row.status = "submitted" /\ g.pc = "lookup" /\ g.id = v.id /\ g.row = row
        \/ g.pc = "idle"
    BY <1>0, <2>3, IdleType DEF Goroutine
  <2> HIDE DEF g
  <2>5. PointInv(w)'
    BY <2>1, <2>2, <2>4 DEF PointInv
  <2> QED BY <2>1, <2>5, MoveKeeps
<1>2. CASE Lock(w)
  <2>1. /\ v.pc = "lock" /\ v.id \in Ids /\ v.row \in Row /\ UNCHANGED nodeVars
        /\ request' = [request EXCEPT ![v.id] = [v.row EXCEPT !.status = "in_progress"]]
    BY <1>0, <1>2 DEF Lock, SaveRow, Awaiting, Goroutine
  <2>2. request'[v.id].status = "in_progress"
    BY <2>1 DEF TypeInv, TypeOK, Row
  <2>3. Live(v.id) = {}
    BY <1>0, <2>1 DEF PointInv, RowInv
  <2>4. worker'[w].pc = "remote" /\ worker'[w].id = v.id
    BY <1>0, <1>2 DEF Lock, TypeInv, TypeOK, Goroutine
  <2>5. PointInv(w)'
    BY <2>2, <2>4 DEF PointInv
  <2>6. worker' = [worker EXCEPT ![w] = worker'[w]]
    BY <1>2 DEF Lock, TypeInv, TypeOK
  <2> QED BY <2>1, <2>3, <2>5, <2>6, MoveKeeps
<1>3. CASE RemoteNonce(w) \/ CheckNonce(w) \/ SignFails(w)
  <2>1. /\ v.pc \in {"remote", "check"} /\ v.id \in Ids
        /\ UNCHANGED <<request, nodeVars>>
    BY <1>0, <1>3 DEF RemoteNonce, CheckNonce, SignFails, Awaiting, dbVars
  <2>0. worker' = [worker EXCEPT ![w] = worker'[w]]
    <3>1. CASE RemoteNonce(w)
      BY <3>1 DEF RemoteNonce, TypeInv, TypeOK
    <3>2. CASE CheckNonce(w)
      BY <3>2 DEF CheckNonce, TypeInv, TypeOK
    <3>3. CASE SignFails(w)
      BY <3>3 DEF SignFails, TypeInv, TypeOK
    <3> QED BY <1>3, <3>1, <3>2, <3>3
  <2>2. worker'[w].pc \in {"remote", "check", "commit", "failing"} /\ worker'[w].id = v.id
    <3>1. CASE RemoteNonce(w)
      BY <1>0, <3>1 DEF RemoteNonce, TypeInv, TypeOK, Goroutine
    <3>2. CASE CheckNonce(w)
      BY <1>0, <3>2 DEF CheckNonce, TypeInv, TypeOK, Goroutine
    <3>3. CASE SignFails(w)
      BY <1>0, <3>3 DEF SignFails, TypeInv, TypeOK, Goroutine
    <3> QED BY <1>3, <3>1, <3>2, <3>3
  <2>3. request[v.id].status = "in_progress" /\ Live(v.id) = {}
    BY <1>0, <2>1 DEF PointInv, RowInv
  <2>4. \A i : Live(i)' = Live(i)
    BY <2>1 DEF Live, nodeVars
  <2>5. PointInv(w)'
    BY <2>1, <2>2, <2>3, <2>4 DEF PointInv
  <2> QED BY <2>0, <2>1, <2>5, MoveKeeps
<1> QED BY <1>1, <1>2, <1>3 DEF Sign

\* A transaction on its way is the only thing live of its request.
LEMMA BroadcastKeeps ==
  ASSUME ServiceInv, NEW w \in Workers, Broadcast(w)
  PROVE  ChainInv' /\ RowInv' /\ PointsInv'
<1> USE DEF ServiceInv
<1> DEFINE v == worker[w]
           tx == SignedTx(w)
<1>1. /\ v.pc = "broadcast" /\ v \in Goroutine /\ v.id \in Ids /\ PointInv(w)
      /\ v.id # None
  BY SignerAssumption DEF Broadcast, TypeInv, TypeOK, Assigned, Awaiting, PointsInv
<1>2. /\ mempool' = mempool \cup {tx} /\ NodeAccepts(tx) /\ Goto(w, "await")
      /\ receipts' = receipts /\ accountNonce' = accountNonce /\ request' = request
  BY DEF Broadcast, dbVars
<1>3. tx.req = v.id /\ tx.nonce = v.row.nonce
  BY DEF SignedTx
<1>4. request[v.id].status = "submitted" /\ request[v.id].nonce = tx.nonce /\ Live(v.id) = {}
  BY <1>1, <1>3 DEF PointInv
<1> HIDE DEF tx
<1>5. ChainInv'
  BY <1>2 DEF ChainInv, NodeAccepts
<1>6. \A i : i # v.id => Live(i)' = Live(i)
  BY <1>2, <1>3 DEF Live
<1>7. ASSUME NEW i, i = v.id, NEW n, n \in Live(i)'
      PROVE  n = tx.nonce
  <2>1. \/ \E t \in mempool' : t.req = i /\ t.nonce = n
        \/ \E r \in receipts' : r.req = i /\ r.ok /\ r.nonce = n
    BY <1>7 DEF Live
  <2> QED BY <1>2, <1>4, <1>7, <2>1, LiveIs
<1>8. RowInv'
  <2>1. ASSUME NEW i \in Ids, NEW n \in Live(i)'
        PROVE  request'[i].status \in {"submitted", "mined"} /\ n = request'[i].nonce
    <3>1. CASE i = v.id
      BY <1>2, <1>4, <1>7, <2>1, <3>1
    <3>2. CASE i # v.id
      BY <1>2, <1>6, <2>1, <3>2 DEF RowInv
    <3> QED BY <3>1, <3>2
  <2> QED BY <2>1 DEF RowInv
<1>9. ASSUME NEW u \in Workers PROVE PointInv(u)'
  <2>1. CASE u = w
    <3>1. worker'[w].pc = "await" /\ worker'[w].id = v.id /\ worker'[w].row = v.row
      BY <1>1, <1>2 DEF Goto, TypeInv, TypeOK, Goroutine
    <3> QED BY <1>2, <1>3, <1>4, <2>1, <3>1 DEF PointInv
  <2>2. CASE u # w
    <3>1. worker'[u] = worker[u] /\ worker[u].id # v.id
      BY <1>1, <1>2, <2>2 DEF Goto, TypeInv, TypeOK, Alone
    <3> QED BY <1>2, <1>6, <3>1 DEF PointsInv, PointInv
  <2> QED BY <2>1, <2>2
<1> QED BY <1>5, <1>8, <1>9 DEF PointsInv

LEMMA SubmitKeeps ==
  ASSUME "ambiguous" \notin Faults, ServiceInv, NEW w \in Workers, Submit(w)
  PROVE  ChainInv' /\ RowInv' /\ PointsInv'
<1> USE DEF ServiceInv
<1>1. CASE Commit(w)
  <2> DEFINE v == worker[w]
  <2>1. v.pc = "commit" /\ v \in Goroutine /\ v.id \in Ids /\ v.row \in Row /\ PointInv(w)
    BY <1>1 DEF Commit, TypeInv, TypeOK, Assigned, Awaiting, PointsInv, Goroutine
  <2>2. /\ request' = [request EXCEPT ![v.id] = [v.row EXCEPT !.status = "submitted"]]
        /\ UNCHANGED nodeVars
    BY <1>1 DEF Commit, ReserveNonce, SaveRow
  <2>3. request'[v.id].status = "submitted" /\ request'[v.id].nonce = v.row.nonce
    BY <2>1, <2>2 DEF TypeInv, TypeOK, Row
  <2>4. Live(v.id) = {}
    BY <2>1 DEF PointInv, RowInv
  <2>8. \A i : Live(i)' = Live(i)
    BY <2>2 DEF Live, nodeVars
  <2>5. worker'[w].pc = "broadcast" /\ worker'[w].id = v.id /\ worker'[w].row = v.row
    BY <1>1, <2>1 DEF Commit, TypeInv, TypeOK, Goroutine
  <2>6. PointInv(w)'
    BY <2>3, <2>4, <2>5, <2>8 DEF PointInv
  <2>7. \E g : worker' = [worker EXCEPT ![w] = g]
    BY <1>1 DEF Commit, TypeInv, TypeOK
  <2> QED BY <2>1, <2>2, <2>4, <2>6, <2>7, MoveKeeps
<1>2. CASE CommitFails(w)
  BY <1>2, GotoKeeps DEF CommitFails, dbVars
<1>3. CASE Broadcast(w)
  BY <1>3, BroadcastKeeps
<1>4. CASE BroadcastFails(w)
  BY <1>4, GotoKeeps DEF BroadcastFails, dbVars
<1> QED BY <1>1, <1>2, <1>3, <1>4 DEF Submit, CommitAmbiguous, BroadcastAmbiguous

\* After a revert nothing is live: the receipt has the nonce.
LEMMA RevertedIsDead ==
  ASSUME ServiceInv, NEW w \in Workers, worker[w].pc = "await", NEW r \in receipts,
         r.req = worker[w].id, r.nonce = worker[w].row.nonce, ~r.ok
  PROVE  Live(worker[w].id) = {}
<1> USE DEF ServiceInv
<1>1. worker[w].id \in Ids /\ PointInv(w)
  BY DEF TypeInv, Assigned, Awaiting, PointsInv
<1>2. SUFFICES ASSUME NEW n \in Live(worker[w].id) PROVE FALSE
  OBVIOUS
<1>3. n = r.nonce
  BY <1>1, <1>2 DEF RowInv, PointInv
<1>4. CASE \E t \in mempool : t.req = worker[w].id /\ t.nonce = n
  <2>1. r.nonce < accountNonce /\ r.nonce >= accountNonce
    BY <1>3, <1>4 DEF ChainInv
  <2>2. r.nonce \in Nat /\ accountNonce \in Nat
    BY DEF TypeInv, TypeOK, Receipt
  <2> QED BY <2>1, <2>2
<1>5. CASE \E q \in receipts : q.req = worker[w].id /\ q.ok /\ q.nonce = n
  BY <1>3, <1>5 DEF ChainInv
<1> QED BY <1>2, <1>4, <1>5, LiveIs

\* A save that ends the goroutine's work.
LEMMA SaveKeeps ==
  ASSUME ServiceInv, NEW w \in Workers, worker[w].pc \in Awaiting,
         NEW s \in Status, SaveRow(w, s), Finish(w), UNCHANGED nodeVars,
         \/ Live(worker[w].id) = {}
         \/ s = "mined" /\ worker[w].pc = "record"
  PROVE  ChainInv' /\ RowInv' /\ PointsInv'
<1> USE DEF ServiceInv
<1> DEFINE v == worker[w]
<1>1. v.id \in Ids /\ v.row \in Row /\ PointInv(w)
  BY DEF TypeInv, TypeOK, Assigned, Goroutine, PointsInv
<1>2. request' = [request EXCEPT ![v.id] = [v.row EXCEPT !.status = s]]
  BY DEF SaveRow
<1>3. request'[v.id].status = s /\ request'[v.id].nonce = v.row.nonce
  BY <1>1, <1>2 DEF TypeInv, TypeOK, Row
<1>4. \A n \in Live(v.id) : s = "mined" /\ n = v.row.nonce
  BY <1>1 DEF RowInv, PointInv
<1>5. PointInv(w)'
  BY IdleType DEF Finish, PointInv, TypeInv, TypeOK
<1>6. worker' = [worker EXCEPT ![w] = Idle]
  BY DEF Finish
<1> QED BY <1>1, <1>2, <1>3, <1>4, <1>5, <1>6, MoveKeeps

LEMMA SettleKeeps ==
  ASSUME ServiceInv, NEW w \in Workers, Settle(w)
  PROVE  ChainInv' /\ RowInv' /\ PointsInv'
<1>1. CASE Fail(w) \/ RemoveNonce(w)
  <2>1. Live(worker[w].id) = {}
    BY <1>1 DEF ServiceInv, PointsInv, PointInv, Fail, RemoveNonce
  <2> QED BY <1>1, <2>1, SaveKeeps DEF Fail, RemoveNonce, Awaiting, Status
<1>2. CASE Record(w)
  BY <1>2, SaveKeeps DEF Record, Awaiting, Status
<1>3. CASE FailAborted(w) \/ LookupFails(w) \/ StatementFails(w)
  BY <1>3, FinishKeeps DEF FailAborted, LookupFails, StatementFails, dbVars
<1>4. CASE Lookup(w)
  BY <1>4, GotoKeeps DEF Lookup, dbVars
<1>5. CASE AwaitReceipt(w)
  <2>1. PICK r \in receipts :
          /\ r.req = worker[w].id /\ r.nonce = worker[w].row.nonce
          /\ Goto(w, IF r.ok THEN "record" ELSE "failing")
    BY <1>5 DEF AwaitReceipt
  <2>2. worker[w].pc = "await" /\ UNCHANGED <<request, nodeVars>>
    BY <1>5 DEF AwaitReceipt, dbVars
  <2>3. CASE r.ok
    BY <2>1, <2>2, <2>3, GotoKeeps
  <2>4. CASE ~r.ok
    BY <2>1, <2>2, <2>4, GotoKeeps, RevertedIsDead
  <2> QED BY <2>3, <2>4
<1> QED BY <1>1, <1>2, <1>3, <1>4, <1>5 DEF Settle

LEMMA ProcessKeeps ==
  ASSUME ServiceInv,
         \/ \E w \in Workers : UpdateFails(w) \/ Cancel(w)
         \/ \E P \in Processes : Exit(P)
  PROVE  ChainInv' /\ RowInv' /\ PointsInv'
<1>1. ASSUME NEW w \in Workers, UpdateFails(w)
      PROVE  ChainInv' /\ RowInv' /\ PointsInv'
  BY <1>1, FinishKeeps, KillKeeps DEF UpdateFails, dbVars
<1>2. ASSUME NEW w \in Workers, Cancel(w)
      PROVE  ChainInv' /\ RowInv' /\ PointsInv'
  <2>1. worker[w] \in Goroutine /\ PointInv(w)
    BY DEF ServiceInv, TypeInv, TypeOK, PointsInv
  <2>2. UNCHANGED <<request, nodeVars>> /\ \E g : worker' = [worker EXCEPT ![w] = g]
    BY <1>2 DEF Cancel, dbVars, ServiceInv, TypeInv, TypeOK
  <2>3. /\ worker'[w].pc = worker[w].pc /\ worker'[w].id = worker[w].id
        /\ worker'[w].row = worker[w].row
    BY <1>2, <2>1 DEF Cancel, ServiceInv, TypeInv, TypeOK, Goroutine
  <2>4. \A i : Live(i)' = Live(i)
    BY <2>2 DEF Live, nodeVars
  <2>5. PointInv(w)'
    BY <2>1, <2>2, <2>3, <2>4 DEF PointInv
  <2> QED BY <2>2, <2>5, MoveKeeps
<1>3. ASSUME NEW P \in Processes, Exit(P)
      PROVE  ChainInv' /\ RowInv' /\ PointsInv'
  BY <1>3, KillKeeps DEF Exit, dbVars
<1> QED BY <1>1, <1>2, <1>3

-----------------------------------------------------------------------------
(* Steps of the chain.                                                     *)

LEMMA LessLives ==
  ASSUME ServiceInv, UNCHANGED <<dbVars, worker>>, ChainInv',
         \A i \in Ids : Live(i)' \subseteq Live(i)
  PROVE  ChainInv' /\ RowInv' /\ PointsInv'
<1>1. request' = request /\ worker' = worker
  BY DEF dbVars
<1>2. RowInv'
  BY <1>1 DEF ServiceInv, RowInv
<1>3. ASSUME NEW w \in Workers PROVE PointInv(w)'
  <2>1. worker[w].pc \in Awaiting => worker[w].id \in Ids
    BY DEF ServiceInv, TypeInv, Assigned
  <2>2. PointInv(w)
    BY DEF ServiceInv, PointsInv
  <2> QED BY <1>1, <2>1, <2>2 DEF PointInv, Awaiting
<1> QED BY <1>2, <1>3 DEF PointsInv

LEMMA MineIs ==
  ASSUME ServiceInv, NEW t \in mempool, NEW ok \in BOOLEAN, Mine(t, ok)
  PROVE  ChainInv' /\ \A i \in Ids : Live(i)' \subseteq Live(i)
<1> DEFINE r == [req |-> t.req, nonce |-> t.nonce, ok |-> ok]
<1>1. /\ mempool' = mempool \ {t} /\ receipts' = receipts \cup {r}
      /\ t.nonce = accountNonce /\ accountNonce' = accountNonce + 1
  BY DEF Mine
<1>2. /\ accountNonce \in Nat /\ \A u \in mempool : u.nonce \in Nat
      /\ \A q \in receipts : q.nonce \in Nat
  BY DEF ServiceInv, TypeInv, TypeOK, Tx, Receipt
<1>3. r.nonce = t.nonce /\ r.req = t.req /\ r.ok = ok
  OBVIOUS
<1> HIDE DEF r
<1>4. ChainInv'
  BY <1>1, <1>2, <1>3 DEF ServiceInv, ChainInv
<1>5. ASSUME NEW i \in Ids, NEW n \in Live(i)' PROVE n \in Live(i)
  <2>1. \/ \E u \in mempool' : u.req = i /\ u.nonce = n
        \/ \E q \in receipts' : q.req = i /\ q.ok /\ q.nonce = n
    BY <1>5 DEF Live
  <2> QED BY <1>1, <1>3, <2>1, LiveIs
<1> QED BY <1>4, <1>5

LEMMA NodeKeeps ==
  ASSUME ServiceInv,
         \/ \E t \in mempool, ok \in BOOLEAN : Mine(t, ok)
         \/ \E t \in mempool : Drop(t)
  PROVE  ChainInv' /\ RowInv' /\ PointsInv'
<1>1. ASSUME NEW t \in mempool, NEW ok \in BOOLEAN, Mine(t, ok)
      PROVE  ChainInv' /\ RowInv' /\ PointsInv'
  BY <1>1, MineIs, LessLives DEF Mine
<1>2. ASSUME NEW t \in mempool, Drop(t)
      PROVE  ChainInv' /\ RowInv' /\ PointsInv'
  <2>1. \A i \in Ids : Live(i)' \subseteq Live(i)
    BY <1>2 DEF Drop, Live
  <2>2. ChainInv'
    BY <1>2 DEF Drop, ServiceInv, ChainInv
  <2> QED BY <1>2, <2>1, <2>2, LessLives DEF Drop
<1> QED BY <1>1, <1>2

LEMMA StepService ==
  ASSUME ~Overlap, "ambiguous" \notin Faults, ServiceInv, [Next]_vars
  PROVE  ServiceInv'
<1>1. CASE Next
  <2>1. TypeInv' /\ CallInv' /\ MinedInv' /\ Alone'
    BY <1>1, StepTypes, StepCalls, StepMined, StepAlone DEF ServiceInv
  <2>2. ChainInv' /\ RowInv' /\ PointsInv'
    BY <1>1, NextCases, HandlerKeeps, SignKeeps, SubmitKeeps, SettleKeeps,
       ProcessKeeps, NodeKeeps
  <2> QED BY <2>1, <2>2 DEF ServiceInv
<1>2. CASE UNCHANGED vars
  <2>1. \A i : Live(i)' = Live(i)
    BY <1>2 DEF Live, vars, nodeVars
  <2>2. TypeInv' /\ CallInv' /\ MinedInv' /\ Alone' /\ ChainInv'
    BY <1>2 DEF ServiceInv, TypeInv, TypeOK, Assigned, CallInv, CallsDeduplicated,
                MinedInv, MinedIsTrue, Alone, ChainInv, vars, dbVars, nodeVars
  <2>3. RowInv' /\ PointsInv'
    BY <1>2, <2>1 DEF ServiceInv, RowInv, PointsInv, PointInv, vars, dbVars
  <2> QED BY <2>2, <2>3 DEF ServiceInv
<1> QED BY <1>1, <1>2

LEMMA ServiceCorrect ==
  ASSUME ~Overlap, "ambiguous" \notin Faults
  PROVE  Spec => []ServiceInv
<1>1. ServiceInv /\ [Next]_vars => ServiceInv'
  BY StepService
<1> QED BY InitService, <1>1, PTL DEF Spec

\* When clients do not post a call again while a goroutine is on it, and an
\* error means refusal, the call is executed at most once and no second
\* transaction for it waits in the pool, whatever crashes, reverts or is
\* evicted, and however often it is posted (AwaitTransaction's idempotence).
THEOREM AtMostOnceCorrect ==
  ASSUME ~Overlap, "ambiguous" \notin Faults
  PROVE  Spec => []AtMostOnce
<1>1. ServiceInv => AtMostOnce
  BY DEF ServiceInv, RowInv, AtMostOnce
<1> QED BY ServiceCorrect, <1>1, PTL

\* For the same clients and node, a row says failed only while nothing of the
\* request is executed or on its way: posting the call again is safe.
THEOREM FailedMeansNotExecutedCorrect ==
  ASSUME ~Overlap, "ambiguous" \notin Faults
  PROVE  Spec => []FailedMeansNotExecuted
<1>1. ServiceInv => FailedMeansNotExecuted
  <2> SUFFICES ASSUME ServiceInv, NEW i \in Ids, request[i].status = "failed",
                      NEW n \in Live(i)
               PROVE  FALSE
    BY DEF FailedMeansNotExecuted
  <2> QED BY DEF ServiceInv, RowInv
<1> QED BY ServiceCorrect, <1>1, PTL

-----------------------------------------------------------------------------
(* What a save does to the status a client reads.                          *)

\* The statements that save a row, with the status before and after.
Saves(w, before, after) ==
    /\ worker[w].id \in Ids /\ worker[w].id # None /\ worker[w].row \in Row
    /\ SaveRow(w, after) /\ UNCHANGED contractCall
    /\ request[worker[w].id].status \in before

LEMMA SaveCases ==
  ASSUME "ambiguous" \notin Faults, ServiceInv, Next
  PROVE  \/ UNCHANGED <<request, contractCall>>
         \/ \E w \in Workers :
              \/ Create(w)
              \/ Saves(w, {"init", "failed"}, "in_progress")
              \/ Saves(w, {"in_progress"}, "submitted")
              \/ /\ Saves(w, {"in_progress", "submitted"}, "failed")
                 /\ Live(worker[w].id) = {}
              \/ /\ Saves(w, {"submitted"}, "mined")
                 /\ [req |-> worker[w].id, nonce |-> worker[w].row.nonce,
                      ok |-> TRUE] \in receipts
<1>1. ASSUME NEW w \in Workers, worker[w].pc \in Awaiting
      PROVE  /\ worker[w].id \in Ids /\ worker[w].id # None /\ worker[w].row \in Row
             /\ PointInv(w)
  BY <1>1, SignerAssumption
     DEF ServiceInv, TypeInv, TypeOK, Assigned, Goroutine, PointsInv
<1>2. ASSUME NEW w \in Workers, Lock(w)
      PROVE  Saves(w, {"init", "failed"}, "in_progress")
  BY <1>1, <1>2 DEF Lock, Saves, PointInv, Awaiting
<1>3. ASSUME NEW w \in Workers, Commit(w)
      PROVE  Saves(w, {"in_progress"}, "submitted")
  BY <1>1, <1>3 DEF Commit, ReserveNonce, Saves, PointInv, Awaiting
<1>4. ASSUME NEW w \in Workers, Fail(w) \/ RemoveNonce(w)
      PROVE  /\ Saves(w, {"in_progress", "submitted"}, "failed")
             /\ Live(worker[w].id) = {}
  BY <1>1, <1>4 DEF Fail, RemoveNonce, Saves, PointInv, Awaiting
<1>5. ASSUME NEW w \in Workers, Record(w)
      PROVE  /\ Saves(w, {"submitted"}, "mined")
             /\ [req |-> worker[w].id, nonce |-> worker[w].row.nonce,
                  ok |-> TRUE] \in receipts
  BY <1>1, <1>5 DEF Record, Saves, PointInv, Awaiting, ServiceInv, MinedInv
<1> QED BY Writers, <1>2, <1>3, <1>4, <1>5 DEF CommitAmbiguous, dbVars

\* Once a row says mined, no goroutine writes it again.
THEOREM MinedIsFinalCorrect ==
  ASSUME ~Overlap, "ambiguous" \notin Faults
  PROVE  Spec => MinedIsFinal
<1> DEFINE Final == \A i \in Ids : request[i].status = "mined" => request'[i] = request[i]
<1>1. ServiceInv /\ [Next]_vars => [Final]_vars
  <2> SUFFICES ASSUME ServiceInv, Next, NEW i \in Ids, request[i].status = "mined"
               PROVE  request'[i] = request[i]
    OBVIOUS
  <2>1. ASSUME NEW w \in Workers, Create(w) PROVE request'[i] = request[i]
    BY <2>1 DEF Create, NoRow, ServiceInv, TypeInv, TypeOK
  <2>2. ASSUME NEW w \in Workers, NEW B, NEW a, Saves(w, B, a), "mined" \notin B
        PROVE  request'[i] = request[i]
    BY <2>2 DEF Saves, SaveRow, ServiceInv, TypeInv, TypeOK
  <2> QED BY <2>1, <2>2, SaveCases
<1> HIDE DEF Final
<1>2. Spec => [][Final]_vars
  BY ServiceCorrect, <1>1, PTL DEF Spec
<1> QED BY <1>2 DEF MinedIsFinal, Final

-----------------------------------------------------------------------------
(* The signer implements CallService.                                      *)

Done(c) == \E r \in receipts : r.req = contractCall[c] /\ r.ok

Shown(status) ==
    IF status \in {"init", "in_progress", "submitted"} THEN "pending" ELSE status

StatusOf(c) == IF contractCall[c] = None THEN "none" ELSE request[contractCall[c]].status

\* A request has one successful receipt or none.
LEMMA OneReceipt ==
  ASSUME ServiceInv, NEW c \in Calls
  PROVE  Cardinality({r \in receipts : r.req = contractCall[c] /\ r.ok})
            = IF Done(c) THEN 1 ELSE 0
<1> DEFINE S == {r \in receipts : r.req = contractCall[c] /\ r.ok}
<1>1. CASE ~Done(c)
  <2>1. S = {}
    BY <1>1 DEF Done
  <2> QED BY <1>1, <2>1, FS_EmptySet
<1>2. CASE Done(c)
  <2>1. PICK r \in receipts : r.req = contractCall[c] /\ r.ok
    BY <1>2 DEF Done
  <2>2. r.req \in Ids
    BY DEF ServiceInv, TypeInv, TypeOK, Receipt
  <2>3. ASSUME NEW q \in S PROVE q = r
    <3>1. q.nonce \in Live(r.req) /\ r.nonce \in Live(r.req)
      BY <2>1, <2>3, LiveIs
    <3>2. q.nonce = r.nonce
      BY <2>2, <3>1 DEF ServiceInv, RowInv
    <3> QED BY <2>3, <3>2 DEF ServiceInv, ChainInv
  <2>4. S = {r}
    BY <2>1, <2>3
  <2> QED BY <1>2, <2>4, FS_Singleton
<1> QED BY <1>1, <1>2

LEMMA Abstracts ==
  ServiceInv =>
    /\ executed = [c \in Calls |-> IF Done(c) THEN 1 ELSE 0]
    /\ shown = [c \in Calls |-> Shown(StatusOf(c))]
  BY OneReceipt DEF executed, shown, Shown, StatusOf

LEMMA AbstractsNext ==
  ServiceInv' =>
    /\ executed' = [c \in Calls |-> IF Done(c)' THEN 1 ELSE 0]
    /\ shown' = [c \in Calls |-> Shown(StatusOf(c)')]
<1>1. (ServiceInv =>
        /\ executed = [c \in Calls |-> IF Done(c) THEN 1 ELSE 0]
        /\ shown = [c \in Calls |-> Shown(StatusOf(c))])'
  BY Abstracts, PTL
<1> QED BY <1>1

\* A save changes what the clients of one call read.
LEMMA SaveShows ==
  ASSUME ServiceInv, ServiceInv', NEW w \in Workers, NEW before, NEW after,
         Saves(w, before, after), UNCHANGED receipts
  PROVE  \E c \in Calls :
            /\ contractCall[c] = worker[w].id
            /\ executed' = executed
            /\ shown' = [shown EXCEPT ![c] = Shown(after)]
            /\ \E status \in before : shown[c] = Shown(status)
<1> DEFINE i == worker[w].id
<1>1. /\ i \in Ids /\ i # None /\ contractCall' = contractCall
      /\ request[i].status \in before
      /\ request' = [request EXCEPT ![i] = [worker[w].row EXCEPT !.status = after]]
      /\ request'[i].status = after
  BY DEF Saves, SaveRow, ServiceInv, TypeInv, TypeOK, Row
<1>2. PICK c \in Calls : contractCall[c] = i
  BY <1>1 DEF ServiceInv, CallInv, CallsDeduplicated
<1>3. \A d \in Calls : d # c => contractCall[d] # i
  BY <1>1, <1>2 DEF ServiceInv, CallInv, CallsDeduplicated
<1>4. \A d \in Calls : d # c => StatusOf(d)' = StatusOf(d)
  BY <1>1, <1>3 DEF StatusOf, ServiceInv, TypeInv, TypeOK
<1>5. StatusOf(c) = request[i].status /\ StatusOf(c)' = after
  BY <1>1, <1>2 DEF StatusOf
<1>6. \A d \in Calls : Done(d)' = Done(d)
  BY <1>1 DEF Done
<1>7. executed' = executed
  BY <1>6, Abstracts, AbstractsNext
<1>8. shown' = [shown EXCEPT ![c] = Shown(after)] /\ shown[c] = Shown(request[i].status)
  BY <1>4, <1>5, Abstracts, AbstractsNext
<1> QED BY <1>1, <1>2, <1>7, <1>8

LEMMA CreateImplements ==
  ASSUME ServiceInv, ServiceInv', NEW w \in Workers, Create(w)
  PROVE  Service!Next
<1>0. PICK c \in Calls : c = worker[w].call
  BY DEF Create, ServiceInv, TypeInv, Assigned
<1>1. PICK i \in Ids :
        /\ request[i] = NoRow
        /\ request' = [request EXCEPT ![i] = [NoRow EXCEPT !.status = "init"]]
        /\ contractCall' = [contractCall EXCEPT ![c] = i]
  BY <1>0 DEF Create
<1>2. /\ i # None /\ contractCall[c] = None
      /\ receipts' = receipts
  BY <1>0, SignerAssumption DEF Create, nodeVars
<1>3. \A d \in Calls : contractCall[d] # i
  BY <1>1 DEF ServiceInv, CallInv, CallsDeduplicated
<1>4. \A d \in Calls : contractCall'[d] = IF d = c THEN i ELSE contractCall[d]
  BY <1>1 DEF ServiceInv, TypeInv, TypeOK
<1>5. request'[i].status = "init" /\ \A j \in Ids : j # i => request'[j] = request[j]
  BY <1>1 DEF NoRow, ServiceInv, TypeInv, TypeOK
<1>6. \A d \in Calls : d # c => StatusOf(d)' = StatusOf(d)
  BY <1>3, <1>4, <1>5 DEF StatusOf, ServiceInv, TypeInv, TypeOK
<1>7. StatusOf(c) = "none" /\ StatusOf(c)' = "init"
  BY <1>2, <1>4, <1>5 DEF StatusOf
<1>8. Live(i) = {}
  BY <1>1 DEF ServiceInv, RowInv, NoRow
<1>9. \A r \in receipts : r.ok => r.req # i /\ r.req # None
  <2>1. \A r \in receipts : r.req \in Ids
    BY DEF ServiceInv, TypeInv, TypeOK, Receipt
  <2> QED BY <1>8, <2>1, LiveIs, SignerAssumption
<1>10. \A d \in Calls : Done(d)' = Done(d)
  BY <1>2, <1>4, <1>9 DEF Done
<1>11. executed' = executed
  BY <1>10, Abstracts, AbstractsNext
<1>12. shown[c] = "none" /\ shown' = [shown EXCEPT ![c] = "pending"]
  <2>1. Shown("none") = "none" /\ Shown("init") = "pending"
    BY DEF Shown
  <2> QED BY <1>2, <1>6, <1>7, <2>1, Abstracts, AbstractsNext
<1> QED BY <1>2, <1>11, <1>12 DEF Service!Next, Service!Accept, Service!Show

LEMMA SaveImplements ==
  ASSUME "ambiguous" \notin Faults, ServiceInv, ServiceInv', Next, UNCHANGED receipts,
         ~\E w \in Workers : Create(w)
  PROVE  [Service!Next]_(Service!vars)
<1> USE DEF Service!Next, Service!Show, Service!vars
<1>1. /\ shown = [d \in Calls |-> shown[d]]
      /\ \A d \in Calls : executed[d] = IF Done(d) THEN 1 ELSE 0
  BY Abstracts
<1>2. /\ Shown("failed") = "failed" /\ Shown("mined") = "mined"
      /\ Shown("init") = "pending" /\ Shown("in_progress") = "pending"
      /\ Shown("submitted") = "pending"
  BY DEF Shown
<1>3. CASE UNCHANGED <<request, contractCall>>
  BY <1>3 DEF shown, executed
<1>4. ASSUME NEW w \in Workers, Saves(w, {"init", "failed"}, "in_progress")
      PROVE  [Service!Next]_(Service!vars)
  <2>1. PICK c \in Calls :
          /\ executed' = executed
          /\ shown' = [shown EXCEPT ![c] = "pending"]
          /\ shown[c] \in {"pending", "failed"}
    BY <1>2, <1>4, SaveShows
  <2> QED BY <1>1, <2>1 DEF Service!Retry
<1>5. ASSUME NEW w \in Workers, Saves(w, {"in_progress"}, "submitted")
      PROVE  [Service!Next]_(Service!vars)
  <2>1. PICK c \in Calls :
          /\ executed' = executed
          /\ shown' = [shown EXCEPT ![c] = "pending"]
          /\ shown[c] = "pending"
    BY <1>2, <1>5, SaveShows
  <2> QED BY <1>1, <2>1
<1>6. ASSUME NEW w \in Workers, Saves(w, {"in_progress", "submitted"}, "failed"),
             Live(worker[w].id) = {}
      PROVE  [Service!Next]_(Service!vars)
  <2>1. PICK c \in Calls :
          /\ contractCall[c] = worker[w].id
          /\ executed' = executed
          /\ shown' = [shown EXCEPT ![c] = "failed"]
          /\ shown[c] = "pending"
    BY <1>2, <1>6, SaveShows
  <2>2. ~Done(c)
    <3> SUFFICES ASSUME NEW r \in receipts, r.req = worker[w].id, r.ok PROVE FALSE
      BY <2>1 DEF Done
    <3>1. r.nonce \in Live(worker[w].id)
      BY LiveIs
    <3> QED BY <1>6, <3>1
  <2>3. executed[c] = 0
    BY <1>1, <2>2
  <2> QED BY <2>1, <2>3 DEF Service!Refuse
<1>7. ASSUME NEW w \in Workers, Saves(w, {"submitted"}, "mined"),
             [req |-> worker[w].id, nonce |-> worker[w].row.nonce, ok |-> TRUE] \in receipts
      PROVE  [Service!Next]_(Service!vars)
  <2>1. PICK c \in Calls :
          /\ contractCall[c] = worker[w].id
          /\ executed' = executed
          /\ shown' = [shown EXCEPT ![c] = "mined"]
          /\ shown[c] = "pending"
    BY <1>2, <1>7, SaveShows
  <2>2. executed[c] = 1
    BY <1>1, <1>7, <2>1 DEF Done
  <2> QED BY <2>1, <2>2 DEF Service!Confirm
<1> QED BY SaveCases, <1>3, <1>4, <1>5, <1>6, <1>7

\* A block executes the call of the one transaction it mines.
LEMMA MineImplements ==
  ASSUME ServiceInv, ServiceInv', NEW t \in mempool, NEW ok \in BOOLEAN, Mine(t, ok)
  PROVE  [Service!Next]_(Service!vars)
<1> DEFINE r == [req |-> t.req, nonce |-> t.nonce, ok |-> ok]
<1>1. /\ t.nonce = accountNonce /\ UNCHANGED <<request, contractCall>>
      /\ receipts' = receipts \cup {r}
  BY DEF Mine, dbVars
<1>2. r.req = t.req /\ r.ok = ok
  OBVIOUS
<1> HIDE DEF r
<1>3. shown' = shown
  BY <1>1 DEF shown
<1>4. \A d \in Calls : Done(d)' <=> Done(d) \/ (ok /\ contractCall[d] = t.req)
  BY <1>1, <1>2 DEF Done
<1>5. CASE ~(ok /\ \E d \in Calls : contractCall[d] = t.req)
  <2>1. executed' = executed
    BY <1>4, <1>5, Abstracts, AbstractsNext
  <2> QED BY <1>3, <2>1 DEF Service!vars
<1>6. ASSUME ok, NEW c \in Calls, contractCall[c] = t.req
      PROVE  Service!Next
  <2>1. t.req \in Ids /\ t.req # None
    BY SignerAssumption DEF ServiceInv, TypeInv, TypeOK, Tx
  <2>2. \A d \in Calls : d # c => contractCall[d] # t.req
    BY <1>6, <2>1 DEF ServiceInv, CallInv, CallsDeduplicated
  <2>3. t.nonce \in Live(t.req)
    BY LiveIs
  <2>4. request[t.req].status \in {"submitted", "mined"} /\ t.nonce = request[t.req].nonce
    BY <2>1, <2>3 DEF ServiceInv, RowInv
  <2>5. \A q \in receipts : q.nonce # t.nonce
    <3>1. \A q \in receipts : q.nonce \in Nat /\ q.nonce < accountNonce
      BY DEF ServiceInv, ChainInv, TypeInv, TypeOK, Receipt
    <3>2. accountNonce \in Nat
      BY DEF ServiceInv, TypeInv, TypeOK
    <3> QED BY <1>1, <3>1, <3>2
  <2>6. ~Done(c)
    <3> SUFFICES ASSUME NEW q \in receipts, q.req = t.req, q.ok PROVE FALSE
      BY <1>6 DEF Done
    <3>1. q.nonce \in Live(t.req)
      BY LiveIs
    <3> QED BY <2>1, <2>4, <2>5, <3>1 DEF ServiceInv, RowInv
  <2>7. request[t.req].status # "mined"
    BY <2>1, <2>4, <2>5 DEF ServiceInv, MinedInv, MinedIsTrue
  <2>8. shown[c] = "pending"
    BY <1>6, <2>1, <2>4, <2>7, Abstracts DEF StatusOf, Shown
  <2>9. executed[c] = 0 /\ executed' = [executed EXCEPT ![c] = 1]
    BY <1>4, <1>6, <2>2, <2>6, Abstracts, AbstractsNext
  <2> QED BY <1>3, <2>8, <2>9 DEF Service!Next, Service!Execute
<1> QED BY <1>5, <1>6

LEMMA StepImplements ==
  ASSUME ~Overlap, "ambiguous" \notin Faults, ServiceInv, ServiceInv', [Next]_vars
  PROVE  [Service!Next]_(Service!vars)
<1>1. CASE UNCHANGED vars
  BY <1>1 DEF vars, dbVars, nodeVars, Service!vars, shown, executed
<1>2. ASSUME NEW t \in mempool, NEW ok \in BOOLEAN, Mine(t, ok)
      PROVE  [Service!Next]_(Service!vars)
  BY <1>2, MineImplements
<1>3. ASSUME NEW w \in Workers, Create(w)
      PROVE  [Service!Next]_(Service!vars)
  BY <1>3, CreateImplements
<1> QED BY <1>1, <1>2, <1>3, SaveImplements, ReceiptCases

\* For clients that post a call again only when no goroutine is on it, and a
\* node whose errors mean refusal, the signer is the service CallService:
\* what GetTxHash shows and what the chain executed move together as it says,
\* through every interleaving, crash, restart, revert and eviction.
THEOREM ServiceImplemented ==
  ASSUME ~Overlap, "ambiguous" \notin Faults
  PROVE  Spec => ImplementsService
<1>1. Init => Service!Init
  <2> SUFFICES ASSUME Init PROVE Service!Init
    OBVIOUS
  <2>1. \A c \in Calls : ~Done(c) /\ Shown(StatusOf(c)) = "none"
    BY DEF Init, Done, StatusOf, Shown
  <2> QED BY <2>1, InitService, Abstracts DEF Service!Init
<1>2. ServiceInv /\ ServiceInv' /\ [Next]_vars => [Service!Next]_(Service!vars)
  BY StepImplements
<1>3. Spec => Service!Init /\ [][Service!Next]_(Service!vars)
  BY ServiceCorrect, <1>1, <1>2, PTL DEF Spec
<1> QED BY <1>3 DEF ImplementsService, Service!Spec

-----------------------------------------------------------------------------
(* The line of nonces, when only RPCs fail and transactions revert.        *)

Uncancelled == \A w \in Workers : ~worker[w].cancelled

\* Without crashes and shutdowns, a step moves at most one goroutine.
LEMMA QuietCases ==
  ASSUME TypeInv, Faults \subseteq {"rpc", "revert"}, Next
  PROVE  \/ UNCHANGED worker
         \/ \E w \in Workers :
              /\ \/ Handler(w) \/ (\E c \in Calls : Post(w, c))
                 \/ Sign(w) \/ Submit(w) \/ Settle(w)
              /\ \A v \in Workers : v # w => worker'[v] = worker[v]
<1>1. ASSUME NEW w \in Workers, NEW g, worker' = [worker EXCEPT ![w] = g]
      PROVE  \A v \in Workers : v # w => worker'[v] = worker[v]
  BY <1>1 DEF TypeInv, TypeOK
<1>2. ASSUME NEW w \in Workers, Handler(w) \/ \E c \in Calls : Post(w, c)
      PROVE  \A v \in Workers : v # w => worker'[v] = worker[v]
  BY <1>2 DEF Handler, Create, CreateRefused, Post, TypeInv, TypeOK
<1>3. ASSUME NEW w \in Workers, Sign(w)
      PROVE  \A v \in Workers : v # w => worker'[v] = worker[v]
  BY <1>3 DEF Sign, Read, Lock, RemoteNonce, CheckNonce, SignFails, TypeInv, TypeOK
<1>4. ASSUME NEW w \in Workers, Submit(w)
      PROVE  \A v \in Workers : v # w => worker'[v] = worker[v]
  BY <1>4 DEF Submit, Commit, CommitFails, CommitAmbiguous, Broadcast, BroadcastFails,
              BroadcastAmbiguous, Goto, TypeInv, TypeOK
<1>5. ASSUME NEW w \in Workers, Settle(w)
      PROVE  \A v \in Workers : v # w => worker'[v] = worker[v]
  BY <1>5 DEF Settle, Fail, RemoveNonce, FailAborted, Lookup, LookupFails,
              AwaitReceipt, Record, StatementFails, Goto, Finish, TypeInv, TypeOK
<1>6. CASE \/ \E t \in mempool, ok \in BOOLEAN : Mine(t, ok)
           \/ \E t \in mempool : Drop(t)
  BY <1>6 DEF Mine, Drop
<1>7. /\ \A w \in Workers : ~(UpdateFails(w) \/ Cancel(w))
      /\ \A P \in Processes : ~Exit(P)
  BY DEF UpdateFails, Cancel, Exit
<1> QED BY NextCases, <1>2, <1>3, <1>4, <1>5, <1>6, <1>7

LEMMA StepUncancelled ==
  ASSUME TypeInv, Faults \subseteq {"rpc", "revert"}, Uncancelled, Next
  PROVE  Uncancelled'
<1> SUFFICES ASSUME NEW w \in Workers, worker'[w] # worker[w]
             PROVE  ~worker'[w].cancelled
  BY DEF Uncancelled
<1>0. worker[w] \in Goroutine /\ ~worker[w].cancelled /\ ~Idle.cancelled
  BY DEF TypeInv, TypeOK, Uncancelled, Idle
<1>1. CASE Handler(w) \/ \E c \in Calls : Post(w, c)
  <2>1. ASSUME NEW i, worker'[w] = [Idle EXCEPT !.pc = "read", !.id = i]
        PROVE  ~worker'[w].cancelled
    BY <2>1 DEF Idle
  <2>2. ASSUME NEW c, worker'[w] = [Idle EXCEPT !.pc = "create", !.call = c]
        PROVE  ~worker'[w].cancelled
    BY <2>2 DEF Idle
  <2>3. \/ worker'[w] = Idle
        \/ \E i : worker'[w] = [Idle EXCEPT !.pc = "read", !.id = i]
        \/ \E c : worker'[w] = [Idle EXCEPT !.pc = "create", !.call = c]
    BY <1>1 DEF Handler, Create, CreateRefused, Post, TypeInv, TypeOK
  <2> QED BY <1>0, <2>1, <2>2, <2>3
<1>2. CASE Sign(w)
  <2>1. CASE Read(w)
    <3>1. \/ worker'[w] = Idle
          \/ worker'[w] = [worker[w] EXCEPT !.pc = "lock", !.row = request[worker[w].id]]
          \/ worker'[w] = [worker[w] EXCEPT !.pc = "lookup", !.row = request[worker[w].id]]
      BY <2>1 DEF Read, TypeInv, TypeOK
    <3> QED BY <1>0, <3>1 DEF Goroutine
  <2>2. CASE Lock(w)
    BY <1>0, <2>2 DEF Lock, TypeInv, TypeOK, Goroutine
  <2>3. CASE RemoteNonce(w)
    BY <1>0, <2>3 DEF RemoteNonce, TypeInv, TypeOK, Goroutine
  <2>4. CASE CheckNonce(w)
    BY <1>0, <2>4 DEF CheckNonce, TypeInv, TypeOK, Goroutine
  <2>5. CASE SignFails(w)
    BY <1>0, <2>5 DEF SignFails, TypeInv, TypeOK, Goroutine
  <2> QED BY <1>2, <2>1, <2>2, <2>3, <2>4, <2>5 DEF Sign
<1>3. CASE Submit(w)
  <2>1. CASE Commit(w)
    BY <1>0, <2>1 DEF Commit, TypeInv, TypeOK, Goroutine
  <2>2. CASE ~Commit(w)
    <3>1. \E p : Goto(w, p)
      BY <1>3, <2>2 DEF Submit, CommitFails, CommitAmbiguous, Broadcast, BroadcastFails,
                        BroadcastAmbiguous
    <3> QED BY <1>0, <3>1 DEF Goto, TypeInv, TypeOK, Goroutine
  <2> QED BY <2>1, <2>2
<1>4. CASE Settle(w)
  <2>1. Finish(w) \/ \E p : Goto(w, p)
    BY <1>4 DEF Settle, Fail, RemoveNonce, FailAborted, Lookup, LookupFails,
                AwaitReceipt, Record, StatementFails
  <2> QED BY <1>0, <2>1 DEF Finish, Goto, TypeInv, TypeOK, Goroutine
<1> QED BY <1>1, <1>2, <1>3, <1>4, QuietCases

\* A holder leaves only by a broadcast or with its reservation.
LEMMA HoldersStay ==
  ASSUME TypeInv, Faults \subseteq {"rpc", "revert"}, Uncancelled, Next,
         NEW w \in Workers, Holding(w), ~Broadcast(w), ~RemoveNonce(w)
  PROVE  Holding(w)' /\ worker'[w].nonceId = worker[w].nonceId
<1>1. CASE worker'[w] = worker[w]
  BY <1>1 DEF Holding
<1>2. CASE worker'[w] # worker[w]
  <2>1. \/ Handler(w) \/ (\E c \in Calls : Post(w, c))
        \/ Sign(w) \/ Submit(w) \/ Settle(w)
    BY <1>2, QuietCases
  <2>2. ~(Handler(w) \/ (\E c \in Calls : Post(w, c)) \/ Sign(w))
    BY DEF Holding, Handler, Create, CreateRefused, Post, Sign, Read, Lock,
           RemoteNonce, CheckNonce, SignFails
  <2>3. ~Settle(w)
    BY DEF Holding, Uncancelled, Settle, Fail, FailAborted, Lookup, LookupFails,
           AwaitReceipt, Record, StatementFails
  <2>4. BroadcastFails(w)
    BY <2>1, <2>2, <2>3
       DEF Holding, Submit, Commit, CommitFails, CommitAmbiguous, BroadcastAmbiguous
  <2> QED BY <2>4 DEF BroadcastFails, Goto, Holding, TypeInv, TypeOK, Goroutine
<1> QED BY <1>1, <1>2

\* Nothing the node has is lost unless it evicts transactions.
LEMMA NodeKeepsAll ==
  ASSUME TypeInv, "drop" \notin Faults, Next
  PROVE  OnNode \subseteq OnNode'
<1>1. CASE UNCHANGED nodeVars
  BY <1>1 DEF OnNode, nodeVars
<1>2. ASSUME NEW t \in mempool, NEW ok \in BOOLEAN, Mine(t, ok)
      PROVE  OnNode \subseteq OnNode'
  <2> DEFINE r == [req |-> t.req, nonce |-> t.nonce, ok |-> ok]
  <2>1. mempool' = mempool \ {t} /\ receipts' = receipts \cup {r}
    BY <1>2 DEF Mine
  <2>2. t = [req |-> r.req, nonce |-> r.nonce]
    BY DEF TypeInv, TypeOK, Tx
  <2> HIDE DEF r
  <2> QED BY <2>1, <2>2 DEF OnNode
<1>3. ASSUME NEW w \in Workers, Broadcast(w) \/ BroadcastAmbiguous(w)
      PROVE  OnNode \subseteq OnNode'
  BY <1>3 DEF Broadcast, BroadcastAmbiguous, OnNode
<1>4. ASSUME NEW w \in Workers,
             \/ Handler(w) \/ (\E c \in Calls : Post(w, c)) \/ Sign(w)
             \/ UpdateFails(w) \/ Cancel(w)
      PROVE  UNCHANGED nodeVars
  BY <1>4 DEF Handler, Create, CreateRefused, Post, Sign, Read, Lock, RemoteNonce,
              CheckNonce, SignFails, UpdateFails, Cancel
<1>5. ASSUME NEW w \in Workers, Submit(w)
      PROVE  UNCHANGED nodeVars \/ Broadcast(w) \/ BroadcastAmbiguous(w)
  BY <1>5 DEF Submit, Commit, CommitFails, CommitAmbiguous, BroadcastFails
<1>6. ASSUME NEW w \in Workers, Settle(w) PROVE UNCHANGED nodeVars
  BY <1>6 DEF Settle, Fail, RemoveNonce, FailAborted, Lookup, LookupFails,
              AwaitReceipt, Record, StatementFails
<1>7. ASSUME NEW P \in Processes, Exit(P) PROVE UNCHANGED nodeVars
  BY <1>7 DEF Exit
<1>8. \A t \in mempool : ~Drop(t)
  BY DEF Drop
<1> QED BY NextCases, <1>1, <1>2, <1>3, <1>4, <1>5, <1>6, <1>7, <1>8

\* Where a row of transaction_nonce comes from.
LEMMA NonceRowCases ==
  ASSUME TypeInv, "ambiguous" \notin Faults, Next, NEW t \in nonceTable'
  PROVE  \/ t \in nonceTable /\ \A w \in Workers : RemoveNonce(w) => t.id # worker[w].nonceId
         \/ \E w \in Workers : Holding(w)' /\ worker'[w].nonceId = t.id
<1>1. ASSUME NEW w \in Workers, Commit(w), t \notin nonceTable
      PROVE  Holding(w)' /\ worker'[w].nonceId = t.id
  <2>1. t.id = nonceSeq + 1
    BY <1>1 DEF Commit, ReserveNonce
  <2> QED BY <1>1, <2>1 DEF Commit, Holding, TypeInv, TypeOK, Goroutine
<1>2. ASSUME NEW w \in Workers, RemoveNonce(w)
      PROVE  t \in nonceTable /\ t.id # worker[w].nonceId
  BY <1>2 DEF RemoveNonce
<1>3. CASE \E w \in Workers : RemoveNonce(w)
  BY <1>2, <1>3
<1>4. CASE ~\E w \in Workers : Commit(w) \/ RemoveNonce(w)
  BY <1>4, TableCases DEF CommitAmbiguous
<1> QED BY <1>1, <1>2, <1>3, <1>4

LEMMA StepOrphan ==
  ASSUME Faults \subseteq {"rpc", "revert"}, TypeInv, ReservationInv, Uncancelled,
         NoOrphanReservation, Next
  PROVE  NoOrphanReservation'
<1> SUFFICES ASSUME NEW t \in nonceTable'
             PROVE  \/ [req |-> t.req, nonce |-> t.nonce] \in OnNode'
                    \/ \E w \in Workers : Holding(w)' /\ worker'[w].nonceId = t.id
  BY DEF NoOrphanReservation, Holding
<1>1. CASE t \in nonceTable /\ \A w \in Workers : RemoveNonce(w) => t.id # worker[w].nonceId
  <2>1. CASE [req |-> t.req, nonce |-> t.nonce] \in OnNode
    BY <2>1, NodeKeepsAll
  <2>2. ASSUME NEW w \in Workers, Holding(w), worker[w].nonceId = t.id
        PROVE  \/ [req |-> t.req, nonce |-> t.nonce] \in OnNode'
               \/ Holding(w)' /\ worker'[w].nonceId = t.id
    <3>1. CASE Broadcast(w)
      <4>1. t = HeldRow(w)
        BY <1>1, <2>2 DEF ReservationInv, HeldRow
      <4>2. SignedTx(w) = [req |-> t.req, nonce |-> t.nonce]
        BY <4>1 DEF HeldRow, SignedTx
      <4> QED BY <3>1, <4>2 DEF Broadcast, OnNode
    <3>2. CASE ~Broadcast(w)
      BY <1>1, <2>2, <3>2, HoldersStay
    <3> QED BY <3>1, <3>2
  <2> QED BY <1>1, <2>1, <2>2 DEF NoOrphanReservation, Holding
<1> QED BY <1>1, NonceRowCases

\* If only RPCs fail and transactions revert, every reservation of a nonce is
\* used or given back, with any number of replicas and overlapping posts: no
\* request waits in awaitAvailableNonce behind a nonce nobody will send.
THEOREM NoOrphanCorrect ==
  ASSUME Faults \subseteq {"rpc", "revert"}
  PROVE  Spec => []NoOrphanReservation
<1> DEFINE Line == Uncancelled /\ NoOrphanReservation
<1>1. Init => Line
  BY DEF Init, Uncancelled, NoOrphanReservation, Idle
<1>2. TypeInv /\ ReservationInv /\ Line /\ [Next]_vars => Line'
  <2>1. ASSUME Line, UNCHANGED vars PROVE Line'
    BY <2>1 DEF Uncancelled, NoOrphanReservation, OnNode, vars, dbVars, nodeVars
  <2> QED BY <2>1, StepUncancelled, StepOrphan
<1>3. TypeInv /\ ReservationInv /\ [Next]_vars => ReservationInv'
  <2>1. ASSUME ReservationInv, UNCHANGED vars PROVE ReservationInv'
    BY <2>1 DEF ReservationInv, SubmittedIsReserved, Holding, HeldRow, vars, dbVars
  <2> QED BY <2>1, StepReservation
<1>4. Line => NoOrphanReservation
  OBVIOUS
<1> HIDE DEF Line
<1> QED BY InitReservation, TypeCorrect, <1>1, <1>2, <1>3, <1>4, PTL DEF Spec

=============================================================================
