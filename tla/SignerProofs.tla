---------------------------- MODULE SignerProofs ----------------------------
(***************************************************************************)
(* Theorems about Signer that hold for every value of its constants: any   *)
(* number of calls, goroutines, replicas and POST requests, and every set  *)
(* of faults the theorem does not exclude.                                 *)
(***************************************************************************)
EXTENDS Signer, TLAPS

-----------------------------------------------------------------------------
(* Types.  TypeOK is inductive only together with what a goroutine knows   *)
(* at each control point: the handler has a call, AwaitTransaction an id.  *)

Assigned ==
    \A w \in Workers :
        /\ worker[w].pc = "create" => worker[w].call \in Calls
        /\ worker[w].pc \in Awaiting => worker[w].id \in Ids

TypeInv == TypeOK /\ Assigned

LEMMA IdleType == Idle \in Goroutine /\ Idle.pc = "idle"
  BY DEF Idle, Goroutine, NoRow, Row, Status, NoNonce

LEMMA InitTypeInv == Init => TypeInv
<1>1. Init => TypeOK
  BY IdleType, SignerAssumption
     DEF Init, TypeOK, NoRow, Row, Status, NoNonce
<1>2. Init => Assigned
  BY IdleType DEF Init, Assigned, Awaiting
<1> QED BY <1>1, <1>2 DEF TypeInv

\* Saving the local copy of a row leaves a table of rows.
LEMMA SaveRowType ==
  ASSUME TypeOK, NEW w \in Workers, NEW s \in Status, SaveRow(w, s)
  PROVE  request' \in [Ids -> Row]
<1>1. worker[w].row \in Row
  BY DEF TypeOK, Goroutine
<1>2. [worker[w].row EXCEPT !.status = s] \in Row
  BY <1>1 DEF Row
<1> QED BY <1>2 DEF TypeOK, SaveRow

\* Moving one goroutine to a well-formed state keeps all of them so.
LEMMA WorkerType ==
  ASSUME TypeInv, NEW w \in Workers, NEW g \in Goroutine,
         g.pc = "create" => g.call \in Calls,
         g.pc \in Awaiting => g.id \in Ids,
         worker' = [worker EXCEPT ![w] = g]
  PROVE  worker' \in [Workers -> Goroutine] /\ Assigned'
  BY DEF TypeInv, TypeOK, Assigned

LEMMA GotoType ==
  ASSUME TypeInv, NEW w \in Workers, worker[w].pc \in Awaiting,
         NEW p \in Awaiting, Goto(w, p)
  PROVE  worker' \in [Workers -> Goroutine] /\ Assigned'
<1> DEFINE g == [worker[w] EXCEPT !.pc = p]
<1>1. worker[w] \in Goroutine /\ worker[w].id \in Ids
  BY DEF TypeInv, TypeOK, Assigned
<1>2. g \in Goroutine /\ g.pc = p /\ g.id \in Ids
  BY <1>1 DEF Goroutine
<1>3. worker' = [worker EXCEPT ![w] = g]
  BY DEF Goto, TypeInv, TypeOK
<1>4. p # "create"
  BY DEF Awaiting
<1> QED BY <1>2, <1>3, <1>4, WorkerType

LEMMA FinishType ==
  ASSUME TypeInv, NEW w \in Workers, Finish(w)
  PROVE  worker' \in [Workers -> Goroutine] /\ Assigned'
<1>1. Idle.pc # "create" /\ Idle.pc \notin Awaiting
  BY IdleType DEF Awaiting
<1> QED BY <1>1, IdleType, WorkerType DEF Finish

LEMMA KillType ==
  ASSUME TypeInv, NEW P, KillProcess(P)
  PROVE  worker' \in [Workers -> Goroutine] /\ Assigned'
<1>1. Idle.pc # "create" /\ Idle.pc \notin Awaiting
  BY IdleType DEF Awaiting
<1> QED BY <1>1, IdleType DEF TypeInv, TypeOK, Assigned, KillProcess

-----------------------------------------------------------------------------
(* Every step preserves the types.                                         *)

LEMMA NodeTypeInv ==
  ASSUME TypeInv,
         \/ \E t \in mempool, ok \in BOOLEAN : Mine(t, ok)
         \/ \E t \in mempool : Drop(t)
  PROVE  TypeInv'
<1>1. CASE \E t \in mempool, ok \in BOOLEAN : Mine(t, ok)
  <2>1. PICK t \in mempool, ok \in BOOLEAN : Mine(t, ok)
    BY <1>1
  <2>2. [req |-> t.req, nonce |-> t.nonce, ok |-> ok] \in Receipt
    BY DEF TypeInv, TypeOK, Tx, Receipt
  <2> QED BY <2>1, <2>2 DEF TypeInv, TypeOK, Assigned, Mine, dbVars
<1>2. CASE \E t \in mempool : Drop(t)
  BY <1>2 DEF TypeInv, TypeOK, Assigned, Drop, dbVars
<1> QED BY <1>1, <1>2

LEMMA HandlerTypeInv ==
  ASSUME TypeInv, NEW w \in Workers,
         Handler(w) \/ \E c \in Calls : Post(w, c)
  PROVE  TypeInv'
<1>1. CASE Create(w)
  <2>1. PICK i \in Ids :
          /\ request' = [request EXCEPT ![i] = [NoRow EXCEPT !.status = "init"]]
          /\ contractCall' = [contractCall EXCEPT ![worker[w].call] = i]
          /\ worker' = [worker EXCEPT ![w] = [Idle EXCEPT !.pc = "read", !.id = i]]
    BY <1>1 DEF Create
  <2>2. [NoRow EXCEPT !.status = "init"] \in Row
    BY DEF NoRow, Row, Status, NoNonce
  <2>3. worker' \in [Workers -> Goroutine] /\ Assigned'
    <3> DEFINE g == [Idle EXCEPT !.pc = "read", !.id = i]
    <3>1. g \in Goroutine /\ g.pc = "read" /\ g.id = i
      BY IdleType DEF Goroutine, Awaiting
    <3> QED BY <2>1, <3>1, WorkerType
  <2> QED BY <1>1, <2>1, <2>2, <2>3 DEF TypeInv, TypeOK, Create, nodeVars
<1>2. CASE CreateRefused(w)
  BY <1>2, FinishType
     DEF TypeInv, TypeOK, CreateRefused, Finish, dbVars, nodeVars
<1>3. ASSUME NEW c \in Calls, Post(w, c) PROVE TypeInv'
  <2> DEFINE g == IF contractCall[c] = None
                  THEN [Idle EXCEPT !.pc = "create", !.call = c]
                  ELSE [Idle EXCEPT !.pc = "read", !.id = contractCall[c]]
  <2>1. /\ g \in Goroutine
        /\ g.pc = "create" => g.call \in Calls
        /\ g.pc \in Awaiting => g.id \in Ids
    BY IdleType DEF Goroutine, Awaiting, TypeInv, TypeOK
  <2>2. worker' = [worker EXCEPT ![w] = g]
    BY <1>3 DEF Post
  <2>3. worker' \in [Workers -> Goroutine] /\ Assigned'
    BY <2>1, <2>2, WorkerType
  <2>4. posts' = posts + 1 /\ UNCHANGED <<dbVars, nodeVars>>
    BY <1>3 DEF Post
  <2> QED BY <2>3, <2>4 DEF TypeInv, TypeOK, dbVars, nodeVars
<1> QED BY <1>1, <1>2, <1>3 DEF Handler

LEMMA SignTypeInv ==
  ASSUME TypeInv, NEW w \in Workers, Sign(w)
  PROVE  TypeInv'
<1> DEFINE v == worker[w]
<1>0. v \in Goroutine /\ (v.pc \in Awaiting => v.id \in Ids)
  BY DEF TypeInv, TypeOK, Assigned
<1>1. CASE Read(w)
  <2> DEFINE row == request[v.id]
             g == CASE row.status \in {"init", "failed"} ->
                         [v EXCEPT !.pc = "lock", !.row = row]
                    [] row.status = "submitted" ->
                         [v EXCEPT !.pc = "lookup", !.row = row]
                    [] OTHER -> Idle
  <2>1. v.id \in Ids /\ row \in Row
    BY <1>0, <1>1 DEF Read, Awaiting, TypeInv, TypeOK
  <2>2. \/ g = [v EXCEPT !.pc = "lock", !.row = row]
        \/ g = [v EXCEPT !.pc = "lookup", !.row = row]
        \/ g = Idle
    OBVIOUS
  <2>3. /\ g \in Goroutine
        /\ g.pc = "create" => g.call \in Calls
        /\ g.pc \in Awaiting => g.id \in Ids
    BY <1>0, <2>1, <2>2, IdleType DEF Goroutine, Awaiting
  <2>4. worker' = [worker EXCEPT ![w] = g]
    BY <1>1 DEF Read, TypeInv, TypeOK
  <2> HIDE DEF g
  <2>5. worker' \in [Workers -> Goroutine] /\ Assigned'
    BY <2>3, <2>4, WorkerType
  <2> QED BY <1>1, <2>5 DEF TypeInv, TypeOK, Read, dbVars, nodeVars
<1>2. CASE Lock(w)
  <2> DEFINE g == [v EXCEPT !.pc = "remote", !.row.status = "in_progress"]
  <2>1. g \in Goroutine /\ g.pc = "remote" /\ g.id \in Ids
    BY <1>0, <1>2 DEF Lock, Goroutine, Row, Status, Awaiting
  <2>2. worker' = [worker EXCEPT ![w] = g]
    BY <1>2 DEF Lock, TypeInv, TypeOK
  <2>3. worker' \in [Workers -> Goroutine] /\ Assigned'
    BY <2>1, <2>2, WorkerType
  <2>4. request' \in [Ids -> Row]
    BY <1>2, SaveRowType DEF Lock, TypeInv, Status
  <2> QED BY <1>2, <2>3, <2>4 DEF TypeInv, TypeOK, Lock, nodeVars
<1>3. CASE RemoteNonce(w)
  <2>1. PICK n \in PendingNonces :
          worker' = [worker EXCEPT ![w].pc = "check", ![w].remote = n]
    BY <1>3 DEF RemoteNonce
  <2>2. n \in Nat
    BY DEF PendingNonces, TypeInv, TypeOK
  <2> DEFINE g == [v EXCEPT !.pc = "check", !.remote = n]
  <2>3. g \in Goroutine /\ g.pc = "check" /\ g.id \in Ids
    BY <1>0, <1>3, <2>2 DEF RemoteNonce, Goroutine, Awaiting
  <2>4. worker' = [worker EXCEPT ![w] = g]
    BY <2>1 DEF TypeInv, TypeOK
  <2>5. worker' \in [Workers -> Goroutine] /\ Assigned'
    BY <2>3, <2>4, WorkerType
  <2> QED BY <1>3, <2>5 DEF TypeInv, TypeOK, RemoteNonce, dbVars, nodeVars
<1>4. CASE CheckNonce(w)
  <2> DEFINE g == [v EXCEPT !.pc = "commit", !.remote = NoNonce,
                            !.row = [status |-> "submitted", nonce |-> v.remote]]
             h == [v EXCEPT !.pc = "remote", !.remote = NoNonce]
  <2>1. /\ g \in Goroutine /\ g.pc = "commit" /\ g.id \in Ids
        /\ h \in Goroutine /\ h.pc = "remote" /\ h.id \in Ids
    BY <1>0, <1>4 DEF CheckNonce, Goroutine, Row, Status, Awaiting, NoNonce
  <2>2. worker' = [worker EXCEPT ![w] = g] \/ worker' = [worker EXCEPT ![w] = h]
    BY <1>4 DEF CheckNonce, TypeInv, TypeOK
  <2>3. worker' \in [Workers -> Goroutine] /\ Assigned'
    BY <2>1, <2>2, WorkerType
  <2> QED BY <1>4, <2>3 DEF TypeInv, TypeOK, CheckNonce, dbVars, nodeVars
<1>5. CASE SignFails(w)
  <2> DEFINE g == [v EXCEPT !.pc = "failing", !.remote = NoNonce]
  <2>1. g \in Goroutine /\ g.pc = "failing" /\ g.id \in Ids
    BY <1>0, <1>5 DEF SignFails, Goroutine, Awaiting, NoNonce
  <2>2. worker' = [worker EXCEPT ![w] = g]
    BY <1>5 DEF SignFails, TypeInv, TypeOK
  <2>3. worker' \in [Workers -> Goroutine] /\ Assigned'
    BY <2>1, <2>2, WorkerType
  <2> QED BY <1>5, <2>3 DEF TypeInv, TypeOK, SignFails, dbVars, nodeVars
<1> QED BY <1>1, <1>2, <1>3, <1>4, <1>5 DEF Sign

\* Reserving a nonce adds one row to each of two tables.
LEMMA ReserveType ==
  ASSUME TypeInv, NEW w \in Workers, worker[w].pc \in Awaiting, ReserveNonce(w)
  PROVE  /\ request' \in [Ids -> Row]
         /\ nonceTable' \in SUBSET NonceRow
         /\ nonceSeq' \in Nat
         /\ worker[w].row.nonce \in Nat
<1>1. worker[w].id \in Ids /\ worker[w].row.nonce \in Nat
  BY DEF TypeInv, TypeOK, Assigned, Goroutine, Row, ReserveNonce, Insertable, NoNonce
<1>2. nonceSeq' = nonceSeq + 1 /\ nonceSeq' \in Nat
  BY DEF ReserveNonce, TypeInv, TypeOK
<1>3. [id |-> nonceSeq + 1, nonce |-> worker[w].row.nonce, req |-> worker[w].id]
        \in NonceRow
  BY <1>1, <1>2 DEF NonceRow, ReserveNonce
<1>4. nonceTable' \in SUBSET NonceRow
  BY <1>3 DEF ReserveNonce, TypeInv, TypeOK
<1>5. request' \in [Ids -> Row]
  BY SaveRowType DEF ReserveNonce, TypeInv, Status
<1> QED BY <1>1, <1>2, <1>4, <1>5

\* A transaction the node accepts has a natural nonce.
LEMMA AcceptedType ==
  ASSUME TypeInv, NEW w \in Workers, worker[w].pc \in Awaiting,
         NodeAccepts(SignedTx(w))
  PROVE  SignedTx(w) \in Tx
  BY DEF TypeInv, TypeOK, Assigned, Goroutine, Row, SignedTx, NodeAccepts, Tx, NoNonce

LEMMA SubmitTypeInv ==
  ASSUME TypeInv, NEW w \in Workers, Submit(w)
  PROVE  TypeInv'
<1> USE DEF Awaiting
<1>1. CASE Commit(w)
  <2> DEFINE g == [worker[w] EXCEPT !.pc = "broadcast", !.nonceId = nonceSeq + 1]
  <2>0. worker[w] \in Goroutine /\ worker[w].id \in Ids /\ nonceSeq + 1 \in Nat
    BY <1>1 DEF Commit, TypeInv, TypeOK, Assigned
  <2>1. g \in Goroutine /\ g.pc = "broadcast" /\ g.id \in Ids
    BY <2>0 DEF Goroutine
  <2>2. worker' = [worker EXCEPT ![w] = g]
    BY <1>1 DEF Commit, TypeInv, TypeOK
  <2>3. worker' \in [Workers -> Goroutine] /\ Assigned'
    BY <2>1, <2>2, WorkerType
  <2> QED BY <1>1, <2>3, ReserveType DEF TypeInv, TypeOK, Commit, nodeVars
<1>2. CASE CommitFails(w)
  BY <1>2, GotoType DEF TypeInv, TypeOK, CommitFails, dbVars, nodeVars
<1>3. CASE CommitAmbiguous(w)
  <2>1. worker' \in [Workers -> Goroutine] /\ Assigned'
    BY <1>3, GotoType DEF CommitAmbiguous
  <2>2. worker[w].pc \in Awaiting /\ ReserveNonce(w)
    BY <1>3 DEF CommitAmbiguous
  <2>3. /\ request' \in [Ids -> Row]
        /\ nonceTable' \in SUBSET NonceRow
        /\ nonceSeq' \in Nat
    BY <2>2, ReserveType
  <2> QED BY <1>3, <2>1, <2>3 DEF TypeInv, TypeOK, CommitAmbiguous, nodeVars
<1>4. CASE Broadcast(w) \/ BroadcastAmbiguous(w)
  <2>1. SignedTx(w) \in Tx
    BY <1>4, AcceptedType DEF Broadcast, BroadcastAmbiguous
  <2> QED BY <1>4, <2>1, GotoType
          DEF TypeInv, TypeOK, Broadcast, BroadcastAmbiguous, dbVars
<1>5. CASE BroadcastFails(w)
  BY <1>5, GotoType DEF TypeInv, TypeOK, BroadcastFails, dbVars, nodeVars
<1> QED BY <1>1, <1>2, <1>3, <1>4, <1>5 DEF Submit

LEMMA SettleTypeInv ==
  ASSUME TypeInv, NEW w \in Workers, Settle(w)
  PROVE  TypeInv'
<1>1. CASE Fail(w)
  BY <1>1, FinishType, SaveRowType DEF TypeInv, TypeOK, Fail, Status, nodeVars
<1>2. CASE RemoveNonce(w)
  BY <1>2, FinishType, SaveRowType DEF TypeInv, TypeOK, RemoveNonce, Status, nodeVars
<1>3. CASE Record(w)
  BY <1>3, FinishType, SaveRowType DEF TypeInv, TypeOK, Record, Status, nodeVars
<1>4. CASE FailAborted(w) \/ LookupFails(w) \/ StatementFails(w)
  BY <1>4, FinishType
     DEF TypeInv, TypeOK, FailAborted, LookupFails, StatementFails, dbVars, nodeVars
<1>5. CASE Lookup(w) \/ AwaitReceipt(w)
  <2>1. /\ worker[w].pc \in Awaiting
        /\ \E p \in Awaiting : Goto(w, p)
        /\ UNCHANGED <<dbVars, nodeVars, posts>>
    BY <1>5 DEF Lookup, AwaitReceipt, Awaiting
  <2> QED BY <2>1, GotoType DEF TypeInv, TypeOK, dbVars, nodeVars
<1> QED BY <1>1, <1>2, <1>3, <1>4, <1>5 DEF Settle

LEMMA ProcessTypeInv ==
  ASSUME TypeInv,
         \/ \E w \in Workers : UpdateFails(w) \/ Cancel(w)
         \/ \E P \in Processes : Exit(P)
  PROVE  TypeInv'
<1>1. ASSUME NEW w \in Workers, UpdateFails(w) PROVE TypeInv'
  BY <1>1, FinishType, KillType DEF TypeInv, TypeOK, UpdateFails, dbVars, nodeVars
<1>2. ASSUME NEW w \in Workers, Cancel(w) PROVE TypeInv'
  <2> DEFINE g == [worker[w] EXCEPT !.cancelled = TRUE]
  <2>1. g \in Goroutine /\ g.pc \in Awaiting /\ g.pc # "create" /\ g.id \in Ids
    BY <1>2 DEF Cancel, TypeInv, TypeOK, Assigned, Goroutine, Awaiting
  <2>2. worker' = [worker EXCEPT ![w] = g]
    BY <1>2 DEF Cancel, TypeInv, TypeOK
  <2>3. worker' \in [Workers -> Goroutine] /\ Assigned'
    BY <2>1, <2>2, WorkerType
  <2> QED BY <1>2, <2>3 DEF TypeInv, TypeOK, Cancel, dbVars, nodeVars
<1>3. ASSUME NEW P \in Processes, Exit(P) PROVE TypeInv'
  BY <1>3, KillType DEF TypeInv, TypeOK, Exit, dbVars, nodeVars
<1> QED BY <1>1, <1>2, <1>3

\* Next by kind of step; every induction below follows it.
LEMMA NextCases ==
  ASSUME Next
  PROVE  \/ \E t \in mempool, ok \in BOOLEAN : Mine(t, ok)
         \/ \E t \in mempool : Drop(t)
         \/ \E w \in Workers : Handler(w) \/ \E c \in Calls : Post(w, c)
         \/ \E w \in Workers : Sign(w)
         \/ \E w \in Workers : Submit(w)
         \/ \E w \in Workers : Settle(w)
         \/ \E w \in Workers : UpdateFails(w) \/ Cancel(w)
         \/ \E P \in Processes : Exit(P)
  BY DEF Next, WorkerStep

\* The tables, the node and the goroutines always hold well-formed values, and
\* a goroutine always has the call or the request its control point needs.
THEOREM TypeCorrect == Spec => []TypeInv
<1>1. TypeInv /\ [Next]_vars => TypeInv'
  <2>1. ASSUME TypeInv, Next PROVE TypeInv'
    BY <2>1, NextCases, NodeTypeInv, HandlerTypeInv, SignTypeInv, SubmitTypeInv,
       SettleTypeInv, ProcessTypeInv
  <2>2. ASSUME TypeInv, UNCHANGED vars PROVE TypeInv'
    BY <2>2 DEF TypeInv, TypeOK, Assigned, vars, dbVars, nodeVars
  <2> QED BY <2>1, <2>2
<1> QED BY InitTypeInv, <1>1, PTL DEF Spec

\* In particular every run of the signer is well typed.
THEOREM TypeOKCorrect == Spec => []TypeOK
<1>1. TypeInv => TypeOK
  BY DEF TypeInv
<1> QED BY TypeCorrect, <1>1, PTL

-----------------------------------------------------------------------------
(* Reservations.  A goroutine between the commit and the broadcast, or     *)
(* about to take its reservation back, holds a row of transaction_nonce.   *)

Holding(w) == worker[w].pc \in {"broadcast", "removing"}

HeldRow(w) == [id |-> worker[w].nonceId, nonce |-> worker[w].row.nonce,
               req |-> worker[w].id]

ReservationInv ==
    /\ \A t, u \in nonceTable : t.id = u.id \/ t.nonce = u.nonce => t = u
    /\ \A t \in nonceTable : t.id <= nonceSeq
    /\ \A w \in Workers : Holding(w) => HeldRow(w) \in nonceTable
    /\ \A v, w \in Workers :
         Holding(v) /\ Holding(w) /\ worker[v].nonceId = worker[w].nonceId => v = w
    /\ SubmittedIsReserved

\* Control points at which a goroutine acts on what an earlier step of it
\* found or wrote.  Only a commit or a receipt brings a goroutine there, and
\* every other step that leaves it there leaves what it knows alone.
Critical == {"broadcast", "removing", "record"}

KeepsPoint(w) ==
    worker'[w].pc \in Critical =>
        /\ HeldRow(w)' = HeldRow(w)
        /\ \/ worker'[w].pc = worker[w].pc
           \/ worker[w].pc = "broadcast" /\ worker'[w].pc = "removing"

KeepsPoints ==
    \A w \in Workers : Commit(w) \/ AwaitReceipt(w) \/ KeepsPoint(w)

LEMMA MoveKeepsPoints ==
  ASSUME TypeInv, NEW w \in Workers, NEW g,
         worker' = [worker EXCEPT ![w] = g],
         \/ Commit(w) \/ AwaitReceipt(w)
         \/ g.pc \notin Critical
         \/ /\ \/ g.pc = worker[w].pc
               \/ worker[w].pc = "broadcast" /\ g.pc = "removing"
            /\ g.nonceId = worker[w].nonceId
            /\ g.row = worker[w].row /\ g.id = worker[w].id
  PROVE  KeepsPoints
<1> SUFFICES ASSUME NEW v \in Workers, ~Commit(v), ~AwaitReceipt(v)
             PROVE  KeepsPoint(v)
  BY DEF KeepsPoints
<1>1. CASE v = w
  <2>1. worker'[v] = g
    BY <1>1 DEF TypeInv, TypeOK
  <2> QED BY <1>1, <2>1 DEF KeepsPoint, HeldRow
<1>2. CASE v # w
  <2>1. worker'[v] = worker[v]
    BY <1>2 DEF TypeInv, TypeOK
  <2> QED BY <2>1 DEF KeepsPoint, HeldRow
<1> QED BY <1>1, <1>2

LEMMA FinishKeepsPoints ==
  ASSUME TypeInv, NEW w \in Workers, Finish(w)
  PROVE  KeepsPoints
  BY MoveKeepsPoints, IdleType DEF Finish, Critical

LEMMA GotoKeepsPoints ==
  ASSUME TypeInv, NEW w \in Workers, NEW p, Goto(w, p),
         \/ AwaitReceipt(w)
         \/ p \notin Critical
         \/ worker[w].pc = "broadcast" /\ p = "removing"
  PROVE  KeepsPoints
<1> DEFINE g == [worker[w] EXCEPT !.pc = p]
<1>1. worker[w] \in Goroutine
  BY DEF TypeInv, TypeOK
<1>2. /\ g.pc = p /\ g.nonceId = worker[w].nonceId
      /\ g.row = worker[w].row /\ g.id = worker[w].id
  BY <1>1 DEF Goroutine
<1>3. worker' = [worker EXCEPT ![w] = g]
  BY DEF Goto, TypeInv, TypeOK
<1> HIDE DEF g
<1> QED BY <1>2, <1>3, MoveKeepsPoints

LEMMA KillKeepsPoints ==
  ASSUME TypeInv, NEW P, KillProcess(P)
  PROVE  KeepsPoints
<1> SUFFICES ASSUME NEW v \in Workers, worker'[v].pc \in Critical
             PROVE  worker'[v] = worker[v]
  BY DEF KeepsPoints, KeepsPoint, HeldRow
<1> QED BY IdleType DEF KillProcess, Critical

\* Signing moves between control points that rest on nothing.
LEMMA SignKeepsPoints ==
  ASSUME TypeInv, NEW w \in Workers, Sign(w)
  PROVE  KeepsPoints
<1> DEFINE v == worker[w]
<1>0. v \in Goroutine
  BY DEF TypeInv, TypeOK
<1> SUFFICES ASSUME TRUE
             PROVE  worker'[w].pc \notin Critical
                    /\ \E g : worker' = [worker EXCEPT ![w] = g]
  BY MoveKeepsPoints DEF TypeInv, TypeOK
<1> USE DEF Critical
<1>1. CASE Read(w)
  <2> DEFINE row == request[v.id]
             g == CASE row.status \in {"init", "failed"} ->
                         [v EXCEPT !.pc = "lock", !.row = row]
                    [] row.status = "submitted" ->
                         [v EXCEPT !.pc = "lookup", !.row = row]
                    [] OTHER -> Idle
  <2>1. \/ g = [v EXCEPT !.pc = "lock", !.row = row]
        \/ g = [v EXCEPT !.pc = "lookup", !.row = row]
        \/ g = Idle
    OBVIOUS
  <2>2. g.pc \notin Critical
    BY <1>0, <2>1, IdleType DEF Goroutine
  <2>3. worker' = [worker EXCEPT ![w] = g]
    BY <1>1 DEF Read, TypeInv, TypeOK
  <2> HIDE DEF g
  <2> QED BY <2>2, <2>3 DEF TypeInv, TypeOK
<1>2. CASE Lock(w)
  BY <1>0, <1>2 DEF Lock, TypeInv, TypeOK, Goroutine
<1>3. CASE RemoteNonce(w)
  BY <1>0, <1>3 DEF RemoteNonce, TypeInv, TypeOK, Goroutine
<1>4. CASE CheckNonce(w)
  BY <1>0, <1>4 DEF CheckNonce, TypeInv, TypeOK, Goroutine
<1>5. CASE SignFails(w)
  BY <1>0, <1>5 DEF SignFails, TypeInv, TypeOK, Goroutine
<1> QED BY <1>1, <1>2, <1>3, <1>4, <1>5 DEF Sign

LEMMA SubmitKeepsPoints ==
  ASSUME TypeInv, NEW w \in Workers, Submit(w)
  PROVE  KeepsPoints
<1>1. CASE Commit(w)
  <2>1. \E g : worker' = [worker EXCEPT ![w] = g]
    BY <1>1 DEF Commit, TypeInv, TypeOK
  <2> QED BY <1>1, <2>1, MoveKeepsPoints
<1>2. CASE ~Commit(w)
  BY <1>2, GotoKeepsPoints
     DEF Submit, CommitFails, CommitAmbiguous, Broadcast, BroadcastFails,
         BroadcastAmbiguous, Critical
<1> QED BY <1>1, <1>2

LEMMA StepKeepsPoints ==
  ASSUME TypeInv, Next
  PROVE  KeepsPoints
<1>1. CASE UNCHANGED worker
  BY <1>1 DEF KeepsPoints, KeepsPoint, HeldRow
<1>2. ASSUME NEW w \in Workers, Handler(w) \/ \E c \in Calls : Post(w, c)
      PROVE  KeepsPoints
  <2>1. CASE Create(w)
    <3>1. PICK i \in Ids :
            worker' = [worker EXCEPT ![w] = [Idle EXCEPT !.pc = "read", !.id = i]]
      BY <2>1 DEF Create
    <3>2. [Idle EXCEPT !.pc = "read", !.id = i].pc = "read"
      BY DEF Idle
    <3> QED BY <3>1, <3>2, MoveKeepsPoints DEF Critical
  <2>2. CASE CreateRefused(w)
    BY <2>2, FinishKeepsPoints DEF CreateRefused, Finish
  <2>3. ASSUME NEW c \in Calls, Post(w, c) PROVE KeepsPoints
    <3> DEFINE g == IF contractCall[c] = None
                    THEN [Idle EXCEPT !.pc = "create", !.call = c]
                    ELSE [Idle EXCEPT !.pc = "read", !.id = contractCall[c]]
    <3>1. g.pc \in {"create", "read"}
      BY DEF Idle
    <3>2. worker' = [worker EXCEPT ![w] = g]
      BY <2>3 DEF Post
    <3> HIDE DEF g
    <3> QED BY <3>1, <3>2, MoveKeepsPoints DEF Critical
  <2> QED BY <1>2, <2>1, <2>2, <2>3 DEF Handler
<1>3. ASSUME NEW w \in Workers, Settle(w) PROVE KeepsPoints
  <2>1. CASE Lookup(w) \/ AwaitReceipt(w)
    BY <2>1, GotoKeepsPoints DEF Lookup, AwaitReceipt, Critical
  <2>2. CASE ~(Lookup(w) \/ AwaitReceipt(w))
    BY <1>3, <2>2, FinishKeepsPoints
       DEF Settle, Fail, RemoveNonce, FailAborted, LookupFails, Record, StatementFails
  <2> QED BY <2>1, <2>2
<1>4. ASSUME NEW w \in Workers, UpdateFails(w) \/ Cancel(w) PROVE KeepsPoints
  <2>1. CASE UpdateFails(w)
    BY <2>1, FinishKeepsPoints, KillKeepsPoints DEF UpdateFails
  <2>2. CASE Cancel(w)
    <3> DEFINE g == [worker[w] EXCEPT !.cancelled = TRUE]
    <3>1. worker[w] \in Goroutine
      BY DEF TypeInv, TypeOK
    <3>2. /\ g.pc = worker[w].pc /\ g.nonceId = worker[w].nonceId
          /\ g.row = worker[w].row /\ g.id = worker[w].id
      BY <3>1 DEF Goroutine
    <3>3. worker' = [worker EXCEPT ![w] = g]
      BY <2>2 DEF Cancel, TypeInv, TypeOK
    <3> HIDE DEF g
    <3> QED BY <3>2, <3>3, MoveKeepsPoints
  <2> QED BY <1>4, <2>1, <2>2
<1>5. ASSUME NEW P \in Processes, Exit(P) PROVE KeepsPoints
  BY <1>5, KillKeepsPoints DEF Exit
<1>6. CASE \/ \E t \in mempool, ok \in BOOLEAN : Mine(t, ok)
           \/ \E t \in mempool : Drop(t)
  BY <1>1, <1>6 DEF Mine, Drop
<1> QED BY NextCases, SignKeepsPoints, SubmitKeepsPoints,
           <1>2, <1>3, <1>4, <1>5, <1>6

\* Read for the holders: without a commit none is added.
LEMMA HoldersKept ==
  ASSUME TypeInv, Next, ~\E w \in Workers : Commit(w),
         NEW v \in Workers, Holding(v)'
  PROVE  Holding(v) /\ HeldRow(v)' = HeldRow(v)
<1>1. ~AwaitReceipt(v)
  BY DEF AwaitReceipt, Goto, Holding, TypeInv, TypeOK, Goroutine
<1> QED BY <1>1, StepKeepsPoints DEF KeepsPoints, KeepsPoint, Critical, Holding

\* What a step does to the two tables, apart from reserving and removing.
LEMMA TableCases ==
  ASSUME TypeInv, Next,
         ~\E w \in Workers : Commit(w) \/ CommitAmbiguous(w) \/ RemoveNonce(w)
  PROVE  /\ UNCHANGED <<nonceTable, nonceSeq>>
         /\ \/ UNCHANGED request
            \/ \E i \in Ids, row \in Row :
                 /\ row.status # "submitted"
                 /\ request' = [request EXCEPT ![i] = row]
<1>1. CASE UNCHANGED dbVars
  BY <1>1 DEF dbVars
<1>2. ASSUME NEW w \in Workers, NEW s \in Status \ {"submitted"},
             SaveRow(w, s), worker[w].pc \in Awaiting
      PROVE  \E i \in Ids, row \in Row :
                 /\ row.status # "submitted"
                 /\ request' = [request EXCEPT ![i] = row]
  <2>1. worker[w].id \in Ids /\ worker[w].row \in Row
    BY <1>2 DEF TypeInv, TypeOK, Assigned, Goroutine
  <2> DEFINE row == [worker[w].row EXCEPT !.status = s]
  <2>2. row \in Row /\ row.status = s
    BY <2>1 DEF Row
  <2>3. request' = [request EXCEPT ![worker[w].id] = row]
    BY <1>2 DEF SaveRow
  <2> QED BY <2>1, <2>2, <2>3
<1>3. ASSUME NEW w \in Workers, Lock(w) \/ Fail(w) \/ Record(w)
      PROVE  /\ \E s \in Status \ {"submitted"} : SaveRow(w, s)
             /\ worker[w].pc \in Awaiting
             /\ UNCHANGED <<nonceTable, nonceSeq>>
  BY <1>3 DEF Lock, Fail, Record, Status, Awaiting
<1>4. ASSUME NEW w \in Workers, Handler(w) \/ \E c \in Calls : Post(w, c)
      PROVE  \/ UNCHANGED dbVars
             \/ /\ UNCHANGED <<nonceTable, nonceSeq>>
                /\ \E i \in Ids, row \in Row :
                     /\ row.status # "submitted"
                     /\ request' = [request EXCEPT ![i] = row]
  <2>1. [NoRow EXCEPT !.status = "init"] \in Row
        /\ [NoRow EXCEPT !.status = "init"].status = "init"
    BY DEF NoRow, Row, Status, NoNonce
  <2> QED BY <1>4, <2>1 DEF Handler, Create, CreateRefused, Post, dbVars
<1>5. ASSUME NEW w \in Workers, Sign(w) PROVE UNCHANGED dbVars \/ Lock(w)
  BY <1>5 DEF Sign, Read, RemoteNonce, CheckNonce, SignFails
<1>6. ASSUME NEW w \in Workers, Submit(w) PROVE UNCHANGED dbVars
  BY <1>6 DEF Submit, CommitFails, Broadcast, BroadcastFails, BroadcastAmbiguous
<1>7. ASSUME NEW w \in Workers, Settle(w)
      PROVE  UNCHANGED dbVars \/ Fail(w) \/ Record(w)
  BY <1>7 DEF Settle, FailAborted, Lookup, LookupFails, AwaitReceipt, StatementFails
<1>8. CASE \/ \E t \in mempool, ok \in BOOLEAN : Mine(t, ok)
           \/ \E t \in mempool : Drop(t)
           \/ \E w \in Workers : UpdateFails(w) \/ Cancel(w)
           \/ \E P \in Processes : Exit(P)
  BY <1>1, <1>8 DEF Mine, Drop, UpdateFails, Cancel, Exit
<1> QED BY NextCases, <1>1, <1>2, <1>3, <1>4, <1>5, <1>6, <1>7, <1>8

LEMMA CommitReservation ==
  ASSUME TypeInv, ReservationInv, NEW w \in Workers,
         worker[w].pc = "commit", ReserveNonce(w),
         Commit(w) \/ Goto(w, "failing")
  PROVE  ReservationInv'
<1> DEFINE new == [id |-> nonceSeq + 1, nonce |-> worker[w].row.nonce,
                   req |-> worker[w].id]
<1>1. /\ nonceTable' = nonceTable \cup {new}
      /\ nonceSeq' = nonceSeq + 1
      /\ \A t \in nonceTable : t.nonce # new.nonce
      /\ worker[w].row \in Row /\ worker[w].id \in Ids
      /\ request' = [request EXCEPT ![worker[w].id] =
                        [worker[w].row EXCEPT !.status = "submitted"]]
  BY DEF ReserveNonce, Insertable, SaveRow, TypeInv, TypeOK, Assigned, Goroutine,
         Awaiting
<1>2. nonceSeq \in Nat /\ \A t \in nonceTable : t.id \in Nat /\ t.id <= nonceSeq
  BY DEF TypeInv, TypeOK, NonceRow, ReservationInv
<1>3. \A t, u \in nonceTable' : t.id = u.id \/ t.nonce = u.nonce => t = u
  BY <1>1, <1>2 DEF ReservationInv
<1>4. \A t \in nonceTable' : t.id <= nonceSeq'
  BY <1>1, <1>2
<1>5. ASSUME NEW v \in Workers, Holding(v)'
      PROVE  /\ HeldRow(v)' \in nonceTable'
             /\ v # w => Holding(v) /\ HeldRow(v)' = HeldRow(v)
             /\ v = w => worker'[v].nonceId = nonceSeq + 1
  <2>1. CASE v = w
    <3>1. CASE Commit(w)
      <4>1. worker[w] \in Goroutine
        BY DEF TypeInv, TypeOK
      <4>2. worker' = [worker EXCEPT ![w] =
                         [worker[w] EXCEPT !.pc = "broadcast", !.nonceId = nonceSeq + 1]]
        BY <3>1 DEF Commit, TypeInv, TypeOK
      <4>3. /\ worker'[w].nonceId = nonceSeq + 1
            /\ worker'[w].row = worker[w].row
            /\ worker'[w].id = worker[w].id
        BY <4>1, <4>2 DEF TypeInv, TypeOK, Goroutine
      <4> QED BY <1>1, <2>1, <4>3 DEF HeldRow
    <3>2. CASE Goto(w, "failing")
      BY <1>5, <2>1, <3>2 DEF Goto, Holding, TypeInv, TypeOK, Goroutine
    <3> QED BY <3>1, <3>2
  <2>2. CASE v # w
    <3>1. worker'[v] = worker[v]
      BY <2>2 DEF Commit, Goto, TypeInv, TypeOK
    <3> QED BY <1>1, <1>5, <2>2, <3>1 DEF Holding, HeldRow, ReservationInv
  <2> QED BY <2>1, <2>2
<1>6. ASSUME NEW u \in Workers, NEW v \in Workers, Holding(u)', Holding(v)',
             worker'[u].nonceId = worker'[v].nonceId
      PROVE  u = v
  <2>1. \A x \in Workers : Holding(x) => worker[x].nonceId <= nonceSeq
    BY <1>2 DEF ReservationInv, HeldRow
  <2>2. \A x \in Workers : Holding(x)' /\ x # w => worker'[x].nonceId = worker[x].nonceId
    BY <1>5 DEF HeldRow
  <2>3. \A x \in Workers : worker[x].nonceId \in Nat
    BY DEF TypeInv, TypeOK, Goroutine
  <2> QED BY <1>2, <1>5, <1>6, <2>1, <2>2, <2>3 DEF ReservationInv
<1>7. SubmittedIsReserved'
  <2> SUFFICES ASSUME NEW i \in Ids, request'[i].status = "submitted"
               PROVE  \E t \in nonceTable' : t.req = i /\ t.nonce = request'[i].nonce
    BY DEF SubmittedIsReserved
  <2>1. CASE i = worker[w].id
    <3>1. request'[i].nonce = worker[w].row.nonce
      BY <1>1, <2>1 DEF TypeInv, TypeOK, Row
    <3>2. new \in nonceTable' /\ new.req = i /\ new.nonce = worker[w].row.nonce
      BY <1>1, <2>1
    <3> QED BY <3>1, <3>2
  <2>2. CASE i # worker[w].id
    <3>1. request'[i] = request[i]
      BY <1>1, <2>2 DEF TypeInv, TypeOK
    <3>2. PICK t \in nonceTable : t.req = i /\ t.nonce = request[i].nonce
      BY <3>1 DEF ReservationInv, SubmittedIsReserved
    <3>3. t \in nonceTable'
      BY <1>1
    <3> QED BY <3>1, <3>2, <3>3
  <2> QED BY <2>1, <2>2
<1> QED BY <1>3, <1>4, <1>5, <1>6, <1>7 DEF ReservationInv

LEMMA RemoveReservation ==
  ASSUME TypeInv, ReservationInv, NEW w \in Workers, RemoveNonce(w)
  PROVE  ReservationInv'
<1>1. /\ nonceTable' = {t \in nonceTable : t.id # worker[w].nonceId}
      /\ nonceSeq' = nonceSeq
      /\ HeldRow(w) \in nonceTable
      /\ worker[w].id \in Ids /\ worker[w].row \in Row
      /\ request' = [request EXCEPT ![worker[w].id] =
                        [worker[w].row EXCEPT !.status = "failed"]]
  BY DEF RemoveNonce, SaveRow, ReservationInv, Holding, TypeInv, TypeOK, Assigned,
         Goroutine, Awaiting
<1>2. \A v \in Workers : Holding(v)' =>
          v # w /\ Holding(v) /\ HeldRow(v)' = HeldRow(v)
              /\ worker'[v].nonceId = worker[v].nonceId
  BY IdleType DEF RemoveNonce, Finish, Holding, HeldRow, TypeInv, TypeOK
<1>3. \A v \in Workers : Holding(v)' => HeldRow(v)' \in nonceTable'
  BY <1>1, <1>2 DEF ReservationInv, HeldRow, RemoveNonce, Holding
<1>4. SubmittedIsReserved'
  <2> SUFFICES ASSUME NEW i \in Ids, request'[i].status = "submitted"
               PROVE  \E t \in nonceTable' : t.req = i /\ t.nonce = request'[i].nonce
    BY DEF SubmittedIsReserved
  <2>1. i # worker[w].id /\ request'[i] = request[i]
    BY <1>1 DEF TypeInv, TypeOK, Row
  <2>2. PICK t \in nonceTable : t.req = i /\ t.nonce = request[i].nonce
    BY <2>1 DEF ReservationInv, SubmittedIsReserved
  <2>3. t.id # worker[w].nonceId
    BY <1>1, <2>1, <2>2 DEF ReservationInv, HeldRow
  <2> QED BY <1>1, <2>1, <2>2, <2>3
<1> QED BY <1>1, <1>2, <1>3, <1>4 DEF ReservationInv

LEMMA StepReservation ==
  ASSUME TypeInv, ReservationInv, Next
  PROVE  ReservationInv'
<1>1. CASE \E w \in Workers : Commit(w) \/ CommitAmbiguous(w)
  BY <1>1, CommitReservation DEF Commit, CommitAmbiguous
<1>2. CASE \E w \in Workers : RemoveNonce(w)
  BY <1>2, RemoveReservation
<1>3. CASE ~\E w \in Workers : Commit(w) \/ CommitAmbiguous(w) \/ RemoveNonce(w)
  <2>1. /\ UNCHANGED <<nonceTable, nonceSeq>>
        /\ \/ UNCHANGED request
           \/ \E i \in Ids, row \in Row :
                /\ row.status # "submitted"
                /\ request' = [request EXCEPT ![i] = row]
    BY <1>3, TableCases
  <2>2. SubmittedIsReserved'
    BY <2>1 DEF ReservationInv, SubmittedIsReserved, TypeInv, TypeOK
  <2>3. \A w \in Workers : Holding(w)' =>
            Holding(w) /\ HeldRow(w)' = HeldRow(w)
                /\ worker'[w].nonceId = worker[w].nonceId
    BY <1>3, HoldersKept DEF HeldRow
  <2> QED BY <2>1, <2>2, <2>3 DEF ReservationInv
<1> QED BY <1>1, <1>2, <1>3

LEMMA InitReservation == Init => ReservationInv
<1>1. ASSUME Init, NEW w \in Workers PROVE ~Holding(w)
  BY <1>1, IdleType DEF Init, Holding
<1>2. Init => SubmittedIsReserved
  BY DEF Init, SubmittedIsReserved, NoRow
<1> QED BY <1>1, <1>2 DEF Init, ReservationInv

\* Whatever fails, no nonce is reserved twice and a request shown as submitted
\* has its nonce reserved in transaction_nonce.
THEOREM ReservationCorrect == Spec => []SubmittedIsReserved
<1>1. TypeInv /\ ReservationInv /\ [Next]_vars => ReservationInv'
  <2>1. ASSUME TypeInv, ReservationInv, UNCHANGED vars PROVE ReservationInv'
    BY <2>1 DEF ReservationInv, SubmittedIsReserved, Holding, HeldRow, vars, dbVars
  <2> QED BY <2>1, StepReservation
<1>2. ReservationInv => SubmittedIsReserved
  BY DEF ReservationInv
<1> QED BY InitReservation, TypeCorrect, <1>1, <1>2, PTL DEF Spec

-----------------------------------------------------------------------------
(* The ledger.  As long as an error means that nothing happened, a holder  *)
(* has nothing on the node yet, so giving its nonce back is safe.          *)

NodeInv ==
    /\ LedgerSound
    /\ \A w \in Workers : Holding(w) =>
         \A tx \in OnNode : tx.nonce # worker[w].row.nonce

LEMMA MineKeepsOnNode ==
  ASSUME TypeInv, NEW t \in mempool, NEW ok \in BOOLEAN, Mine(t, ok)
  PROVE  OnNode' \subseteq OnNode
<1>1. /\ mempool' = mempool \ {t}
      /\ receipts' = receipts \cup {[req |-> t.req, nonce |-> t.nonce, ok |-> ok]}
  BY DEF Mine
<1>2. t = [req |-> t.req, nonce |-> t.nonce]
  BY DEF TypeInv, TypeOK, Tx
<1> QED BY <1>1, <1>2 DEF OnNode

\* Only a broadcast adds to what the node has.
LEMMA NodeCases ==
  ASSUME TypeInv, Next,
         ~\E w \in Workers : Broadcast(w) \/ BroadcastAmbiguous(w)
  PROVE  OnNode' \subseteq OnNode
<1>1. CASE UNCHANGED nodeVars
  BY <1>1 DEF OnNode, nodeVars
<1>2. CASE \E t \in mempool, ok \in BOOLEAN : Mine(t, ok)
  BY <1>2, MineKeepsOnNode
<1>3. CASE \E t \in mempool : Drop(t)
  BY <1>3 DEF Drop, OnNode
<1>4. ASSUME NEW w \in Workers,
             \/ Handler(w) \/ (\E c \in Calls : Post(w, c)) \/ Sign(w)
             \/ UpdateFails(w) \/ Cancel(w)
      PROVE  UNCHANGED nodeVars
  BY <1>4 DEF Handler, Create, CreateRefused, Post, Sign, Read, Lock, RemoteNonce,
              CheckNonce, SignFails, UpdateFails, Cancel
<1>5. ASSUME NEW w \in Workers, Submit(w) PROVE UNCHANGED nodeVars
  BY <1>5 DEF Submit, Commit, CommitFails, CommitAmbiguous, BroadcastFails
<1>6. ASSUME NEW w \in Workers, Settle(w) PROVE UNCHANGED nodeVars
  BY <1>6 DEF Settle, Fail, RemoveNonce, FailAborted, Lookup, LookupFails,
              AwaitReceipt, Record, StatementFails
<1>7. ASSUME NEW P \in Processes, Exit(P) PROVE UNCHANGED nodeVars
  BY <1>7 DEF Exit
<1> QED BY NextCases, <1>1, <1>2, <1>3, <1>4, <1>5, <1>6, <1>7

LEMMA BroadcastLedger ==
  ASSUME TypeInv, ReservationInv, NodeInv, NEW w \in Workers, Broadcast(w)
  PROVE  NodeInv'
<1>1. /\ OnNode' = OnNode \cup {SignedTx(w)}
      /\ UNCHANGED nonceTable
      /\ HeldRow(w) \in nonceTable
  BY DEF Broadcast, OnNode, dbVars, ReservationInv, Holding
<1>2. LedgerSound'
  BY <1>1 DEF NodeInv, LedgerSound, HeldRow, SignedTx
<1>3. ASSUME NEW v \in Workers, Holding(v)', NEW tx \in OnNode'
      PROVE  tx.nonce # worker'[v].row.nonce
  <2>1. v # w /\ Holding(v) /\ worker'[v] = worker[v]
    BY <1>3 DEF Broadcast, Goto, Holding, TypeInv, TypeOK, Goroutine
  <2>2. HeldRow(v) \in nonceTable /\ HeldRow(v).id # HeldRow(w).id
    BY <2>1 DEF ReservationInv, HeldRow, Broadcast, Holding
  <2>3. HeldRow(v).nonce # HeldRow(w).nonce
    BY <1>1, <2>2 DEF ReservationInv
  <2> QED BY <1>1, <1>3, <2>1, <2>3 DEF NodeInv, HeldRow, SignedTx
<1> QED BY <1>2, <1>3 DEF NodeInv

LEMMA CommitLedger ==
  ASSUME TypeInv, NodeInv, NEW w \in Workers, Commit(w)
  PROVE  NodeInv'
<1>1. /\ nonceTable \subseteq nonceTable'
      /\ UNCHANGED nodeVars
      /\ \A t \in nonceTable : t.nonce # worker[w].row.nonce
  BY DEF Commit, ReserveNonce, Insertable
<1>2. OnNode' = OnNode
  BY <1>1 DEF OnNode, nodeVars
<1>3. LedgerSound'
  BY <1>1, <1>2 DEF NodeInv, LedgerSound
<1>4. ASSUME NEW v \in Workers, Holding(v)', NEW tx \in OnNode'
      PROVE  tx.nonce # worker'[v].row.nonce
  <2>1. worker'[v].row = worker[v].row /\ (v # w => worker'[v] = worker[v])
    BY DEF Commit, TypeInv, TypeOK, Goroutine
  <2>2. CASE v = w
    BY <1>1, <1>2, <1>4, <2>1, <2>2 DEF NodeInv, LedgerSound
  <2>3. CASE v # w
    BY <1>2, <1>4, <2>1, <2>3 DEF NodeInv, Holding
  <2> QED BY <2>2, <2>3
<1> QED BY <1>3, <1>4 DEF NodeInv

LEMMA RemoveLedger ==
  ASSUME TypeInv, ReservationInv, NodeInv, NEW w \in Workers, RemoveNonce(w)
  PROVE  LedgerSound'
<1>1. /\ nonceTable' = {t \in nonceTable : t.id # worker[w].nonceId}
      /\ OnNode' = OnNode
      /\ Holding(w)
  BY DEF RemoveNonce, OnNode, nodeVars, Holding
<1>2. ASSUME NEW tx \in OnNode
      PROVE  \E t \in nonceTable' : t.nonce = tx.nonce /\ t.req = tx.req
  <2>1. PICK t \in nonceTable : t.nonce = tx.nonce /\ t.req = tx.req
    BY DEF NodeInv, LedgerSound
  <2>2. HeldRow(w) \in nonceTable /\ tx.nonce # HeldRow(w).nonce
    BY <1>1 DEF ReservationInv, NodeInv, HeldRow
  <2>3. t.id # worker[w].nonceId
    BY <2>1, <2>2 DEF ReservationInv, HeldRow
  <2> QED BY <1>1, <2>1, <2>3
<1> QED BY <1>1, <1>2 DEF LedgerSound

LEMMA StepLedger ==
  ASSUME "ambiguous" \notin Faults, TypeInv, ReservationInv, NodeInv, Next
  PROVE  NodeInv'
<1>1. CASE \E w \in Workers : Broadcast(w)
  BY <1>1, BroadcastLedger
<1>2. CASE \E w \in Workers : Commit(w)
  BY <1>2, CommitLedger
<1>3. CASE ~\E w \in Workers : Broadcast(w) \/ Commit(w)
  <2>1. OnNode' \subseteq OnNode
    BY <1>3, NodeCases DEF BroadcastAmbiguous
  <2>2. \A w \in Workers : Holding(w)' =>
            Holding(w) /\ worker'[w].row.nonce = worker[w].row.nonce
    BY <1>3, HoldersKept DEF HeldRow
  <2>3. LedgerSound'
    <3>1. CASE \E w \in Workers : RemoveNonce(w)
      BY <3>1, RemoveLedger
    <3>2. CASE ~\E w \in Workers : RemoveNonce(w)
      <4>1. UNCHANGED nonceTable
        BY <1>3, <3>2, TableCases DEF CommitAmbiguous
      <4> QED BY <2>1, <4>1 DEF NodeInv, LedgerSound
    <3> QED BY <3>1, <3>2
  <2> QED BY <2>1, <2>2, <2>3 DEF NodeInv
<1> QED BY <1>1, <1>2, <1>3

\* Unless an error can hide a success, transaction_nonce records every
\* transaction the node has from the signer under the request it serves, with
\* any number of replicas, overlapping posts, crashes and evictions.
THEOREM LedgerCorrect ==
  ASSUME "ambiguous" \notin Faults
  PROVE  Spec => []LedgerSound
<1>1. Init => NodeInv
  BY IdleType DEF Init, NodeInv, LedgerSound, OnNode, Holding
<1>2. TypeInv /\ ReservationInv /\ NodeInv /\ [Next]_vars => NodeInv'
  <2>1. ASSUME TypeInv, NodeInv, UNCHANGED vars PROVE NodeInv'
    BY <2>1 DEF NodeInv, LedgerSound, OnNode, Holding, vars, dbVars, nodeVars
  <2> QED BY <2>1, StepLedger
<1>3. TypeInv /\ ReservationInv /\ [Next]_vars => ReservationInv'
  <2>1. ASSUME TypeInv, ReservationInv, UNCHANGED vars PROVE ReservationInv'
    BY <2>1 DEF ReservationInv, SubmittedIsReserved, Holding, HeldRow, vars, dbVars
  <2> QED BY <2>1, StepReservation
<1>4. NodeInv => LedgerSound
  BY DEF NodeInv
<1> QED BY InitReservation, TypeCorrect, <1>1, <1>2, <1>3, <1>4, PTL DEF Spec
-----------------------------------------------------------------------------
(* Mined rows and the calls.                                               *)

\* A goroutine about to record a success has seen the receipt of its hash.
MinedInv ==
    /\ MinedIsTrue
    /\ \A w \in Workers : worker[w].pc = "record" =>
         [req |-> worker[w].id, nonce |-> worker[w].row.nonce, ok |-> TRUE] \in receipts

\* The statements that write a row.
LEMMA Writers ==
  ASSUME Next
  PROVE  \/ UNCHANGED dbVars
         \/ \E w \in Workers :
                \/ Create(w) \/ Lock(w) \/ Commit(w) \/ CommitAmbiguous(w)
                \/ Fail(w) \/ RemoveNonce(w) \/ Record(w)
<1>1. ASSUME NEW w \in Workers, Handler(w) \/ \E c \in Calls : Post(w, c)
      PROVE  UNCHANGED dbVars \/ Create(w)
  BY <1>1 DEF Handler, Post, CreateRefused
<1>2. ASSUME NEW w \in Workers, Sign(w) PROVE UNCHANGED dbVars \/ Lock(w)
  BY <1>2 DEF Sign, Read, RemoteNonce, CheckNonce, SignFails
<1>3. ASSUME NEW w \in Workers, Submit(w)
      PROVE  UNCHANGED dbVars \/ Commit(w) \/ CommitAmbiguous(w)
  BY <1>3 DEF Submit, CommitFails, Broadcast, BroadcastFails, BroadcastAmbiguous
<1>4. ASSUME NEW w \in Workers, Settle(w)
      PROVE  UNCHANGED dbVars \/ Fail(w) \/ RemoveNonce(w) \/ Record(w)
  BY <1>4 DEF Settle, FailAborted, Lookup, LookupFails, AwaitReceipt, StatementFails
<1>5. CASE \/ \E t \in mempool, ok \in BOOLEAN : Mine(t, ok)
           \/ \E t \in mempool : Drop(t)
           \/ \E w \in Workers : UpdateFails(w) \/ Cancel(w)
           \/ \E P \in Processes : Exit(P)
  BY <1>5 DEF Mine, Drop, UpdateFails, Cancel, Exit
<1> QED BY NextCases, <1>1, <1>2, <1>3, <1>4, <1>5

\* Every write of a row: it is created, or a goroutine saves its copy.
LEMMA WriteCases ==
  ASSUME TypeInv, Next
  PROVE  \/ UNCHANGED <<request, contractCall>>
         \/ \E w \in Workers : Create(w)
         \/ /\ UNCHANGED contractCall
            /\ \E w \in Workers, s \in Status \ {"none"} :
                 /\ SaveRow(w, s) /\ worker[w].pc \in Awaiting
                 /\ s = "mined" => Record(w)
<1>1. CASE UNCHANGED dbVars
  BY <1>1 DEF dbVars
<1>2. ASSUME NEW w \in Workers,
             \/ Lock(w) \/ Commit(w) \/ CommitAmbiguous(w)
             \/ Fail(w) \/ RemoveNonce(w) \/ Record(w)
      PROVE  /\ UNCHANGED contractCall
             /\ worker[w].pc \in Awaiting
             /\ \E s \in Status \ {"none"} : SaveRow(w, s) /\ (s = "mined" => Record(w))
  BY <1>2 DEF Lock, Commit, CommitAmbiguous, ReserveNonce, Fail, RemoveNonce, Record,
              Status, Awaiting
<1> QED BY Writers, <1>1, <1>2

\* Only a block writes a receipt.
LEMMA ReceiptCases ==
  ASSUME Next
  PROVE  UNCHANGED receipts \/ \E t \in mempool, ok \in BOOLEAN : Mine(t, ok)
<1>1. ASSUME NEW w \in Workers,
             \/ Handler(w) \/ (\E c \in Calls : Post(w, c)) \/ Sign(w)
             \/ UpdateFails(w) \/ Cancel(w)
      PROVE  UNCHANGED receipts
  BY <1>1 DEF Handler, Create, CreateRefused, Post, Sign, Read, Lock, RemoteNonce,
              CheckNonce, SignFails, UpdateFails, Cancel, nodeVars
<1>2. ASSUME NEW w \in Workers, Submit(w) PROVE UNCHANGED receipts
  BY <1>2 DEF Submit, Commit, CommitFails, CommitAmbiguous, Broadcast,
              BroadcastFails, BroadcastAmbiguous, nodeVars
<1>3. ASSUME NEW w \in Workers, Settle(w) PROVE UNCHANGED receipts
  BY <1>3 DEF Settle, Fail, RemoveNonce, FailAborted, Lookup, LookupFails,
              AwaitReceipt, Record, StatementFails, nodeVars
<1>4. ASSUME NEW P \in Processes, Exit(P) PROVE UNCHANGED receipts
  BY <1>4 DEF Exit, nodeVars
<1>5. ASSUME NEW t \in mempool, Drop(t) PROVE UNCHANGED receipts
  BY <1>5 DEF Drop
<1> QED BY NextCases, <1>1, <1>2, <1>3, <1>4, <1>5

\* The chain forgets no receipt.
LEMMA ReceiptsGrow ==
  ASSUME Next
  PROVE  receipts \subseteq receipts'
  BY ReceiptCases DEF Mine

LEMMA RecordersKept ==
  ASSUME TypeInv, Next, MinedInv, NEW w \in Workers, worker'[w].pc = "record"
  PROVE  [req |-> worker'[w].id, nonce |-> worker'[w].row.nonce, ok |-> TRUE]
            \in receipts
<1>1. CASE AwaitReceipt(w)
  <2>1. PICK r \in receipts :
          /\ r.req = worker[w].id
          /\ r.nonce = worker[w].row.nonce
          /\ Goto(w, IF r.ok THEN "record" ELSE "failing")
    BY <1>1 DEF AwaitReceipt
  <2>2. /\ worker'[w].pc = IF r.ok THEN "record" ELSE "failing"
        /\ worker'[w].id = worker[w].id
        /\ worker'[w].row = worker[w].row
    BY <2>1 DEF Goto, TypeInv, TypeOK, Goroutine
  <2>3. r.ok = TRUE /\ r \in Receipt
    BY <2>2 DEF TypeInv, TypeOK, Receipt
  <2>4. r = [req |-> worker[w].id, nonce |-> worker[w].row.nonce, ok |-> TRUE]
    BY <2>1, <2>3 DEF Receipt
  <2> QED BY <2>2, <2>4
<1>2. CASE ~AwaitReceipt(w)
  <2>1. ~Commit(w)
    BY DEF Commit, TypeInv, TypeOK, Goroutine
  <2>2. KeepsPoint(w)
    BY <1>2, <2>1, StepKeepsPoints DEF KeepsPoints
  <2>3. worker[w].pc = "record" /\ HeldRow(w)' = HeldRow(w)
    BY <2>2 DEF KeepsPoint, Critical
  <2>4. worker'[w].id = worker[w].id /\ worker'[w].row.nonce = worker[w].row.nonce
    BY <2>3 DEF HeldRow
  <2> QED BY <2>3, <2>4 DEF MinedInv
<1> QED BY <1>1, <1>2

LEMMA StepMined ==
  ASSUME TypeInv, MinedInv, Next
  PROVE  MinedInv'
<1>1. MinedIsTrue'
  <2> SUFFICES ASSUME NEW i \in Ids, request'[i].status = "mined"
               PROVE  [req |-> i, nonce |-> request'[i].nonce, ok |-> TRUE] \in receipts
    BY ReceiptsGrow DEF MinedIsTrue
  <2>1. CASE request'[i] = request[i]
    BY <2>1 DEF MinedInv, MinedIsTrue
  <2>2. ASSUME NEW w \in Workers, Create(w) PROVE request'[i] = request[i]
    BY <2>2 DEF Create, NoRow, TypeInv, TypeOK
  <2>3. ASSUME NEW w \in Workers, NEW s \in Status, SaveRow(w, s),
               worker[w].pc \in Awaiting, s = "mined" => Record(w),
               request'[i] # request[i]
        PROVE  [req |-> i, nonce |-> request'[i].nonce, ok |-> TRUE] \in receipts
    <3>1. worker[w].id \in Ids /\ worker[w].row \in Row
      BY <2>3 DEF TypeInv, TypeOK, Assigned, Goroutine
    <3>2. i = worker[w].id /\ request'[i] = [worker[w].row EXCEPT !.status = s]
      BY <2>3, <3>1 DEF SaveRow, TypeInv, TypeOK
    <3>3. s = "mined" /\ request'[i].nonce = worker[w].row.nonce
      BY <3>1, <3>2 DEF Row
    <3> QED BY <2>3, <3>2, <3>3 DEF Record, MinedInv
  <2> QED BY <2>1, <2>2, <2>3, WriteCases
<1>2. \A w \in Workers : worker'[w].pc = "record" =>
         [req |-> worker'[w].id, nonce |-> worker'[w].row.nonce, ok |-> TRUE] \in receipts'
  BY RecordersKept, ReceiptsGrow
<1> QED BY <1>1, <1>2 DEF MinedInv

\* Whatever fails and however many goroutines share a request, a row that
\* says mined names a transaction that was mined successfully.
THEOREM MinedCorrect == Spec => []MinedIsTrue
<1>1. Init => MinedInv
  BY IdleType DEF Init, MinedInv, MinedIsTrue, NoRow
<1>2. TypeInv /\ MinedInv /\ [Next]_vars => MinedInv'
  <2>1. ASSUME MinedInv, UNCHANGED vars PROVE MinedInv'
    BY <2>1 DEF MinedInv, MinedIsTrue, vars, dbVars, nodeVars
  <2> QED BY <2>1, StepMined
<1>3. MinedInv => MinedIsTrue
  BY DEF MinedInv
<1> QED BY TypeCorrect, <1>1, <1>2, <1>3, PTL DEF Spec

-----------------------------------------------------------------------------
(* One request per call.                                                   *)

\* Rows are never deleted, so a goroutine's request is a row of the table.
CallInv ==
    /\ CallsDeduplicated
    /\ \A w \in Workers : worker[w].id # None => request[worker[w].id] # NoRow

\* Only the handler gives a goroutine a request.
LEMMA IdsKept ==
  ASSUME TypeInv, Next, NEW w \in Workers,
         ~Create(w), ~\E c \in Calls : Post(w, c)
  PROVE  worker'[w].id \in {worker[w].id, None}
<1>0. worker[w] \in Goroutine /\ Idle.id = None
  BY DEF TypeInv, TypeOK, Idle
<1>1. ASSUME NEW v \in Workers, v # w, NEW g, worker' = [worker EXCEPT ![v] = g]
      PROVE  worker'[w] = worker[w]
  BY <1>1 DEF TypeInv, TypeOK
<1>2. ASSUME NEW v \in Workers, NEW p, Goto(v, p) PROVE worker'[w].id = worker[w].id
  BY <1>0, <1>2 DEF Goto, TypeInv, TypeOK, Goroutine
<1>3. ASSUME NEW v \in Workers, Finish(v) PROVE worker'[w].id \in {worker[w].id, None}
  BY <1>0, <1>3 DEF Finish, TypeInv, TypeOK
<1>4. ASSUME NEW P, KillProcess(P) PROVE worker'[w].id \in {worker[w].id, None}
  BY <1>0, <1>4 DEF KillProcess
<1>5. ASSUME NEW v \in Workers, Handler(v) \/ \E c \in Calls : Post(v, c)
      PROVE  worker'[w].id \in {worker[w].id, None}
  <2>1. CASE CreateRefused(v)
    BY <1>3, <2>1 DEF CreateRefused, Finish
  <2>2. CASE Create(v) \/ \E c \in Calls : Post(v, c)
    BY <1>1, <2>2 DEF Create, Post
  <2> QED BY <1>5, <2>1, <2>2 DEF Handler
<1>6. ASSUME NEW v \in Workers, Sign(v)
      PROVE  worker'[w].id \in {worker[w].id, None}
  <2>1. CASE Read(v)
    <3>1. \/ worker'[v] = Idle
          \/ worker'[v] = [worker[v] EXCEPT !.pc = "lock", !.row = request[worker[v].id]]
          \/ worker'[v] = [worker[v] EXCEPT !.pc = "lookup", !.row = request[worker[v].id]]
      BY <2>1 DEF Read, TypeInv, TypeOK
    <3>2. v # w => worker'[w] = worker[w]
      BY <1>1, <2>1 DEF Read
    <3>3. CASE v = w
      BY <1>0, <3>1, <3>3 DEF Goroutine
    <3> QED BY <3>2, <3>3
  <2>2. CASE Lock(v)
    BY <1>0, <2>2 DEF Lock, TypeInv, TypeOK, Goroutine
  <2>3. CASE RemoteNonce(v)
    BY <1>0, <2>3 DEF RemoteNonce, TypeInv, TypeOK, Goroutine
  <2>4. CASE CheckNonce(v)
    BY <1>0, <2>4 DEF CheckNonce, TypeInv, TypeOK, Goroutine
  <2>5. CASE SignFails(v)
    BY <1>0, <2>5 DEF SignFails, TypeInv, TypeOK, Goroutine
  <2> QED BY <1>6, <2>1, <2>2, <2>3, <2>4, <2>5 DEF Sign
<1>7. ASSUME NEW v \in Workers, Submit(v)
      PROVE  worker'[w].id \in {worker[w].id, None}
  <2>1. CASE Commit(v)
    BY <1>0, <2>1 DEF Commit, TypeInv, TypeOK, Goroutine
  <2>2. CASE ~Commit(v)
    BY <1>2, <1>7, <2>2 DEF Submit, CommitFails, CommitAmbiguous, Broadcast,
       BroadcastFails, BroadcastAmbiguous
  <2> QED BY <2>1, <2>2
<1>8. ASSUME NEW v \in Workers, Settle(v)
      PROVE  worker'[w].id \in {worker[w].id, None}
  BY <1>2, <1>3, <1>8 DEF Settle, Fail, RemoveNonce, FailAborted, Lookup, LookupFails,
     AwaitReceipt, Record, StatementFails
<1>9. ASSUME NEW v \in Workers, UpdateFails(v) \/ Cancel(v)
      PROVE  worker'[w].id \in {worker[w].id, None}
  <2>1. CASE UpdateFails(v)
    BY <1>3, <1>4, <2>1 DEF UpdateFails
  <2>2. CASE Cancel(v)
    BY <1>0, <2>2 DEF Cancel, TypeInv, TypeOK, Goroutine
  <2> QED BY <1>9, <2>1, <2>2
<1>10. ASSUME NEW P \in Processes, Exit(P)
       PROVE  worker'[w].id \in {worker[w].id, None}
  BY <1>4, <1>10 DEF Exit
<1>11. ASSUME \/ \E t \in mempool, ok \in BOOLEAN : Mine(t, ok)
              \/ \E t \in mempool : Drop(t)
       PROVE  worker'[w].id \in {worker[w].id, None}
  BY <1>11 DEF Mine, Drop
<1> QED BY NextCases, <1>5, <1>6, <1>7, <1>8, <1>9, <1>10, <1>11

\* A write keeps what exists.
LEMMA RowsKept ==
  ASSUME TypeInv, CallInv, Next, NEW i \in Ids
  PROVE  /\ request[i] # NoRow => request'[i] # NoRow
         /\ (~\E w \in Workers : Create(w)) /\ request[i] = NoRow => request'[i] = NoRow
<1>1. ASSUME NEW w \in Workers, Create(w)
      PROVE  request[i] # NoRow => request'[i] # NoRow
  BY <1>1 DEF Create, NoRow, TypeInv, TypeOK
<1>2. ASSUME NEW w \in Workers, NEW s \in Status \ {"none"}, SaveRow(w, s),
             worker[w].pc \in Awaiting
      PROVE  request'[i] = NoRow <=> request[i] = NoRow
  <2>1. worker[w].id \in Ids /\ worker[w].row \in Row /\ worker[w].id # None
    BY <1>2, SignerAssumption DEF TypeInv, TypeOK, Assigned, Goroutine
  <2>2. CASE i = worker[w].id
    <3>1. request'[i] = [worker[w].row EXCEPT !.status = s]
      BY <1>2, <2>2 DEF SaveRow, TypeInv, TypeOK
    <3>2. request'[i].status # "none"
      BY <2>1, <3>1 DEF Row
    <3>3. request'[i] # NoRow
      BY <3>2 DEF NoRow
    <3> QED BY <2>1, <2>2, <3>3 DEF CallInv
  <2>3. CASE i # worker[w].id
    BY <1>2, <2>1, <2>3 DEF SaveRow, TypeInv, TypeOK
  <2> QED BY <2>2, <2>3
<1> QED BY WriteCases, <1>1, <1>2

LEMMA CreateDedup ==
  ASSUME TypeInv, CallInv, NEW w \in Workers, Create(w)
  PROVE  CallsDeduplicated'
<1>1. PICK i \in Ids :
        /\ request[i] = NoRow
        /\ request' = [request EXCEPT ![i] = [NoRow EXCEPT !.status = "init"]]
        /\ contractCall' = [contractCall EXCEPT ![worker[w].call] = i]
  BY DEF Create
<1> DEFINE c == worker[w].call
<1>2. c \in Calls /\ i # None /\ contractCall[c] = None
  BY SignerAssumption DEF Create, TypeInv, Assigned
<1>3. \A d \in Calls : contractCall[d] # i
  BY <1>1 DEF CallInv, CallsDeduplicated
<1>4. \A d \in Calls : contractCall'[d] = IF d = c THEN i ELSE contractCall[d]
  BY <1>1 DEF TypeInv, TypeOK
<1>5. \A j \in Ids : request'[j] # NoRow <=> j = i \/ request[j] # NoRow
  BY <1>1 DEF NoRow, TypeInv, TypeOK
<1>6. \A d, e \in Calls : contractCall'[d] = contractCall'[e] =>
         d = e \/ contractCall'[d] = None
  BY <1>3, <1>4 DEF CallInv, CallsDeduplicated
<1>7. ASSUME NEW j \in Ids
      PROVE  request'[j] # NoRow <=> \E d \in Calls : contractCall'[d] = j
  <2>1. request[j] # NoRow <=> \E d \in Calls : contractCall[d] = j
    BY DEF CallInv, CallsDeduplicated
  <2>2. j # None
    BY SignerAssumption
  <2> QED BY <1>2, <1>4, <1>5, <2>1, <2>2
<1> QED BY <1>6, <1>7 DEF CallsDeduplicated

LEMMA StepCalls ==
  ASSUME TypeInv, CallInv, Next
  PROVE  CallInv'
<1>1. CallsDeduplicated'
  <2>1. CASE \E w \in Workers : Create(w)
    BY <2>1, CreateDedup
  <2>2. CASE ~\E w \in Workers : Create(w)
    <3>1. UNCHANGED contractCall
      BY <2>2, WriteCases
    <3>2. \A i \in Ids : request'[i] = NoRow <=> request[i] = NoRow
      BY <2>2, RowsKept
    <3> QED BY <3>1, <3>2 DEF CallInv, CallsDeduplicated
  <2> QED BY <2>1, <2>2
<1>2. ASSUME NEW w \in Workers, worker'[w].id # None
      PROVE  request'[worker'[w].id] # NoRow
  <2>0. worker' \in [Workers -> Goroutine] /\ worker'[w].id \in Ids
    <3>1. TypeInv'
      BY NextCases, NodeTypeInv, HandlerTypeInv, SignTypeInv, SubmitTypeInv,
         SettleTypeInv, ProcessTypeInv
    <3> QED BY <1>2, <3>1 DEF TypeInv, TypeOK, Goroutine
  <2>1. CASE Create(w)
    <3>1. PICK i \in Ids :
            /\ request' = [request EXCEPT ![i] = [NoRow EXCEPT !.status = "init"]]
            /\ worker' = [worker EXCEPT ![w] = [Idle EXCEPT !.pc = "read", !.id = i]]
      BY <2>1 DEF Create
    <3>2. worker'[w].id = i
      BY <3>1 DEF TypeInv, TypeOK, Idle
    <3> QED BY <3>1, <3>2 DEF NoRow, TypeInv, TypeOK
  <2>2. ASSUME NEW c \in Calls, Post(w, c)
        PROVE  request'[worker'[w].id] # NoRow
    <3>1. worker'[w].id = contractCall[c]
      BY <1>2, <2>2 DEF Post, Idle, TypeInv, TypeOK
    <3>2. request[worker'[w].id] # NoRow
      BY <2>0, <3>1 DEF CallInv, CallsDeduplicated
    <3> QED BY <2>0, <3>2, RowsKept
  <2>3. CASE ~Create(w) /\ ~\E c \in Calls : Post(w, c)
    <3>1. worker'[w].id = worker[w].id
      BY <1>2, <2>3, IdsKept
    <3> QED BY <1>2, <2>0, <3>1, RowsKept DEF CallInv
  <2> QED BY <2>1, <2>2, <2>3
<1> QED BY <1>1, <1>2 DEF CallInv

\* Clients may post the same call at once, through any replica: the rows of
\* contract_call and evm_transaction_request stay in one-to-one
\* correspondence.
THEOREM CallsCorrect == Spec => []CallsDeduplicated
<1>1. Init => CallInv
  <2>1. Idle.id = None
    BY DEF Idle
  <2> QED BY <2>1, SignerAssumption DEF Init, CallInv, CallsDeduplicated
<1>2. TypeInv /\ CallInv /\ [Next]_vars => CallInv'
  <2>1. ASSUME CallInv, UNCHANGED vars PROVE CallInv'
    BY <2>1 DEF CallInv, CallsDeduplicated, vars, dbVars
  <2> QED BY <2>1, StepCalls
<1>3. CallInv => CallsDeduplicated
  BY DEF CallInv
<1> QED BY TypeCorrect, <1>1, <1>2, <1>3, PTL DEF Spec

=============================================================================
