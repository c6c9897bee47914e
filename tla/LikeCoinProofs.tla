--------------------------- MODULE LikeCoinProofs ---------------------------
(***************************************************************************)
(* Theorems about LikeCoinMigration that hold for every value of its       *)
(* constants: any number of users, handlers, tasks and migrations, and     *)
(* every set of faults.                                                    *)
(***************************************************************************)
EXTENDS LikeCoinMigration, TLAPS

-----------------------------------------------------------------------------
(* Types.  TypeOK is inductive only with what a handler or a task that is  *)
(* not idle holds: a copy of a row.                                        *)

HoldsRow ==
    /\ \A h \in Handlers : handler[h].pc \in {"insert", "update"} => handler[h].row \in Row
    /\ \A w \in Workers : worker[w].pc # "idle" => worker[w].row \in Row /\ worker[w].id \in Ids

TypeInv == TypeOK /\ HoldsRow

LEMMA InitTypeInv == Init => TypeInv
<1>1. NoRequest \in Handler /\ NoTask \in Task
  BY DEF NoRequest, NoTask, Handler, Task
<1> QED BY <1>1, LikeCoinAssumption
        DEF Init, Signer!Init, TypeInv, TypeOK, HoldsRow, NoRequest, NoTask, Ids

\* Writing a row leaves a table of rows.
LEMMA SaveType ==
  ASSUME TypeInv, NEW i \in Ids, NEW r \in Row, Save(i, r)
  PROVE  rows' \in [Ids -> Row \cup {None}]
  BY DEF TypeInv, TypeOK, Save

LEMMA SaveRowType ==
  ASSUME TypeInv, NEW w \in Workers, worker[w].pc # "idle", NEW s \in Status,
         SaveRow(w, s)
  PROVE  rows' \in [Ids -> Row \cup {None}]
<1>1. worker[w].row \in Row /\ worker[w].id \in Ids
  BY DEF TypeInv, HoldsRow
<1>2. [worker[w].row EXCEPT !.status = s] \in Row
  BY <1>1 DEF Row
<1> QED BY <1>1, <1>2, SaveType DEF SaveRow

\* A task that goes on keeps its copy of the row; one that stops has none.
LEMMA GotoType ==
  ASSUME TypeInv, NEW w \in Workers, worker[w].pc # "idle",
         NEW p \in {"verify", "post", "create", "poll", "complete", "failing"},
         Goto(w, p)
  PROVE  /\ worker' \in [Workers -> Task]
         /\ \A v \in Workers : worker'[v].pc # "idle" =>
                worker'[v].row \in Row /\ worker'[v].id \in Ids
<1>1. worker[w] \in Task /\ worker[w].row \in Row /\ worker[w].id \in Ids
  BY DEF TypeInv, TypeOK, HoldsRow
<1>2. [worker[w] EXCEPT !.pc = p] \in Task
  BY <1>1 DEF Task
<1> QED BY <1>1, <1>2 DEF Goto, TypeInv, TypeOK, HoldsRow, Task

LEMMA StopType ==
  ASSUME TypeInv, NEW w \in Workers, Stop(w)
  PROVE  /\ worker' \in [Workers -> Task]
         /\ \A v \in Workers : worker'[v].pc # "idle" =>
                worker'[v].row \in Row /\ worker'[v].id \in Ids
<1>1. NoTask \in Task /\ NoTask.pc = "idle"
  BY DEF NoTask, Task
<1> QED BY <1>1 DEF Stop, TypeInv, TypeOK, HoldsRow

LEMMA AnswerType ==
  ASSUME TypeInv, NEW h \in Handlers, Answer(h)
  PROVE  /\ handler' \in [Handlers -> Handler]
         /\ \A g \in Handlers :
                handler'[g].pc \in {"insert", "update"} => handler'[g].row \in Row
<1>1. NoRequest \in Handler /\ NoRequest.pc = "idle"
  BY DEF NoRequest, Handler
<1> QED BY <1>1 DEF Answer, TypeInv, TypeOK, HoldsRow

\* One more task.
LEMMA IncrementType ==
  ASSUME NEW f \in [Users -> Nat], NEW u
  PROVE  [f EXCEPT ![u] = f[u] + 1] \in [Users -> Nat]
<1> DEFINE g == [f EXCEPT ![u] = f[u] + 1]
<1>1. ASSUME NEW v \in Users PROVE g[v] \in Nat
  <2>1. CASE v = u
    BY <2>1
  <2>2. CASE v # u
    BY <2>2
  <2> QED BY <2>1, <2>2
<1> QED BY <1>1

\* Handlers.
LEMMA HandlerTypeInv ==
  ASSUME TypeInv, NEW h \in Handlers,
         \/ \E u \in Users : \/ \E c \in Calls : CreateBegin(h, u, c)
                             \/ \E b \in Burns : UpdateBegin(h, u, b)
         \/ Request(h)
  PROVE  TypeInv'
<1>1. ASSUME NEW u \in Users, NEW c \in Calls, CreateBegin(h, u, c) PROVE TypeInv'
  <2> DEFINE r == [user |-> u, call |-> c, burn |-> None,
                   status |-> "pending_cosmos_tx_hash"]
             g == [pc |-> "insert", user |-> u, id |-> 0, row |-> r]
  <2>1. r \in Row
    BY DEF Row, Status
  <2>2. g \in Handler
    BY <2>1 DEF Handler
  <2>3. handler' = [handler EXCEPT ![h] = g]
    BY <1>1 DEF CreateBegin
  <2>4. handler' \in [Handlers -> Handler]
    BY <2>2, <2>3 DEF TypeInv, TypeOK
  <2>5. \A k \in Handlers :
           handler'[k].pc \in {"insert", "update"} => handler'[k].row \in Row
    BY <2>1, <2>3 DEF TypeInv, TypeOK, HoldsRow
  <2> QED BY <1>1, <2>4, <2>5 DEF CreateBegin, TypeInv, TypeOK, HoldsRow, signerVars
<1>2. ASSUME NEW u \in Users, NEW b \in Burns, UpdateBegin(h, u, b) PROVE TypeInv'
  <2>1. PICK i \in Latest(u) :
           handler' = [handler EXCEPT ![h] =
                [pc |-> "update", user |-> u, id |-> i,
                 row |-> [rows[i] EXCEPT !.burn = b, !.status = "verifying_cosmos_tx"]]]
    BY <1>2 DEF UpdateBegin
  <2> DEFINE r == [rows[i] EXCEPT !.burn = b, !.status = "verifying_cosmos_tx"]
             g == [pc |-> "update", user |-> u, id |-> i, row |-> r]
  <2>2. i \in Ids /\ rows[i] \in Row
    BY DEF Latest, RowsOf, TypeInv, TypeOK
  <2>3. r \in Row /\ i \in Nat
    <3>1. r \in Row
      BY <2>2 DEF Row, Status
    <3>2. i \in Nat
      BY <2>2, LikeCoinAssumption DEF Ids
    <3> QED BY <3>1, <3>2
  <2>4. g \in Handler
    BY <2>3 DEF Handler
  <2>5. handler' \in [Handlers -> Handler]
    BY <2>1, <2>4 DEF TypeInv, TypeOK
  <2>6. \A k \in Handlers :
           handler'[k].pc \in {"insert", "update"} => handler'[k].row \in Row
    BY <2>1, <2>3 DEF TypeInv, TypeOK, HoldsRow
  <2> QED BY <1>2, <2>5, <2>6 DEF UpdateBegin, TypeInv, TypeOK, HoldsRow, signerVars
<1>3. CASE Insert(h)
  <2>1. handler[h].row \in Row
    BY <1>3 DEF Insert, TypeInv, HoldsRow
  <2>2. lastId' \in 0 .. MaxRows
    BY <1>3, LikeCoinAssumption DEF Insert, TypeInv, TypeOK
  <2>3. rows' \in [Ids -> Row \cup {None}]
    BY <1>3, <2>1 DEF Insert, TypeInv, TypeOK
  <2> QED BY <1>3, <2>2, <2>3, AnswerType DEF Insert, TypeInv, TypeOK, HoldsRow, signerVars
<1>4. CASE Update(h)
  <2>1. handler[h] \in Handler /\ handler[h].row \in Row
    BY <1>4 DEF Update, TypeInv, TypeOK, HoldsRow
  <2>2. rows' \in [Ids -> Row \cup {None}]
    BY <1>4, <2>1 DEF Update, Save, TypeInv, TypeOK
  <2>3. [handler[h] EXCEPT !.pc = "enqueue"] \in Handler
    BY <2>1 DEF Handler
  <2>4. handler' \in [Handlers -> Handler]
    BY <1>4, <2>3 DEF Update, TypeInv, TypeOK
  <2>5. \A k \in Handlers :
           handler'[k].pc \in {"insert", "update"} => handler'[k].row \in Row
    BY <1>4, <2>1 DEF Update, TypeInv, TypeOK, HoldsRow, Handler
  <2> QED BY <1>4, <2>2, <2>4, <2>5 DEF Update, TypeInv, TypeOK, HoldsRow, signerVars
<1>5. CASE Enqueue(h)
  <2>1. tasks' \in [Users -> Nat]
    BY <1>5, IncrementType DEF Enqueue, TypeInv, TypeOK
  <2>2. handler' \in [Handlers -> Handler]
    BY <1>5, AnswerType DEF Enqueue
  <2>3. \A k \in Handlers :
           handler'[k].pc \in {"insert", "update"} => handler'[k].row \in Row
    BY <1>5, AnswerType DEF Enqueue
  <2> QED BY <1>5, <2>1, <2>2, <2>3 DEF Enqueue, TypeInv, TypeOK, HoldsRow, signerVars
<1>6. CASE RequestFails(h)
  BY <1>6, AnswerType DEF RequestFails, TypeInv, TypeOK, HoldsRow, signerVars
<1> QED BY <1>1, <1>2, <1>3, <1>4, <1>5, <1>6 DEF Request

\* An administrator, and the signer.
LEMMA OutsideTypeInv ==
  ASSUME TypeInv,
         \/ \E i \in Ids : Remove(i)
         \/ \E c \in Calls : SignerStep(c) \/ SignerTakes(c) \/ SignerErrs(c)
  PROVE  TypeInv'
<1>1. ASSUME NEW i \in Ids, Remove(i) PROVE TypeInv'
  BY <1>1 DEF Remove, TypeInv, TypeOK, HoldsRow, signerVars
<1>2. ASSUME NEW c \in Calls, SignerStep(c) PROVE TypeInv'
  BY <1>2 DEF SignerStep, Signer!Execute, Signer!Confirm, Signer!Refuse,
              Signer!Show, TypeInv, TypeOK, HoldsRow
<1>3. ASSUME NEW c \in Calls, SignerTakes(c) PROVE TypeInv'
  BY <1>3 DEF SignerTakes, Signer!Accept, Signer!Retry, Signer!Show,
              TypeInv, TypeOK, HoldsRow, signerVars
<1>4. ASSUME NEW c \in Calls, SignerErrs(c) PROVE TypeInv'
  BY <1>4 DEF SignerErrs, TypeInv, TypeOK, HoldsRow
<1> QED BY <1>1, <1>2, <1>3, <1>4

\* Tasks.
LEMMA TaskTypeInv ==
  ASSUME TypeInv, NEW w \in Workers,
         (\E u \in Users : Start(w, u)) \/ TaskStep(w) \/ Die(w)
  PROVE  TypeInv'
<1>1. ASSUME NEW u \in Users, Start(w, u) PROVE TypeInv'
  <2>1. tasks' \in [Users -> Nat]
    BY <1>1 DEF Start, TypeInv, TypeOK
  <2>2. ASSUME NEW i \in Latest(u),
               worker' = [worker EXCEPT ![w] = [pc |-> "verify", id |-> i, row |-> rows[i]]]
        PROVE  /\ worker' \in [Workers -> Task]
               /\ \A v \in Workers : worker'[v].pc # "idle" =>
                      worker'[v].row \in Row /\ worker'[v].id \in Ids
    <3>1. i \in Ids /\ i \in Nat /\ rows[i] \in Row
      BY LikeCoinAssumption DEF Latest, RowsOf, TypeInv, TypeOK, Ids
    <3>2. [pc |-> "verify", id |-> i, row |-> rows[i]] \in Task
      BY <3>1 DEF Task
    <3> QED BY <2>2, <3>1, <3>2 DEF TypeInv, TypeOK, HoldsRow
  <2>3. /\ worker' \in [Workers -> Task]
        /\ \A v \in Workers : worker'[v].pc # "idle" =>
               worker'[v].row \in Row /\ worker'[v].id \in Ids
    BY <1>1, <2>2 DEF Start, TypeInv, TypeOK, HoldsRow
  <2> QED BY <1>1, <2>1, <2>3 DEF Start, TypeInv, TypeOK, HoldsRow, signerVars
<1>2. CASE Verify(w)
  <2>1. worker[w] \in Task /\ worker[w].row \in Row /\ worker[w].id \in Ids
    BY <1>2 DEF Verify, TypeInv, TypeOK, HoldsRow
  <2>2. [worker[w].row EXCEPT !.status = "evm_minting"] \in Row
    BY <2>1 DEF Row, Status
  <2> DEFINE g == [worker[w] EXCEPT !.pc = "post", !.row.status = "evm_minting"]
  <2>3. /\ g \in Task
        /\ g.row \in Row
        /\ g.id \in Ids
    BY <2>1, <2>2 DEF Task
  <2>4. worker' = [worker EXCEPT ![w] = g]
    BY <1>2 DEF Verify, TypeInv, TypeOK
  <2>5. worker' \in [Workers -> Task]
    BY <2>3, <2>4 DEF TypeInv, TypeOK
  <2>6. \A v \in Workers : worker'[v].pc # "idle" =>
               worker'[v].row \in Row /\ worker'[v].id \in Ids
    BY <2>3, <2>4 DEF TypeInv, TypeOK, HoldsRow
  <2>7. rows' \in [Ids -> Row \cup {None}]
    BY <1>2, SaveRowType DEF Verify, Status
  <2> QED BY <1>2, <2>5, <2>6, <2>7 DEF Verify, TypeInv, TypeOK, HoldsRow, signerVars
<1>3. CASE VerifyFails(w)
  BY <1>3, GotoType DEF VerifyFails, TypeInv, TypeOK, HoldsRow, signerVars
<1>4. CASE Post(w)
  <2>1. worker[w].row.call \in Calls
    BY <1>4 DEF Post, TypeInv, HoldsRow, Row
  <2>2. posted' \in SUBSET Calls
    BY <1>4, <2>1 DEF Post, TypeInv, TypeOK
  <2>3. /\ worker' \in [Workers -> Task]
        /\ \A v \in Workers : worker'[v].pc # "idle" =>
               worker'[v].row \in Row /\ worker'[v].id \in Ids
    <3>1. worker[w].pc = "post" /\ (Goto(w, "create") \/ Goto(w, "poll"))
      BY <1>4 DEF Post
    <3> QED BY <3>1, GotoType
  <2> QED BY <1>4, <2>2, <2>3 DEF Post, TypeInv, TypeOK, HoldsRow, signerVars
<1>5. CASE Accepted(w)
  <2>1. shown' \in [Calls -> {"none", "pending", "failed", "mined"}]
    BY <1>5 DEF Accepted, Signer!Accept, Signer!Show, TypeInv, TypeOK
  <2>2. executed' = executed
    BY <1>5 DEF Accepted, Signer!Accept, Signer!Show
  <2> QED BY <1>5, <2>1, <2>2, GotoType DEF Accepted, TypeInv, TypeOK, HoldsRow
<1>6. CASE AcceptRefused(w)
  BY <1>6, StopType DEF AcceptRefused, TypeInv, TypeOK, HoldsRow, signerVars
<1>7. CASE PollMined(w)
  BY <1>7, GotoType DEF PollMined, TypeInv, TypeOK, HoldsRow, signerVars
<1>8. CASE PollFailed(w)
  BY <1>8, GotoType DEF PollFailed, TypeInv, TypeOK, HoldsRow, signerVars
<1>9. CASE CallFails(w)
  <2>1. worker[w].row.call \in Calls
    BY <1>9 DEF CallFails, TypeInv, HoldsRow, Row
  <2>2. posted' \in SUBSET Calls
    BY <1>9, <2>1 DEF CallFails, TypeInv, TypeOK
  <2> QED BY <1>9, <2>2, GotoType DEF CallFails, TypeInv, TypeOK, HoldsRow, signerVars
<1>10. CASE Complete(w)
  <2>1. rows' \in [Ids -> Row \cup {None}]
    BY <1>10, SaveRowType DEF Complete, Status
  <2> QED BY <1>10, <2>1, StopType DEF Complete, TypeInv, TypeOK, HoldsRow, signerVars
<1>11. CASE CompleteFails(w)
  BY <1>11, GotoType DEF CompleteFails, TypeInv, TypeOK, HoldsRow, signerVars
<1>12. CASE Fail(w)
  <2>1. rows' \in [Ids -> Row \cup {None}]
    BY <1>12, SaveRowType DEF Fail, Status
  <2> QED BY <1>12, <2>1, StopType DEF Fail, TypeInv, TypeOK, HoldsRow, signerVars
<1>13. CASE FailAborted(w)
  BY <1>13, StopType DEF FailAborted, TypeInv, TypeOK, HoldsRow, signerVars
<1>14. CASE Die(w)
  BY <1>14, StopType DEF Die, TypeInv, TypeOK, HoldsRow, signerVars
<1> QED BY <1>1, <1>2, <1>3, <1>4, <1>5, <1>6, <1>7, <1>8, <1>9, <1>10,
           <1>11, <1>12, <1>13, <1>14 DEF TaskStep

LEMMA NextTypeInv == TypeInv /\ [Next]_vars => TypeInv'
<1>1. ASSUME TypeInv, UNCHANGED vars PROVE TypeInv'
  BY <1>1 DEF vars, signerVars, TypeInv, TypeOK, HoldsRow
<1>2. ASSUME TypeInv, Next PROVE TypeInv'
  BY <1>2, HandlerTypeInv, OutsideTypeInv, TaskTypeInv DEF Next
<1> QED BY <1>1, <1>2

\* The state keeps its types, whatever fails (TypeOK).
THEOREM TypeOKCorrect == Spec => []TypeOK
<1>1. TypeInv => TypeOK
  BY DEF TypeInv
<1> QED BY <1>1, InitTypeInv, NextTypeInv, PTL DEF Spec

-----------------------------------------------------------------------------
(* What handlers write.                                                    *)

\* A handler writes a row that waits for its burn, or one with a burn that is
\* to be verified.
HandlerWrites ==
    \A h \in Handlers :
        /\ handler[h].pc = "insert" => handler[h].row.status = "pending_cosmos_tx_hash"
        /\ handler[h].pc = "update" =>
             /\ handler[h].row.status = "verifying_cosmos_tx"
             /\ handler[h].row.burn # None

LEMMA InitHandlerWrites == Init => HandlerWrites
  BY DEF Init, NoRequest, HandlerWrites

LEMMA NextHandlerWrites ==
  ASSUME TypeInv, HandlerWrites, [Next]_vars
  PROVE  HandlerWrites'
<1>1. ASSUME NEW h \in Handlers, NEW u \in Users, NEW c \in Calls, CreateBegin(h, u, c)
      PROVE  HandlerWrites'
  BY <1>1 DEF CreateBegin, HandlerWrites, TypeInv, TypeOK
<1>2. ASSUME NEW h \in Handlers, NEW u \in Users, NEW b \in Burns, UpdateBegin(h, u, b)
      PROVE  HandlerWrites'
  <2>1. PICK i \in Latest(u) :
           handler' = [handler EXCEPT ![h] =
                [pc |-> "update", user |-> u, id |-> i,
                 row |-> [rows[i] EXCEPT !.burn = b, !.status = "verifying_cosmos_tx"]]]
    BY <1>2 DEF UpdateBegin
  <2>2. rows[i] \in Row
    BY DEF Latest, RowsOf, TypeInv, TypeOK
  <2> DEFINE r == [rows[i] EXCEPT !.burn = b, !.status = "verifying_cosmos_tx"]
  <2>3. r.burn # None /\ r.status = "verifying_cosmos_tx"
    BY <2>2, LikeCoinAssumption DEF Row
  <2> QED BY <2>1, <2>3 DEF HandlerWrites, TypeInv, TypeOK
<1>3. ASSUME NEW h \in Handlers, Request(h) PROVE HandlerWrites'
  <2>1. CASE Answer(h)
    BY <2>1 DEF Answer, NoRequest, HandlerWrites, TypeInv, TypeOK
  <2>2. CASE Update(h)
    <3>1. handler[h] \in Handler
      BY DEF TypeInv, TypeOK
    <3>2. handler'[h].pc = "enqueue"
      BY <2>2, <3>1 DEF Update, Handler, TypeInv, TypeOK
    <3>3. \A g \in Handlers \ {h} : handler'[g] = handler[g]
      BY <2>2 DEF Update, TypeInv, TypeOK
    <3> QED BY <3>2, <3>3 DEF HandlerWrites
  <2> QED BY <1>3, <2>1, <2>2 DEF Request, Insert, Enqueue, RequestFails
<1>4. ASSUME UNCHANGED handler PROVE HandlerWrites'
  BY <1>4 DEF HandlerWrites
<1>5. (\E i \in Ids : Remove(i)) => UNCHANGED handler
  BY DEF Remove
<1>6. ASSUME NEW w \in Workers, NEW u \in Users, Start(w, u) PROVE UNCHANGED handler
  BY <1>6 DEF Start
<1>7. ASSUME NEW w \in Workers, TaskStep(w) \/ Die(w) PROVE UNCHANGED handler
  BY <1>7 DEF TaskStep, Die, Verify, VerifyFails, Post, Accepted, AcceptRefused,
              PollMined, PollFailed, CallFails, Complete, CompleteFails, Fail,
              FailAborted
<1>8. ASSUME NEW c \in Calls, SignerStep(c) \/ SignerTakes(c) \/ SignerErrs(c)
      PROVE  UNCHANGED handler
  BY <1>8 DEF SignerStep, SignerTakes, SignerErrs
<1>9. UNCHANGED vars => UNCHANGED handler
  BY DEF vars
<1> QED BY <1>1, <1>2, <1>3, <1>4, <1>5, <1>6, <1>7, <1>8, <1>9 DEF Next

-----------------------------------------------------------------------------
(* Payment.  mined is true of the signer, and a task that has read it has  *)
(* been paid for the call of its copy of the row.                          *)

MinedWasExecuted == \A c \in Calls : shown[c] = "mined" => executed[c] > 0

CompletingWasPaid ==
    \A w \in Workers :
        worker[w].pc = "complete" => executed[worker[w].row.call] > 0

PaidInv ==
    /\ TypeInv
    /\ HandlerWrites
    /\ MinedWasExecuted
    /\ CompletingWasPaid
    /\ CompletedWasPaid

\* What the signer does, alone or for a task: executions are not undone, and
\* mined stays true.
LEMMA SignerMoves ==
  ASSUME TypeInv, MinedWasExecuted, NEW c \in Calls,
         \/ Signer!Accept(c) \/ SignerStep(c) \/ SignerTakes(c) \/ SignerErrs(c)
  PROVE  /\ MinedWasExecuted'
         /\ \A d \in Calls : executed[d] > 0 => executed'[d] > 0
<1>1. shown \in [Calls -> {"none", "pending", "failed", "mined"}] /\ executed \in [Calls -> Nat]
  BY DEF TypeInv, TypeOK
<1>2. CASE SignerErrs(c)
  BY <1>1, <1>2 DEF SignerErrs, MinedWasExecuted
<1>3. CASE Signer!Accept(c)
  BY <1>1, <1>3 DEF Signer!Accept, Signer!Show, MinedWasExecuted
<1>4. CASE SignerTakes(c)
  BY <1>1, <1>4 DEF SignerTakes, Signer!Accept, Signer!Retry, Signer!Show,
                    MinedWasExecuted, signerVars
<1>5. CASE SignerStep(c)
  BY <1>1, <1>5 DEF SignerStep, Signer!Execute, Signer!Confirm, Signer!Refuse,
                    Signer!Show, MinedWasExecuted
<1> QED BY <1>2, <1>3, <1>4, <1>5

\* What is paid stays paid.
LEMMA StaysPaid ==
  ASSUME PaidInv, \A d \in Calls : executed[d] > 0 => executed'[d] > 0
  PROVE  /\ UNCHANGED worker => CompletingWasPaid'
         /\ UNCHANGED rows => CompletedWasPaid'
<1>1. \A w \in Workers : worker[w].pc = "complete" => worker[w].row.call \in Calls
  BY DEF PaidInv, TypeInv, HoldsRow, Row
<1>2. \A i \in Ids : rows[i] # None => rows[i].call \in Calls
  BY DEF PaidInv, TypeInv, TypeOK, Row
<1> QED BY <1>1, <1>2 DEF PaidInv, CompletingWasPaid, CompletedWasPaid

\* A row may be replaced by one that is not completed, or was paid.
LEMMA SavePaid ==
  ASSUME PaidInv, NEW i \in Ids, NEW r \in Row,
         rows' = [rows EXCEPT ![i] = r], UNCHANGED executed,
         r.status = "completed" => executed[r.call] > 0
  PROVE  CompletedWasPaid'
  BY DEF PaidInv, TypeInv, TypeOK, CompletedWasPaid

\* A task that moves on, but not to complete, or that stops.
LEMMA MovePaid ==
  ASSUME PaidInv, NEW w \in Workers, UNCHANGED executed,
         \/ Stop(w)
         \/ \E p \in {"verify", "post", "create", "poll", "failing"} : Goto(w, p)
  PROVE  CompletingWasPaid'
<1>1. worker[w] \in Task
  BY DEF PaidInv, TypeInv, TypeOK
<1>2. worker'[w].pc # "complete"
  BY <1>1 DEF Stop, Goto, NoTask, Task, PaidInv, TypeInv, TypeOK
<1>3. \A v \in Workers \ {w} : worker'[v] = worker[v]
  BY DEF Stop, Goto, PaidInv, TypeInv, TypeOK
<1> QED BY <1>2, <1>3 DEF PaidInv, CompletingWasPaid

LEMMA TaskPaid ==
  ASSUME PaidInv, NEW w \in Workers,
         (\E u \in Users : Start(w, u)) \/ TaskStep(w) \/ Die(w)
  PROVE  MinedWasExecuted' /\ CompletingWasPaid' /\ CompletedWasPaid'
<1> USE DEF PaidInv
<1>0. worker[w].pc # "idle" =>
        worker[w] \in Task /\ worker[w].row \in Row /\ worker[w].id \in Ids
  BY DEF TypeInv, TypeOK, HoldsRow
<1>1. ASSUME NEW u \in Users, Start(w, u)
      PROVE  MinedWasExecuted' /\ CompletingWasPaid' /\ CompletedWasPaid'
  <2>1. CompletingWasPaid'
    <3>1. \A v \in Workers : worker'[v].pc = "complete" => worker'[v] = worker[v]
      BY <1>1 DEF Start, TypeInv, TypeOK
    <3> QED BY <1>1, <3>1 DEF Start, CompletingWasPaid, signerVars
  <2> QED BY <1>1, <2>1 DEF Start, MinedWasExecuted, CompletedWasPaid, signerVars
<1>2. CASE Verify(w)
  <2>1. worker[w].row \in Row /\ worker[w].id \in Ids /\ worker[w] \in Task
    BY <1>0, <1>2 DEF Verify
  <2> DEFINE r == [worker[w].row EXCEPT !.status = "evm_minting"]
  <2>2. r \in Row /\ r.status = "evm_minting"
    BY <2>1 DEF Row, Status
  <2>3. CompletedWasPaid'
    BY <1>2, <2>1, <2>2, SavePaid DEF Verify, SaveRow, Save, signerVars
  <2>4. \A v \in Workers \ {w} : worker'[v] = worker[v]
    BY <1>2 DEF Verify, TypeInv, TypeOK
  <2>5. worker'[w].pc = "post"
    BY <1>2, <2>1 DEF Verify, TypeInv, TypeOK, Task
  <2> QED BY <1>2, <2>3, <2>4, <2>5
          DEF Verify, MinedWasExecuted, CompletingWasPaid, signerVars
<1>3. CASE PollMined(w)
  <2>1. worker[w].row \in Row /\ worker[w] \in Task
    BY <1>0, <1>3 DEF PollMined
  <2>2. executed[worker[w].row.call] > 0
    BY <1>3, <2>1 DEF PollMined, MinedWasExecuted, Row
  <2>3. worker'[w].row = worker[w].row
    BY <1>3, <2>1 DEF PollMined, Goto, TypeInv, TypeOK, Task
  <2>4. \A v \in Workers \ {w} : worker'[v] = worker[v]
    BY <1>3 DEF PollMined, Goto, TypeInv, TypeOK
  <2>5. CompletingWasPaid'
    BY <1>3, <2>2, <2>3, <2>4 DEF PollMined, CompletingWasPaid, signerVars
  <2> QED BY <1>3, <2>5 DEF PollMined, MinedWasExecuted, CompletedWasPaid, signerVars
<1>4. CASE Accepted(w)
  <2>1. worker[w].row.call \in Calls
    BY <1>0, <1>4 DEF Accepted, Row
  <2>2. MinedWasExecuted' /\ \A d \in Calls : executed[d] > 0 => executed'[d] > 0
    BY <1>4, <2>1, SignerMoves DEF Accepted
  <2>3. UNCHANGED executed
    BY <1>4 DEF Accepted, Signer!Accept, Signer!Show
  <2>4. CompletingWasPaid'
    BY <1>4, <2>3, MovePaid DEF Accepted
  <2> QED BY <1>4, <2>2, <2>4, StaysPaid DEF Accepted
<1>5. CASE Complete(w)
  <2>1. worker[w].row \in Row /\ worker[w].id \in Ids /\ executed[worker[w].row.call] > 0
    BY <1>0, <1>5 DEF Complete, CompletingWasPaid
  <2> DEFINE r == [worker[w].row EXCEPT !.status = "completed"]
  <2>2. r \in Row /\ r.call = worker[w].row.call
    BY <2>1 DEF Row, Status
  <2>3. CompletedWasPaid'
    BY <1>5, <2>1, <2>2, SavePaid DEF Complete, SaveRow, Save, signerVars
  <2> QED BY <1>5, <2>3, MovePaid DEF Complete, MinedWasExecuted, signerVars
<1>6. CASE Fail(w)
  <2>1. worker[w].row \in Row /\ worker[w].id \in Ids
    BY <1>0, <1>6 DEF Fail
  <2> DEFINE r == [worker[w].row EXCEPT !.status = "failed"]
  <2>2. r \in Row /\ r.status = "failed"
    BY <2>1 DEF Row, Status
  <2>3. CompletedWasPaid'
    BY <1>6, <2>1, <2>2, SavePaid DEF Fail, SaveRow, Save, signerVars
  <2> QED BY <1>6, <2>3, MovePaid DEF Fail, MinedWasExecuted, signerVars
<1>7. CASE UNCHANGED <<rows, signerVars>>
           /\ (Stop(w) \/ \E p \in {"verify", "post", "create", "poll", "failing"} : Goto(w, p))
  BY <1>7, MovePaid DEF MinedWasExecuted, CompletedWasPaid, signerVars
<1> QED BY <1>1, <1>2, <1>3, <1>4, <1>5, <1>6, <1>7
        DEF TaskStep, Die, VerifyFails, Post, AcceptRefused, PollFailed,
            CallFails, CompleteFails, FailAborted

LEMMA NextPaidInv == PaidInv /\ [Next]_vars => PaidInv'
<1> SUFFICES ASSUME PaidInv, [Next]_vars PROVE PaidInv'
  OBVIOUS
<1>0. TypeInv' /\ HandlerWrites'
  BY NextTypeInv, NextHandlerWrites DEF PaidInv
<1>1. ASSUME NEW h \in Handlers,
             \/ \E u \in Users : \/ \E c \in Calls : CreateBegin(h, u, c)
                                 \/ \E b \in Burns : UpdateBegin(h, u, b)
             \/ Enqueue(h) \/ RequestFails(h)
      PROVE  MinedWasExecuted' /\ CompletingWasPaid' /\ CompletedWasPaid'
  BY <1>1 DEF CreateBegin, UpdateBegin, Enqueue, RequestFails, signerVars, PaidInv,
              MinedWasExecuted, CompletingWasPaid, CompletedWasPaid
<1>2. ASSUME NEW h \in Handlers, Insert(h)
      PROVE  MinedWasExecuted' /\ CompletingWasPaid' /\ CompletedWasPaid'
  <2>1. handler[h].row \in Row /\ handler[h].row.status = "pending_cosmos_tx_hash"
    BY <1>2 DEF Insert, PaidInv, TypeInv, HoldsRow, HandlerWrites
  <2>2. lastId + 1 \in Ids
    BY <1>2, LikeCoinAssumption DEF Insert, Ids, PaidInv, TypeInv, TypeOK
  <2>3. CompletedWasPaid'
    BY <1>2, <2>1, <2>2, SavePaid DEF Insert, signerVars
  <2> QED BY <1>2, <2>3 DEF Insert, signerVars, PaidInv, MinedWasExecuted, CompletingWasPaid
<1>3. ASSUME NEW h \in Handlers, Update(h)
      PROVE  MinedWasExecuted' /\ CompletingWasPaid' /\ CompletedWasPaid'
  <2>1. handler[h].row \in Row /\ handler[h].row.status = "verifying_cosmos_tx"
    BY <1>3 DEF Update, PaidInv, TypeInv, HoldsRow, HandlerWrites
  <2>2. \A i \in Ids : rows'[i] # rows[i] => rows'[i] = handler[h].row
    BY <1>3 DEF Update, Save, PaidInv, TypeInv, TypeOK
  <2>3. CompletedWasPaid'
    BY <1>3, <2>1, <2>2 DEF Update, CompletedWasPaid, PaidInv, signerVars
  <2> QED BY <1>3, <2>3 DEF Update, signerVars, PaidInv, MinedWasExecuted, CompletingWasPaid
<1>4. ASSUME NEW i \in Ids, Remove(i)
      PROVE  MinedWasExecuted' /\ CompletingWasPaid' /\ CompletedWasPaid'
  <2>1. \A j \in Ids : rows'[j] # None => rows'[j] = rows[j]
    BY <1>4 DEF Remove, PaidInv, TypeInv, TypeOK
  <2>2. CompletedWasPaid'
    BY <1>4, <2>1 DEF Remove, CompletedWasPaid, PaidInv, signerVars
  <2> QED BY <1>4, <2>2 DEF Remove, signerVars, PaidInv, MinedWasExecuted, CompletingWasPaid
<1>5. ASSUME NEW c \in Calls, SignerStep(c) \/ SignerTakes(c) \/ SignerErrs(c)
      PROVE  MinedWasExecuted' /\ CompletingWasPaid' /\ CompletedWasPaid'
  <2>1. MinedWasExecuted' /\ \A d \in Calls : executed[d] > 0 => executed'[d] > 0
    BY <1>5, SignerMoves DEF PaidInv
  <2>2. UNCHANGED <<worker, rows>>
    BY <1>5 DEF SignerStep, SignerTakes, SignerErrs
  <2> QED BY <2>1, <2>2, StaysPaid
<1>6. ASSUME UNCHANGED vars
      PROVE  MinedWasExecuted' /\ CompletingWasPaid' /\ CompletedWasPaid'
  BY <1>6 DEF vars, signerVars, PaidInv, MinedWasExecuted, CompletingWasPaid, CompletedWasPaid
<1>7. MinedWasExecuted' /\ CompletingWasPaid' /\ CompletedWasPaid'
  BY <1>1, <1>2, <1>3, <1>4, <1>5, <1>6, TaskPaid DEF Next, Request
<1> QED BY <1>0, <1>7 DEF PaidInv

\* Whatever fails and however handlers and tasks overlap, a migration is shown
\* completed only if its transfer has been executed (CompletedWasPaid).
THEOREM CompletedWasPaidCorrect == Spec => []CompletedWasPaid
<1>1. Init => PaidInv
  BY InitTypeInv, InitHandlerWrites
     DEF Init, Signer!Init, NoTask, PaidInv, MinedWasExecuted,
         CompletingWasPaid, CompletedWasPaid
<1>2. PaidInv => CompletedWasPaid
  BY DEF PaidInv
<1> QED BY <1>1, <1>2, NextPaidInv, PTL DEF Spec

-----------------------------------------------------------------------------
(* Verification.  A task works on a row that has a burn, and from the      *)
(* transfer on on one it has verified; it writes its whole copy.           *)

VerifyingHasBurn ==
    \A i \in Ids :
        rows[i] # None /\ rows[i].status = "verifying_cosmos_tx" => rows[i].burn # None

TaskVerified ==
    \A w \in Workers :
        /\ worker[w].pc # "idle" => worker[w].row.burn # None
        /\ worker[w].pc \in {"post", "create", "poll", "complete"} => Verified(worker[w].row)

VerifiedInv ==
    /\ TypeInv
    /\ HandlerWrites
    /\ VerifyingHasBurn
    /\ TaskVerified
    /\ MintedWasVerified

\* Every row that a step changes is removed or replaced by a good one.
LEMMA WriteVerified ==
  ASSUME VerifiedInv, NEW r,
         \A i \in Ids : rows'[i] \in {rows[i], None, r},
         r.status = "verifying_cosmos_tx" => r.burn # None,
         r.status \in {"evm_minting", "completed"} => r.burn # None /\ Verified(r)
  PROVE  VerifyingHasBurn' /\ MintedWasVerified'
  BY DEF VerifiedInv, VerifyingHasBurn, MintedWasVerified, Verified

LEMMA KeepVerified ==
  ASSUME VerifiedInv
  PROVE  /\ UNCHANGED rows => VerifyingHasBurn' /\ MintedWasVerified'
         /\ UNCHANGED worker => TaskVerified'
  BY DEF VerifiedInv, VerifyingHasBurn, MintedWasVerified, TaskVerified, Verified

\* A task stops, fails, or goes on with what it has verified.
LEMMA MoveVerified ==
  ASSUME VerifiedInv, NEW w \in Workers, worker[w].pc # "idle",
         \/ Stop(w)
         \/ Goto(w, "failing")
         \/ /\ worker[w].pc \in {"post", "create", "poll", "complete"}
            /\ \E p \in {"create", "poll", "complete"} : Goto(w, p)
  PROVE  TaskVerified'
<1>1. worker[w] \in Task
  BY DEF VerifiedInv, TypeInv, TypeOK
<1>2. \A v \in Workers \ {w} : worker'[v] = worker[v]
  BY DEF Stop, Goto, VerifiedInv, TypeInv, TypeOK
<1>3. CASE Stop(w)
  <2>1. worker'[w].pc = "idle"
    BY <1>3 DEF Stop, NoTask, VerifiedInv, TypeInv, TypeOK
  <2> QED BY <1>2, <2>1 DEF VerifiedInv, TaskVerified, Verified
<1>4. CASE Goto(w, "failing")
  <2>1. worker'[w].pc = "failing" /\ worker'[w].row = worker[w].row
    BY <1>1, <1>4 DEF Goto, Task, VerifiedInv, TypeInv, TypeOK
  <2> QED BY <1>2, <2>1 DEF VerifiedInv, TaskVerified, Verified
<1>5. CASE /\ worker[w].pc \in {"post", "create", "poll", "complete"}
           /\ \E p \in {"create", "poll", "complete"} : Goto(w, p)
  <2>1. worker'[w].row = worker[w].row
    BY <1>1, <1>5 DEF Goto, Task, VerifiedInv, TypeInv, TypeOK
  <2> QED BY <1>2, <1>5, <2>1 DEF VerifiedInv, TaskVerified, Verified
<1> QED BY <1>3, <1>4, <1>5

LEMMA TaskKeepsVerified ==
  ASSUME VerifiedInv, NEW w \in Workers,
         (\E u \in Users : Start(w, u)) \/ TaskStep(w) \/ Die(w)
  PROVE  VerifyingHasBurn' /\ TaskVerified' /\ MintedWasVerified'
<1> USE DEF VerifiedInv
<1>0. worker[w].pc # "idle" =>
        /\ worker[w] \in Task /\ worker[w].row \in Row /\ worker[w].id \in Ids
        /\ worker[w].row.burn # None
  BY DEF TypeInv, TypeOK, HoldsRow, TaskVerified
<1>1. ASSUME NEW u \in Users, Start(w, u)
      PROVE  VerifyingHasBurn' /\ TaskVerified' /\ MintedWasVerified'
  <2>1. ASSUME NEW i \in Latest(u), rows[i].status = "verifying_cosmos_tx",
               worker' = [worker EXCEPT ![w] = [pc |-> "verify", id |-> i, row |-> rows[i]]]
        PROVE  TaskVerified'
    <3>1. rows[i].burn # None
      BY <2>1 DEF Latest, RowsOf, VerifyingHasBurn
    <3>2. worker'[w].pc = "verify" /\ worker'[w].row = rows[i]
      BY <2>1 DEF TypeInv, TypeOK
    <3>3. \A v \in Workers \ {w} : worker'[v] = worker[v]
      BY <2>1 DEF TypeInv, TypeOK
    <3> QED BY <3>1, <3>2, <3>3 DEF TaskVerified, Verified
  <2>2. TaskVerified'
    BY <1>1, <2>1, KeepVerified DEF Start
  <2> QED BY <1>1, <2>2, KeepVerified DEF Start
<1>2. CASE Verify(w)
  <2>1. /\ worker[w].row \in Row /\ worker[w].id \in Ids /\ worker[w] \in Task
        /\ worker[w].row.burn # None
    BY <1>0, <1>2 DEF Verify
  <2> DEFINE r == [worker[w].row EXCEPT !.status = "evm_minting"]
  <2>2. r.status = "evm_minting" /\ r.burn # None /\ Verified(r)
    BY <1>2, <2>1 DEF Row, Verify, Verified
  <2>3. \A i \in Ids : rows'[i] \in {rows[i], None, r}
    BY <1>2 DEF Verify, SaveRow, Save, TypeInv, TypeOK
  <2>4. VerifyingHasBurn' /\ MintedWasVerified'
    BY <2>2, <2>3, WriteVerified
  <2>5. worker'[w].row = r
    BY <1>2, <2>1 DEF Verify, TypeInv, TypeOK, Task
  <2>6. \A v \in Workers \ {w} : worker'[v] = worker[v]
    BY <1>2 DEF Verify, TypeInv, TypeOK
  <2>7. TaskVerified'
    BY <2>2, <2>5, <2>6 DEF TaskVerified, Verified
  <2> QED BY <2>4, <2>7
<1>3. CASE Complete(w)
  <2>1. /\ worker[w].row \in Row /\ worker[w].row.burn # None
        /\ Verified(worker[w].row)
    BY <1>0, <1>3 DEF Complete, TaskVerified
  <2> DEFINE r == [worker[w].row EXCEPT !.status = "completed"]
  <2>2. r.status = "completed" /\ r.burn # None /\ Verified(r)
    BY <2>1 DEF Row, Verified
  <2>3. \A i \in Ids : rows'[i] \in {rows[i], None, r}
    BY <1>3 DEF Complete, SaveRow, Save, TypeInv, TypeOK
  <2>4. VerifyingHasBurn' /\ MintedWasVerified'
    BY <2>2, <2>3, WriteVerified
  <2> QED BY <1>3, <2>4, MoveVerified DEF Complete
<1>4. CASE Fail(w)
  <2>1. worker[w].row \in Row
    BY <1>0, <1>4 DEF Fail
  <2> DEFINE r == [worker[w].row EXCEPT !.status = "failed"]
  <2>2. r.status = "failed"
    BY <2>1 DEF Row
  <2>3. \A i \in Ids : rows'[i] \in {rows[i], None, r}
    BY <1>4 DEF Fail, SaveRow, Save, TypeInv, TypeOK
  <2>4. VerifyingHasBurn' /\ MintedWasVerified'
    BY <2>2, <2>3, WriteVerified
  <2> QED BY <1>4, <2>4, MoveVerified DEF Fail
<1>5. CASE \/ VerifyFails(w) \/ Post(w) \/ Accepted(w) \/ AcceptRefused(w)
           \/ PollMined(w) \/ PollFailed(w) \/ CallFails(w) \/ CompleteFails(w)
           \/ FailAborted(w) \/ Die(w)
  <2>1. UNCHANGED rows
    BY <1>5 DEF VerifyFails, Post, Accepted, AcceptRefused, PollMined, PollFailed,
                CallFails, CompleteFails, FailAborted, Die
  <2>2. TaskVerified'
    BY <1>5, MoveVerified
       DEF VerifyFails, Post, Accepted, AcceptRefused, PollMined, PollFailed,
           CallFails, CompleteFails, FailAborted, Die
  <2> QED BY <2>1, <2>2, KeepVerified
<1> QED BY <1>1, <1>2, <1>3, <1>4, <1>5 DEF TaskStep

LEMMA NextVerifiedInv == VerifiedInv /\ [Next]_vars => VerifiedInv'
<1> SUFFICES ASSUME VerifiedInv, [Next]_vars PROVE VerifiedInv'
  OBVIOUS
<1>0. TypeInv' /\ HandlerWrites'
  BY NextTypeInv, NextHandlerWrites DEF VerifiedInv
<1>1. ASSUME NEW h \in Handlers,
             \/ \E u \in Users : \/ \E c \in Calls : CreateBegin(h, u, c)
                                 \/ \E b \in Burns : UpdateBegin(h, u, b)
             \/ Enqueue(h) \/ RequestFails(h)
      PROVE  UNCHANGED <<rows, worker>>
  BY <1>1 DEF CreateBegin, UpdateBegin, Enqueue, RequestFails
<1>2. ASSUME NEW h \in Handlers, Insert(h) \/ Update(h)
      PROVE  VerifyingHasBurn' /\ TaskVerified' /\ MintedWasVerified'
  <2> DEFINE r == handler[h].row
  <2>1. /\ r.status = "verifying_cosmos_tx" => r.burn # None
        /\ r.status \notin {"evm_minting", "completed"}
    BY <1>2 DEF Insert, Update, VerifiedInv, HandlerWrites
  <2>2. \A i \in Ids : rows'[i] \in {rows[i], None, r}
    BY <1>2 DEF Insert, Update, Save, VerifiedInv, TypeInv, TypeOK
  <2>3. UNCHANGED worker
    BY <1>2 DEF Insert, Update
  <2> QED BY <2>1, <2>2, <2>3, WriteVerified, KeepVerified
<1>3. ASSUME NEW i \in Ids, Remove(i)
      PROVE  VerifyingHasBurn' /\ TaskVerified' /\ MintedWasVerified'
  <2>1. \A j \in Ids : rows'[j] # None => rows'[j] = rows[j]
    BY <1>3 DEF Remove, VerifiedInv, TypeInv, TypeOK
  <2>2. VerifyingHasBurn' /\ MintedWasVerified'
    BY <2>1 DEF VerifiedInv, VerifyingHasBurn, MintedWasVerified, Verified
  <2> QED BY <1>3, <2>2, KeepVerified DEF Remove
<1>4. ASSUME NEW c \in Calls, SignerStep(c) \/ SignerTakes(c) \/ SignerErrs(c)
      PROVE  UNCHANGED <<rows, worker>>
  BY <1>4 DEF SignerStep, SignerTakes, SignerErrs
<1>5. ASSUME UNCHANGED vars
      PROVE  UNCHANGED <<rows, worker>>
  BY <1>5 DEF vars
<1>6. VerifyingHasBurn' /\ TaskVerified' /\ MintedWasVerified'
  BY <1>1, <1>2, <1>3, <1>4, <1>5, TaskKeepsVerified, KeepVerified DEF Next, Request
<1> QED BY <1>0, <1>6 DEF VerifiedInv

\* Whatever copies of a row handlers and tasks save over each other, the burn of
\* a migration that is being minted or is completed was verified
\* (MintedWasVerified).
THEOREM MintedWasVerifiedCorrect == Spec => []MintedWasVerified
<1>1. Init => VerifiedInv
  BY InitTypeInv, InitHandlerWrites
     DEF Init, NoTask, VerifiedInv, VerifyingHasBurn, TaskVerified, MintedWasVerified
<1>2. VerifiedInv => MintedWasVerified
  BY DEF VerifiedInv
<1> QED BY <1>1, <1>2, NextVerifiedInv, PTL DEF Spec

=============================================================================
