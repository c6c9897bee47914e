--------------------------- MODULE CarefulProofs ---------------------------
(***************************************************************************)
(* Theorems about LikeCoinMigration for careful users, who send one        *)
(* request at a time and never ask for the transfer of another migration,  *)
(* while tasks may die and enqueuing may fail: what is shown as failed is  *)
(* not paid, what is completed stays so, and the signer is asked in turn.  *)
(***************************************************************************)
EXTENDS LikeCoinProofs

-----------------------------------------------------------------------------
(* The invariant.                                                          *)

Serves(h, u) == handler[h].pc # "idle" /\ handler[h].user = u

Works(w, u) == worker[w].pc # "idle" /\ worker[w].row.user = u

\* A migration of u waits for its task.
Awaits(u) == \E i \in RowsOf(u) : rows[i].status = "verifying_cosmos_tx"

\* The migrations ask for different transfers with different burns, and all of
\* a user's have ended but one.
RowsInv ==
    /\ \A i, j \in Ids : rows[i] # None /\ rows[j] # None /\ i # j =>
         /\ rows[i].call # rows[j].call
         /\ rows[i].burn # None => rows[i].burn # rows[j].burn
         /\ rows[i].user = rows[j].user =>
                rows[i].status \in Ended \/ rows[j].status \in Ended
    /\ \A i \in Ids : rows[i] # None => i <= lastId

\* A handler has the only request of its user; what it has read is still so.
RequestInv(h) ==
    LET r == handler[h].row IN
    /\ handler[h].pc # "idle" => handler[h].user \in Users
    /\ \A g \in Handlers \ {h} : handler[h].pc # "idle" => ~Serves(g, handler[h].user)
    /\ handler[h].pc = "insert" =>
         /\ r.user = handler[h].user /\ r.burn = None
         /\ \A i \in RowsOf(r.user) : rows[i].status \in Ended
         /\ \A i \in Ids : rows[i] # None => rows[i].call # r.call
         /\ \A g \in Handlers \ {h} :
                handler[g].pc = "insert" => handler[g].row.call # r.call
    /\ handler[h].pc = "update" =>
         /\ r.user = handler[h].user
         /\ handler[h].id \in RowsOf(r.user)
         /\ rows[handler[h].id].status = "pending_cosmos_tx_hash"
         /\ rows[handler[h].id].call = r.call
    /\ handler[h].pc = "enqueue" => Awaits(handler[h].user)

\* A user has one task, to be enqueued, in the queue or at work.
QueueInv(u) ==
    /\ tasks[u] <= 1
    /\ tasks[u] > 0 => Awaits(u)
    /\ \A w \in Workers : Works(w, u) =>
         /\ tasks[u] = 0
         /\ \A v \in Workers : Works(v, u) => v = w
         /\ \A h \in Handlers : ~(Serves(h, u) /\ handler[h].pc = "enqueue")
    /\ \A h \in Handlers : Serves(h, u) /\ handler[h].pc = "enqueue" => tasks[u] = 0

\* A task's copy is its row.
WorkInv(w) ==
    LET r == worker[w].row IN
    worker[w].pc # "idle" =>
        /\ rows[worker[w].id] = r
        /\ r.status \in {"verifying_cosmos_tx", "evm_minting"}
        /\ worker[w].pc = "verify" => r.status = "verifying_cosmos_tx"
        /\ worker[w].pc \in {"post", "create", "poll", "complete"} =>
                r.status = "evm_minting"
        /\ worker[w].pc \in {"post", "create"} => shown[r.call] = "none"
        /\ worker[w].pc = "failing" => shown[r.call] \in {"none", "failed"}

\* The signer is on the calls of migrations that were verified, and nothing of
\* a failed one is executed.
CallsInv ==
    /\ posted = {}
    /\ \A c \in Calls : shown[c] \in {"none", "failed"} => executed[c] = 0
    /\ \A c \in Calls : shown[c] # "none" =>
         \E i \in Ids : rows[i] # None /\ rows[i].call = c
    /\ \A i \in Ids : rows[i] # None =>
         /\ rows[i].status \in {"pending_cosmos_tx_hash", "verifying_cosmos_tx"} =>
                shown[rows[i].call] = "none"
         /\ rows[i].status = "failed" => shown[rows[i].call] \in {"none", "failed"}

CarefulInv ==
    /\ TypeInv
    /\ HandlerWrites
    /\ RowsInv
    /\ \A h \in Handlers : RequestInv(h)
    /\ \A u \in Users : QueueInv(u)
    /\ \A w \in Workers : WorkInv(w)
    /\ CallsInv

LEMMA InitCarefulInv == Init => CarefulInv
<1> SUFFICES ASSUME Init PROVE CarefulInv
  OBVIOUS
<1>1. /\ \A i \in Ids : rows[i] = None
      /\ \A h \in Handlers : handler[h].pc = "idle"
      /\ \A w \in Workers : worker[w].pc = "idle"
      /\ \A u \in Users : tasks[u] = 0
  BY DEF Init, NoRequest, NoTask
<1>2. CallsInv
  BY <1>1 DEF Init, Signer!Init, CallsInv
<1>3. ASSUME NEW u \in Users PROVE QueueInv(u)
  <2>1. tasks[u] <= 1 /\ ~(tasks[u] > 0)
    BY <1>1
  <2> QED BY <1>1, <2>1 DEF QueueInv, Serves, Works
<1> QED BY <1>1, <1>2, <1>3, InitTypeInv, InitHandlerWrites
        DEF CarefulInv, RowsInv, RequestInv, WorkInv

-----------------------------------------------------------------------------
(* Nobody else is at the migration, or at the user, of a task at work.     *)

\* What a task may rely on.
Alone(w) ==
    LET i == worker[w].id
        r == worker[w].row
    IN
    /\ worker[w] \in Task /\ r \in Row /\ i \in Ids /\ rows[i] = r /\ rows[i] # None
    /\ r.status \in {"verifying_cosmos_tx", "evm_minting"}
    /\ \A j \in Ids \ {i} : rows[j] # None =>
         /\ rows[j].call # r.call
         /\ rows[j].burn # None => rows[j].burn # r.burn
         /\ r.burn # None => rows[j].burn # r.burn
         /\ rows[j].user = r.user => rows[j].status \in Ended
    /\ \A h \in Handlers : ~Serves(h, r.user)
    /\ tasks[r.user] = 0
    /\ \A v \in Workers \ {w} : worker[v].pc # "idle" =>
         worker[v].id # i /\ worker[v].row.user # r.user /\ worker[v].row.call # r.call

LEMMA AtWork ==
  ASSUME CarefulInv, NEW w \in Workers, worker[w].pc # "idle"
  PROVE  Alone(w)
<1> DEFINE i == worker[w].id
           r == worker[w].row
<1>1. worker[w] \in Task /\ r \in Row /\ i \in Ids
  BY DEF CarefulInv, TypeInv, TypeOK, HoldsRow
<1>2. rows[i] = r /\ r.status \in {"verifying_cosmos_tx", "evm_minting"}
  BY DEF CarefulInv, WorkInv
<1>3. rows[i] # None
  BY <1>1, <1>2, NullAssumption
<1>4. r.status \notin Ended /\ r.status # "pending_cosmos_tx_hash"
  BY <1>2 DEF Ended
<1>5. \A j \in Ids \ {i} : rows[j] # None =>
         /\ rows[j].call # r.call
         /\ rows[j].burn # None => rows[j].burn # r.burn
         /\ r.burn # None => rows[j].burn # r.burn
         /\ rows[j].user = r.user => rows[j].status \in Ended
  BY <1>1, <1>2, <1>3, <1>4 DEF CarefulInv, RowsInv
<1>6. r.user \in Users /\ Works(w, r.user) /\ i \in RowsOf(r.user)
  BY <1>1, <1>2, <1>3 DEF Row, Works, RowsOf
<1>7. tasks[r.user] = 0
  BY <1>6 DEF CarefulInv, QueueInv
<1>8. ASSUME NEW v \in Workers \ {w}, worker[v].pc # "idle"
      PROVE  worker[v].id # i /\ worker[v].row.user # r.user /\ worker[v].row.call # r.call
  <2>1. worker[v].row.user # r.user
    BY <1>6, <1>8 DEF CarefulInv, QueueInv, Works
  <2>2. rows[worker[v].id] = worker[v].row /\ worker[v].row \in Row /\ worker[v].id \in Ids
    BY <1>8 DEF CarefulInv, WorkInv, TypeInv, HoldsRow
  <2>3. worker[v].id # i /\ rows[worker[v].id] # None
    BY <1>2, <2>1, <2>2, NullAssumption
  <2> QED BY <1>5, <2>1, <2>2, <2>3
<1>9. ASSUME NEW h \in Handlers, Serves(h, r.user) PROVE FALSE
  <2>1. handler[h] \in Handler /\ handler[h].pc # "idle" /\ handler[h].user = r.user
    BY <1>9 DEF Serves, CarefulInv, TypeInv, TypeOK
  <2>2. handler[h].pc # "insert"
    BY <1>2, <1>4, <1>6, <2>1 DEF CarefulInv, RequestInv
  <2>3. handler[h].pc # "update"
    <3>1. SUFFICES ASSUME handler[h].pc = "update" PROVE FALSE
      OBVIOUS
    <3>2. /\ handler[h].id \in RowsOf(r.user)
          /\ rows[handler[h].id].status = "pending_cosmos_tx_hash"
      BY <2>1, <3>1 DEF CarefulInv, RequestInv
    <3> QED BY <1>2, <1>4, <1>5, <3>2 DEF RowsOf, Ended
  <2>4. handler[h].pc # "enqueue"
    BY <1>6, <1>9 DEF CarefulInv, QueueInv
  <2> QED BY <2>1, <2>2, <2>3, <2>4 DEF Handler
<1> QED BY <1>1, <1>2, <1>3, <1>5, <1>7, <1>8, <1>9 DEF Alone

-----------------------------------------------------------------------------
(* Tasks.                                                                  *)

\* A task moves its migration on, or leaves it, and touches nothing else but
\* what the signer shows of its call.
LEMMA TaskMoves ==
  ASSUME CarefulInv, TypeInv', HandlerWrites',
         NEW w \in Workers, worker[w].pc # "idle",
         NEW i \in Ids, i = worker[w].id,
         NEW u \in Users, u = worker[w].row.user,
         NEW c \in Calls, c = worker[w].row.call,
         NEW r \in Row, r.user = u, r.call = c, r.burn = worker[w].row.burn,
         \A j \in Ids : rows'[j] = IF j = i THEN r ELSE rows[j],
         NEW t \in Task, t.pc # "idle" => t.id = i /\ t.row = r,
         \A v \in Workers : worker'[v] = IF v = w THEN t ELSE worker[v],
         \A d \in Calls \ {c} : shown'[d] = shown[d],
         UNCHANGED <<lastId, tasks, handler, posted, executed>>,
         t.pc = "verify" => r.status = "verifying_cosmos_tx",
         t.pc \in {"post", "create", "poll", "complete"} => r.status = "evm_minting",
         t.pc = "failing" => r.status \in {"verifying_cosmos_tx", "evm_minting"},
         t.pc \in {"post", "create"} => shown'[c] = "none",
         t.pc = "failing" => shown'[c] \in {"none", "failed"},
         r.status # "pending_cosmos_tx_hash",
         r.status = "verifying_cosmos_tx" => shown'[c] = "none",
         r.status = "failed" => shown'[c] \in {"none", "failed"},
         shown'[c] \in {"none", "failed"} => executed[c] = 0
  PROVE  CarefulInv'
<1>0. Alone(w)
  BY AtWork
<1>1. /\ rows[i].user = u /\ rows[i].call = c /\ rows[i].burn = r.burn /\ rows[i] # None
      /\ r # None
      /\ \A j \in Ids \ {i} : rows[j] # None =>
           /\ rows[j].call # c
           /\ rows[j].burn # None => rows[j].burn # r.burn
           /\ r.burn # None => rows[j].burn # r.burn
           /\ rows[j].user = u => rows[j].status \in Ended
  BY <1>0, NullAssumption DEF Alone
<1>2. /\ \A h \in Handlers : ~Serves(h, u)
      /\ tasks[u] = 0
      /\ \A v \in Workers \ {w} : worker[v].pc # "idle" =>
           worker[v].id # i /\ worker[v].row.user # u /\ worker[v].row.call # c
  BY <1>0 DEF Alone
<1>3. RowsInv'
  BY <1>1 DEF CarefulInv, RowsInv
<1>4. ASSUME NEW v \in Users
      PROVE  RowsOf(v)' = RowsOf(v) /\ (v # u => \A j \in RowsOf(v) : rows'[j] = rows[j])
  BY <1>1 DEF RowsOf
<1>5. ASSUME NEW v \in Users \ {u} PROVE Awaits(v)' <=> Awaits(v)
  <2>1. RowsOf(v)' = RowsOf(v) /\ (v # u => \A j \in RowsOf(v) : rows'[j] = rows[j])
    BY <1>4
  <2> QED BY <2>1 DEF Awaits
<1>6. ASSUME NEW h \in Handlers PROVE RequestInv(h)'
  <2>1. RequestInv(h)
    BY DEF CarefulInv
  <2>2. handler[h] \in Handler /\ handler'[h] = handler[h]
    BY DEF CarefulInv, TypeInv, TypeOK
  <2>3. CASE handler[h].pc = "idle"
    BY <2>2, <2>3 DEF RequestInv
  <2>4. CASE handler[h].pc # "idle"
    <3>1. handler[h].user \in Users \ {u}
      BY <1>2, <2>1, <2>4 DEF Serves, RequestInv
    <3>3. CASE handler[h].pc = "insert"
      <4>1. handler[h].row.user \in Users \ {u}
        BY <2>1, <3>1, <3>3 DEF RequestInv
      <4> QED BY <1>1, <2>1, <2>2, <3>3, <4>1 DEF RequestInv, Serves, RowsOf
    <3>4. CASE handler[h].pc = "update"
      <4>1. handler[h].row.user \in Users \ {u} /\ handler[h].id \in RowsOf(handler[h].row.user)
        BY <2>1, <3>1, <3>4 DEF RequestInv
      <4>2. handler[h].id \in Ids \ {i} /\ rows'[handler[h].id] = rows[handler[h].id]
        BY <1>1, <4>1 DEF RowsOf
      <4> QED BY <2>1, <2>2, <3>4, <4>1, <4>2 DEF RequestInv, Serves, RowsOf
    <3>5. CASE handler[h].pc = "enqueue"
      <4>1. PICK v \in Users \ {u} : v = handler[h].user
        BY <3>1
      <4>2. Awaits(v)'
        BY <1>5, <2>1, <3>5, <4>1 DEF RequestInv
      <4> QED BY <2>1, <2>2, <3>5, <4>1, <4>2 DEF RequestInv, Serves
    <3> QED BY <2>2, <2>4, <3>3, <3>4, <3>5 DEF Handler
  <2> QED BY <2>3, <2>4
<1>7. ASSUME NEW v \in Users PROVE QueueInv(v)'
  <2>1. CASE v = u
    BY <1>2, <2>1 DEF QueueInv, Works, Serves
  <2>2. CASE v # u
    BY <1>5, <2>2 DEF CarefulInv, QueueInv, Works, Serves
  <2> QED BY <2>1, <2>2
<1>8. ASSUME NEW v \in Workers PROVE WorkInv(v)'
  <2>1. CASE v = w
    BY <2>1 DEF WorkInv, Task
  <2>2. CASE v # w
    <3>1. worker'[v] = worker[v] /\ WorkInv(v)
      BY <2>2 DEF CarefulInv
    <3>2. worker[v].pc # "idle" =>
             worker[v].id \in Ids /\ worker[v].row \in Row /\ worker[v].row.call \in Calls
      BY DEF CarefulInv, TypeInv, HoldsRow, Row
    <3>3. worker[v].pc # "idle" => /\ rows'[worker[v].id] = rows[worker[v].id]
                                  /\ shown'[worker[v].row.call] = shown[worker[v].row.call]
      BY <1>2, <2>2, <3>2
    <3> QED BY <3>1, <3>3 DEF WorkInv
  <2> QED BY <2>1, <2>2
<1>9. CallsInv'
  <2>1. posted' = {} /\ \A d \in Calls : shown'[d] \in {"none", "failed"} => executed'[d] = 0
    BY DEF CarefulInv, CallsInv
  <2>2. \A d \in Calls : shown'[d] # "none" => \E j \in Ids : rows'[j] # None /\ rows'[j].call = d
    BY <1>1 DEF CarefulInv, CallsInv
  <2>3. ASSUME NEW j \in Ids, rows'[j] # None
        PROVE  /\ rows'[j].status \in {"pending_cosmos_tx_hash", "verifying_cosmos_tx"} =>
                      shown'[rows'[j].call] = "none"
               /\ rows'[j].status = "failed" => shown'[rows'[j].call] \in {"none", "failed"}
    <3>1. CASE j = i
      BY <3>1
    <3>2. CASE j # i
      <4>1. rows'[j] = rows[j] /\ rows[j] \in Row /\ rows[j].call \in Calls \ {c}
        BY <1>1, <2>3, <3>2 DEF CarefulInv, TypeInv, TypeOK, Row
      <4> QED BY <2>3, <4>1 DEF CarefulInv, CallsInv
    <3> QED BY <3>1, <3>2
  <2> QED BY <2>1, <2>2, <2>3 DEF CallsInv
<1> QED BY <1>3, <1>6, <1>7, <1>8, <1>9 DEF CarefulInv

\* The only faults of the theorems.
Disciplined == Careful /\ Faults \subseteq {"crash", "redis"}

\* The UPDATE of a task finds its row, and no other row with its burn.
LEMMA CanSave ==
  ASSUME CarefulInv, NEW w \in Workers, worker[w].pc # "idle"
  PROVE  /\ Writable(worker[w].id, worker[w].row)
         /\ \A s \in Status : [worker[w].row EXCEPT !.status = s] \in Row
  BY AtWork DEF Alone, Writable, Row

\* A task goes on with its row as it is, or ends.
MovesTo(w, p) == IF p = "idle" THEN Stop(w) ELSE Goto(w, p)

LEMMA TaskGoes ==
  ASSUME CarefulInv, TypeInv', HandlerWrites',
         NEW w \in Workers, worker[w].pc # "idle",
         NEW p \in {"idle", "create", "poll", "complete", "failing"}, MovesTo(w, p),
         UNCHANGED <<rows, lastId, tasks, handler, posted, shown, executed>>,
         p \in {"create", "poll", "complete"} => worker[w].row.status = "evm_minting",
         p = "create" => shown[worker[w].row.call] = "none",
         p = "failing" => shown[worker[w].row.call] \in {"none", "failed"}
  PROVE  CarefulInv'
<1>1. Alone(w)
  BY AtWork
<1>2. PICK i \in Ids, u \in Users, c \in Calls, r \in Row :
         /\ i = worker[w].id /\ u = worker[w].row.user
         /\ c = worker[w].row.call /\ r = worker[w].row
  BY <1>1 DEF Alone, Row
<1>3. worker'[w] \in Task /\ worker[w] \in Task
  BY DEF CarefulInv, TypeInv, TypeOK
<1>4. PICK t \in Task : t = worker'[w]
  BY <1>3
<1>5. /\ t.pc = p
      /\ t.pc # "idle" => t.id = i /\ t.row = r
      /\ \A v \in Workers : worker'[v] = IF v = w THEN t ELSE worker[v]
  BY <1>2, <1>3, <1>4 DEF MovesTo, Goto, Stop, NoTask, CarefulInv, TypeInv, TypeOK, Task
<1>6. /\ r.user = u /\ r.call = c /\ r.burn = worker[w].row.burn
      /\ r.status \in {"verifying_cosmos_tx", "evm_minting"}
      /\ \A j \in Ids : rows'[j] = IF j = i THEN r ELSE rows[j]
      /\ rows[i] = r /\ rows[i] # None
  BY <1>1, <1>2 DEF Alone
<1>7. r.status = "verifying_cosmos_tx" => shown'[c] = "none"
  BY <1>6, <1>2 DEF CarefulInv, CallsInv
<1>8. shown'[c] \in {"none", "failed"} => executed[c] = 0
  BY DEF CarefulInv, CallsInv
<1> QED BY <1>2, <1>5, <1>6, <1>7, <1>8, TaskMoves

\* A task saves its row with another status.
LEMMA TaskSaves ==
  ASSUME CarefulInv, TypeInv', HandlerWrites',
         NEW w \in Workers, worker[w].pc # "idle",
         NEW s \in {"evm_minting", "completed", "failed"}, SaveRow(w, s),
         UNCHANGED <<lastId, tasks, handler, posted, shown, executed>>,
         IF s = "evm_minting"
         THEN worker' = [worker EXCEPT ![w].pc = "post", ![w].row.status = s]
         ELSE Stop(w),
         s = "evm_minting" => worker[w].pc = "verify",
         s = "failed" => worker[w].pc = "failing"
  PROVE  CarefulInv'
<1>1. Alone(w)
  BY AtWork
<1>2. PICK i \in Ids, u \in Users, c \in Calls, q \in Row :
         /\ i = worker[w].id /\ u = worker[w].row.user
         /\ c = worker[w].row.call /\ q = worker[w].row
  BY <1>1 DEF Alone, Row
<1> DEFINE r == [q EXCEPT !.status = s]
<1>3. /\ r \in Row /\ r.user = u /\ r.call = c /\ r.burn = q.burn /\ r.status = s
  BY <1>2 DEF Row, Status
<1>4. \A j \in Ids : rows'[j] = IF j = i THEN r ELSE rows[j]
  BY <1>2 DEF SaveRow, Save, CarefulInv, TypeInv, TypeOK
<1>5. worker'[w] \in Task /\ worker[w] \in Task
  BY DEF CarefulInv, TypeInv, TypeOK
<1>6. PICK t \in Task : t = worker'[w]
  BY <1>5
<1> HIDE DEF r
<1>7. \A v \in Workers : worker'[v] = IF v = w THEN t ELSE worker[v]
  BY <1>6 DEF Stop, CarefulInv, TypeInv, TypeOK
<1>8. CASE s = "evm_minting"
  <2>1. t.pc = "post" /\ t.id = i
    BY <1>2, <1>5, <1>6, <1>8 DEF Task, CarefulInv, TypeInv, TypeOK
  <2>2. t.row = r
    <3>1. worker' = [worker EXCEPT ![w] = [worker[w] EXCEPT !.pc = "post", !.row.status = s]]
      BY <1>8 DEF CarefulInv, TypeInv, TypeOK
    <3> QED BY <1>2, <1>5, <1>6, <3>1 DEF r, Task, CarefulInv, TypeInv, TypeOK
  <2>3. shown[c] = "none"
    <3>1. rows[i] # None /\ rows[i].call = c /\ rows[i].status = "verifying_cosmos_tx"
      BY <1>1, <1>2, <1>8 DEF Alone, CarefulInv, WorkInv
    <3> QED BY <3>1 DEF CarefulInv, CallsInv
  <2>4. executed[c] = 0
    BY <2>3 DEF CarefulInv, CallsInv
  <2> QED BY <1>2, <1>3, <1>4, <1>7, <1>8, <2>1, <2>2, <2>3, <2>4, TaskMoves
<1>9. CASE s # "evm_minting"
  <2>1. t.pc = "idle"
    BY <1>6, <1>9 DEF Stop, NoTask, CarefulInv, TypeInv, TypeOK
  <2>2. s = "failed" => shown[c] \in {"none", "failed"}
    BY <1>2 DEF CarefulInv, WorkInv
  <2>3. shown[c] \in {"none", "failed"} => executed[c] = 0
    BY DEF CarefulInv, CallsInv
  <2> QED BY <1>2, <1>3, <1>4, <1>7, <1>9, <2>1, <2>2, <2>3, TaskMoves
<1> QED BY <1>8, <1>9

LEMMA TaskCareful ==
  ASSUME Disciplined, CarefulInv, TypeInv', HandlerWrites',
         NEW w \in Workers, TaskStep(w) \/ Die(w)
  PROVE  CarefulInv'
<1>1. Faults \cap {"rpc", "db", "timeout"} = {}
  BY DEF Disciplined
<1>2. /\ WorkInv(w) /\ posted = {}
      /\ worker[w].pc # "idle" =>
           /\ Alone(w) /\ worker[w].row.call \in Calls
           /\ Writable(worker[w].id, worker[w].row)
  BY AtWork, CanSave DEF CarefulInv, CallsInv, Alone, Row
<1>3. CASE Verify(w)
  BY <1>3, TaskSaves DEF Verify, signerVars
<1>4. CASE VerifyFails(w)
  <2>1. PICK c \in Calls : c = worker[w].row.call
    BY <1>2, <1>4 DEF VerifyFails
  <2>2. shown[c] = "none"
    <3>1. /\ worker[w].id \in Ids /\ rows[worker[w].id] # None
          /\ rows[worker[w].id].call = c
          /\ rows[worker[w].id].status = "verifying_cosmos_tx"
      BY <1>2, <1>4, <2>1 DEF VerifyFails, Alone, WorkInv
    <3> QED BY <3>1 DEF CarefulInv, CallsInv
  <2>3. worker[w].pc # "idle" /\ MovesTo(w, "failing")
    BY <1>4 DEF VerifyFails, MovesTo
  <2> QED BY <1>4, <2>1, <2>2, <2>3, TaskGoes DEF VerifyFails, signerVars
<1>5. CASE Post(w)
  <2>1. PICK c \in Calls : c = worker[w].row.call
    BY <1>2, <1>5 DEF Post
  <2>2. shown[c] = "none" /\ worker[w].row.status = "evm_minting"
    BY <1>2, <1>5, <2>1 DEF Post, WorkInv
  <2>3. /\ worker[w].pc # "idle" /\ MovesTo(w, "create")
        /\ UNCHANGED <<rows, lastId, tasks, handler, posted, shown, executed>>
    BY <1>5, <2>1, <2>2 DEF Post, MovesTo, signerVars
  <2> QED BY <2>1, <2>2, <2>3, TaskGoes
<1>6. CASE Accepted(w)
  <2>1. PICK c \in Calls : c = worker[w].row.call
    BY <1>2, <1>6 DEF Accepted
  <2>2. /\ \A d \in Calls \ {c} : shown'[d] = shown[d]
        /\ shown'[c] = "pending" /\ executed' = executed
    BY <1>6, <2>1 DEF Accepted, Signer!Accept, Signer!Show, CarefulInv, TypeInv, TypeOK
  <2>3. PICK i \in Ids, u \in Users, r \in Row :
           i = worker[w].id /\ u = worker[w].row.user /\ r = worker[w].row
    BY <1>2, <1>6 DEF Accepted, Alone, Row
  <2>4. worker'[w] \in Task /\ worker[w] \in Task
    BY DEF CarefulInv, TypeInv, TypeOK
  <2>5. PICK t \in Task : t = worker'[w]
    BY <2>4
  <2>6. /\ t.pc = "poll" /\ t.id = i /\ t.row = r
        /\ \A v \in Workers : worker'[v] = IF v = w THEN t ELSE worker[v]
    BY <1>6, <2>3, <2>4, <2>5 DEF Accepted, Goto, CarefulInv, TypeInv, TypeOK, Task
  <2>7. /\ r.status = "evm_minting" /\ r.user = u /\ r.call = c
        /\ r.burn = worker[w].row.burn
        /\ \A j \in Ids : rows'[j] = IF j = i THEN r ELSE rows[j]
    BY <1>2, <1>6, <2>1, <2>3 DEF Accepted, WorkInv, Alone
  <2> QED BY <1>6, <2>1, <2>2, <2>3, <2>6, <2>7, TaskMoves DEF Accepted
<1>7. CASE AcceptRefused(w)
  BY <1>2, <1>7 DEF AcceptRefused, WorkInv
<1>8. CASE PollMined(w)
  <2>1. worker[w].row.status = "evm_minting"
    BY <1>2, <1>8 DEF PollMined, WorkInv
  <2>2. worker[w].pc # "idle" /\ MovesTo(w, "complete")
    BY <1>8 DEF PollMined, MovesTo
  <2> QED BY <1>8, <2>1, <2>2, TaskGoes DEF PollMined, signerVars
<1>9. CASE PollFailed(w)
  <2>1. worker[w].pc # "idle" /\ MovesTo(w, "failing")
    BY <1>9 DEF PollFailed, MovesTo
  <2> QED BY <1>9, <2>1, TaskGoes DEF PollFailed, signerVars
<1>10. CASE CallFails(w)
  BY <1>1, <1>10 DEF CallFails
<1>11. CASE Complete(w)
  BY <1>11, TaskSaves DEF Complete, signerVars
<1>12. CASE CompleteFails(w)
  BY <1>1, <1>2, <1>12 DEF CompleteFails
<1>13. CASE Fail(w)
  BY <1>13, TaskSaves DEF Fail, signerVars
<1>14. CASE FailAborted(w)
  BY <1>1, <1>2, <1>14 DEF FailAborted
<1>15. CASE Die(w)
  <2>1. worker[w].pc # "idle" /\ MovesTo(w, "idle")
    BY <1>15 DEF Die, MovesTo
  <2> QED BY <1>15, <2>1, TaskGoes DEF Die, signerVars
<1> QED BY <1>3, <1>4, <1>5, <1>6, <1>7, <1>8, <1>9, <1>10, <1>11, <1>12, <1>13,
           <1>14, <1>15 DEF TaskStep

\* A task starts on the migration it was enqueued for, or finds nothing to do.
LEMMA StartCareful ==
  ASSUME Disciplined, CarefulInv, TypeInv', HandlerWrites',
         NEW w \in Workers, NEW u \in Users, Start(w, u)
  PROVE  CarefulInv'
<1>1. tasks[u] = 1 /\ \A v \in Users : tasks'[v] = IF v = u THEN 0 ELSE tasks[v]
  <2>1. tasks[u] > 0 /\ tasks' = [tasks EXCEPT ![u] = @ - 1]
    BY DEF Start, Disciplined
  <2>2. tasks \in [Users -> Nat] /\ tasks[u] <= 1
    BY DEF CarefulInv, TypeInv, TypeOK, QueueInv
  <2>3. tasks[u] \in Nat
    BY <2>2
  <2>4. tasks[u] = 1
    BY <2>1, <2>2, <2>3
  <2> QED BY <2>1, <2>2, <2>4
<1>2. worker[w].pc = "idle" /\ UNCHANGED <<rows, lastId, handler, posted, shown, executed>>
  BY DEF Start, signerVars
<1>3. /\ \A v \in Workers : ~Works(v, u)
      /\ \A h \in Handlers : ~(Serves(h, u) /\ handler[h].pc = "enqueue")
  BY <1>1 DEF CarefulInv, QueueInv
<1>4. \/ UNCHANGED worker
      \/ \E i \in RowsOf(u) :
           /\ rows[i].status = "verifying_cosmos_tx"
           /\ worker' = [worker EXCEPT ![w] = [pc |-> "verify", id |-> i, row |-> rows[i]]]
  BY DEF Start, Latest
<1>5. PICK t : /\ \A v \in Workers : worker'[v] = IF v = w THEN t ELSE worker[v]
               /\ t.pc # "idle" =>
                    /\ t.pc = "verify" /\ rows[t.id] = t.row /\ t.row.user = u
                    /\ t.row.status = "verifying_cosmos_tx"
  <2>1. CASE UNCHANGED worker
    BY <1>2, <2>1
  <2>2. ASSUME NEW i \in RowsOf(u), rows[i].status = "verifying_cosmos_tx",
               worker' = [worker EXCEPT ![w] = [pc |-> "verify", id |-> i, row |-> rows[i]]]
        PROVE  \E t : /\ \A v \in Workers : worker'[v] = IF v = w THEN t ELSE worker[v]
                      /\ t.pc # "idle" =>
                           /\ t.pc = "verify" /\ rows[t.id] = t.row /\ t.row.user = u
                           /\ t.row.status = "verifying_cosmos_tx"
    <3> WITNESS [pc |-> "verify", id |-> i, row |-> rows[i]]
    <3> QED BY <2>2 DEF RowsOf, CarefulInv, TypeInv, TypeOK
  <2> QED BY <1>4, <2>1, <2>2
<1>6. RowsInv' /\ CallsInv' /\ \A h \in Handlers : RequestInv(h)'
  BY <1>2 DEF CarefulInv, RowsInv, CallsInv, RequestInv, RowsOf, Serves, Awaits
<1>7. ASSUME NEW v \in Users PROVE QueueInv(v)'
  <2>1. Awaits(v)' <=> Awaits(v)
    BY <1>2 DEF Awaits, RowsOf
  <2>2. QueueInv(v)
    BY DEF CarefulInv
  <2>3. CASE v = u
    BY <1>1, <1>2, <1>3, <1>5, <2>1, <2>3 DEF QueueInv, Works, Serves
  <2>4. CASE v # u
    BY <1>1, <1>2, <1>5, <2>1, <2>2, <2>4 DEF QueueInv, Works, Serves
  <2> QED BY <2>3, <2>4
<1>8. ASSUME NEW v \in Workers PROVE WorkInv(v)'
  <2>1. WorkInv(v)
    BY DEF CarefulInv
  <2>2. CASE v = w
    BY <1>2, <1>5, <2>2 DEF WorkInv
  <2>3. CASE v # w
    BY <1>2, <1>5, <2>1, <2>3 DEF WorkInv
  <2> QED BY <2>2, <2>3
<1> QED BY <1>6, <1>7, <1>8 DEF CarefulInv

-----------------------------------------------------------------------------
(* The signer, which is not posted a call it is on.                        *)

LEMMA SignerCareful ==
  ASSUME CarefulInv, TypeInv', HandlerWrites', NEW c \in Calls, SignerStep(c)
  PROVE  CarefulInv'
<1>1. /\ shown[c] = "pending"
      /\ \A d \in Calls \ {c} : shown'[d] = shown[d] /\ executed'[d] = executed[d]
      /\ \/ shown'[c] \in {"pending", "mined"}
         \/ shown'[c] = "failed" /\ executed'[c] = 0
  BY DEF SignerStep, Signer!Execute, Signer!Confirm, Signer!Refuse, Signer!Show,
         CarefulInv, TypeInv, TypeOK
<1>2. UNCHANGED <<rows, lastId, tasks, handler, worker, posted>>
  BY DEF SignerStep
<1>3. RowsInv' /\ \A h \in Handlers : RequestInv(h)'
  BY <1>2 DEF CarefulInv, RowsInv, RequestInv, RowsOf, Serves, Awaits
<1>4. \A u \in Users : QueueInv(u)'
  BY <1>2 DEF CarefulInv, QueueInv, Awaits, RowsOf, Works, Serves
<1>5. ASSUME NEW w \in Workers PROVE WorkInv(w)'
  <2>1. WorkInv(w) /\ (worker[w].pc # "idle" => worker[w].row.call \in Calls)
    BY DEF CarefulInv, TypeInv, HoldsRow, Row
  <2> QED BY <1>1, <1>2, <2>1 DEF WorkInv
<1>6. CallsInv'
  <2>1. \A d \in Calls : /\ shown'[d] \in {"none", "failed"} => executed'[d] = 0
                         /\ shown'[d] # "none" => shown[d] # "none"
                         /\ shown[d] = "none" => shown'[d] = "none"
                         /\ shown[d] = "failed" => shown'[d] = "failed"
    BY <1>1 DEF CarefulInv, CallsInv
  <2>2. \A i \in Ids : rows[i] # None => rows[i].call \in Calls
    BY DEF CarefulInv, TypeInv, TypeOK, Row
  <2> QED BY <1>2, <2>1, <2>2 DEF CarefulInv, CallsInv
<1> QED BY <1>3, <1>4, <1>5, <1>6 DEF CarefulInv

-----------------------------------------------------------------------------
(* Handlers.                                                               *)

\* A handler reads, or gives up: only itself changes.
LEMMA HandlerMoves ==
  ASSUME CarefulInv, TypeInv', HandlerWrites', NEW h \in Handlers,
         UNCHANGED <<rows, lastId, tasks, worker, posted, shown, executed>>,
         \A g \in Handlers \ {h} : handler'[g] = handler[g],
         handler'[h].pc # "enqueue",
         RequestInv(h)'
  PROVE  CarefulInv'
<1>1. RowsInv' /\ CallsInv' /\ \A w \in Workers : WorkInv(w)'
  BY DEF CarefulInv, RowsInv, CallsInv, WorkInv
<1>2. \A u \in Users : QueueInv(u)'
  BY DEF CarefulInv, QueueInv, Awaits, RowsOf, Works, Serves
<1>3. ASSUME NEW g \in Handlers PROVE RequestInv(g)'
  <2>1. CASE g = h
    BY <2>1
  <2>2. CASE g # h
    <3>1. RequestInv(g) /\ handler'[g] = handler[g]
      BY <2>2 DEF CarefulInv
    <3>2. handler[g].pc # "idle" => ~(Serves(h, handler[g].user))'
      BY <2>2, <3>1 DEF RequestInv, Serves
    <3>3. handler[g].pc = "insert" /\ handler'[h].pc = "insert" =>
             handler'[h].row.call # handler[g].row.call
      BY <2>2, <3>1 DEF RequestInv
    <3> QED BY <2>2, <3>1, <3>2, <3>3 DEF RequestInv, Serves, Awaits, RowsOf
  <2> QED BY <2>1, <2>2
<1> QED BY <1>1, <1>2, <1>3 DEF CarefulInv

\* A request that is accepted is the only one of its user.
LEMMA AcceptedAlone ==
  ASSUME Disciplined, NEW h \in Handlers, NEW u \in Users, Accepts(h, u)
  PROVE  \A g \in Handlers : ~Serves(g, u)
  BY DEF Disciplined, Accepts, Serves

LEMMA CreateCareful ==
  ASSUME Disciplined, CarefulInv, TypeInv', HandlerWrites',
         NEW h \in Handlers, NEW u \in Users, NEW c \in Calls, CreateBegin(h, u, c)
  PROVE  CarefulInv'
<1>1. PICK r \in Row :
         /\ r = [user |-> u, call |-> c, burn |-> None, status |-> "pending_cosmos_tx_hash"]
         /\ handler' = [handler EXCEPT ![h] =
                           [pc |-> "insert", user |-> u, id |-> 0, row |-> r]]
  BY DEF CreateBegin, Row, Status
<1>2. /\ UNCHANGED <<rows, lastId, tasks, worker, posted, shown, executed>>
      /\ \A i \in RowsOf(u) : rows[i].status \in Ended
      /\ \A g \in Handlers : ~Serves(g, u)
  BY AcceptedAlone DEF CreateBegin, signerVars
<1>3. /\ handler'[h].pc = "insert" /\ handler'[h].user = u /\ handler'[h].row = r
      /\ \A g \in Handlers \ {h} : handler'[g] = handler[g]
  BY <1>1 DEF CarefulInv, TypeInv, TypeOK
<1>4. /\ \A i \in Ids : rows[i] # None => rows[i].call # c
      /\ \A g \in Handlers : handler[g].pc = "insert" => handler[g].row.call # c
  BY NullAssumption DEF CreateBegin, Disciplined, Fresh, CarefulInv, TypeInv, HoldsRow
<1>5. RequestInv(h)'
  BY <1>1, <1>2, <1>3, <1>4 DEF RequestInv, Serves, RowsOf
<1> QED BY <1>2, <1>3, <1>5, HandlerMoves

LEMMA UpdateBeginCareful ==
  ASSUME Disciplined, CarefulInv, TypeInv', HandlerWrites',
         NEW h \in Handlers, NEW u \in Users, NEW b \in Burns, UpdateBegin(h, u, b)
  PROVE  CarefulInv'
<1>1. PICK i \in RowsOf(u) :
         /\ rows[i].status = "pending_cosmos_tx_hash"
         /\ handler' = [handler EXCEPT ![h] =
                [pc |-> "update", user |-> u, id |-> i,
                 row |-> [rows[i] EXCEPT !.burn = b, !.status = "verifying_cosmos_tx"]]]
  BY DEF UpdateBegin, Latest
<1> DEFINE r == [rows[i] EXCEPT !.burn = b, !.status = "verifying_cosmos_tx"]
<1>2. r.user = u /\ r.call = rows[i].call
  BY DEF RowsOf, CarefulInv, TypeInv, TypeOK, Row
<1>3. /\ UNCHANGED <<rows, lastId, tasks, worker, posted, shown, executed>>
      /\ \A g \in Handlers : ~Serves(g, u)
  BY AcceptedAlone DEF UpdateBegin, signerVars
<1>4. /\ handler'[h].pc = "update" /\ handler'[h].user = u
      /\ handler'[h].id = i /\ handler'[h].row = r
      /\ \A g \in Handlers \ {h} : handler'[g] = handler[g]
  BY <1>1 DEF CarefulInv, TypeInv, TypeOK
<1> HIDE DEF r
<1>5. RequestInv(h)'
  BY <1>1, <1>2, <1>3, <1>4 DEF RequestInv, Serves, RowsOf
<1> QED BY <1>3, <1>4, <1>5, HandlerMoves

LEMMA RequestFailsCareful ==
  ASSUME CarefulInv, TypeInv', HandlerWrites', NEW h \in Handlers, RequestFails(h)
  PROVE  CarefulInv'
<1>1. /\ UNCHANGED <<rows, lastId, tasks, worker, posted, shown, executed>>
      /\ handler'[h].pc = "idle"
      /\ \A g \in Handlers \ {h} : handler'[g] = handler[g]
  BY DEF RequestFails, Answer, NoRequest, signerVars, CarefulInv, TypeInv, TypeOK
<1>2. RequestInv(h)'
  BY <1>1 DEF RequestInv
<1> QED BY <1>1, <1>2, HandlerMoves

\* The new migration asks for a transfer nobody has asked for.
LEMMA InsertCareful ==
  ASSUME CarefulInv, TypeInv', HandlerWrites', NEW h \in Handlers, Insert(h)
  PROVE  CarefulInv'
<1>1. PICK r \in Row, n \in Ids :
         /\ r = handler[h].row /\ n = lastId + 1 /\ lastId' = n
         /\ \A j \in Ids : rows'[j] = IF j = n THEN r ELSE rows[j]
  BY LikeCoinAssumption DEF Insert, CarefulInv, TypeInv, TypeOK, HoldsRow, Ids
<1>2. /\ UNCHANGED <<tasks, worker, posted, shown, executed>>
      /\ handler[h].pc = "insert" /\ handler'[h].pc = "idle"
      /\ \A g \in Handlers \ {h} : handler'[g] = handler[g]
  BY DEF Insert, Answer, NoRequest, signerVars, CarefulInv, TypeInv, TypeOK
<1>3. /\ r.user \in Users /\ r.user = handler[h].user /\ r.burn = None
      /\ r.call \in Calls /\ r.status = "pending_cosmos_tx_hash" /\ r # None
      /\ \A i \in RowsOf(r.user) : rows[i].status \in Ended
      /\ \A i \in Ids : rows[i] # None => rows[i].call # r.call
      /\ \A g \in Handlers \ {h} :
             /\ handler[g].pc = "insert" => handler[g].row.call # r.call
             /\ ~Serves(g, r.user)
  BY <1>1, <1>2, NullAssumption DEF CarefulInv, RequestInv, HandlerWrites, Row
<1>4. rows[n] = None /\ \A i \in Ids : rows[i] # None => i # n /\ i <= n
  <2>1. \A i \in Ids : rows[i] # None => i <= lastId
    BY DEF CarefulInv, RowsInv
  <2>2. lastId \in Int /\ n \in Int /\ \A i \in Ids : i \in Int
    BY LikeCoinAssumption DEF CarefulInv, TypeInv, TypeOK, Ids
  <2>3. n \in Ids /\ n = lastId + 1
    BY <1>1
  <2> QED BY <2>1, <2>2, <2>3
<1>5. RowsInv'
  <2>1. \A i \in Ids : rows'[i] # None => i <= lastId'
    <3>1. n \in Int
      BY LikeCoinAssumption DEF Ids
    <3> QED BY <1>1, <1>4, <3>1
  <2>2. ASSUME NEW i \in Ids, NEW j \in Ids, rows'[i] # None, rows'[j] # None, i # j
        PROVE  /\ rows'[i].call # rows'[j].call
               /\ rows'[i].burn # None => rows'[i].burn # rows'[j].burn
               /\ rows'[i].user = rows'[j].user =>
                      rows'[i].status \in Ended \/ rows'[j].status \in Ended
    <3>1. CASE i = n
      BY <1>1, <1>3, <2>2, <3>1 DEF RowsOf
    <3>2. CASE j = n
      BY <1>1, <1>3, <2>2, <3>2 DEF RowsOf
    <3>3. CASE i # n /\ j # n
      BY <1>1, <2>2, <3>3 DEF CarefulInv, RowsInv
    <3> QED BY <3>1, <3>2, <3>3
  <2> QED BY <2>1, <2>2 DEF RowsInv
<1>6. ASSUME NEW u \in Users
      PROVE  /\ RowsOf(u)' = RowsOf(u) \cup (IF u = r.user THEN {n} ELSE {})
             /\ \A i \in RowsOf(u) : rows'[i] = rows[i]
             /\ Awaits(u) => Awaits(u)'
  <2>1. /\ RowsOf(u)' = RowsOf(u) \cup (IF u = r.user THEN {n} ELSE {})
        /\ \A i \in RowsOf(u) : rows'[i] = rows[i]
    BY <1>1, <1>3, <1>4 DEF RowsOf
  <2> QED BY <2>1 DEF Awaits
<1>7. ASSUME NEW g \in Handlers PROVE RequestInv(g)'
  <2>1. CASE g = h
    BY <1>2, <2>1 DEF RequestInv
  <2>2. CASE g # h
    <3>1. /\ RequestInv(g) /\ handler'[g] = handler[g] /\ handler[g] \in Handler
          /\ \A k \in Handlers : handler'[k].pc # "idle" => handler'[k] = handler[k]
      BY <1>2, <2>2 DEF CarefulInv, TypeInv, TypeOK
    <3>2. CASE handler[g].pc = "idle"
      BY <3>1, <3>2 DEF RequestInv
    <3>3. CASE handler[g].pc # "idle"
      <4>1. PICK u \in Users : u = handler[g].user /\ u # r.user
        BY <1>3, <2>2, <3>1, <3>3 DEF RequestInv, Serves
      <4>2. RowsOf(u)' = RowsOf(u) /\ \A i \in RowsOf(u) : rows'[i] = rows[i]
        BY <1>6, <4>1
      <4>3. CASE handler[g].pc = "insert"
        BY <1>1, <1>3, <2>2, <3>1, <4>1, <4>2, <4>3 DEF RequestInv, Serves
      <4>4. CASE handler[g].pc = "update"
        BY <3>1, <4>1, <4>2, <4>4 DEF RequestInv, Serves
      <4>5. CASE handler[g].pc = "enqueue"
        BY <1>6, <3>1, <4>1, <4>5 DEF RequestInv, Serves
      <4> QED BY <3>1, <3>3, <4>3, <4>4, <4>5 DEF Handler
    <3> QED BY <3>2, <3>3
  <2> QED BY <2>1, <2>2
<1>8. ASSUME NEW u \in Users PROVE QueueInv(u)'
  <2>1. QueueInv(u) /\ (Awaits(u) => Awaits(u)')
    BY <1>6 DEF CarefulInv
  <2> QED BY <1>2, <2>1 DEF QueueInv, Works, Serves
<1>9. ASSUME NEW w \in Workers PROVE WorkInv(w)'
  <2>1. WorkInv(w) /\ (worker[w].pc # "idle" => worker[w].id \in Ids /\ worker[w].row \in Row)
    BY DEF CarefulInv, TypeInv, HoldsRow
  <2>2. worker[w].pc # "idle" => rows'[worker[w].id] = rows[worker[w].id]
    BY <1>1, <1>4, <2>1, NullAssumption DEF WorkInv
  <2> QED BY <1>2, <2>1, <2>2 DEF WorkInv
<1>10. CallsInv'
  <2>1. shown[r.call] = "none"
    BY <1>3 DEF CarefulInv, CallsInv
  <2>2. \A d \in Calls : shown[d] # "none" => \E j \in Ids : rows'[j] # None /\ rows'[j].call = d
    BY <1>1, <1>4 DEF CarefulInv, CallsInv
  <2> QED BY <1>1, <1>2, <1>3, <2>1, <2>2 DEF CarefulInv, CallsInv
<1> QED BY <1>5, <1>7, <1>8, <1>9, <1>10 DEF CarefulInv

\* The burn is attached to the migration that waited for it.
LEMMA UpdateCareful ==
  ASSUME CarefulInv, TypeInv', HandlerWrites', NEW h \in Handlers, Update(h)
  PROVE  CarefulInv'
<1>1. PICK r \in Row, i \in Ids, u \in Users :
         /\ r = handler[h].row /\ i = handler[h].id /\ u = handler[h].user
         /\ r.user = u /\ rows[i] # None /\ rows[i].user = u
         /\ rows[i].status = "pending_cosmos_tx_hash" /\ rows[i].call = r.call
  BY DEF Update, CarefulInv, TypeInv, HoldsRow, RequestInv, RowsOf
<1>2. /\ UNCHANGED <<lastId, tasks, worker, posted, shown, executed>>
      /\ handler[h].pc = "update" /\ handler'[h].pc = "enqueue" /\ handler'[h].user = u
      /\ \A g \in Handlers \ {h} : handler'[g] = handler[g]
  BY <1>1 DEF Update, signerVars, CarefulInv, TypeInv, TypeOK, Handler
<1>3. \A j \in Ids : rows'[j] = IF j = i THEN r ELSE rows[j]
  BY <1>1 DEF Update, Save, CarefulInv, TypeInv, TypeOK
<1>4. /\ r # None /\ r.status = "verifying_cosmos_tx" /\ r.burn # None
      /\ \A j \in Ids \ {i} : rows[j] # None =>
           /\ rows[j].burn # r.burn /\ rows[j].call # r.call
           /\ rows[j].user = u => rows[j].status \in Ended
  BY <1>1, <1>2, NullAssumption
     DEF Update, Save, Writable, CarefulInv, HandlerWrites, RowsInv, Ended
<1>5. \A g \in Handlers \ {h} : ~Serves(g, u)
  BY <1>1, <1>2 DEF CarefulInv, RequestInv
\* No task can be at this user's: none of the migrations is past waiting.
<1>6. ~Awaits(u) /\ tasks[u] = 0 /\ \A w \in Workers : ~Works(w, u)
  <2>1. ~Awaits(u)
    BY <1>1, <1>4 DEF Awaits, RowsOf, Ended
  <2>2. tasks[u] = 0
    <3>1. tasks[u] \in Nat /\ ~(tasks[u] > 0)
      BY <2>1 DEF CarefulInv, TypeInv, TypeOK, QueueInv
    <3> QED BY <3>1
  <2>3. ASSUME NEW w \in Workers, Works(w, u) PROVE FALSE
    <3>1. worker[w].pc # "idle" /\ worker[w].row.user = u
      BY <2>3 DEF Works
    <3>2. Serves(h, u)
      BY <1>1, <1>2 DEF Serves
    <3> QED BY <3>1, <3>2, AtWork DEF Alone
  <2> QED BY <2>1, <2>2, <2>3
<1>7. RowsInv'
  BY <1>1, <1>2, <1>3, <1>4 DEF CarefulInv, RowsInv
<1>8. ASSUME NEW v \in Users
      PROVE  /\ RowsOf(v)' = RowsOf(v)
             /\ v # u => \A j \in RowsOf(v) : rows'[j] = rows[j]
             /\ v # u => (Awaits(v)' <=> Awaits(v))
             /\ v = u => Awaits(v)'
  <2>1. /\ RowsOf(v)' = RowsOf(v)
        /\ v # u => \A j \in RowsOf(v) : rows'[j] = rows[j]
        /\ v = u => i \in RowsOf(v)
    BY <1>1, <1>3, <1>4 DEF RowsOf
  <2> QED BY <1>3, <1>4, <2>1 DEF Awaits
<1>9. ASSUME NEW g \in Handlers PROVE RequestInv(g)'
  <2>1. CASE g = h
    <3>1. Awaits(u)'
      BY <1>8
    <3>2. \A k \in Handlers \ {h} : ~(Serves(k, u))'
      BY <1>2, <1>5 DEF Serves
    <3> QED BY <1>2, <2>1, <3>1, <3>2 DEF RequestInv
  <2>2. CASE g # h
    <3>1. RequestInv(g) /\ handler'[g] = handler[g] /\ handler[g] \in Handler
      BY <1>2, <2>2 DEF CarefulInv, TypeInv, TypeOK
    <3>2. CASE handler[g].pc = "idle"
      BY <3>1, <3>2 DEF RequestInv
    <3>3. CASE handler[g].pc # "idle"
      <4>1. PICK v \in Users : v = handler[g].user /\ v # u
        BY <1>5, <2>2, <3>1, <3>3 DEF RequestInv, Serves
      <4>2. RowsOf(v)' = RowsOf(v) /\ \A j \in RowsOf(v) : rows'[j] = rows[j]
        BY <1>8, <4>1
      <4>3. \A k \in Handlers \ {g} : ~(Serves(k, v))'
        BY <1>2, <3>1, <3>3, <4>1 DEF RequestInv, Serves
      <4>4. CASE handler[g].pc = "insert"
        BY <1>1, <1>2, <1>3, <3>1, <4>1, <4>2, <4>3, <4>4 DEF RequestInv
      <4>5. CASE handler[g].pc = "update"
        BY <3>1, <4>1, <4>2, <4>3, <4>5 DEF RequestInv
      <4>6. CASE handler[g].pc = "enqueue"
        BY <1>8, <3>1, <4>1, <4>3, <4>6 DEF RequestInv
      <4> QED BY <3>1, <3>3, <4>4, <4>5, <4>6 DEF Handler
    <3> QED BY <3>2, <3>3
  <2> QED BY <2>1, <2>2
<1>10. ASSUME NEW v \in Users PROVE QueueInv(v)'
  <2>1. CASE v = u
    BY <1>2, <1>6, <2>1 DEF QueueInv, Works, Serves
  <2>2. CASE v # u
    <3>1. QueueInv(v) /\ (Awaits(v)' <=> Awaits(v))
      BY <1>8, <2>2 DEF CarefulInv
    <3> QED BY <1>2, <2>2, <3>1 DEF QueueInv, Works, Serves
  <2> QED BY <2>1, <2>2
<1>11. ASSUME NEW w \in Workers PROVE WorkInv(w)'
  <2>1. WorkInv(w) /\ (worker[w].pc # "idle" => worker[w].id \in Ids)
    BY DEF CarefulInv, TypeInv, HoldsRow
  <2>2. worker[w].pc # "idle" => worker[w].id # i
    BY <1>1, <2>1 DEF WorkInv
  <2> QED BY <1>2, <1>3, <2>1, <2>2 DEF WorkInv
<1>12. CallsInv'
  BY <1>1, <1>2, <1>3, <1>4 DEF CarefulInv, CallsInv
<1> QED BY <1>7, <1>9, <1>10, <1>11, <1>12 DEF CarefulInv

LEMMA EnqueueCareful ==
  ASSUME CarefulInv, TypeInv', HandlerWrites', NEW h \in Handlers, Enqueue(h)
  PROVE  CarefulInv'
<1>1. PICK u \in Users : u = handler[h].user
  BY DEF Enqueue, CarefulInv, RequestInv
<1>2. /\ UNCHANGED <<rows, lastId, worker, posted, shown, executed>>
      /\ handler[h].pc = "enqueue" /\ handler'[h].pc = "idle"
      /\ \A g \in Handlers \ {h} : handler'[g] = handler[g]
  BY DEF Enqueue, Answer, NoRequest, signerVars, CarefulInv, TypeInv, TypeOK
<1>3. /\ Awaits(u) /\ tasks[u] = 0
      /\ \A w \in Workers : ~Works(w, u)
      /\ \A g \in Handlers \ {h} : ~Serves(g, u)
  BY <1>1, <1>2 DEF CarefulInv, RequestInv, QueueInv, Serves
<1>4. \A v \in Users : tasks'[v] = IF v = u THEN 1 ELSE tasks[v]
  BY <1>1, <1>3 DEF Enqueue, CarefulInv, TypeInv, TypeOK
<1>5. RowsInv' /\ CallsInv' /\ \A w \in Workers : WorkInv(w)'
  BY <1>2 DEF CarefulInv, RowsInv, CallsInv, WorkInv
<1>6. ASSUME NEW g \in Handlers PROVE RequestInv(g)'
  <2>1. RequestInv(g)
    BY DEF CarefulInv
  <2> QED BY <1>2, <2>1 DEF RequestInv, RowsOf, Awaits, Serves
<1>7. ASSUME NEW v \in Users PROVE QueueInv(v)'
  <2>1. Awaits(v)' <=> Awaits(v)
    BY <1>2 DEF Awaits, RowsOf
  <2>2. QueueInv(v)
    BY DEF CarefulInv
  <2>3. CASE v = u
    BY <1>2, <1>3, <1>4, <2>1, <2>3 DEF QueueInv, Works, Serves
  <2>4. CASE v # u
    BY <1>2, <1>4, <2>1, <2>2, <2>4 DEF QueueInv, Works, Serves
  <2> QED BY <2>3, <2>4
<1> QED BY <1>5, <1>6, <1>7 DEF CarefulInv

-----------------------------------------------------------------------------
(* Theorems.                                                               *)

LEMMA NextCarefulInv ==
  ASSUME Disciplined
  PROVE  CarefulInv /\ [Next]_vars => CarefulInv'
<1> SUFFICES ASSUME CarefulInv, [Next]_vars PROVE CarefulInv'
  OBVIOUS
<1>1. TypeInv' /\ HandlerWrites'
  BY NextTypeInv, NextHandlerWrites DEF CarefulInv
<1>2. CASE UNCHANGED vars
  BY <1>1, <1>2 DEF vars, signerVars, CarefulInv, RowsInv, RequestInv, QueueInv, WorkInv,
                    CallsInv, RowsOf, Serves, Works, Awaits
<1>3. CASE \E h \in Handlers, u \in Users :
             \/ \E c \in Calls : CreateBegin(h, u, c)
             \/ \E b \in Burns : UpdateBegin(h, u, b)
  BY <1>1, <1>3, CreateCareful, UpdateBeginCareful
<1>4. CASE \E h \in Handlers : Request(h)
  BY <1>1, <1>4, InsertCareful, UpdateCareful, EnqueueCareful, RequestFailsCareful DEF Request
<1>5. CASE \E i \in Ids : Remove(i)
  BY <1>5 DEF Remove, Disciplined
<1>6. CASE \E w \in Workers, u \in Users : Start(w, u)
  BY <1>1, <1>6, StartCareful
<1>7. CASE \E w \in Workers : TaskStep(w) \/ Die(w)
  BY <1>1, <1>7, TaskCareful
<1>8. CASE \E c \in Calls : SignerStep(c) \/ SignerTakes(c) \/ SignerErrs(c)
  <2>1. \A c \in Calls : ~SignerTakes(c) /\ ~SignerErrs(c)
    BY DEF SignerTakes, SignerErrs, Disciplined, CarefulInv, CallsInv
  <2> QED BY <1>1, <1>8, <2>1, SignerCareful
<1> QED BY <1>2, <1>3, <1>4, <1>5, <1>6, <1>7, <1>8 DEF Next

LEMMA CarefulCorrect ==
  ASSUME Disciplined
  PROVE  Spec => []CarefulInv
  BY InitCarefulInv, NextCarefulInv, PTL DEF Spec

\* Users who ask for one thing at a time, and never for another's transfer, and
\* read failed have not been paid, whichever tasks die (doMintLikeCoinFailed).
THEOREM FailedWasNotPaidCorrect ==
  ASSUME Disciplined
  PROVE  Spec => []FailedWasNotPaid
<1>1. CarefulInv => FailedWasNotPaid
  BY DEF CarefulInv, CallsInv, FailedWasNotPaid, TypeInv, TypeOK, Row
<1> QED BY CarefulCorrect, <1>1, PTL

\* Under the same conditions no call is posted to the signer while it is on the
\* call, for another task or an abandoned POST (CreateEvmTransactionRequest).
THEOREM PostsInTurnCorrect ==
  ASSUME Disciplined
  PROVE  Spec => PostsInTurn
<1> DEFINE InTurn ==
      \A w \in Workers :
        worker[w].pc = "post" /\ worker'[w].pc \in {"create", "poll"} =>
            LET c == worker[w].row.call IN
            /\ shown[c] # "pending" /\ c \notin posted
            /\ \A v \in Workers \ {w} :
                 worker[v].pc \in {"create", "poll"} => worker[v].row.call # c
<1>1. CarefulInv => InTurn
  <2> SUFFICES ASSUME CarefulInv, NEW w \in Workers, worker[w].pc = "post"
               PROVE  /\ shown[worker[w].row.call] # "pending"
                      /\ worker[w].row.call \notin posted
                      /\ \A v \in Workers \ {w} : worker[v].pc \in {"create", "poll"} =>
                             worker[v].row.call # worker[w].row.call
    OBVIOUS
  <2>1. shown[worker[w].row.call] = "none" /\ posted = {}
    BY DEF CarefulInv, WorkInv, CallsInv
  <2>2. \A v \in Workers \ {w} : worker[v].pc # "idle" =>
             worker[v].row.call # worker[w].row.call
    BY AtWork DEF Alone
  <2> QED BY <2>1, <2>2
<1>2. CarefulInv /\ [Next]_vars => [InTurn]_vars
  BY <1>1
<1>3. Spec => [][InTurn]_vars
  <2> HIDE DEF InTurn
  <2> QED BY CarefulCorrect, <1>2, PTL DEF Spec
<1> QED BY <1>3 DEF PostsInTurn

\* Under the same conditions no step changes a migration that is completed: no
\* handler and no task still has a copy to save over it (UpdateLikeCoinMigration).
THEOREM CompletedIsFinalCorrect ==
  ASSUME Disciplined
  PROVE  Spec => CompletedIsFinal
<1> DEFINE Final ==
      \A i \in Ids : rows[i] # None /\ rows[i].status = "completed" => rows'[i] = rows[i]
<1>1. CarefulInv /\ [Next]_vars => [Final]_vars
  <2> SUFFICES ASSUME CarefulInv, Next,
                      NEW i \in Ids, rows[i] # None, rows[i].status = "completed"
               PROVE  rows'[i] = rows[i]
    BY DEF vars
  <2>1. ASSUME NEW h \in Handlers, Insert(h) PROVE rows'[i] = rows[i]
    <3>1. i <= lastId /\ i # lastId + 1
      BY LikeCoinAssumption DEF CarefulInv, RowsInv, TypeInv, TypeOK, Ids
    <3> QED BY <2>1, <3>1 DEF Insert, CarefulInv, TypeInv, TypeOK
  <2>2. ASSUME NEW h \in Handlers, Update(h) PROVE rows'[i] = rows[i]
    <3>1. rows[handler[h].id].status = "pending_cosmos_tx_hash"
      BY <2>2 DEF Update, CarefulInv, RequestInv
    <3> QED BY <2>2, <3>1 DEF Update, Save, CarefulInv, TypeInv, TypeOK
  <2>3. ASSUME NEW w \in Workers, Verify(w) \/ Complete(w) \/ Fail(w)
        PROVE  rows'[i] = rows[i]
    <3>1. worker[w].pc # "idle" /\ \E s \in Status : SaveRow(w, s)
      BY <2>3 DEF Verify, Complete, Fail, Status
    <3>2. rows[worker[w].id].status \in {"verifying_cosmos_tx", "evm_minting"}
      BY <3>1, AtWork DEF Alone
    <3> QED BY <3>1, <3>2 DEF SaveRow, Save, CarefulInv, TypeInv, TypeOK
  <2>4. ASSUME NEW w \in Workers, TaskStep(w) \/ Die(w) PROVE rows'[i] = rows[i]
    BY <2>3, <2>4 DEF TaskStep, Die, VerifyFails, Post, Accepted, AcceptRefused, PollMined,
                      PollFailed, CallFails, CompleteFails, FailAborted
  <2>5. ASSUME NEW h \in Handlers, Request(h) PROVE rows'[i] = rows[i]
    BY <2>1, <2>2, <2>5 DEF Request, Enqueue, RequestFails
  <2>6. \A j \in Ids : ~Remove(j)
    BY DEF Remove, Disciplined
  <2> QED BY <2>4, <2>5, <2>6
          DEF Next, CreateBegin, UpdateBegin, Start, SignerStep, SignerTakes, SignerErrs
<1>2. Spec => [][Final]_vars
  <2> HIDE DEF Final
  <2> QED BY CarefulCorrect, <1>1, PTL DEF Spec
<1> QED BY <1>2 DEF CompletedIsFinal

=============================================================================
