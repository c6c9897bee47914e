------------------------- MODULE LikeCoinMigration -------------------------
(***************************************************************************)
(* migration-backend, from cosmos LIKE to EVM LIKE: the HTTP handlers that *)
(* create a likecoin_migration row and attach a burn (a cosmos             *)
(* transaction) to it, the asynq tasks that verify the burn and ask the    *)
(* signer for the transfer, and the operator's tools.  The signer is       *)
(* CallService, and not even that when its clients or its node misbehave:  *)
(* see SignerErrs.  A call is the pair of arguments of ERC20 transfer, so  *)
(* two migrations of one amount to one recipient are one call to it.       *)
(*                                                                         *)
(* Rows are read and written in separate statements without a lock; each   *)
(* action is one statement, or one request to the signer.                  *)
(***************************************************************************)
EXTENDS Integers

CONSTANTS
    Users,       \* cosmos addresses
    Recipients,  \* eth addresses
    Amounts,     \* amounts of one denomination
    Burns,       \* cosmos transactions the users have made
    Memo,        \* what the memo of a burn asks for
    Handlers,    \* HTTP handler goroutines
    Workers,     \* tasks asynq, or an operator at the CLI, runs at a time
    None,        \* SQL NULL
    MaxRows,     \* bound: migrations ever created
    Careful,     \* does a user send one request at a time, and never ask for
                 \* the transfer of another migration again?
    Faults       \* which of FaultKinds may happen

FaultKinds ==
    {"crash",    \* a task dies: its process, or a panic asynq recovers
     "redis",    \* the task is not enqueued
     "rpc",      \* a query of a chain or of the signer fails
     "timeout",  \* the answer to a POST is lost, or the task's time is up
     "db",       \* a statement fails
     "signer",   \* the signer does not behave as CallService
     "remove",   \* an administrator removes a migration
     "cli"}      \* an operator runs `cli likecoin migrate`

Calls == [to: Recipients, amount: Amounts]

\* Bound: executions of a call by a signer that errs.
MaxExecuted == 2

ASSUME LikeCoinAssumption ==
    /\ None \notin Users \cup Burns \cup Calls
    /\ Memo \in [Burns -> Calls]
    /\ MaxRows \in Nat
    /\ Careful \in BOOLEAN
    /\ Faults \subseteq FaultKinds

VARIABLES
    rows,      \* table likecoin_migration: id -> row
    lastId,    \* its SERIAL
    tasks,     \* asynq: queued migrate_likecoin tasks of a user
    handler,   \* HTTP handlers
    worker,    \* running tasks
    posted,    \* calls the signer has yet to take up after a POST
    shown,     \* the signer, as CallService
    executed

signerVars == <<shown, executed>>
vars == <<rows, lastId, tasks, handler, worker, posted, signerVars>>

Signer == INSTANCE CallService

-----------------------------------------------------------------------------
Ids == 1 .. MaxRows

Status == {"pending_cosmos_tx_hash", "verifying_cosmos_tx", "evm_minting",
           "completed", "failed"}

Ended == {"completed", "failed"}

Row == [user: Users, call: Calls, burn: Burns \cup {None}, status: Status]

ASSUME NullAssumption == None \notin Row

Handler == [pc: {"idle", "insert", "update", "enqueue"},
            user: Users \cup {None}, id: Nat, row: Row \cup {None}]

NoRequest == [pc |-> "idle", user |-> None, id |-> 0, row |-> None]

Task == [pc: {"idle", "verify", "post", "create", "poll", "complete", "failing"},
         id: Nat, row: Row \cup {None}]

NoTask == [pc |-> "idle", id |-> 0, row |-> None]

Init ==
    /\ rows = [i \in Ids |-> None]
    /\ lastId = 0
    /\ tasks = [u \in Users |-> 0]
    /\ handler = [h \in Handlers |-> NoRequest]
    /\ worker = [w \in Workers |-> NoTask]
    /\ posted = {}
    /\ Signer!Init

RowsOf(u) == {i \in Ids : rows[i] # None /\ rows[i].user = u}

\* QueryLatestLikeCoinMigration
Latest(u) == {i \in RowsOf(u) : \A j \in RowsOf(u) : j <= i}

\* UpdateLikeCoinMigration writes every column of the row; it needs the row to
\* be there and cosmos_tx_hash to be UNIQUE.
Writable(i, row) ==
    /\ rows[i] # None
    /\ row.burn # None =>
         \A j \in Ids \ {i} : rows[j] # None => rows[j].burn # row.burn

Save(i, row) == Writable(i, row) /\ rows' = [rows EXCEPT ![i] = row]

-----------------------------------------------------------------------------
(* HTTP handlers.                                                          *)

Accepts(h, u) ==
    /\ handler[h].pc = "idle"
    /\ Careful => \A g \in Handlers : handler[g].user # u

Answer(h) == handler' = [handler EXCEPT ![h] = NoRequest]

\* Has no other migration asked for this transfer?
Fresh(c) ==
    /\ \A i \in Ids : rows[i] # None => rows[i].call # c
    /\ \A g \in Handlers : handler[g].row # None => handler[g].row.call # c

\* CreateIfAllEnded: the query.
CreateBegin(h, u, c) ==
    /\ Accepts(h, u)
    /\ lastId < MaxRows
    /\ Careful => Fresh(c)
    /\ \A i \in RowsOf(u) : rows[i].status \in Ended
    /\ handler' = [handler EXCEPT ![h] =
            [pc |-> "insert", user |-> u, id |-> 0,
             row |-> [user |-> u, call |-> c, burn |-> None,
                      status |-> "pending_cosmos_tx_hash"]]]
    /\ UNCHANGED <<rows, lastId, tasks, worker, posted, signerVars>>

\* CreateIfAllEnded: the INSERT.
Insert(h) ==
    /\ handler[h].pc = "insert"
    /\ lastId < MaxRows
    /\ lastId' = lastId + 1
    /\ rows' = [rows EXCEPT ![lastId + 1] = handler[h].row]
    /\ Answer(h)
    /\ UNCHANGED <<tasks, worker, posted, signerVars>>

\* Mutant: the burn is attached whatever has become of the migration.
UpdateUnchecked(h, u, b) ==
    /\ Accepts(h, u)
    /\ \E i \in Latest(u) :
         handler' = [handler EXCEPT ![h] =
                [pc |-> "update", user |-> u, id |-> i,
                 row |-> [rows[i] EXCEPT !.burn = b,
                                         !.status = "verifying_cosmos_tx"]]]
    /\ UNCHANGED <<rows, lastId, tasks, worker, posted, signerVars>>

\* UpdateCosmosTxHash: the query and its check.
UpdateBegin(h, u, b) ==
    /\ Accepts(h, u)
    /\ \E i \in Latest(u) :
        /\ rows[i].status = "pending_cosmos_tx_hash"
        /\ handler' = [handler EXCEPT ![h] =
                [pc |-> "update", user |-> u, id |-> i,
                 row |-> [rows[i] EXCEPT !.burn = b,
                                         !.status = "verifying_cosmos_tx"]]]
    /\ UNCHANGED <<rows, lastId, tasks, worker, posted, signerVars>>

\* UpdateCosmosTxHash: the UPDATE; the client is answered, a goroutine enqueues.
Update(h) ==
    /\ handler[h].pc = "update"
    /\ Save(handler[h].id, handler[h].row)
    /\ handler' = [handler EXCEPT ![h].pc = "enqueue"]
    /\ UNCHANGED <<lastId, tasks, worker, posted, signerVars>>

Enqueue(h) ==
    /\ handler[h].pc = "enqueue"
    /\ tasks' = [tasks EXCEPT ![handler[h].user] = @ + 1]
    /\ Answer(h)
    /\ UNCHANGED <<rows, lastId, worker, posted, signerVars>>

\* The statement fails, or the task is not enqueued.
RequestFails(h) ==
    /\ \/ handler[h].pc \in {"insert", "update"} /\ "db" \in Faults
       \/ handler[h].pc = "insert" /\ lastId = MaxRows
       \/ handler[h].pc = "update" /\ ~Writable(handler[h].id, handler[h].row)
       \/ handler[h].pc = "enqueue" /\ "redis" \in Faults
    /\ Answer(h)
    /\ UNCHANGED <<rows, lastId, tasks, worker, posted, signerVars>>

\* RemoveLatestLikeCoinMigrationHandler
Remove(i) ==
    /\ "remove" \in Faults
    /\ rows[i] # None
    /\ rows' = [rows EXCEPT ![i] = None]
    /\ UNCHANGED <<lastId, tasks, handler, worker, posted, signerVars>>

-----------------------------------------------------------------------------
(* The task: DoMintLikeCoinByCosmosAddress.                                *)

Goto(w, pc) == worker' = [worker EXCEPT ![w].pc = pc]

Stop(w) == worker' = [worker EXCEPT ![w] = NoTask]

\* Mutant: only the status is written.
SaveStatusOnly(w, status) ==
    /\ rows[worker[w].id] # None
    /\ rows' = [rows EXCEPT ![worker[w].id].status = status]

SaveRow(w, status) == Save(worker[w].id, [worker[w].row EXCEPT !.status = status])

\* Mutant: the task runs without having been dequeued.
StartUnqueued(w, u) ==
    /\ worker[w].pc = "idle"
    /\ tasks' = [tasks EXCEPT ![u] = @ - 1]
    /\ UNCHANGED <<rows, lastId, handler, worker, posted, signerVars>>

\* Mutant: a task is delivered again and resumes a row that is being minted.
StartResumes(w, u) ==
    /\ worker[w].pc = "idle"
    /\ tasks[u] > 0
    /\ \E i \in Latest(u) :
         /\ rows[i].status \in {"verifying_cosmos_tx", "evm_minting"}
         /\ worker' = [worker EXCEPT ![w] = [pc |-> "verify", id |-> i, row |-> rows[i]]]
    /\ UNCHANGED <<rows, lastId, tasks, handler, posted, signerVars>>

\* Only a row that is being verified is worked on; asynq does not retry.
Start(w, u) ==
    /\ worker[w].pc = "idle"
    /\ \/ tasks[u] > 0 /\ tasks' = [tasks EXCEPT ![u] = @ - 1]
       \/ "cli" \in Faults /\ UNCHANGED tasks
    /\ LET todo == {i \in Latest(u) : rows[i].status = "verifying_cosmos_tx"} IN
       \/ \E i \in todo :
            worker' = [worker EXCEPT ![w] = [pc |-> "verify", id |-> i, row |-> rows[i]]]
       \/ todo = {} /\ UNCHANGED worker
    /\ UNCHANGED <<rows, lastId, handler, posted, signerVars>>

\* The signature in the memo is the recipient's.  The amounts are compared as
\* pointers and the check asks for the denominations to differ as well.
Verified(row) == Memo[row.burn].to = row.call.to

Verify(w) ==
    /\ worker[w].pc = "verify"
    /\ Verified(worker[w].row)
    /\ SaveRow(w, "evm_minting")
    /\ worker' = [worker EXCEPT ![w].pc = "post", ![w].row.status = "evm_minting"]
    /\ UNCHANGED <<lastId, tasks, handler, posted, signerVars>>

\* The burn is not this recipient's, or a query or the UPDATE fails.
VerifyFails(w) ==
    /\ worker[w].pc = "verify"
    /\ \/ ~Verified(worker[w].row)
       \/ Faults \cap {"rpc", "db"} # {}
       \/ ~Writable(worker[w].id, worker[w].row)
    /\ Goto(w, "failing")
    /\ UNCHANGED <<rows, lastId, tasks, handler, posted, signerVars>>

\* CreateEvmTransactionRequest: the signer looks the call up.
Post(w) ==
    /\ worker[w].pc = "post"
    /\ LET c == worker[w].row.call IN
       /\ Goto(w, IF shown[c] = "none" THEN "create" ELSE "poll")
       /\ posted' = IF shown[c] = "failed" THEN posted \cup {c} ELSE posted
    /\ UNCHANGED <<rows, lastId, tasks, handler, signerVars>>

\* The signer creates the call.
Accepted(w) ==
    /\ worker[w].pc = "create"
    /\ Signer!Accept(worker[w].row.call)
    /\ Goto(w, "poll")
    /\ UNCHANGED <<rows, lastId, tasks, handler, posted>>

\* Another task created it in between: the answer has no transaction_id, and
\* the client dereferences it.
AcceptRefused(w) ==
    /\ worker[w].pc = "create"
    /\ shown[worker[w].row.call] # "none"
    /\ Stop(w)
    /\ UNCHANGED <<rows, lastId, tasks, handler, posted, signerVars>>

\* Mutant: the status is not looked at.
PollAnswered(w) ==
    /\ worker[w].pc = "poll"
    /\ Goto(w, "complete")
    /\ UNCHANGED <<rows, lastId, tasks, handler, posted, signerVars>>

\* AwaitTx polls until the request is mined; any other end is an error.
PollMined(w) ==
    /\ worker[w].pc = "poll"
    /\ shown[worker[w].row.call] = "mined"
    /\ Goto(w, "complete")
    /\ UNCHANGED <<rows, lastId, tasks, handler, posted, signerVars>>

PollFailed(w) ==
    /\ worker[w].pc = "poll"
    /\ shown[worker[w].row.call] = "failed"
    /\ Goto(w, "failing")
    /\ UNCHANGED <<rows, lastId, tasks, handler, posted, signerVars>>

\* Mutant: the error is returned without recording the failure.
CallFailsSilently(w) ==
    /\ worker[w].pc \in {"post", "create", "poll", "complete"}
    /\ Faults \cap {"rpc", "timeout"} # {}
    /\ Stop(w)
    /\ UNCHANGED <<rows, lastId, tasks, handler, posted, signerVars>>

\* An error of TransferTo that says nothing about the transfer.  A POST the
\* client has given up may still be taken up by the signer.
CallFails(w) ==
    /\ \/ worker[w].pc \in {"post", "poll", "complete"} /\ "rpc" \in Faults
       \/ worker[w].pc \in {"create", "poll"} /\ "timeout" \in Faults
    /\ Goto(w, "failing")
    /\ posted' = IF worker[w].pc = "create"
                 THEN posted \cup {worker[w].row.call} ELSE posted
    /\ UNCHANGED <<rows, lastId, tasks, handler, signerVars>>

Complete(w) ==
    /\ worker[w].pc = "complete"
    /\ SaveRow(w, "completed")
    /\ Stop(w)
    /\ UNCHANGED <<lastId, tasks, handler, posted, signerVars>>

CompleteFails(w) ==
    /\ worker[w].pc = "complete"
    /\ "db" \in Faults \/ ~Writable(worker[w].id, worker[w].row)
    /\ Goto(w, "failing")
    /\ UNCHANGED <<rows, lastId, tasks, handler, posted, signerVars>>

\* doMintLikeCoinFailed; when its UPDATE fails the row stays as it is.
Fail(w) ==
    /\ worker[w].pc = "failing"
    /\ SaveRow(w, "failed")
    /\ Stop(w)
    /\ UNCHANGED <<lastId, tasks, handler, posted, signerVars>>

FailAborted(w) ==
    /\ worker[w].pc = "failing"
    /\ "db" \in Faults \/ ~Writable(worker[w].id, worker[w].row)
    /\ Stop(w)
    /\ UNCHANGED <<rows, lastId, tasks, handler, posted, signerVars>>

\* Mutant: a dying task records a failure.
DieFailing(w) ==
    /\ "crash" \in Faults
    /\ worker[w].pc # "idle"
    /\ Goto(w, "failing")
    /\ UNCHANGED <<rows, lastId, tasks, handler, posted, signerVars>>

\* The process dies, by a signal or by the panic of AwaitTx's own goroutine on
\* an answer without a status; asynq archives the task.
Die(w) ==
    /\ "crash" \in Faults
    /\ worker[w].pc # "idle"
    /\ Stop(w)
    /\ UNCHANGED <<rows, lastId, tasks, handler, posted, signerVars>>

-----------------------------------------------------------------------------
(* The signer goes on by itself.                                           *)

SignerStep(c) ==
    /\ Signer!Execute(c) \/ Signer!Confirm(c) \/ Signer!Refuse(c)
    /\ UNCHANGED <<rows, lastId, tasks, handler, worker, posted>>

\* The goroutine of a POST: creates or retries the call, or leaves it alone.
SignerTakes(c) ==
    /\ c \in posted
    /\ posted' = posted \ {c}
    /\ \/ Signer!Accept(c) \/ Signer!Retry(c)
       \/ shown[c] \in {"pending", "mined"} /\ UNCHANGED signerVars
    /\ UNCHANGED <<rows, lastId, tasks, handler, worker>>

\* What is left of CallService when a call is posted while the signer is on
\* it, or an error hides a success: mined is still true (Signer, MinedIsTrue).
SignerErrs(c) ==
    /\ "signer" \in Faults
    /\ shown[c] # "none"
    /\ \/ /\ executed[c] < MaxExecuted
          /\ executed' = [executed EXCEPT ![c] = @ + 1]
          /\ UNCHANGED shown
       \/ /\ \E s \in {"pending", "failed"} \cup {m \in {"mined"} : executed[c] > 0} :
                shown' = [shown EXCEPT ![c] = s]
          /\ UNCHANGED executed
    /\ UNCHANGED <<rows, lastId, tasks, handler, worker, posted>>

-----------------------------------------------------------------------------
Request(h) == Insert(h) \/ Update(h) \/ Enqueue(h) \/ RequestFails(h)

TaskStep(w) ==
    \/ Verify(w) \/ VerifyFails(w)
    \/ Post(w) \/ Accepted(w) \/ AcceptRefused(w)
    \/ PollMined(w) \/ PollFailed(w) \/ CallFails(w)
    \/ Complete(w) \/ CompleteFails(w) \/ Fail(w) \/ FailAborted(w)

Next ==
    \/ \E h \in Handlers, u \in Users :
        \/ \E c \in Calls : CreateBegin(h, u, c)
        \/ \E b \in Burns : UpdateBegin(h, u, b)
    \/ \E h \in Handlers : Request(h)
    \/ \E i \in Ids : Remove(i)
    \/ \E w \in Workers, u \in Users : Start(w, u)
    \/ \E w \in Workers : TaskStep(w) \/ Die(w)
    \/ \E c \in Calls : SignerStep(c) \/ SignerTakes(c) \/ SignerErrs(c)

Spec == Init /\ [][Next]_vars

\* Goroutines and tasks keep running; the signer settles what it is posted
\* (Signer, Settles).
Fairness ==
    /\ \A h \in Handlers : WF_vars(Request(h))
    /\ \A u \in Users : WF_vars(\E w \in Workers : Start(w, u))
    /\ \A w \in Workers : WF_vars(TaskStep(w))
    /\ \A c \in Calls : WF_vars(SignerStep(c)) /\ WF_vars(SignerTakes(c))

FairSpec == Spec /\ Fairness

-----------------------------------------------------------------------------
(* Properties.                                                             *)

TypeOK ==
    /\ rows \in [Ids -> Row \cup {None}]
    /\ lastId \in 0 .. MaxRows
    /\ tasks \in [Users -> Nat]
    /\ handler \in [Handlers -> Handler]
    /\ worker \in [Workers -> Task]
    /\ posted \in SUBSET Calls
    /\ shown \in [Calls -> {"none", "pending", "failed", "mined"}]
    /\ executed \in [Calls -> Nat]

\* A migration is shown completed only if its transfer has been executed,
\* whichever of the stale copies of its row was saved last (DoMintLikeCoin).
CompletedWasPaid ==
    \A i \in Ids : rows[i] # None /\ rows[i].status = "completed" =>
        executed[rows[i].call] > 0

\* What is being minted or has been was verified: the burn the row names is
\* its recipient's, even if a late UpdateCosmosTxHash replaced the burn while
\* a task worked on its copy of the row.
MintedWasVerified ==
    \A i \in Ids : rows[i] # None /\ rows[i].status \in {"evm_minting", "completed"} =>
        rows[i].burn # None /\ Verified(rows[i])

\* A user who reads failed has not been paid and will not be, so that a new
\* migration does not pay twice (doMintLikeCoinFailed).
FailedWasNotPaid ==
    \A i \in Ids : rows[i] # None /\ rows[i].status = "failed" =>
        executed[rows[i].call] = 0

\* Careful users keep the signer within CallService: no call is posted to it
\* while it is still on the call, for another task or an abandoned POST.
PostsInTurn ==
    [][\A w \in Workers :
        worker[w].pc = "post" /\ worker'[w].pc \in {"create", "poll"} =>
            LET c == worker[w].row.call IN
            /\ shown[c] # "pending" /\ c \notin posted
            /\ \A v \in Workers \ {w} :
                 worker[v].pc \in {"create", "poll"} => worker[v].row.call # c]_vars

\* completed is the end: no other task still holds an older copy of the row
\* that it may save over it.
CompletedIsFinal ==
    [][\A i \in Ids : rows[i] # None /\ rows[i].status = "completed" =>
        rows'[i] = rows[i]]_vars

\* A migration whose burn has been submitted ends: the task is there, is the
\* only one, and hears from the signer.
MigrationEnds ==
    \A i \in Ids :
        rows[i] # None /\ rows[i].status \in {"verifying_cosmos_tx", "evm_minting"}
            ~> rows[i] # None /\ rows[i].status \in Ended

=============================================================================
