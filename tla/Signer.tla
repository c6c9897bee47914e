------------------------------- MODULE Signer -------------------------------
(***************************************************************************)
(* The hot-wallet signer, signer-backend: HTTP handlers that turn a        *)
(* contract call into a row of evm_transaction_request, and the            *)
(* AwaitTransaction goroutines that sign, broadcast and follow the EVM     *)
(* transaction of a row.  The processes share a PostgreSQL database, one   *)
(* signing key and one EVM node.                                           *)
(*                                                                         *)
(* A worker stands for one POST handler and the AwaitTransaction goroutine *)
(* it leaves behind.  Each action is one statement or one committed        *)
(* database transaction of that goroutine; between two actions any other   *)
(* worker, the node or the operator may move.  The gas fields, the         *)
(* timestamps and the failure text of a row are left out.                  *)
(***************************************************************************)
EXTENDS Integers, FiniteSets

CONSTANTS
    Calls,       \* contract calls: (contract address, method, params)
    Ids,         \* primary keys evm_transaction_request can hand out
    Workers,     \* handler goroutines
    Processes,   \* replicas of the server: a partition of Workers
    None,        \* SQL NULL / Go nil
    FirstNonce,  \* account nonce of the signing key when the system starts
    MaxPosts,    \* bound: POST requests the clients send altogether
    Overlap,     \* may a call be posted while a worker is still on it?
    Faults       \* which of FaultKinds may happen

FaultKinds ==
    {"crash",      \* a process dies
     "shutdown",   \* SIGTERM: the graceful contexts are cancelled, then exit
     "rpc",        \* an EVM RPC returns an error and has had no effect
     "ambiguous",  \* an RPC or a commit takes effect but returns an error
     "db",         \* a database statement or transaction returns an error
     "revert",     \* a transaction is mined with receipt status 0
     "drop"}       \* the node evicts a transaction from its pool

ASSUME SignerAssumption ==
    /\ None \notin Ids \cup Calls
    /\ Processes \subseteq SUBSET Workers
    /\ UNION Processes = Workers
    /\ FirstNonce \in Nat
    /\ MaxPosts \in Nat
    /\ Overlap \in BOOLEAN
    /\ Faults \subseteq FaultKinds

VARIABLES
    contractCall,  \* table contract_call: call -> request id, or None
    request,       \* table evm_transaction_request: id -> row
    nonceTable,    \* table transaction_nonce: its rows
    nonceSeq,      \* the SERIAL of transaction_nonce
    worker,        \* the goroutines
    mempool,       \* signed transactions the node holds
    receipts,      \* receipts of the mined transactions
    accountNonce,  \* nonce of the signing key on chain
    posts          \* POST requests sent so far

dbVars == <<contractCall, request, nonceTable, nonceSeq>>
nodeVars == <<mempool, receipts, accountNonce>>
vars == <<dbVars, worker, nodeVars, posts>>

-----------------------------------------------------------------------------
(* The records of the database, of the node and of a goroutine.            *)

NoNonce == -1

Status == {"none", "init", "in_progress", "submitted", "mined", "failed"}

\* A row; signed_tx_hash identifies (id, nonce) and is set with the nonce.
Row == [status: Status, nonce: Nat \cup {NoNonce}]
NoRow == [status |-> "none", nonce |-> NoNonce]

NonceRow == [id: Nat, nonce: Nat, req: Ids]

Tx == [req: Ids, nonce: Nat]
Receipt == [req: Ids, nonce: Nat, ok: BOOLEAN]

\* AwaitTransaction's control points; "create" is still the HTTP handler.
Awaiting == {"read", "lock", "remote", "check", "commit", "broadcast",
             "removing", "failing", "lookup", "await", "record"}

Goroutine == [pc: {"idle", "create"} \cup Awaiting,
              call: Calls \cup {None},      \* the call being created
              id: Ids \cup {None},          \* transactionId
              row: Row,                     \* the local copy of the row
              remote: Nat \cup {NoNonce},   \* PendingNonceAt's answer
              nonceId: Nat,                 \* id of the nonce row inserted
              cancelled: BOOLEAN]           \* is its graceful context done?

Idle == [pc |-> "idle", call |-> None, id |-> None, row |-> NoRow,
         remote |-> NoNonce, nonceId |-> 0, cancelled |-> FALSE]

Init ==
    /\ contractCall = [c \in Calls |-> None]
    /\ request = [i \in Ids |-> NoRow]
    /\ nonceTable = {}
    /\ nonceSeq = 0
    /\ worker = [w \in Workers |-> Idle]
    /\ mempool = {}
    /\ receipts = {}
    /\ accountNonce = FirstNonce
    /\ posts = 0

-----------------------------------------------------------------------------
(* The node, as the signer sees it through JSON-RPC.                       *)

SignedTx(w) == [req |-> worker[w].id, nonce |-> worker[w].row.nonce]

\* PendingNonceAt: the first nonce no transaction in the pool uses.
PendingNonces ==
    {n \in accountNonce .. (accountNonce + Cardinality(mempool)) :
        /\ \A t \in mempool : t.nonce # n
        /\ \A k \in accountNonce .. (n - 1) : \E t \in mempool : t.nonce = k}

\* SendTransaction refuses a used nonce and a transaction replacing another.
NodeAccepts(tx) ==
    /\ tx.nonce >= accountNonce
    /\ \A t \in mempool : t.nonce # tx.nonce

Known(tx) ==
    \/ tx \in mempool
    \/ \E r \in receipts : r.req = tx.req /\ r.nonce = tx.nonce

\* A block is produced with the next transaction of the account.
Mine(t, ok) ==
    /\ t.nonce = accountNonce
    /\ ok \/ "revert" \in Faults
    /\ mempool' = mempool \ {t}
    /\ receipts' = receipts \cup {[req |-> t.req, nonce |-> t.nonce, ok |-> ok]}
    /\ accountNonce' = accountNonce + 1
    /\ UNCHANGED <<dbVars, worker, posts>>

\* The node evicts a transaction and forgets it.
Drop(t) ==
    /\ "drop" \in Faults
    /\ mempool' = mempool \ {t}
    /\ UNCHANGED <<dbVars, worker, receipts, accountNonce, posts>>

-----------------------------------------------------------------------------
(* POST /evm-transaction-request: GetOrCreateTransactionRequest.           *)

WorksOn(w, c) ==
    \/ worker[w].call = c
    \/ worker[w].id # None /\ worker[w].id = contractCall[c]

\* The query of contract_call.  A known call goes straight to its request.
Post(w, c) ==
    /\ posts < MaxPosts
    /\ worker[w].pc = "idle"
    /\ Overlap \/ \A v \in Workers : ~WorksOn(v, c)
    /\ posts' = posts + 1
    /\ worker' = [worker EXCEPT ![w] =
                    IF contractCall[c] = None
                    THEN [Idle EXCEPT !.pc = "create", !.call = c]
                    ELSE [Idle EXCEPT !.pc = "read", !.id = contractCall[c]]]
    /\ UNCHANGED <<dbVars, nodeVars>>

\* Defect: contract_call is written without its UNIQUE constraint.
CreateUnchecked(w) ==
    /\ worker[w].pc = "create"
    /\ \E i \in Ids :
        /\ request[i] = NoRow
        /\ request' = [request EXCEPT ![i] = [NoRow EXCEPT !.status = "init"]]
        /\ contractCall' = [contractCall EXCEPT ![worker[w].call] = i]
        /\ worker' = [worker EXCEPT ![w] = [Idle EXCEPT !.pc = "read", !.id = i]]
    /\ UNCHANGED <<nonceTable, nonceSeq, nodeVars, posts>>

\* Both rows in one transaction; the handler then starts AwaitTransaction.
Create(w) ==
    /\ worker[w].pc = "create"
    /\ contractCall[worker[w].call] = None
    /\ \E i \in Ids :
        /\ request[i] = NoRow
        /\ request' = [request EXCEPT ![i] = [NoRow EXCEPT !.status = "init"]]
        /\ contractCall' = [contractCall EXCEPT ![worker[w].call] = i]
        /\ worker' = [worker EXCEPT ![w] = [Idle EXCEPT !.pc = "read", !.id = i]]
    /\ UNCHANGED <<nonceTable, nonceSeq, nodeVars, posts>>

\* UNIQUE (contract_address, method, params_hex), or the database failed:
\* rolled back, answered with an error, no goroutine started.
CreateRefused(w) ==
    /\ worker[w].pc = "create"
    /\ contractCall[worker[w].call] # None \/ "db" \in Faults
    /\ worker' = [worker EXCEPT ![w] = Idle]
    /\ UNCHANGED <<dbVars, nodeVars, posts>>

-----------------------------------------------------------------------------
(* AwaitTransaction and initTransaction.                                   *)

Finish(w) == worker' = [worker EXCEPT ![w] = Idle]

Goto(w, pc) == worker' = [worker EXCEPT ![w].pc = pc]

SaveRow(w, status) ==
    request' = [request EXCEPT ![worker[w].id] =
                    [worker[w].row EXCEPT !.status = status]]

\* Defect: a row with one of these statuses is signed again.
ReadResigns(w, retried) ==
    /\ worker[w].pc = "read"
    /\ request[worker[w].id].status \in retried
    /\ worker' = [worker EXCEPT ![w].pc = "lock", ![w].row = request[worker[w].id]]
    /\ UNCHANGED <<dbVars, nodeVars, posts>>

ReadResignsSubmitted(w) == ReadResigns(w, {"init", "failed", "submitted"})

ReadResignsMined(w) == ReadResigns(w, {"init", "failed", "mined"})

\* The row is read without a lock and dispatched on the status it had.
Read(w) ==
    LET row == request[worker[w].id] IN
    /\ worker[w].pc = "read"
    /\ worker' = [worker EXCEPT ![w] =
            CASE row.status \in {"init", "failed"} ->
                    [@ EXCEPT !.pc = "lock", !.row = row]
              [] row.status = "submitted" ->
                    [@ EXCEPT !.pc = "lookup", !.row = row]
              [] OTHER -> Idle]
    /\ UNCHANGED <<dbVars, nodeVars, posts>>

\* Defect: a status the column does not know.
LockUnknownStatus(w) ==
    /\ worker[w].pc = "lock"
    /\ SaveRow(w, "processing")
    /\ Goto(w, "remote")
    /\ UNCHANGED <<contractCall, nonceTable, nonceSeq, nodeVars, posts>>

\* The status becomes in_progress, whatever it is by now.
Lock(w) ==
    /\ worker[w].pc = "lock"
    /\ SaveRow(w, "in_progress")
    /\ worker' = [worker EXCEPT ![w].pc = "remote",
                                ![w].row.status = "in_progress"]
    /\ UNCHANGED <<contractCall, nonceTable, nonceSeq, nodeVars, posts>>

\* awaitAvailableNonce, first half of the loop: ask the node.
RemoteNonce(w) ==
    /\ worker[w].pc = "remote"
    /\ ~worker[w].cancelled
    /\ \E n \in PendingNonces :
        worker' = [worker EXCEPT ![w].pc = "check", ![w].remote = n]
    /\ UNCHANGED <<dbVars, nodeVars, posts>>

\* getNonceAvailability: newer than the row created last, or no row at all.
Available(n) ==
    \A t \in nonceTable : (\A u \in nonceTable : u.id <= t.id) => n > t.nonce

\* Second half of the loop; an available nonce is signed with.
CheckNonce(w) ==
    /\ worker[w].pc = "check"
    /\ \/ /\ Available(worker[w].remote)
          /\ ~worker[w].cancelled
          /\ worker' = [worker EXCEPT ![w].pc = "commit",
                            ![w].row = [status |-> "submitted",
                                        nonce |-> worker[w].remote],
                            ![w].remote = NoNonce]
       \/ /\ ~Available(worker[w].remote)
          /\ worker' = [worker EXCEPT ![w].pc = "remote",
                                      ![w].remote = NoNonce]
    /\ UNCHANGED <<dbVars, nodeVars, posts>>

\* Defect: the error is returned without a call to failed.
SignFailsSilently(w) ==
    /\ worker[w].pc \in {"remote", "check"}
    /\ worker[w].cancelled \/ Faults \cap {"rpc", "db"} # {}
    /\ Finish(w)
    /\ UNCHANGED <<dbVars, nodeVars, posts>>

\* Sign gives up: context, nonce, gas price, gas estimate or query failed.
SignFails(w) ==
    /\ worker[w].pc \in {"remote", "check"}
    /\ worker[w].cancelled \/ Faults \cap {"rpc", "db"} # {}
    /\ worker' = [worker EXCEPT ![w].pc = "failing", ![w].remote = NoNonce]
    /\ UNCHANGED <<dbVars, nodeVars, posts>>

-----------------------------------------------------------------------------
(* Reserving the nonce and broadcasting.                                   *)

\* UNIQUE (eth_address, nonce) and CHECK (nonce > 0) of transaction_nonce.
Insertable(n) == n > 0 /\ \A t \in nonceTable : t.nonce # n

\* INSERT transaction_nonce and UPDATE to submitted, committed together.
ReserveNonce(w) ==
    /\ Insertable(worker[w].row.nonce)
    /\ nonceSeq' = nonceSeq + 1
    /\ nonceTable' = nonceTable \cup
            {[id |-> nonceSeq + 1, nonce |-> worker[w].row.nonce,
              req |-> worker[w].id]}
    /\ SaveRow(w, "submitted")

Commit(w) ==
    /\ worker[w].pc = "commit"
    /\ ~worker[w].cancelled
    /\ ReserveNonce(w)
    /\ worker' = [worker EXCEPT ![w].pc = "broadcast",
                                ![w].nonceId = nonceSeq + 1]
    /\ UNCHANGED <<contractCall, nodeVars, posts>>

\* BeginTx, the INSERT or the commit fails: nothing is written.
CommitFails(w) ==
    /\ worker[w].pc = "commit"
    /\ \/ worker[w].cancelled
       \/ "db" \in Faults
       \/ ~Insertable(worker[w].row.nonce)
    /\ Goto(w, "failing")
    /\ UNCHANGED <<dbVars, nodeVars, posts>>

\* The commit is durable but its answer is lost.
CommitAmbiguous(w) ==
    /\ worker[w].pc = "commit"
    /\ "ambiguous" \in Faults
    /\ ReserveNonce(w)
    /\ Goto(w, "failing")
    /\ UNCHANGED <<contractCall, nodeVars, posts>>

\* Defect: mined is recorded as soon as the node has the transaction.
BroadcastRecords(w) ==
    /\ worker[w].pc = "broadcast"
    /\ ~worker[w].cancelled
    /\ NodeAccepts(SignedTx(w))
    /\ mempool' = mempool \cup {SignedTx(w)}
    /\ Goto(w, "record")
    /\ UNCHANGED <<dbVars, receipts, accountNonce, posts>>

\* Transact: the node takes the transaction.
Broadcast(w) ==
    /\ worker[w].pc = "broadcast"
    /\ ~worker[w].cancelled
    /\ NodeAccepts(SignedTx(w))
    /\ mempool' = mempool \cup {SignedTx(w)}
    /\ Goto(w, "await")
    /\ UNCHANGED <<dbVars, receipts, accountNonce, posts>>

\* Defect: failed instead of failedAndRemoveNonce.
BroadcastFailsKeepsNonce(w) ==
    /\ worker[w].pc = "broadcast"
    /\ \/ worker[w].cancelled
       \/ "rpc" \in Faults
       \/ ~NodeAccepts(SignedTx(w))
    /\ Goto(w, "failing")
    /\ UNCHANGED <<dbVars, nodeVars, posts>>

BroadcastFails(w) ==
    /\ worker[w].pc = "broadcast"
    /\ \/ worker[w].cancelled
       \/ "rpc" \in Faults
       \/ ~NodeAccepts(SignedTx(w))
    /\ Goto(w, "removing")
    /\ UNCHANGED <<dbVars, nodeVars, posts>>

\* The node takes the transaction but the signer gets an error.
BroadcastAmbiguous(w) ==
    /\ worker[w].pc = "broadcast"
    /\ "ambiguous" \in Faults
    /\ NodeAccepts(SignedTx(w))
    /\ mempool' = mempool \cup {SignedTx(w)}
    /\ Goto(w, "removing")
    /\ UNCHANGED <<dbVars, receipts, accountNonce, posts>>

-----------------------------------------------------------------------------
(* failed, failedAndRemoveNonce: both write the whole local copy of the    *)
(* row, in a transaction begun with the worker's context.                  *)

Fail(w) ==
    /\ worker[w].pc = "failing"
    /\ ~worker[w].cancelled
    /\ SaveRow(w, "failed")
    /\ Finish(w)
    /\ UNCHANGED <<contractCall, nonceTable, nonceSeq, nodeVars, posts>>

\* Defects: one of the two statements of failedAndRemoveNonce is missing.
RemoveNonceOnly(w) ==
    /\ worker[w].pc = "removing"
    /\ ~worker[w].cancelled
    /\ nonceTable' = {t \in nonceTable : t.id # worker[w].nonceId}
    /\ Finish(w)
    /\ UNCHANGED <<contractCall, request, nonceSeq, nodeVars, posts>>

RemoveNonceNot(w) ==
    /\ worker[w].pc = "removing"
    /\ ~worker[w].cancelled
    /\ SaveRow(w, "failed")
    /\ Finish(w)
    /\ UNCHANGED <<contractCall, nonceTable, nonceSeq, nodeVars, posts>>

RemoveNonce(w) ==
    /\ worker[w].pc = "removing"
    /\ ~worker[w].cancelled
    /\ nonceTable' = {t \in nonceTable : t.id # worker[w].nonceId}
    /\ SaveRow(w, "failed")
    /\ Finish(w)
    /\ UNCHANGED <<contractCall, nonceSeq, nodeVars, posts>>

\* BeginTx fails on a cancelled context: the rows stay as they are.
FailAborted(w) ==
    /\ worker[w].pc \in {"failing", "removing"}
    /\ worker[w].cancelled \/ "db" \in Faults
    /\ Finish(w)
    /\ UNCHANGED <<dbVars, nodeVars, posts>>

-----------------------------------------------------------------------------
(* Following the transaction: submitted, AwaitTx and the final update.     *)

\* TransactionByHash finds the transaction in the pool or on chain.
Lookup(w) ==
    /\ worker[w].pc = "lookup"
    /\ ~worker[w].cancelled
    /\ Known(SignedTx(w))
    /\ Goto(w, "await")
    /\ UNCHANGED <<dbVars, nodeVars, posts>>

\* Defect: a transaction that cannot be found is taken for a failed one.
LookupFailsRequest(w) ==
    /\ worker[w].pc = "lookup"
    /\ worker[w].cancelled \/ "rpc" \in Faults \/ ~Known(SignedTx(w))
    /\ Goto(w, "failing")
    /\ UNCHANGED <<dbVars, nodeVars, posts>>

\* It does not, or the RPC fails: return, the row stays submitted.
LookupFails(w) ==
    /\ worker[w].pc = "lookup"
    /\ worker[w].cancelled \/ "rpc" \in Faults \/ ~Known(SignedTx(w))
    /\ Finish(w)
    /\ UNCHANGED <<dbVars, nodeVars, posts>>

\* Defects: the receipt's status is ignored; a revert gives the nonce back.
AwaitReceiptTo(w, success, revert) ==
    /\ worker[w].pc = "await"
    /\ ~worker[w].cancelled
    /\ \E r \in receipts :
        /\ r.req = worker[w].id
        /\ r.nonce = worker[w].row.nonce
        /\ Goto(w, IF r.ok THEN success ELSE revert)
    /\ UNCHANGED <<dbVars, nodeVars, posts>>

AwaitReceiptOnly(w) == AwaitReceiptTo(w, "record", "record")

AwaitReceiptFrees(w) == AwaitReceiptTo(w, "record", "removing")

\* AwaitTx returns only with a receipt: it does not watch its context.
AwaitReceipt(w) ==
    /\ worker[w].pc = "await"
    /\ ~worker[w].cancelled
    /\ \E r \in receipts :
        /\ r.req = worker[w].id
        /\ r.nonce = worker[w].row.nonce
        /\ Goto(w, IF r.ok THEN "record" ELSE "failing")
    /\ UNCHANGED <<dbVars, nodeVars, posts>>

Record(w) ==
    /\ worker[w].pc = "record"
    /\ SaveRow(w, "mined")
    /\ Finish(w)
    /\ UNCHANGED <<contractCall, nonceTable, nonceSeq, nodeVars, posts>>

\* The query or the final update fails: return, the row stays as it is.
StatementFails(w) ==
    /\ worker[w].pc \in {"read", "record"}
    /\ "db" \in Faults
    /\ Finish(w)
    /\ UNCHANGED <<dbVars, nodeVars, posts>>

-----------------------------------------------------------------------------
(* The process: shutdown and death.                                        *)

KillProcess(P) ==
    worker' = [w \in Workers |-> IF w \in P THEN Idle ELSE worker[w]]

\* A failed UPDATE leaves the row pointer nil; failed then dereferences it,
\* which kills the process, unless its BeginTx fails as well.
UpdateFails(w) ==
    /\ worker[w].pc \in {"lock", "commit"}
    /\ "db" \in Faults
    /\ \/ ~worker[w].cancelled /\ \E P \in Processes : w \in P /\ KillProcess(P)
       \/ Finish(w)
    /\ UNCHANGED <<dbVars, nodeVars, posts>>

\* SIGTERM: the graceful context of an AwaitTransaction is cancelled.
Cancel(w) ==
    /\ "shutdown" \in Faults
    /\ worker[w].pc \in Awaiting
    /\ ~worker[w].cancelled
    /\ worker' = [worker EXCEPT ![w].cancelled = TRUE]
    /\ UNCHANGED <<dbVars, nodeVars, posts>>

\* The process exits, after the graceful timeout or by a crash.
Exit(P) ==
    /\ Faults \cap {"crash", "shutdown"} # {}
    /\ \E w \in P : worker[w] # Idle
    /\ KillProcess(P)
    /\ UNCHANGED <<dbVars, nodeVars, posts>>

-----------------------------------------------------------------------------
Handler(w) == Create(w) \/ CreateRefused(w)

Sign(w) == Read(w) \/ Lock(w) \/ RemoteNonce(w) \/ CheckNonce(w) \/ SignFails(w)

Submit(w) ==
    \/ Commit(w) \/ CommitFails(w) \/ CommitAmbiguous(w)
    \/ Broadcast(w) \/ BroadcastFails(w) \/ BroadcastAmbiguous(w)

Settle(w) ==
    \/ Fail(w) \/ RemoveNonce(w) \/ FailAborted(w)
    \/ Lookup(w) \/ LookupFails(w) \/ AwaitReceipt(w)
    \/ Record(w) \/ StatementFails(w)

WorkerStep(w) == Handler(w) \/ Sign(w) \/ Submit(w) \/ Settle(w)

Next ==
    \/ \E w \in Workers, c \in Calls : Post(w, c)
    \/ \E w \in Workers : WorkerStep(w) \/ UpdateFails(w) \/ Cancel(w)
    \/ \E P \in Processes : Exit(P)
    \/ \E t \in mempool, ok \in BOOLEAN : Mine(t, ok)
    \/ \E t \in mempool : Drop(t)

Spec == Init /\ [][Next]_vars

\* Goroutines keep running and the chain keeps producing blocks.
Fairness ==
    /\ \A w \in Workers : WF_vars(WorkerStep(w))
    /\ WF_vars(\E t \in mempool, ok \in BOOLEAN : Mine(t, ok))

FairSpec == Spec /\ Fairness

-----------------------------------------------------------------------------
(* Properties.                                                             *)

TypeOK ==
    /\ contractCall \in [Calls -> Ids \cup {None}]
    /\ request \in [Ids -> Row]
    /\ nonceTable \in SUBSET NonceRow
    /\ nonceSeq \in Nat
    /\ worker \in [Workers -> Goroutine]
    /\ mempool \in SUBSET Tx
    /\ receipts \in SUBSET Receipt
    /\ accountNonce \in Nat
    /\ posts \in Nat

\* Every transaction the node has taken from the signer and not lost.
OnNode == mempool \cup {[req |-> r.req, nonce |-> r.nonce] : r \in receipts}

\* Those among them that have executed the request's call, or still may.
Live(i) ==
    {t.nonce : t \in {u \in mempool : u.req = i}} \cup
    {r.nonce : r \in {u \in receipts : u.req = i /\ u.ok}}

\* A row says mined only if the transaction it names was mined successfully:
\* every writer saves its own stale copy of the row, and none of them may
\* stamp mined on a hash that has no receipt (UpdateEvmTransactionRequest).
MinedIsTrue ==
    \A i \in Ids : request[i].status = "mined" =>
        [req |-> i, nonce |-> request[i].nonce, ok |-> TRUE] \in receipts

\* A row that says submitted has its nonce reserved for it: the INSERT and the
\* UPDATE share a transaction, and no later save or delete separates them.
SubmittedIsReserved ==
    \A i \in Ids : request[i].status = "submitted" =>
        \E t \in nonceTable : t.req = i /\ t.nonce = request[i].nonce

\* contract_call is a bijection onto the requests: two clients posting the
\* same call at once never get two requests, whoever loses is rolled back.
CallsDeduplicated ==
    /\ \A c, d \in Calls : contractCall[c] = contractCall[d] =>
            c = d \/ contractCall[c] = None
    /\ \A i \in Ids : request[i] # NoRow <=> \E c \in Calls : contractCall[c] = i

\* transaction_nonce is the ledger of the chain: whatever the node holds or
\* has mined for the key was reserved by the request it belongs to, and the
\* reservation is still there to keep the nonce from being handed out again.
LedgerSound ==
    \A tx \in OnNode :
        \E t \in nonceTable : t.nonce = tx.nonce /\ t.req = tx.req

\* A reservation that no transaction backs and no goroutine will back or
\* remove stops every later request, for QueryLatestNonce keeps returning it.
NoOrphanReservation ==
    \A t \in nonceTable :
        \/ [req |-> t.req, nonce |-> t.nonce] \in OnNode
        \/ \E w \in Workers : /\ worker[w].pc \in {"broadcast", "removing"}
                              /\ worker[w].nonceId = t.id

\* A call is executed at most once, and no second transaction for it waits in
\* the pool: AwaitTransaction calls itself idempotent and open to several
\* processes.
AtMostOnce == \A i \in Ids : \A m, n \in Live(i) : m = n

\* A client that reads failed may post the call again: nothing of the
\* earlier attempts is executed or still on its way.
FailedMeansNotExecuted ==
    \A i \in Ids : request[i].status = "failed" => Live(i) = {}

\* A request reported mined stays mined, with the transaction reported.
MinedIsFinal ==
    [][\A i \in Ids : request[i].status = "mined" => request'[i] = request[i]]_vars

\* Every request leaves the unfinished statuses: some goroutine is always
\* left to finish what it or another one began.
Settles ==
    \A i \in Ids :
        request[i].status \in {"init", "in_progress", "submitted"}
            ~> request[i].status \in {"mined", "failed"}

\* No goroutine waits for a nonce for ever: the nonce at the head of the
\* line is always used or given back.
NonceLineMoves ==
    \A w \in Workers :
        worker[w].pc = "remote" ~> worker[w].pc \notin {"remote", "check"}

-----------------------------------------------------------------------------
(* The service the clients see: GetTxHash reports the status of the row.   *)

shown ==
    [c \in Calls |->
        LET status == IF contractCall[c] = None
                      THEN "none" ELSE request[contractCall[c]].status
        IN  IF status \in {"init", "in_progress", "submitted"}
            THEN "pending" ELSE status]

executed ==
    [c \in Calls |-> Cardinality({r \in receipts : r.req = contractCall[c] /\ r.ok})]

Service == INSTANCE CallService WITH shown <- shown, executed <- executed

\* The signer implements the service: whatever the interleaving of requests,
\* faults and restarts, a client sees a call accepted, executed once and
\* confirmed, or refused without having been executed (GetTxHash).
ImplementsService == Service!Spec

=============================================================================
