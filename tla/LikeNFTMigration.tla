-------------------------- MODULE LikeNFTMigration --------------------------
(***************************************************************************)
(* migration-backend, from cosmos LikeNFT classes and NFTs to BookNFT: a   *)
(* migration is a row for each class and each NFT of one user.  A task per *)
(* row runs the actions it needs (new class; then transfer class or mint   *)
(* NFT).  Rows of action tables are shared by all tasks and make them      *)
(* resumable; each action posts calls to the signer and awaits them.       *)
(*                                                                         *)
(* Rows are written whole, from copies, without a lock; an action here is  *)
(* one statement or one request.  The signer is CallService, for calls it  *)
(* tells apart by their arguments, and the books are BookNFT.              *)
(***************************************************************************)
EXTENDS Naturals, Sequences, FiniteSets

CONSTANTS
    Migrations,  \* one for each user, who owns one eth address
    Classes,     \* cosmos classes
    Assets,      \* what the users have: a row of a migration each
    Plain,       \* ids of NFTs that have no number; others stand as their number
    Operator,    \* the signer's address, in all the INITIAL_* settings
    None,
    MaxSupply,   \* of each class
    Workers,     \* tasks that run at a time
    Operators,   \* those that also run what the CLI is told to
    MaxBooks,    \* bound: books ever created
    MaxRetries,  \* bound: requests to retry, and runs of the CLI
    Faults       \* which of FaultKinds may happen

FaultKinds ==
    {"crash",   \* a task dies
     "redis",   \* a task is not enqueued
     "rpc",     \* a query of a chain or of the signer, or a broadcast, fails
     "db",      \* a statement fails
     "signer",  \* the signer does not behave as CallService
     "remove"}  \* an administrator removes a migration

Numbers == Nat \cup Plain

ASSUME LikeNFTAssumption ==
    /\ Plain \cap Nat = {} /\ Operator \notin Migrations
    /\ None \notin Numbers \cup Migrations \cup Classes \cup {Operator}
    /\ Assets \subseteq [migration: Migrations, class: Classes, nft: Numbers \cup {None}]
    /\ {MaxSupply, MaxBooks, MaxRetries} \subseteq Nat
    /\ Operators \subseteq Workers
    /\ Faults \subseteq FaultKinds

VARIABLES
    migrations,  \* table likenft_asset_migration: its status
    rows,        \* tables likenft_asset_migration_class and _nft: their status
    actions,     \* tables likenft_migration_action_*: key -> row
    queue,       \* asynq: jobs to run, oldest first
    worker,      \* running tasks
    retrying,    \* requests to retry that have passed the checks
    retries,     \* requests to retry and runs of the CLI so far
    requests,    \* the signer: call -> what it answers
    books        \* the chain: books in order of creation

tables == <<migrations, rows, actions>>
signerVars == <<requests, books>>
userVars == <<retrying, retries>>
vars == <<tables, queue, worker, userVars, signerVars>>

-----------------------------------------------------------------------------
Status == {"init", "in_progress", "completed", "failed"}

ASSUME NullAssumption == None \notin Status \cup {"removed"}

\* EnqueueLikeNFTAssetMigration and EnqueueFailedLikeNFTAssetMigration.
Enqueuers == [enqueue: {"all", "failed"}, migration: Migrations]
Jobs == Assets \cup Enqueuers

RowsOf(m) == {a \in Assets : a.migration = m}
NFTs(m) == {a \in RowsOf(m) : a.nft # None}

\* Action rows.  evm_class_id of a new class is None until it is completed.
Action == [status: Status, book: 1 .. MaxBooks \cup {None}, owner: Migrations \cup {None}]

Stages == {"newClass", "mintNFT", "transferClass"}

Idle == [pc |-> "idle", job |-> None, stage |-> None, book |-> None,
         action |-> None, call |-> None, noted |-> {}]

Init ==
    /\ migrations = [m \in Migrations |-> None]
    /\ rows = [a \in Assets |-> None]
    /\ actions = <<>>
    /\ queue = <<>>
    /\ worker = [w \in Workers |-> Idle]
    /\ retrying = [m \in Migrations |-> 0]
    /\ retries = 0
    /\ requests = <<>>
    /\ books = <<>>

\* f with k mapped to v.
With(f, k, v) == [x \in DOMAIN f \cup {k} |-> IF x = k THEN v ELSE f[x]]

Fault(kind) == kind \in Faults

At(w, pc) == worker[w].pc = pc
Goto(w, pc) == worker' = [worker EXCEPT ![w].pc = pc]
Stop(w) == worker' = [worker EXCEPT ![w] = Idle]

-----------------------------------------------------------------------------
(* The chain and the signer.                                               *)

TextOf(c, i) == IF \E a \in Assets : a.class = c /\ a.nft = i THEN i ELSE None

BookContract == INSTANCE BookNFT WITH
    Accounts <- Migrations \cup {Operator}, Symbols <- Classes,
    Texts <- {a.nft : a \in Assets} \cup {None}

\* The symbol stands for the class, which the metadata of a book names.
NewBookCall(c) ==
    [method |-> "newBookNFT",
     msg |-> [creator |-> Operator, minters |-> {Operator}, updaters |-> {Operator},
              config |-> [symbol |-> c, maxSupply |-> MaxSupply]]]

MintCall(b, from, tos, texts) ==
    [method |-> "safeMintWithTokenId", book |-> b, from |-> from, tos |-> tos, texts |-> texts]

TransferCall(b, to, id) ==
    [method |-> "transferFrom", book |-> b, to |-> to, id |-> id]

OwnershipCall(b, to) == [method |-> "transferOwnership", book |-> b, to |-> to]

Succeeds(call) ==
    CASE call.method = "newBookNFT" ->
            Len(books) < MaxBooks /\ BookContract!ValidConfig(call.msg.config)
      [] call.method = "safeMintWithTokenId" ->
            BookContract!SafeMintable(books[call.book], call.from, call.tos,
                                      Len(call.tos), call.texts)
      [] call.method = "transferFrom" ->
            BookContract!Transferable(books[call.book], Operator, <<call.to>>, <<call.id>>)
      [] call.method = "transferOwnership" -> books[call.book].owner = Operator

\* What the call makes of its book.
After(call) ==
    LET book == books[call.book] IN
    CASE call.method = "safeMintWithTokenId" ->
            BookContract!Minted(book, Len(call.texts), call.tos, call.texts)
      [] call.method = "transferFrom" ->
            BookContract!Transferred(book, <<call.to>>, <<call.id>>)
      [] call.method = "transferOwnership" -> [book EXCEPT !.owner = call.to]

Run(call) ==
    /\ Succeeds(call)
    /\ books' = IF call.method = "newBookNFT"
                THEN Append(books, BookContract!NewBook(call.msg))
                ELSE [books EXCEPT ![call.book] = After(call)]

Answer(call, status, book) ==
    requests' = With(requests, call, [status |-> status, book |-> book])

Created(call) == IF call.method = "newBookNFT" THEN Len(books') ELSE None

\* A transaction is mined, and confirmed.
Execute(call) ==
    /\ requests[call].status = "pending"
    /\ Run(call)
    /\ Answer(call, "mined", Created(call))

\* It reverts, or is never broadcast.
Refuse(call) ==
    /\ requests[call].status = "pending"
    /\ (Succeeds(call) => Fault("rpc"))
    /\ Answer(call, "failed", None)
    /\ UNCHANGED books

\* What is left of CallService when a call is posted while the signer is on
\* it, or an error hides a success (Signer, AtMostOnce, FailedMeansNotExecuted).
Misbehave(call) ==
    /\ Fault("signer")
    /\ \/ Run(call) /\ Answer(call, requests[call].status, Created(call))
       \/ requests[call].status = "mined" /\ Answer(call, "failed", None) /\ UNCHANGED books

Settle == \E call \in DOMAIN requests : Execute(call) \/ Refuse(call)

SignerStep ==
    /\ Settle \/ \E call \in DOMAIN requests : Misbehave(call)
    /\ UNCHANGED <<tables, queue, worker, userVars>>

-----------------------------------------------------------------------------
(* HTTP handlers, and the tasks that enqueue tasks.                        *)

Enqueued(j) == queue' = Append(queue, j)

EnqueuedOrNot(j) ==
    \/ Enqueued(j)
    \/ Fault("redis") /\ UNCHANGED queue

Enqueuer(kind, m) == [enqueue |-> kind, migration |-> m]

\* create: one transaction; cosmos_address is UNIQUE.
Create(m) ==
    /\ migrations[m] = None
    /\ migrations' = [migrations EXCEPT ![m] = "in_progress"]
    /\ rows' = [a \in Assets |-> IF a.migration = m THEN "init" ELSE rows[a]]
    /\ EnqueuedOrNot(Enqueuer("all", m))
    /\ UNCHANGED <<actions, worker, userVars, signerVars>>

\* retry: the status of the migration is checked.
RetryCheck(m) ==
    /\ migrations[m] = "failed"
    /\ retries < MaxRetries
    /\ retries' = retries + 1
    /\ retrying' = [retrying EXCEPT ![m] = @ + 1]
    /\ UNCHANGED <<tables, queue, worker, signerVars>>

SetMigration(m, status) ==
    migrations' = [migrations EXCEPT ![m] = IF @ = "removed" THEN @ ELSE status]

RetryWrite(m) ==
    /\ retrying[m] > 0
    /\ retrying' = [retrying EXCEPT ![m] = @ - 1]
    /\ SetMigration(m, "in_progress")
    /\ EnqueuedOrNot(Enqueuer("failed", m))
    /\ UNCHANGED <<rows, actions, worker, retries, signerVars>>

\* Bound: what is removed is not created again.
Remove(m) ==
    /\ Fault("remove")
    /\ migrations[m] \notin {None, "removed"}
    /\ migrations' = [migrations EXCEPT ![m] = "removed"]
    /\ rows' = [a \in Assets |-> IF a.migration = m THEN None ELSE rows[a]]
    /\ UNCHANGED <<actions, queue, worker, userVars, signerVars>>

Take(w, j) ==
    /\ At(w, "idle")
    /\ queue # <<>> /\ Head(queue) = j
    /\ queue' = Tail(queue)

\* Reads the rows to enqueue.
EnqueueBegin(w, j) ==
    /\ Take(w, j)
    /\ LET todo == {a \in RowsOf(j.migration) :
                        rows[a] # None /\ (j.enqueue = "failed" => rows[a] = "failed")}
           pc == IF j.enqueue = "failed" THEN "commit" ELSE "enqueue"
       IN IF todo = {} THEN UNCHANGED worker
          ELSE worker' = [worker EXCEPT ![w] =
                    [Idle EXCEPT !.pc = pc, !.job = j, !.noted = todo]]
    /\ UNCHANGED <<tables, userVars, signerVars>>

\* UPDATEs that write rows; those that are gone are none.
SetRows(as, status) ==
    rows' = [a \in Assets |-> IF a \in as /\ rows[a] # None THEN status ELSE rows[a]]

\* EnqueueFailed: the failed rows are saved with their enqueue time.
EnqueueCommit(w) ==
    /\ At(w, "commit")
    /\ SetRows(worker[w].noted, "failed")
    /\ Goto(w, "enqueue")
    /\ UNCHANGED <<migrations, actions, queue, userVars, signerVars>>

EnqueueCommitFails(w) ==
    /\ At(w, "commit")
    /\ Fault("db")
    /\ SetMigration(worker[w].job.migration, "failed")
    /\ Stop(w)
    /\ UNCHANGED <<rows, actions, queue, userVars, signerVars>>

\* What is left to enqueue after a.
GoOn(w, a) ==
    LET todo == worker[w].noted \ {a} IN
    IF todo = {} THEN Stop(w) ELSE worker' = [worker EXCEPT ![w].noted = todo]

EnqueueNext(w) ==
    /\ At(w, "enqueue")
    /\ \E a \in worker[w].noted : Enqueued(a) /\ GoOn(w, a)
    /\ UNCHANGED <<tables, userVars, signerVars>>

\* A row that cannot be enqueued is skipped, but EnqueueFailed dies of the
\* task it has not got.
EnqueueNextFails(w) ==
    /\ At(w, "enqueue")
    /\ Fault("redis")
    /\ \E a \in worker[w].noted :
        IF worker[w].job.enqueue = "failed" THEN Stop(w) ELSE GoOn(w, a)
    /\ UNCHANGED <<tables, queue, userVars, signerVars>>

-----------------------------------------------------------------------------
(* MigrateClassFromAssetMigration, MigrateNFTFromAssetMigration.           *)

\* Whatever its status was, the row is in progress.
Migrate(w, a) ==
    /\ SetRows({a}, "in_progress")
    /\ IF rows[a] = None THEN UNCHANGED worker
       ELSE worker' = [worker EXCEPT ![w] =
                [Idle EXCEPT !.pc = "find", !.job = a, !.stage = "newClass"]]
    /\ UNCHANGED <<migrations, actions, retrying, signerVars>>

MigrateBegin(w, a) == Take(w, a) /\ Migrate(w, a) /\ UNCHANGED retries

\* cli likenft migrate-class, migrate-nft: checks nothing.
MigrateAtCli(w, a) ==
    /\ w \in Operators
    /\ At(w, "idle")
    /\ retries < MaxRetries
    /\ retries' = retries + 1
    /\ Migrate(w, a)
    /\ UNCHANGED queue

\* The UNIQUE columns of the table of the stage's actions.
Key(w) ==
    LET task == worker[w] IN
    CASE task.stage = "newClass" -> [stage |-> "newClass", class |-> task.job.class]
      [] task.stage = "mintNFT" ->
            [stage |-> "mintNFT", book |-> task.book, nft |-> task.job.nft]
      [] task.stage = "transferClass" ->
            [stage |-> "transferClass", book |-> task.book, owner |-> task.job.migration]

\* Defect: no row is taken for a row.
FindNothing(w) ==
    /\ At(w, "find")
    /\ worker' = [worker EXCEPT
            ![w].pc = "start",
            ![w].action = IF Key(w) \in DOMAIN actions THEN actions[Key(w)] ELSE None]
    /\ UNCHANGED <<tables, queue, userVars, signerVars>>

\* GetOrCreate...Action: the query.
Find(w) ==
    /\ At(w, "find")
    /\ worker' = [worker EXCEPT
            ![w].pc = IF Key(w) \in DOMAIN actions THEN "start" ELSE "insert",
            ![w].action = IF Key(w) \in DOMAIN actions THEN actions[Key(w)] ELSE None]
    /\ UNCHANGED <<tables, queue, userVars, signerVars>>

\* GetOrCreate...Action: the INSERT, which fails if another came first.
Insert(w) ==
    /\ At(w, "insert")
    /\ IF Key(w) \in DOMAIN actions
       THEN Goto(w, "failed") /\ UNCHANGED actions
       ELSE LET action == [status |-> "init", book |-> None, owner |-> worker[w].job.migration]
            IN /\ actions' = With(actions, Key(w), action)
               /\ worker' = [worker EXCEPT ![w].pc = "start", ![w].action = action]
    /\ UNCHANGED <<migrations, rows, queue, userVars, signerVars>>

\* The row's other action, if there is one to come.
NextStage(w, action) ==
    LET task == worker[w] IN
    worker' = [worker EXCEPT ![w] =
        IF task.stage # "newClass" THEN [task EXCEPT !.pc = "completed"]
        ELSE [task EXCEPT
                !.pc = "find", !.book = action.book, !.action = None, !.call = None,
                !.stage = IF task.job.nft = None THEN "transferClass" ELSE "mintNFT"]]

\* Do...Action: a copy that is completed, or neither init nor failed.
Skip(w) ==
    /\ At(w, "start")
    /\ \/ worker[w].action.status = "completed" /\ NextStage(w, worker[w].action)
       \/ worker[w].action.status = "in_progress" /\ Goto(w, "failed")
    /\ UNCHANGED <<tables, queue, userVars, signerVars>>

Starts(w) == At(w, "start") /\ worker[w].action.status \in {"init", "failed"}

\* DoNewClassAction, DoTransferClassAction
StartClass(w) ==
    /\ Starts(w)
    /\ worker[w].stage # "mintNFT"
    /\ LET task == worker[w]
           action == [task.action EXCEPT !.status = "in_progress"]
       IN /\ actions' = With(actions, Key(w), action)
          /\ worker' = [worker EXCEPT ![w] = [task EXCEPT
                !.pc = "post", !.action = action,
                !.call = IF task.stage = "newClass" THEN NewBookCall(task.job.class)
                         ELSE OwnershipCall(task.book, task.action.owner)]]
    /\ UNCHANGED <<migrations, rows, queue, userVars, signerVars>>

GetDesireBatchMintAmount(totalSupply, desireAmount) ==
    IF totalSupply > desireAmount THEN 0 ELSE desireAmount + 1 - totalSupply

\* Defect: the whole batch is minted to the user.
FirstMintCallToUser(c, b, n, to) ==
    LET totalSupply == BookContract!TotalSupply(books[b])
        batch == IF n \in Plain THEN 1 ELSE GetDesireBatchMintAmount(totalSupply, n)
        number(i) == IF n \in Plain THEN n ELSE TextOf(c, totalSupply + i - 1)
    IN IF batch = 0 THEN TransferCall(b, to, n)
       ELSE MintCall(b, totalSupply, [i \in 1 .. batch |-> to], [i \in 1 .. batch |-> number(i)])

\* An NFT without a number is the next token; one with a number is that token,
\* which a batch up to it brings about.
FirstMintCall(c, b, n, to) ==
    LET totalSupply == BookContract!TotalSupply(books[b])
        batch == IF n \in Plain THEN 1 ELSE GetDesireBatchMintAmount(totalSupply, n)
        number(i) == IF n \in Plain THEN n ELSE TextOf(c, totalSupply + i - 1)
    IN IF batch = 0 THEN TransferCall(b, to, n)
       ELSE MintCall(b, totalSupply, [i \in 1 .. batch |-> IF n \in Plain THEN to ELSE Operator],
                     [i \in 1 .. batch |-> number(i)])

\* DoMintNFTAction: the class is looked up by its book, the supply is read.
StartMint(w) ==
    /\ Starts(w)
    /\ worker[w].stage = "mintNFT"
    /\ LET task == worker[w]
           known == \E k \in DOMAIN actions :
                        k.stage = "newClass" /\ actions[k].book = task.book
       IN worker' = [worker EXCEPT ![w] =
            IF known
            THEN [task EXCEPT !.pc = "post", !.call = FirstMintCall(
                    task.job.class, task.book, task.job.nft, task.action.owner)]
            ELSE [task EXCEPT !.pc = "failing"]]
    /\ UNCHANGED <<tables, queue, userVars, signerVars>>

\* Defect: a call is taken up whenever it is posted.
PostAnew(w) ==
    /\ At(w, "post")
    /\ Answer(worker[w].call, "pending", None)
    /\ Goto(w, "poll")
    /\ UNCHANGED <<tables, queue, userVars, books>>

\* The signer takes up the call, unless it has it; a failed one it retries.
Post(w) ==
    /\ At(w, "post")
    /\ LET call == worker[w].call IN
       IF call \in DOMAIN requests /\ requests[call].status # "failed"
       THEN UNCHANGED requests
       ELSE Answer(call, "pending", None)
    /\ Goto(w, "poll")
    /\ UNCHANGED <<tables, queue, userVars, books>>

Answered(w, status) == At(w, "poll") /\ requests[worker[w].call].status = status

\* Defect: the batch is the end of it.
PollMinedBatch(w) ==
    /\ Answered(w, "mined")
    /\ worker' = [worker EXCEPT ![w].pc = "record", ![w].action.status = "completed",
                                ![w].action.book = requests[worker[w].call].book]
    /\ UNCHANGED <<tables, queue, userVars, signerVars>>

\* AwaitTx.  After the batch comes the transfer of the token.
PollMined(w) ==
    /\ Answered(w, "mined")
    /\ LET task == worker[w]
           batch == task.call.method = "safeMintWithTokenId" /\ task.job.nft \notin Plain
       IN worker' = [worker EXCEPT ![w] =
            IF batch
            THEN [task EXCEPT !.pc = "post",
                              !.call = TransferCall(task.book, task.action.owner, task.job.nft)]
            ELSE [task EXCEPT !.pc = "record", !.action.status = "completed",
                              !.action.book = requests[task.call].book]]
    /\ UNCHANGED <<tables, queue, userVars, signerVars>>

PollFailed(w) ==
    /\ Answered(w, "failed")
    /\ Goto(w, "failing")
    /\ UNCHANGED <<tables, queue, userVars, signerVars>>

\* An error that says nothing about the call.
CallFails(w) ==
    /\ \/ (At(w, "post") \/ At(w, "poll")) /\ Fault("rpc")
       \/ Starts(w) /\ worker[w].stage = "mintNFT" /\ Faults \cap {"rpc", "db"} # {}
       \/ At(w, "record") /\ Fault("db")
    /\ Goto(w, "failing")
    /\ UNCHANGED <<tables, queue, userVars, signerVars>>

Record(w) ==
    /\ At(w, "record")
    /\ actions' = With(actions, Key(w), worker[w].action)
    /\ NextStage(w, worker[w].action)
    /\ UNCHANGED <<migrations, rows, queue, userVars, signerVars>>

\* do...ActionFailed
RecordFailure(w) ==
    /\ At(w, "failing")
    /\ actions' = With(actions, Key(w), [worker[w].action EXCEPT !.status = "failed"])
    /\ Goto(w, "failed")
    /\ UNCHANGED <<migrations, rows, queue, userVars, signerVars>>

\* Defect: the migration's status is not recalculated.
NoRecalculate(w) == Stop(w)

\* The deferred RecalculateMigrationStatus.
Recalculate(w) ==
    worker' = [worker EXCEPT ![w] = [Idle EXCEPT !.pc = "classes", !.job = worker[w].job]]

\* The row: completed, or migrate...FromAssetMigrationFailed.
SaveRow(w) ==
    /\ At(w, "completed") \/ At(w, "failed")
    /\ SetRows({worker[w].job}, worker[w].pc)
    /\ Recalculate(w)
    /\ UNCHANGED <<migrations, actions, queue, userVars, signerVars>>

\* RecalculateMigrationStatus: two queries and an UPDATE.
ReadClasses(w) ==
    /\ At(w, "classes")
    /\ LET m == worker[w].job.migration IN
       IF migrations[m] = "removed" THEN Stop(w)
       ELSE worker' = [worker EXCEPT ![w].pc = "nfts",
                ![w].noted = {rows[a] : a \in RowsOf(m) \ NFTs(m)} \ {None}]
    /\ UNCHANGED <<tables, queue, userVars, signerVars>>

ReadNFTs(w) ==
    /\ At(w, "nfts")
    /\ worker' = [worker EXCEPT ![w].pc = "determine",
            ![w].noted = (@ \cup {rows[a] : a \in NFTs(worker[w].job.migration)}) \ {None}]
    /\ UNCHANGED <<tables, queue, userVars, signerVars>>

\* Defect: one completed row is enough.
DetermineByCompleted(statuses) ==
    IF "failed" \in statuses THEN "failed"
    ELSE IF "completed" \in statuses THEN "completed" ELSE "in_progress"

DetermineMigrationStatus(statuses) ==
    IF statuses \cap {"init", "in_progress"} # {} THEN "in_progress"
    ELSE IF "failed" \in statuses THEN "failed" ELSE "completed"

WriteStatus(w) ==
    /\ At(w, "determine")
    /\ SetMigration(worker[w].job.migration, DetermineMigrationStatus(worker[w].noted))
    /\ Stop(w)
    /\ UNCHANGED <<rows, actions, queue, userVars, signerVars>>

\* A statement fails, and with it what comes before the next error handler.
DbFails(w) ==
    /\ Fault("db")
    /\ \/ /\ \/ \E pc \in {"find", "insert", "failing", "completed"} : At(w, pc)
             \/ Starts(w) /\ worker[w].stage # "mintNFT"
          /\ Goto(w, "failed")
       \/ At(w, "failed") /\ Recalculate(w)
       \/ (\E pc \in {"classes", "nfts", "determine"} : At(w, pc)) /\ Stop(w)
    /\ UNCHANGED <<tables, queue, userVars, signerVars>>

\* Asynq archives the task of a process that died.
Die(w) ==
    /\ Fault("crash")
    /\ ~At(w, "idle")
    /\ Stop(w)
    /\ UNCHANGED <<tables, queue, userVars, signerVars>>

-----------------------------------------------------------------------------
User(m) == Create(m) \/ RetryCheck(m) \/ Remove(m)

Begin(w, j) == IF j \in Assets THEN MigrateBegin(w, j) ELSE EnqueueBegin(w, j)

TaskStep(w) ==
    \/ EnqueueCommit(w) \/ EnqueueCommitFails(w)
    \/ EnqueueNext(w) \/ EnqueueNextFails(w)
    \/ Find(w) \/ Insert(w) \/ Skip(w) \/ StartClass(w) \/ StartMint(w)
    \/ Post(w) \/ PollMined(w) \/ PollFailed(w) \/ CallFails(w)
    \/ Record(w) \/ RecordFailure(w) \/ SaveRow(w)
    \/ ReadClasses(w) \/ ReadNFTs(w) \/ WriteStatus(w) \/ DbFails(w)

Next ==
    \/ \E m \in Migrations : User(m) \/ RetryWrite(m)
    \/ \E w \in Workers, j \in Jobs : Begin(w, j)
    \/ \E w \in Workers, a \in Assets : MigrateAtCli(w, a)
    \/ \E w \in Workers : TaskStep(w) \/ Die(w)
    \/ SignerStep

Spec == Init /\ [][Next]_vars

\* Handlers and tasks go on, asynq is first in first out, and the signer settles
\* what is posted (Signer, Settles).  Users owe nothing.
Fairness ==
    /\ \A m \in Migrations : WF_vars(RetryWrite(m))
    /\ \A w \in Workers : SF_vars(\E j \in Jobs : Begin(w, j)) /\ WF_vars(TaskStep(w))
    /\ WF_vars(Settle /\ UNCHANGED <<tables, queue, worker, userVars>>)

FairSpec == Spec /\ Fairness

-----------------------------------------------------------------------------
(* Properties.                                                             *)

TypeOK ==
    /\ migrations \in [Migrations -> Status \cup {None, "removed"}]
    /\ rows \in [Assets -> Status \cup {None}]
    /\ \A k \in DOMAIN actions : k.stage \in Stages /\ actions[k] \in Action
    /\ queue \in Seq(Jobs)
    /\ \A w \in Workers :
        /\ worker[w].stage \in Stages \cup {None}
        /\ At(w, "start") => worker[w].action \in Action
    /\ retrying \in [Migrations -> 0 .. MaxRetries]
    /\ \A call \in DOMAIN requests : requests[call].status \in {"pending", "mined", "failed"}
    /\ Len(books) <= MaxBooks

BooksOf(c) == {b \in DOMAIN books : books[b].symbol = c}

\* Does the user have on chain what the row is about?
Delivered(a) ==
    \E b \in BooksOf(a.class) :
        IF a.nft = None THEN books[b].owner = a.migration
        ELSE \E i \in DOMAIN books[b].holder :
            /\ books[b].holder[i] = a.migration
            /\ a.nft \in {i, books[b].uri[i]}

\* The users' snapshots, each taken at a block of its own, agree on who has an
\* NFT, and no two NFTs of a class have one number.  Actions do not: the row of
\* an NFT that two users have is the first one's (GetOrCreateMintNFTAction).
OneOwner ==
    \A a, b \in Assets : a.nft # None /\ a.class = b.class /\ a.nft = b.nft => a = b

\* Whatever tasks overwrite of each other's action rows, and whatever dies or
\* errs, also the signer: what a row calls completed is the user's on chain
\* (SaveRow, Do...Action).
CompletedIsDelivered == \A a \in Assets : rows[a] = "completed" => Delivered(a)

\* A migration is called completed only when its user has got everything, though
\* the classes, the NFTs and the status are three statements of each of its
\* tasks, and tasks of the same row may run again (RecalculateMigrationStatus).
CompletedIsWhole ==
    \A m \in Migrations :
        migrations[m] = "completed" => \A a \in RowsOf(m) : Delivered(a)

\* Tasks that create the book of one class at once, or again after they lost
\* the answer or overwrote the row that says so, get one book (DoNewClassAction).
OneBook == \A c \in Classes : Cardinality(BooksOf(c)) <= 1

\* A token that left the operator went to the user whose NFT has its number,
\* or to one who has an NFT without (DoMintNFTAction).
TokensGoHome ==
    \A b \in DOMAIN books : \A i \in DOMAIN books[b].holder :
        LET m == books[b].holder[i] IN
        m # Operator => \E a \in NFTs(m) :
            a.class = books[b].symbol /\ a.nft \in {i, books[b].uri[i]}

\* The supply is read long before the tokens are minted, and other tasks mint
\* in between: a token has the text of its own number all the same, unless it
\* is of an NFT without (DoMintNFTAction, safeMintWithTokenId).
TextsMatch ==
    \A b \in DOMAIN books : \A i \in DOMAIN books[b].uri :
        books[b].uri[i] \in {TextOf(books[b].symbol, i)} \cup Plain

\* A migration ends, if nothing dies and enqueuing works (one task at a time).
MigrationEnds ==
    \A m \in Migrations :
        migrations[m] = "in_progress" ~> migrations[m] # "in_progress"

=============================================================================
