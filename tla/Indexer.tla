------------------------------ MODULE Indexer ------------------------------
(***************************************************************************)
(* likenft-indexer: the acquirer with the tasks that enqueue and process   *)
(* what it stores.  CheckReceivedEVMEvents, each minute, enqueues the      *)
(* events that are "received" and then marks them "enqueued"; a process    *)
(* task (evmeventprocessor) runs the program of its event's kind, one      *)
(* query of the chain or one statement at a time, on tables that are what  *)
(* the API serves.                                                         *)
(*                                                                         *)
(* Metadata, names and accounts' own rows are left out; metadata of a book *)
(* is the number of updates it has seen.                                   *)
(***************************************************************************)
EXTENDS EventAcquirer, Sequences

CONSTANTS
    Workers,    \* tasks that run at a time; Acquirers are those that acquire
    Operators,  \* the workers that also process what the CLI is told to
    MaxQueue    \* bound: process tasks in the queue

ASSUME IndexerAssumption ==
    Acquirers \cup Operators \subseteq Workers /\ MaxQueue \in Nat

VARIABLES
    queue,      \* asynq: pending ProcessEVMEvent tasks, oldest first
    checker,    \* CheckReceivedEVMEvents tasks
    processor,  \* ProcessEVMEvent tasks
    nftClass,   \* table nft_class: book -> row
    nft,        \* table nft: book -> token -> owner
    memos       \* table transaction_memo

tables == <<nftClass, nft, memos>>
taskVars == <<queue, checker, processor>>
vars == <<chainVars, acquirerVars, taskVars, tables>>

ClassRow == [owner: Accounts, supply: Nat, version: Nat]

\* A row is not the lack of one.
ASSUME RowAssumption == None \notin ClassRow /\ None \notin Log

Checker == [pc: {"idle", "enqueue"}, todo: SUBSET Log, done: SUBSET Log]

NoChecker == [pc |-> "idle", todo |-> {}, done |-> {}]

\* The statements of a processor, in order.
Program == [kind \in Kinds |->
    CASE kind = "NewBookNFT" -> <<"claim", "read", "class", "finish">>
      [] kind = "OwnershipTransferred" -> <<"claim", "owner", "finish">>
      [] kind = "ContractURIUpdated" -> <<"claim", "read", "metadata", "finish">>
      [] kind = "Transfer" -> <<"claim", "read", "token", "supply", "holder", "finish">>
      [] kind = "TransferWithMemo" ->
            <<"claim", "read", "token", "supply", "memo", "holder", "finish">>]

\* pc counts the statements of the program; past its end the task fails.
Processor == [pc: 0 .. 8, log: Log \cup {None}, read: ClassRow \cup {None}]

NoProcessor == [pc |-> 0, log |-> None, read |-> None]

Init ==
    /\ ChainInit
    /\ AcquirerInit
    /\ queue = <<>>
    /\ checker = [w \in Workers |-> NoChecker]
    /\ processor = [w \in Workers |-> NoProcessor]
    /\ nftClass = [b \in Books |-> None]
    /\ nft = [b \in Books |-> <<>>]
    /\ memos = {}

\* A worker runs one task at a time.
Free(w) ==
    /\ w \in Acquirers => acquirer[w].pc = "idle"
    /\ checker[w].pc = "idle"
    /\ processor[w].log = None

-----------------------------------------------------------------------------
(* CheckLikeProtocol and CheckBookNFTs: each minute there is a task for    *)
(* LikeProtocol and for each kind of event of each book in the table.      *)
(* Operators do the same by cli acquire-....                               *)

Acquire(w, s) ==
    /\ Free(w)
    /\ s.book # None => nftClass[s.book] # None
    /\ AcquireBegin(w, s)
    /\ UNCHANGED <<chainVars, taskVars, tables>>

Acquiring(w) == AcquireStep(w) /\ UNCHANGED <<chainVars, taskVars, tables>>

-----------------------------------------------------------------------------
(* CheckReceivedEVMEvents.                                                 *)

CheckBegin(w) ==
    /\ Free(w)
    /\ LET received == {l \in Rows : evmEvents[l] = "received"} IN
       /\ received # {}
       /\ Len(queue) + Cardinality(received) <= MaxQueue
       /\ checker' = [checker EXCEPT ![w] =
                        [pc |-> "enqueue", todo |-> received, done |-> {}]]
    /\ UNCHANGED <<chainVars, acquirerVars, queue, processor, tables>>

\* Defect: an event whose task was not enqueued is marked all the same.
EnqueueOrNot(w) ==
    /\ \E l \in checker[w].todo :
        /\ queue' \in {queue, Append(queue, l)}
        /\ checker' = [checker EXCEPT ![w].todo = @ \ {l}, ![w].done = @ \cup {l}]
    /\ UNCHANGED <<chainVars, acquirerVars, processor, tables>>

\* Rows come in no particular order.  An event that is not enqueued is skipped.
Enqueue(w) ==
    /\ \E l \in checker[w].todo :
        \/ /\ Len(queue) < MaxQueue
           /\ queue' = Append(queue, l)
           /\ checker' = [checker EXCEPT ![w].todo = @ \ {l}, ![w].done = @ \cup {l}]
        \/ /\ "redis" \in Faults
           /\ checker' = [checker EXCEPT ![w].todo = @ \ {l}]
           /\ UNCHANGED queue
    /\ UNCHANGED <<chainVars, acquirerVars, processor, tables>>

\* BatchUpdateEvmEventStatusByIds, whatever the status has become.
Mark(w) ==
    /\ checker[w].pc = "enqueue" /\ checker[w].todo = {}
    /\ evmEvents' = [l \in Rows |-> IF l \in checker[w].done THEN "enqueued" ELSE evmEvents[l]]
    /\ checker' = [checker EXCEPT ![w] = NoChecker]
    /\ UNCHANGED <<chainVars, height, acquirer, queue, processor, tables>>

CheckFails(w) ==
    /\ checker[w].pc = "enqueue"
    /\ Faults \cap {"db", "crash"} # {}
    /\ checker' = [checker EXCEPT ![w] = NoChecker]
    /\ UNCHANGED <<chainVars, acquirerVars, queue, processor, tables>>

-----------------------------------------------------------------------------
(* Process.                                                                *)

\* The status is looked at in the copy that was read.
Starts(w, l) ==
    IF evmEvents[l] \in {"received", "enqueued", "failed"}
    THEN processor' = [processor EXCEPT ![w] = [pc |-> 1, log |-> l, read |-> None]]
    ELSE UNCHANGED processor

ProcessBegin(w) ==
    /\ Free(w)
    /\ queue # <<>>
    /\ Starts(w, Head(queue))
    /\ queue' = Tail(queue)
    /\ UNCHANGED <<chainVars, acquirerVars, checker, tables>>

\* cli process-evmevent, process-all-evmevents
ProcessAtCli(w) ==
    /\ w \in Operators
    /\ Free(w)
    /\ \E l \in Rows : Starts(w, l)
    /\ UNCHANGED <<chainVars, acquirerVars, queue, checker, tables>>

Task(w) == processor[w].log

At(w, step) ==
    /\ Task(w) # None
    /\ processor[w].pc \in DOMAIN Program[Task(w).kind]
    /\ Program[Task(w).kind][processor[w].pc] = step

Failing(w) == Task(w) # None /\ processor[w].pc = 8

Goto(w, pc) == processor' = [processor EXCEPT ![w].pc = pc]

Proceed(w) == Goto(w, processor[w].pc + 1)

ProcessorDone(w) == processor' = [processor EXCEPT ![w] = NoProcessor]

SetStatus(l, status) ==
    /\ evmEvents' = [evmEvents EXCEPT ![l] = status]
    /\ UNCHANGED <<chainVars, height, acquirer, queue, checker>>

\* What the statements of the processors leave alone.
OnlyTables == UNCHANGED <<chainVars, acquirerVars, queue, checker>>

HasClass(w) == nftClass[Task(w).book] # None

Claim(w) ==
    /\ At(w, "claim")
    /\ SetStatus(Task(w), "processing")
    /\ Proceed(w)
    /\ UNCHANGED tables

\* Defect: the supply is what the table has.
ReadTable(w) ==
    /\ At(w, "read")
    /\ LET b == Task(w).book IN
       processor' = [processor EXCEPT ![w].pc = @ + 1, ![w].read =
            [owner |-> Owner(b), supply |-> Cardinality(DOMAIN nft[b]), version |-> Version(b)]]
    /\ OnlyTables /\ UNCHANGED tables

\* GetBookNFTOwner, GetTotalSupply, GetContractURI: the chain as it is now.
ReadChain(w) ==
    /\ At(w, "read")
    /\ LET b == Task(w).book IN
       processor' = [processor EXCEPT ![w].pc = @ + 1, ![w].read =
            [owner |-> Owner(b), supply |-> Supply(b), version |-> Version(b)]]
    /\ OnlyTables /\ UNCHANGED tables

\* InsertNFTClass: address is UNIQUE.  Metadata is the event's.
InsertClass(w) ==
    /\ At(w, "class")
    /\ ~HasClass(w)
    /\ nftClass' = [nftClass EXCEPT ![Task(w).book] = [processor[w].read EXCEPT !.version = 0]]
    /\ Proceed(w)
    /\ OnlyTables /\ UNCHANGED <<nft, memos>>

\* UpdateOwner, UpdateMetadata, UpdateTotalSupply
UpdateClass(w) ==
    /\ At(w, "owner") \/ At(w, "metadata") \/ At(w, "supply")
    /\ HasClass(w)
    /\ LET read == processor[w].read
           row == nftClass[Task(w).book]
           updated == CASE At(w, "owner") -> [row EXCEPT !.owner = Task(w).to]
                        [] At(w, "metadata") -> [row EXCEPT !.version = read.version]
                        [] At(w, "supply") -> [row EXCEPT !.supply = read.supply]
       IN nftClass' = [nftClass EXCEPT ![Task(w).book] = updated]
    /\ Proceed(w)
    /\ OnlyTables /\ UNCHANGED <<nft, memos>>

Own(w) ==
    LET l == Task(w) IN
    nft' = [nft EXCEPT ![l.book] =
                [t \in DOMAIN @ \cup {l.token} |-> IF t = l.token THEN l.to ELSE @[t]]]

\* GetOrCreate of the NFT, after the query for its class.
CreateToken(w) ==
    /\ At(w, "token")
    /\ HasClass(w)
    /\ IF Task(w).token \in DOMAIN nft[Task(w).book] THEN UNCHANGED nft ELSE Own(w)
    /\ Proceed(w)
    /\ OnlyTables /\ UNCHANGED <<nftClass, memos>>

\* InsertTransactionMemo, unless it is there.
InsertMemo(w) ==
    /\ At(w, "memo")
    /\ memos' = memos \cup {[block |-> Task(w).block, book |-> Task(w).book,
                             token |-> Task(w).token]}
    /\ Proceed(w)
    /\ OnlyTables /\ UNCHANGED <<nftClass, nft>>

\* UpdateOwner of the NFT.
UpdateHolder(w) ==
    /\ At(w, "holder")
    /\ Own(w)
    /\ Proceed(w)
    /\ OnlyTables /\ UNCHANGED <<nftClass, memos>>

Finish(w) ==
    /\ At(w, "finish")
    /\ SetStatus(Task(w), "processed")
    /\ ProcessorDone(w)
    /\ UNCHANGED tables

\* A query or a statement fails, the class is not there yet or there already.
StepFails(w) ==
    /\ \/ At(w, "read") /\ "rpc" \in Faults
       \/ \E step \in {"class", "owner", "metadata", "token", "supply", "memo", "holder"} :
            At(w, step) /\ "db" \in Faults
       \/ \E step \in {"owner", "metadata", "token"} : At(w, step) /\ ~HasClass(w)
       \/ At(w, "class") /\ HasClass(w)
    /\ Goto(w, 8)
    /\ OnlyTables /\ UNCHANGED tables

\* Defect: a task that fails ends like any other.
FailProcessed(w) ==
    /\ Failing(w)
    /\ SetStatus(Task(w), "processed")
    /\ ProcessorDone(w)
    /\ UNCHANGED tables

\* The deferred update.
Fail(w) ==
    /\ Failing(w)
    /\ SetStatus(Task(w), "failed")
    /\ ProcessorDone(w)
    /\ UNCHANGED tables

\* The task dies.  It also does when UpdateEvmEventStatus fails, whose nil
\* event the deferred update then dereferences.
Die(w) ==
    /\ Task(w) # None
    /\ \/ "crash" \in Faults
       \/ "db" \in Faults /\ (At(w, "claim") \/ At(w, "finish") \/ Failing(w))
    /\ ProcessorDone(w)
    /\ OnlyTables /\ UNCHANGED tables

-----------------------------------------------------------------------------
Checking(w) == Enqueue(w) \/ Mark(w) \/ CheckFails(w)

Processing(w) ==
    \/ Claim(w) \/ ReadChain(w) \/ InsertClass(w) \/ UpdateClass(w)
    \/ CreateToken(w) \/ InsertMemo(w) \/ UpdateHolder(w)
    \/ Finish(w) \/ StepFails(w) \/ Fail(w) \/ Die(w)

Next ==
    \/ Transaction /\ UNCHANGED <<acquirerVars, taskVars, tables>>
    \/ \E w \in Acquirers : Acquiring(w) \/ \E s \in Streams : Acquire(w, s)
    \/ \E w \in Workers :
        \/ CheckBegin(w) \/ ProcessBegin(w) \/ ProcessAtCli(w)
        \/ Checking(w) \/ Processing(w)

Spec == Init /\ [][Next]_vars

\* A worker goes on with its task, and asynq, first in first out, comes to
\* every task of the scheduler.  The chain owes nothing.
Fairness ==
    /\ \A w \in Acquirers :
        WF_vars(Acquiring(w)) /\ \A s \in Streams : SF_vars(Acquire(w, s))
    /\ \A w \in Workers :
        /\ WF_vars(Checking(w) \/ Processing(w))
        /\ SF_vars(CheckBegin(w)) /\ SF_vars(ProcessBegin(w))

FairSpec == Spec /\ Fairness

-----------------------------------------------------------------------------
(* Properties.                                                             *)

TypeOK ==
    /\ AcquirerTypeOK
    /\ queue \in Seq(Rows) /\ Len(queue) <= MaxQueue
    /\ checker \in [Workers -> Checker]
    /\ processor \in [Workers -> Processor]
    /\ nftClass \in [Books -> ClassRow \cup {None}]
    /\ \A b \in Books :
        /\ DOMAIN nft[b] \subseteq Tokens
        /\ nft[b] \in [DOMAIN nft[b] -> Accounts \cup {None}]
    /\ memos \subseteq [block: 1 .. MaxBlocks, book: Books, token: Tokens]

\* What an event that is processed stands for is in the tables, although two
\* tasks may process it at once, a task may fail over another's success, and a
\* bulk update may mark it enqueued again (Process, BatchUpdateEvmEventStatusByIds).
ProcessedIsApplied ==
    \A l \in Rows : evmEvents[l] = "processed" =>
        /\ nftClass[l.book] # None
        /\ l.token # None => l.token \in DOMAIN nft[l.book]
        /\ l.kind = "TransferWithMemo" =>
             [block |-> l.block, book |-> l.book, token |-> l.token] \in memos

\* Have all events of a kind among kinds that concern book b been processed?
Caught(b, kinds) ==
    /\ \A l \in logs : l.book = b /\ l.kind \in kinds => \E r \in Rows : r.block = l.block
    /\ \A r \in Rows : r.book = b /\ r.kind \in kinds => evmEvents[r] = "processed"

\* With one task at a time the tables catch up with the chain in whatever
\* order events are stored and processed, since the processors ask for the
\* supply and the metadata of now, not of the event.
ClassIsCurrent ==
    \A b \in Books : nftClass[b] # None =>
        /\ Caught(b, {"Transfer", "TransferWithMemo"}) => nftClass[b].supply = Supply(b)
        /\ Caught(b, {"ContractURIUpdated"}) => nftClass[b].version = Version(b)

Queued == {queue[k] : k \in DOMAIN queue}

\* Why events end: with one task at a time and no statement failing, an event
\* that the scheduler has handed over is in the queue or with a task, and one
\* that a task has claimed is with it, for nobody looks for either again
\* (CheckReceivedEVMEvents takes up what is received only).
NoneStranded ==
    \A l \in Rows :
        /\ evmEvents[l] = "enqueued" => l \in Queued \/ \E w \in Workers : Task(w) = l
        /\ evmEvents[l] = "processing" => \E w \in Workers : Task(w) = l

\* When the chain comes to rest, some event of every transaction has a row and
\* all that have one are processed (the scheduler's tasks, Process).
EventsEnd ==
    <>[](/\ \A i \in 1 .. head : \E r \in Rows : r.block = i
         /\ \A r \in Rows : evmEvents[r] = "processed")

=============================================================================
