--------------------------- MODULE EventAcquirer ---------------------------
(***************************************************************************)
(* likenft-indexer, evmeventacquirer: a task asks the chain for the logs   *)
(* of one contract and one kind above a height, inserts those whose        *)
(* transaction has no row yet, and moves the height to the highest of      *)
(* them.  The insert is a READ COMMITTED transaction: its SELECT, its      *)
(* second SELECT and its commit are steps of their own, as other tasks may *)
(* commit in between.                                                      *)
(***************************************************************************)
EXTENDS BookEvents

CONSTANTS
    Acquirers,  \* acquire tasks that run at a time
    Faults      \* which of FaultKinds may happen

FaultKinds ==
    {"rpc",    \* a query of the chain fails
     "db",     \* a statement fails
     "redis",  \* a task is not enqueued
     "crash"}  \* a task dies: its process, or a panic asynq recovers

ASSUME AcquirerAssumption == Faults \subseteq FaultKinds

VARIABLES
    evmEvents,  \* table evm_event: the logs that have a row -> its status
    height,     \* table evm_event_processed_block_height
    acquirer    \* AcquireEVMEvents tasks

acquirerVars == <<evmEvents, height, acquirer>>

Status == {"received", "enqueued", "processing", "processed", "failed"}

\* NewBookNFT is asked of LikeProtocol, the others of each book.
Streams ==
    [kind: {"NewBookNFT"}, book: {None}] \cup [kind: Kinds \ {"NewBookNFT"}, book: Books]

StreamOf(l) == [kind |-> l.kind, book |-> IF l.kind = "NewBookNFT" THEN None ELSE l.book]

Acquirer == [pc: {"idle", "fetch", "select", "count", "commit", "height"},
             stream: Streams \cup {None}, top: Nat, found: SUBSET Log, todo: SUBSET Log]

NoAcquirer == [pc |-> "idle", stream |-> None, top |-> 0, found |-> {}, todo |-> {}]

AcquirerInit ==
    /\ evmEvents = <<>>
    /\ height = [s \in Streams |-> 0]
    /\ acquirer = [w \in Acquirers |-> NoAcquirer]

Rows == DOMAIN evmEvents

\* Rows of the transactions of ls.
RowsWith(ls) == {r \in Rows : \E l \in ls : l.block = r.block}

AcquirerDone(w) == acquirer' = [acquirer EXCEPT ![w] = NoAcquirer]

-----------------------------------------------------------------------------
\* GetEVMEventProcessedBlockHeight; without a row the height is 0.
AcquireBegin(w, s) ==
    /\ acquirer[w].pc = "idle"
    /\ acquirer' = [acquirer EXCEPT ![w].pc = "fetch", ![w].stream = s, ![w].top = height[s]]
    /\ UNCHANGED <<evmEvents, height>>

\* Defect: the query returns at most one log.
FetchPage(w) ==
    /\ acquirer[w].pc = "fetch"
    /\ LET a == acquirer[w]
           all == {l \in logs : StreamOf(l) = a.stream /\ l.block > a.top}
       IN \E found \in {ls \in SUBSET all : Cardinality(ls) <= 1} :
            acquirer' = [acquirer EXCEPT ![w] = [a EXCEPT
                !.pc = "select", !.found = found,
                !.top = IF found = {} THEN @ ELSE Newest(found).block]]
    /\ UNCHANGED <<evmEvents, height>>

\* logsRetriever, and highestBlockHeight of what it returns.
Fetch(w) ==
    /\ acquirer[w].pc = "fetch"
    /\ LET a == acquirer[w]
           found == {l \in logs : StreamOf(l) = a.stream /\ l.block > a.top}
       IN acquirer' = [acquirer EXCEPT ![w] = [a EXCEPT
                !.pc = "select", !.found = found,
                !.top = IF found = {} THEN @ ELSE Newest(found).block]]
    /\ UNCHANGED <<evmEvents, height>>

\* InsertEvmEventsIfNeeded: the SELECT, which decides what to insert.
Select(w) ==
    /\ acquirer[w].pc = "select"
    /\ LET found == acquirer[w].found IN
       acquirer' = [acquirer EXCEPT ![w].pc = "count",
            ![w].todo = {l \in found : \A r \in RowsWith(found) : r.block # l.block}]
    /\ UNCHANGED <<evmEvents, height>>

\* The second SELECT: "err len not match" unless there are as many rows with
\* these transaction hashes as logs.
Count(w) ==
    /\ acquirer[w].pc = "count"
    /\ LET a == acquirer[w] IN
       IF Cardinality(RowsWith(a.found) \cup a.todo) = Cardinality(a.found)
       THEN acquirer' = [acquirer EXCEPT ![w].pc = "commit"]
       ELSE AcquirerDone(w)
    /\ UNCHANGED <<evmEvents, height>>

\* The index of evm_event is UNIQUE: who commits a log second fails.
Commit(w) ==
    /\ acquirer[w].pc = "commit"
    /\ LET todo == acquirer[w].todo IN
       IF todo \cap Rows = {}
       THEN /\ evmEvents' = [l \in Rows \cup todo |->
                                IF l \in todo THEN "received" ELSE evmEvents[l]]
            /\ acquirer' = [acquirer EXCEPT ![w].pc = "height"]
       ELSE AcquirerDone(w) /\ UNCHANGED evmEvents
    /\ UNCHANGED height

\* Defect: the new height is the chain's.
SetHeightToHead(w) ==
    /\ acquirer[w].pc = "height"
    /\ height' = [height EXCEPT ![acquirer[w].stream] = head]
    /\ AcquirerDone(w)
    /\ UNCHANGED evmEvents

\* Defect: the new height is the next to ask for.
SetHeightPast(w) ==
    /\ acquirer[w].pc = "height"
    /\ height' = [height EXCEPT ![acquirer[w].stream] = acquirer[w].top + 1]
    /\ AcquirerDone(w)
    /\ UNCHANGED evmEvents

\* UpdateEVMEventProcessedBlockHeight, which may move the height back.
SetHeight(w) ==
    /\ acquirer[w].pc = "height"
    /\ height' = [height EXCEPT ![acquirer[w].stream] = acquirer[w].top]
    /\ AcquirerDone(w)
    /\ UNCHANGED evmEvents

\* A query or a statement fails, or the task dies; nothing retries it.
AcquireFails(w) ==
    /\ \/ acquirer[w].pc = "fetch" /\ "rpc" \in Faults
       \/ acquirer[w].pc # "idle" /\ Faults \cap {"db", "crash"} # {}
    /\ AcquirerDone(w)
    /\ UNCHANGED <<evmEvents, height>>

AcquireStep(w) ==
    Fetch(w) \/ Select(w) \/ Count(w) \/ Commit(w) \/ SetHeight(w) \/ AcquireFails(w)

-----------------------------------------------------------------------------
(* Properties.                                                             *)

AcquirerTypeOK ==
    /\ ChainTypeOK
    /\ Rows \subseteq logs
    /\ evmEvents \in [Rows -> Status]
    /\ height \in [Streams -> 0 .. MaxBlocks]
    /\ acquirer \in [Acquirers -> Acquirer]

\* However tasks interleave or fail between the insert and the height, and
\* though a slow one may move a height back, no transaction is skipped: below
\* the height of its stream, every log is of a transaction that has a row.
NothingSkipped ==
    \A l \in logs :
        l.block <= height[StreamOf(l)] => \E r \in Rows : r.block = l.block

\* Of a transaction, the logs of a stream have rows together or not at all,
\* which is what lets InsertEvmEventsIfNeeded look for the hash only.
WholeStreams ==
    \A l, m \in logs :
        (l.block = m.block /\ StreamOf(l) = StreamOf(m)) => (l \in Rows <=> m \in Rows)

=============================================================================
