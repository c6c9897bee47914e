--------------------------- MODULE IndexerProofs ---------------------------
(***************************************************************************)
(* Theorems about Indexer for any books, tokens, accounts, tasks, bounds   *)
(* and faults: its types, that no transaction is skipped, that streams are *)
(* stored whole, and that what is processed is in the tables; and, for one *)
(* task at a time, that the tables catch up and no event is forgotten.     *)
(***************************************************************************)
EXTENDS Indexer, FiniteSetTheorems, FunctionTheorems, SequenceTheorems,
        WellFoundedInduction, TLAPS

-----------------------------------------------------------------------------
(* The chain.                                                              *)

\* The newest log of a set is one of its greatest block.
LEMMA NewestIs ==
  ASSUME NEW ls, ls \subseteq Log, ls # {}
  PROVE  Newest(ls) \in ls /\ \A m \in ls : m.block <= Newest(ls).block
<1> DEFINE depth(l) == MaxBlocks - l.block
           T == {depth(l) : l \in ls}
<1>1. \A l \in ls : l.block \in 1 .. MaxBlocks
  BY DEF Log
<1>2. T \subseteq Nat /\ T # {}
  BY <1>1, BookEventsAssumption
<1>3. PICK x \in T : \A y \in T : ~ (<<y, x>> \in OpToRel(<, Nat))
  <2> HIDE DEF T
  <2> QED BY <1>2, NatLessThanWellFounded, WFMin
<1>4. \A y \in T : ~ (y < x)
  <2> HIDE DEF T
  <2> QED BY <1>2, <1>3 DEF OpToRel
<1>5. PICK l \in ls : x = depth(l)
  OBVIOUS
<1>6. ASSUME NEW m \in ls PROVE m.block <= l.block
  <2>1. ~ (depth(m) < depth(l))
    BY <1>4, <1>5
  <2>2. m.block \in Nat /\ l.block \in Nat
    BY <1>1
  <2> QED BY <2>1, <2>2, BookEventsAssumption
<1>7. \E n \in ls : \A m \in ls : m.block <= n.block
  BY <1>6
<1> QED BY <1>7 DEF Newest

OfTokens == {"Transfer", "TransferWithMemo"}

\* Only transfers name a token; the zero address owns no book.
WellFormed(l) ==
    /\ l.kind \in OfTokens <=> l.token # None
    /\ l.kind = "OwnershipTransferred" => l.to \in Accounts
    /\ l.kind = "ContractURIUpdated" => l.to = None

\* Whoever emits a log is a book that has an owner.
Owned(l, ls) == \E m \in ls : m.kind = "OwnershipTransferred" /\ m.book = l.book

ChainSound == \A l \in logs : WellFormed(l) /\ Owned(l, logs)

\* What a transaction adds to the chain.
Adds(ls) ==
    /\ head' = head + 1 /\ head' \in 0 .. MaxBlocks
    /\ logs' = logs \cup ls
    /\ ls \subseteq Log
    /\ \A l \in ls : l.block = head + 1 /\ WellFormed(l) /\ Owned(l, logs \cup ls)

LEMMA EmittedIs ==
  ASSUME NEW kinds, kinds \subseteq Kinds, NEW bs, bs \subseteq Books,
         NEW ts, ts \subseteq Tokens \cup {None}, NEW a \in Accounts \cup {None},
         head \in 0 .. MaxBlocks,
         Mine(Emitted(kinds, bs, ts, a)),
         \A k \in kinds, t \in ts :
            /\ k \in OfTokens <=> t # None
            /\ k = "OwnershipTransferred" => a \in Accounts
            /\ k = "ContractURIUpdated" => a = None,
         \/ "OwnershipTransferred" \in kinds /\ ts # {}
         \/ \A b \in bs : \E m \in logs : m.kind = "OwnershipTransferred" /\ m.book = b
  PROVE  Adds(Emitted(kinds, bs, ts, a))
<1> DEFINE ls == Emitted(kinds, bs, ts, a)
<1>1. head + 1 \in 1 .. MaxBlocks
  BY BookEventsAssumption DEF Mine
<1>2. ASSUME NEW l \in ls
      PROVE  /\ l.block = head + 1 /\ l.kind \in kinds /\ l.book \in bs
             /\ l.token \in ts /\ l.to = a /\ l \in Log
  BY <1>1 DEF Emitted, Log
<1>3. ASSUME NEW l \in ls PROVE WellFormed(l)
  BY <1>2 DEF WellFormed
<1>4. ASSUME NEW l \in ls PROVE Owned(l, logs \cup ls)
  <2>1. CASE "OwnershipTransferred" \in kinds /\ ts # {}
    <3>1. PICK t \in ts : TRUE
      BY <2>1
    <3> DEFINE m == [block |-> head + 1, kind |-> "OwnershipTransferred",
                     book |-> l.book, token |-> t, to |-> a]
    <3>2. m \in ls
      BY <1>2, <2>1, <3>1 DEF Emitted
    <3> QED BY <3>2 DEF Owned
  <2>2. CASE \A b \in bs : \E m \in logs : m.kind = "OwnershipTransferred" /\ m.book = b
    BY <1>2, <2>2 DEF Owned
  <2> QED BY <2>1, <2>2
<1>5. head' = head + 1 /\ logs' = logs \cup ls
  BY DEF Mine
<1>6. head' \in 0 .. MaxBlocks
  BY <1>1, <1>5
<1> QED BY <1>2, <1>3, <1>4, <1>5, <1>6 DEF Adds

LEMMA TransactionAdds ==
  ASSUME ChainTypeOK, ChainSound, Transaction
  PROVE  \E ls : Adds(ls)
<1>1. head \in 0 .. MaxBlocks
  BY DEF ChainTypeOK
<1>2. ASSUME NEW b, Created(b)
      PROVE  \E m \in logs : m.kind = "OwnershipTransferred" /\ m.book = b
  BY <1>2 DEF Created, Of, ChainSound, Owned
<1>3. ASSUME NEW b, NEW t, Holder(b, t) # None
      PROVE  \E m \in logs : m.kind = "OwnershipTransferred" /\ m.book = b
  BY <1>3 DEF Holder, Issued, Of, ChainSound, Owned
<1>4. ASSUME NEW bs \in (SUBSET Books) \ {{}}, NEW a \in Accounts, NewBooks(bs, a)
      PROVE  \E ls : Adds(ls)
  <2> DEFINE kinds == {"NewBookNFT", "OwnershipTransferred"}
  <2>1. kinds \subseteq Kinds /\ Mine(Emitted(kinds, bs, {None}, a))
    BY <1>4 DEF NewBooks, Kinds
  <2>2. \A k \in kinds, t \in {None} :
            /\ k \in OfTokens <=> t # None
            /\ k = "OwnershipTransferred" => a \in Accounts
            /\ k = "ContractURIUpdated" => a = None
    BY DEF OfTokens
  <2>3. bs \subseteq Books /\ "OwnershipTransferred" \in kinds
    OBVIOUS
  <2> HIDE DEF kinds
  <2>4. Adds(Emitted(kinds, bs, {None}, a))
    BY <1>1, <2>1, <2>2, <2>3, EmittedIs
  <2> QED BY <2>4
<1>5. ASSUME NEW b \in Books, NEW ts \in (SUBSET Tokens) \ {{}}, NEW a \in Accounts \cup {None},
             NEW kinds \in SUBSET OfTokens, Mine(Emitted(kinds, {b}, ts, a)),
             \E m \in logs : m.kind = "OwnershipTransferred" /\ m.book = b
      PROVE  \E ls : Adds(ls)
  <2>1. kinds \subseteq Kinds /\ {b} \subseteq Books /\ ts \subseteq Tokens \cup {None}
    BY DEF OfTokens, Kinds
  <2>2. \A k \in kinds, t \in ts :
            /\ k \in OfTokens <=> t # None
            /\ k = "OwnershipTransferred" => a \in Accounts
            /\ k = "ContractURIUpdated" => a = None
    BY BookEventsAssumption DEF OfTokens
  <2>3. \A c \in {b} : \E m \in logs : m.kind = "OwnershipTransferred" /\ m.book = c
    BY <1>5
  <2>4. Adds(Emitted(kinds, {b}, ts, a))
    BY <1>1, <1>5, <2>1, <2>2, <2>3, EmittedIs
  <2> QED BY <2>4
<1>6. ASSUME NEW b \in Books, NEW ts \in (SUBSET Tokens) \ {{}}, NEW a \in Accounts,
             MintTx(b, ts, a) \/ MemoTransferTx(b, ts, a)
      PROVE  \E ls : Adds(ls)
  <2>1. OfTokens \in SUBSET OfTokens /\ Mine(Emitted(OfTokens, {b}, ts, a))
    BY <1>6 DEF MintTx, MemoTransferTx, OfTokens
  <2>2. Created(b) \/ \E t : Holder(b, t) # None
    BY <1>6, BookEventsAssumption DEF MintTx, MemoTransferTx
  <2> QED BY <1>2, <1>3, <1>5, <2>1, <2>2
<1>7. ASSUME NEW b \in Books, NEW t \in Tokens, NEW a \in Accounts \cup {None},
             TransferTx(b, t, a)
      PROVE  \E ls : Adds(ls)
  <2>1. {t} \in (SUBSET Tokens) \ {{}} /\ {"Transfer"} \in SUBSET OfTokens
    BY DEF OfTokens
  <2>2. Mine(Emitted({"Transfer"}, {b}, {t}, a)) /\ Holder(b, t) # None
    BY <1>7 DEF TransferTx
  <2> QED BY <1>3, <1>5, <2>1, <2>2
<1>8. ASSUME NEW b \in Books, NEW kind \in Kinds \ OfTokens, NEW a \in Accounts \cup {None},
             kind = "OwnershipTransferred" => a \in Accounts,
             kind = "ContractURIUpdated" => a = None,
             Created(b), Mine(Emitted({kind}, {b}, {None}, a))
      PROVE  \E ls : Adds(ls)
  <2>1. {kind} \subseteq Kinds /\ {b} \subseteq Books /\ {None} \subseteq Tokens \cup {None}
    OBVIOUS
  <2>2. \A k \in {kind}, t \in {None} :
            /\ k \in OfTokens <=> t # None
            /\ k = "OwnershipTransferred" => a \in Accounts
            /\ k = "ContractURIUpdated" => a = None
    BY <1>8
  <2>3. \A c \in {b} : \E m \in logs : m.kind = "OwnershipTransferred" /\ m.book = c
    BY <1>2, <1>8
  <2>4. Adds(Emitted({kind}, {b}, {None}, a))
    BY <1>1, <1>8, <2>1, <2>2, <2>3, EmittedIs
  <2> QED BY <2>4
<1>9. ASSUME NEW b \in Books, NEW a \in Accounts, OwnershipTx(b, a)
      PROVE  \E ls : Adds(ls)
  <2>1. "OwnershipTransferred" \in Kinds \ OfTokens
    BY DEF Kinds, OfTokens
  <2> QED BY <1>8, <1>9, <2>1 DEF OwnershipTx
<1>10. ASSUME NEW b \in Books, UpdateTx(b)
       PROVE  \E ls : Adds(ls)
  <2>1. "ContractURIUpdated" \in Kinds \ OfTokens /\ None \in Accounts \cup {None}
    BY DEF Kinds, OfTokens
  <2> QED BY <1>8, <1>10, <2>1 DEF UpdateTx
<1> QED BY <1>4, <1>6, <1>7, <1>9, <1>10 DEF Transaction

-----------------------------------------------------------------------------
(* The acquirer.                                                           *)

HasRow(l) == \E r \in Rows : r.block = l.block

\* Every log of stream s up to height h is of a transaction that has a row.
Covered(s, h) == \A l \in logs : StreamOf(l) = s /\ l.block <= h => HasRow(l)

\* ls are logs of stream s, and the whole of each of their transactions.
Closed(s, ls) ==
    /\ ls \subseteq logs
    /\ \A l \in ls : StreamOf(l) = s
    /\ \A l \in ls, m \in logs : l.block = m.block /\ StreamOf(m) = s => m \in ls

\* A task about to write its height has covered it.  Until the commit it is
\* covered by rows and by what the task has found; what it is to insert lacks
\* nothing that has no row.
TaskInv(w) ==
    LET a == acquirer[w] IN
    /\ a.top <= head
    /\ a.pc # "idle" => a.stream \in Streams
    /\ a.pc \in {"fetch", "height"} => Covered(a.stream, a.top)
    /\ a.pc \in {"select", "count", "commit"} =>
        /\ Closed(a.stream, a.found)
        /\ \A l \in logs : StreamOf(l) = a.stream /\ l.block <= a.top =>
                                l \in a.found \/ HasRow(l)
    /\ a.pc \in {"count", "commit"} =>
        /\ a.todo \subseteq a.found /\ Closed(a.stream, a.todo)
        /\ \A l \in a.found : l \in a.todo \/ HasRow(l)

HeightsBehind == \A s \in Streams : height[s] <= head

AcquirerInv ==
    /\ AcquirerTypeOK
    /\ HeightsBehind
    /\ NothingSkipped
    /\ WholeStreams
    /\ \A w \in Acquirers : TaskInv(w)

\* The stream a log is acquired by.
LEMMA StreamType ==
  ASSUME NEW l \in Log
  PROVE  StreamOf(l) \in Streams
  BY DEF StreamOf, Streams, Log

LEMMA AcquirerTypes ==
  ASSUME AcquirerTypeOK
  PROVE  /\ head \in Nat /\ logs \subseteq Log /\ Rows \subseteq logs
         /\ \A l \in logs : l.block \in Nat /\ l.block <= head
         /\ \A s \in Streams : height[s] \in Nat
         /\ \A w \in Acquirers : acquirer[w] \in Acquirer /\ acquirer[w].top \in Nat
<1>1. head \in 0 .. MaxBlocks /\ logs \subseteq Log /\ \A l \in logs : l.block <= head
  BY DEF AcquirerTypeOK, ChainTypeOK
<1>2. \A l \in logs : l.block \in Nat
  BY <1>1, BookEventsAssumption DEF Log
<1>3. height \in [Streams -> 0 .. MaxBlocks] /\ acquirer \in [Acquirers -> Acquirer]
      /\ Rows \subseteq logs
  BY DEF AcquirerTypeOK
<1>4. \A w \in Acquirers : acquirer[w] \in Acquirer /\ acquirer[w].top \in Nat
  BY <1>3 DEF Acquirer
<1> QED BY <1>1, <1>2, <1>3, <1>4, BookEventsAssumption

\* Rows are never deleted, so what has one keeps it.
LEMMA TaskInvMonotone ==
  ASSUME AcquirerInv, UNCHANGED chainVars, Rows \subseteq Rows',
         NEW w \in Acquirers, acquirer'[w] = acquirer[w]
  PROVE  TaskInv(w)'
<1>1. head' = head /\ logs' = logs
  BY DEF chainVars
<1>2. TaskInv(w)
  BY DEF AcquirerInv
<1>3. \A l : HasRow(l) => HasRow(l)'
  BY DEF HasRow
<1>4. \A s, h : Covered(s, h) => Covered(s, h)'
  BY <1>1, <1>3 DEF Covered
<1>5. \A s, ls : Closed(s, ls) => Closed(s, ls)'
  BY <1>1 DEF Closed
<1> QED BY <1>1, <1>2, <1>3, <1>4, <1>5 DEF TaskInv

LEMMA InitAcquirer ==
  ASSUME Init
  PROVE  AcquirerInv
<1> USE DEF Init, ChainInit, AcquirerInit
<1>1. Rows = {} /\ logs = {} /\ head = 0
  BY DEF Rows
<1>2. AcquirerTypeOK
  <2>1. NoAcquirer \in Acquirer
    BY DEF NoAcquirer, Acquirer
  <2>2. evmEvents \in [Rows -> Status]
    BY <1>1 DEF Rows
  <2> QED BY <1>1, <2>1, <2>2, BookEventsAssumption DEF AcquirerTypeOK, ChainTypeOK
<1>3. \A w \in Acquirers : TaskInv(w)
  BY <1>1 DEF TaskInv, NoAcquirer
<1> QED BY <1>1, <1>2, <1>3 DEF AcquirerInv, HeightsBehind, NothingSkipped, WholeStreams

\* A new transaction is above all heights, so no claim speaks of it.
LEMMA ChainAcquirer ==
  ASSUME AcquirerInv, ChainSound, Transaction, UNCHANGED acquirerVars
  PROVE  AcquirerInv' /\ ChainSound'
<1>1. PICK ls : Adds(ls)
  BY TransactionAdds DEF AcquirerInv, AcquirerTypeOK
<1>2. /\ head \in Nat /\ logs \subseteq Log /\ Rows \subseteq logs
      /\ \A l \in logs : l.block \in Nat /\ l.block <= head
      /\ \A s \in Streams : height[s] \in Nat
      /\ \A w \in Acquirers : acquirer[w] \in Acquirer /\ acquirer[w].top \in Nat
  BY AcquirerTypes DEF AcquirerInv
<1>3. evmEvents' = evmEvents /\ height' = height /\ acquirer' = acquirer /\ Rows' = Rows
  BY DEF acquirerVars, Rows
<1>4. head' = head + 1 /\ logs' = logs \cup ls /\ ls \subseteq Log
      /\ \A l \in ls : l.block = head + 1
  BY <1>1 DEF Adds
<1>5. AcquirerTypeOK'
  <2>1. ChainTypeOK'
    BY <1>1, <1>2, <1>4 DEF Adds, ChainTypeOK
  <2> QED BY <1>2, <1>3, <1>4, <2>1 DEF AcquirerInv, AcquirerTypeOK
<1>6. HeightsBehind'
  BY <1>2, <1>3, <1>4 DEF AcquirerInv, HeightsBehind
<1>7. \A l \in logs' : l.block <= head => l \in logs
  BY <1>2, <1>4
<1>8. NothingSkipped'
  <2> SUFFICES ASSUME NEW l \in logs', l.block <= height[StreamOf(l)]
               PROVE  \E r \in Rows : r.block = l.block
    BY <1>3 DEF NothingSkipped
  <2>1. StreamOf(l) \in Streams /\ l.block \in Nat
    BY <1>2, <1>4, StreamType
  <2>2. l.block <= head
    BY <1>2, <2>1 DEF AcquirerInv, HeightsBehind
  <2> QED BY <1>7, <2>2 DEF AcquirerInv, NothingSkipped
<1>9. WholeStreams'
  <2> SUFFICES ASSUME NEW l \in logs', NEW m \in logs', l.block = m.block,
                      StreamOf(l) = StreamOf(m)
               PROVE  l \in Rows <=> m \in Rows
    BY <1>3 DEF WholeStreams
  <2>1. CASE l.block <= head
    BY <1>7, <2>1 DEF AcquirerInv, WholeStreams
  <2>2. CASE ~ (l.block <= head)
    BY <1>2, <2>2
  <2> QED BY <2>1, <2>2
<1>10. ASSUME NEW w \in Acquirers PROVE TaskInv(w)'
  <2>1. TaskInv(w) /\ acquirer[w].top <= head /\ acquirer[w].top \in Nat
    BY <1>2 DEF AcquirerInv, TaskInv
  <2>2. \A l : HasRow(l)' <=> HasRow(l)
    BY <1>3 DEF HasRow
  <2>3. \A s : Covered(s, acquirer[w].top) => Covered(s, acquirer[w].top)'
    BY <1>2, <1>3, <1>4, <1>7, <2>1, <2>2 DEF Covered
  <2>4. \A s, found : Closed(s, found) => Closed(s, found)'
    BY <1>2, <1>4, <1>7 DEF Closed
  <2>5. \A l \in logs' : l.block <= acquirer[w].top => l \in logs
    BY <1>2, <1>4, <2>1
  <2> QED BY <1>2, <1>3, <1>4, <2>1, <2>2, <2>3, <2>4, <2>5 DEF TaskInv
<1>11. ChainSound'
  <2>1. ASSUME NEW l \in logs PROVE WellFormed(l) /\ Owned(l, logs')
    BY <1>4 DEF ChainSound, Owned
  <2>2. ASSUME NEW l \in ls PROVE WellFormed(l) /\ Owned(l, logs')
    BY <1>1, <1>4 DEF Adds
  <2> QED BY <1>4, <2>1, <2>2 DEF ChainSound
<1> QED BY <1>5, <1>6, <1>8, <1>9, <1>10, <1>11 DEF AcquirerInv

\* Steps that only change what a row says.
LEMMA StatusAcquirer ==
  ASSUME AcquirerInv, UNCHANGED <<chainVars, height, acquirer>>, Rows' = Rows,
         evmEvents' \in [Rows' -> Status]
  PROVE  AcquirerInv'
<1>1. head' = head /\ logs' = logs /\ height' = height /\ acquirer' = acquirer
  BY DEF chainVars
<1>2. AcquirerTypeOK' /\ HeightsBehind'
  BY <1>1 DEF AcquirerInv, AcquirerTypeOK, ChainTypeOK, HeightsBehind
<1>3. NothingSkipped' /\ WholeStreams'
  BY <1>1 DEF AcquirerInv, NothingSkipped, WholeStreams
<1>4. \A w \in Acquirers : TaskInv(w)'
  BY <1>1, TaskInvMonotone
<1> QED BY <1>2, <1>3, <1>4 DEF AcquirerInv

\* What a step of an acquire task leaves of the invariant, given what it does
\* to its own task, to the rows and to the heights.
LEMMA TaskAcquirer ==
  ASSUME AcquirerInv, UNCHANGED chainVars, NEW w \in Acquirers, NEW a \in Acquirer,
         acquirer' = [acquirer EXCEPT ![w] = a], Rows \subseteq Rows',
         Rows' \subseteq logs, evmEvents' \in [Rows' -> Status],
         height' \in [Streams -> 0 .. MaxBlocks],
         HeightsBehind', NothingSkipped', WholeStreams', TaskInv(w)'
  PROVE  AcquirerInv'
<1>1. head' = head /\ logs' = logs
  BY DEF chainVars
<1>2. acquirer \in [Acquirers -> Acquirer]
  BY DEF AcquirerInv, AcquirerTypeOK
<1>3. AcquirerTypeOK'
  BY <1>1, <1>2 DEF AcquirerInv, AcquirerTypeOK, ChainTypeOK
<1>4. ASSUME NEW v \in Acquirers PROVE TaskInv(v)'
  <2>1. CASE v = w
    BY <2>1
  <2>2. CASE v # w
    <3>1. acquirer'[v] = acquirer[v]
      BY <1>2, <2>2
    <3> QED BY <3>1, TaskInvMonotone
  <2> QED BY <2>1, <2>2
<1> QED BY <1>3, <1>4 DEF AcquirerInv

\* The same, if only the task changes.
LEMMA OwnAcquirer ==
  ASSUME AcquirerInv, UNCHANGED <<chainVars, evmEvents, height>>, NEW w \in Acquirers,
         NEW a \in Acquirer, acquirer' = [acquirer EXCEPT ![w] = a], TaskInv(w)'
  PROVE  AcquirerInv'
<1>1. /\ Rows' = Rows /\ Rows \subseteq logs /\ evmEvents \in [Rows -> Status]
      /\ height \in [Streams -> 0 .. MaxBlocks]
  BY DEF AcquirerInv, AcquirerTypeOK, Rows
<1>2. HeightsBehind' /\ NothingSkipped' /\ WholeStreams'
  BY <1>1 DEF AcquirerInv, HeightsBehind, NothingSkipped, WholeStreams, chainVars
<1> QED BY <1>1, <1>2, TaskAcquirer

LEMMA Unassigned ==
  ASSUME AcquirerInv, NEW w \in Acquirers, UNCHANGED chainVars,
         acquirer'[w] = NoAcquirer
  PROVE  NoAcquirer \in Acquirer /\ TaskInv(w)'
<1>1. head \in Nat /\ head' = head
  BY AcquirerTypes DEF AcquirerInv, chainVars
<1>2. NoAcquirer \in Acquirer
  BY DEF NoAcquirer, Acquirer
<1> QED BY <1>1, <1>2 DEF TaskInv, NoAcquirer

LEMMA AcquirerDoneInv ==
  ASSUME AcquirerInv, NEW w \in Acquirers, UNCHANGED <<chainVars, evmEvents, height>>,
         AcquirerDone(w)
  PROVE  AcquirerInv'
<1>1. acquirer' = [acquirer EXCEPT ![w] = NoAcquirer] /\ acquirer'[w] = NoAcquirer
  BY DEF AcquirerDone, AcquirerInv, AcquirerTypeOK
<1> QED BY <1>1, Unassigned, OwnAcquirer

LEMMA AcquireBeginInv ==
  ASSUME AcquirerInv, NEW w \in Acquirers, NEW s \in Streams, UNCHANGED chainVars,
         AcquireBegin(w, s)
  PROVE  AcquirerInv'
<1> DEFINE a == [acquirer[w] EXCEPT !.pc = "fetch", !.stream = s, !.top = height[s]]
<1>1. acquirer[w] \in Acquirer /\ height[s] \in Nat /\ acquirer \in [Acquirers -> Acquirer]
  BY AcquirerTypes DEF AcquirerInv, AcquirerTypeOK
<1>2. acquirer' = [acquirer EXCEPT ![w] = a] /\ acquirer'[w] = a
  BY <1>1 DEF AcquireBegin
<1>3. a \in Acquirer /\ a.pc = "fetch" /\ a.stream = s /\ a.top = height[s]
  BY <1>1 DEF Acquirer
<1>4. UNCHANGED <<chainVars, evmEvents, height>> /\ head' = head /\ logs' = logs
  BY DEF AcquireBegin, chainVars
<1>5. Covered(s, height[s])'
  BY <1>4 DEF AcquirerInv, NothingSkipped, Covered, HasRow, Rows
<1>6. height[s] <= head
  BY DEF AcquirerInv, HeightsBehind
<1> HIDE DEF a
<1>7. TaskInv(w)'
  BY <1>2, <1>3, <1>4, <1>5, <1>6 DEF TaskInv
<1> QED BY <1>2, <1>3, <1>4, <1>7, OwnAcquirer

LEMMA FetchInv ==
  ASSUME AcquirerInv, NEW w \in Acquirers, UNCHANGED chainVars, Fetch(w)
  PROVE  AcquirerInv'
<1> DEFINE b == acquirer[w]
           found == {l \in logs : StreamOf(l) = b.stream /\ l.block > b.top}
           top == IF found = {} THEN b.top ELSE Newest(found).block
           a == [b EXCEPT !.pc = "select", !.found = found, !.top = top]
<1>1. /\ b \in Acquirer /\ b.top \in Nat /\ logs \subseteq Log
      /\ \A l \in logs : l.block \in Nat /\ l.block <= head
      /\ acquirer \in [Acquirers -> Acquirer]
  BY AcquirerTypes DEF AcquirerInv, AcquirerTypeOK
<1>2. b.pc = "fetch" /\ TaskInv(w)
  BY DEF Fetch, AcquirerInv
<1>3. acquirer' = [acquirer EXCEPT ![w] = a] /\ acquirer'[w] = a
  BY <1>1 DEF Fetch
<1>4. UNCHANGED <<chainVars, evmEvents, height>> /\ head' = head /\ logs' = logs
  BY DEF Fetch, chainVars
<1>5. found \subseteq logs
  OBVIOUS
<1>6. /\ top \in Nat /\ top <= head
      /\ \A l \in found : l.block <= top
  <2> HIDE DEF found
  <2>1. CASE found = {}
    BY <1>1, <1>2, <2>1 DEF TaskInv
  <2>2. CASE found # {}
    <3>1. Newest(found) \in found /\ \A m \in found : m.block <= Newest(found).block
      BY <1>1, <1>5, <2>2, NewestIs
    <3> QED BY <1>1, <1>5, <2>2, <3>1
  <2> QED BY <2>1, <2>2
<1>7. a \in Acquirer /\ a.pc = "select" /\ a.stream = b.stream /\ a.top = top /\ a.found = found
  <2>1. found \subseteq Log
    BY <1>1
  <2> HIDE DEF found, top
  <2> QED BY <1>1, <1>6, <2>1 DEF Acquirer
<1>8. Closed(b.stream, found)
  BY DEF Closed
<1>9. ASSUME NEW l \in logs, StreamOf(l) = b.stream, l.block <= top
      PROVE  l \in found \/ HasRow(l)
  <2>1. CASE l.block > b.top
    BY <1>9, <2>1
  <2>2. CASE l.block <= b.top
    BY <1>2, <1>9, <2>2 DEF TaskInv, Covered
  <2> QED BY <1>1, <2>1, <2>2
<1>10. b.stream \in Streams
  BY <1>2 DEF TaskInv
<1>11. \A l : HasRow(l)' <=> HasRow(l)
  BY <1>4 DEF HasRow, Rows
<1>12. \A s, ls : Closed(s, ls)' <=> Closed(s, ls)
  BY <1>4 DEF Closed
<1> HIDE DEF a, found, top
<1>13. TaskInv(w)'
  BY <1>3, <1>4, <1>6, <1>7, <1>8, <1>9, <1>10, <1>11, <1>12 DEF TaskInv
<1> QED BY <1>3, <1>4, <1>7, <1>13, OwnAcquirer

LEMMA SelectInv ==
  ASSUME AcquirerInv, NEW w \in Acquirers, UNCHANGED chainVars, Select(w)
  PROVE  AcquirerInv'
<1> DEFINE b == acquirer[w]
           todo == {l \in b.found : \A r \in RowsWith(b.found) : r.block # l.block}
           a == [b EXCEPT !.pc = "count", !.todo = todo]
<1>1. b \in Acquirer /\ logs \subseteq Log /\ acquirer \in [Acquirers -> Acquirer]
  BY AcquirerTypes DEF AcquirerInv, AcquirerTypeOK
<1>2. b.pc = "select" /\ TaskInv(w)
  BY DEF Select, AcquirerInv
<1>3. acquirer' = [acquirer EXCEPT ![w] = a] /\ acquirer'[w] = a
  BY <1>1 DEF Select
<1>4. UNCHANGED <<chainVars, evmEvents, height>> /\ head' = head /\ logs' = logs /\ Rows' = Rows
  BY DEF Select, chainVars, Rows
<1>5. /\ Closed(b.stream, b.found) /\ b.top <= head /\ b.stream \in Streams
      /\ \A l \in logs : StreamOf(l) = b.stream /\ l.block <= b.top =>
                                l \in b.found \/ HasRow(l)
  BY <1>2 DEF TaskInv
<1>6. todo \subseteq b.found /\ Closed(b.stream, todo)
  BY <1>5 DEF Closed
<1>7. \A l \in b.found : l \in todo \/ HasRow(l)
  BY DEF RowsWith, HasRow
<1>8. /\ a \in Acquirer /\ a.pc = "count" /\ a.stream = b.stream /\ a.top = b.top
      /\ a.found = b.found /\ a.todo = todo
  <2>1. todo \subseteq Log
    BY <1>1, <1>5, <1>6 DEF Closed
  <2> HIDE DEF todo
  <2> QED BY <1>1, <2>1 DEF Acquirer
<1>9. \A l : HasRow(l)' <=> HasRow(l)
  BY <1>4 DEF HasRow
<1>10. \A s, ls : Closed(s, ls)' <=> Closed(s, ls)
  BY <1>4 DEF Closed
<1> HIDE DEF a, todo
<1>11. TaskInv(w)'
  BY <1>3, <1>4, <1>5, <1>6, <1>7, <1>8, <1>9, <1>10 DEF TaskInv
<1> QED BY <1>3, <1>4, <1>8, <1>11, OwnAcquirer

LEMMA CountInv ==
  ASSUME AcquirerInv, NEW w \in Acquirers, UNCHANGED chainVars, Count(w)
  PROVE  AcquirerInv'
<1> DEFINE b == acquirer[w]
           a == [b EXCEPT !.pc = "commit"]
<1>1. b \in Acquirer /\ acquirer \in [Acquirers -> Acquirer]
  BY AcquirerTypes DEF AcquirerInv, AcquirerTypeOK
<1>2. b.pc = "count" /\ TaskInv(w)
  BY DEF Count, AcquirerInv
<1>3. UNCHANGED <<chainVars, evmEvents, height>> /\ head' = head /\ logs' = logs /\ Rows' = Rows
  BY DEF Count, chainVars, Rows
<1>4. acquirer' = [acquirer EXCEPT ![w].pc = "commit"] \/ AcquirerDone(w)
  BY DEF Count
<1>5. CASE acquirer' = [acquirer EXCEPT ![w].pc = "commit"]
  <2>1. acquirer' = [acquirer EXCEPT ![w] = a] /\ acquirer'[w] = a
    BY <1>1, <1>5
  <2>2. /\ a \in Acquirer /\ a.pc = "commit" /\ a.stream = b.stream /\ a.top = b.top
        /\ a.found = b.found /\ a.todo = b.todo
    BY <1>1 DEF Acquirer
  <2>3. \A l : HasRow(l)' <=> HasRow(l)
    BY <1>3 DEF HasRow
  <2>4. \A s, ls : Closed(s, ls)' <=> Closed(s, ls)
    BY <1>3 DEF Closed
  <2> HIDE DEF a
  <2>5. TaskInv(w)'
    BY <1>2, <1>3, <2>1, <2>2, <2>3, <2>4 DEF TaskInv
  <2> QED BY <1>3, <2>1, <2>2, <2>5, OwnAcquirer
<1> QED BY <1>3, <1>4, <1>5, AcquirerDoneInv

\* The rows of a commit are those of whole transactions of one stream, and
\* none of them was there.
LEMMA CommitInv ==
  ASSUME AcquirerInv, NEW w \in Acquirers, UNCHANGED chainVars, Commit(w)
  PROVE  AcquirerInv'
<1> DEFINE b == acquirer[w]
           todo == b.todo
           a == [b EXCEPT !.pc = "height"]
<1>1. /\ b \in Acquirer /\ acquirer \in [Acquirers -> Acquirer] /\ Rows \subseteq logs
      /\ height \in [Streams -> 0 .. MaxBlocks] /\ evmEvents \in [Rows -> Status]
  BY AcquirerTypes DEF AcquirerInv, AcquirerTypeOK
<1>2. b.pc = "commit" /\ TaskInv(w)
  BY DEF Commit, AcquirerInv
<1>3. UNCHANGED <<chainVars, height>> /\ head' = head /\ logs' = logs /\ height' = height
  BY DEF Commit, chainVars
<1>4. /\ todo \subseteq b.found /\ Closed(b.stream, todo)
      /\ \A l \in b.found : l \in todo \/ HasRow(l)
      /\ \A l \in logs : StreamOf(l) = b.stream /\ l.block <= b.top =>
                                l \in b.found \/ HasRow(l)
      /\ b.top <= head /\ b.stream \in Streams
  BY <1>2 DEF TaskInv
<1>5. CASE /\ evmEvents' = [l \in Rows \cup todo |->
                                IF l \in todo THEN "received" ELSE evmEvents[l]]
           /\ acquirer' = [acquirer EXCEPT ![w].pc = "height"]
  <2>1. Rows' = Rows \cup todo
    BY <1>5 DEF Rows
  <2>2. evmEvents' \in [Rows' -> Status]
    <3>1. \A l \in Rows : evmEvents[l] \in Status
      BY <1>1
    <3> HIDE DEF todo
    <3> QED BY <1>5, <2>1, <3>1 DEF Status
  <2>3. acquirer' = [acquirer EXCEPT ![w] = a] /\ acquirer'[w] = a
    BY <1>1, <1>5
  <2>4. a \in Acquirer /\ a.pc = "height" /\ a.stream = b.stream /\ a.top = b.top
    BY <1>1 DEF Acquirer
  <2>5. \A l : HasRow(l) \/ l \in todo => HasRow(l)'
    BY <2>1 DEF HasRow
  <2>6. \A l \in logs : StreamOf(l) = b.stream /\ l.block <= b.top => HasRow(l)'
    BY <1>4, <2>5
  <2>7. WholeStreams'
    <3> SUFFICES ASSUME NEW l \in logs, NEW m \in logs, l.block = m.block,
                        StreamOf(l) = StreamOf(m)
                 PROVE  l \in Rows \cup todo <=> m \in Rows \cup todo
      BY <1>3, <2>1 DEF WholeStreams
    <3>1. l \in Rows <=> m \in Rows
      BY DEF AcquirerInv, WholeStreams
    <3>2. l \in todo <=> m \in todo
      BY <1>4 DEF Closed
    <3> QED BY <3>1, <3>2
  <2>8. NothingSkipped' /\ HeightsBehind'
    BY <1>3, <2>1 DEF AcquirerInv, NothingSkipped, HeightsBehind
  <2>9. Rows \subseteq Rows' /\ Rows' \subseteq logs
    BY <1>1, <1>4, <2>1 DEF Closed
  <2> HIDE DEF a
  <2>10. TaskInv(w)'
    BY <1>3, <1>4, <2>3, <2>4, <2>6 DEF TaskInv, Covered
  <2> QED BY <1>1, <1>3, <2>2, <2>3, <2>4, <2>7, <2>8, <2>9, <2>10, TaskAcquirer
<1>6. CASE AcquirerDone(w) /\ UNCHANGED evmEvents
  BY <1>3, <1>6, AcquirerDoneInv
<1> QED BY <1>5, <1>6 DEF Commit

LEMMA SetHeightInv ==
  ASSUME AcquirerInv, NEW w \in Acquirers, UNCHANGED chainVars, SetHeight(w)
  PROVE  AcquirerInv'
<1> DEFINE b == acquirer[w]
<1>1. /\ b \in Acquirer /\ acquirer \in [Acquirers -> Acquirer] /\ Rows \subseteq logs
      /\ height \in [Streams -> 0 .. MaxBlocks] /\ evmEvents \in [Rows -> Status]
      /\ head \in 0 .. MaxBlocks /\ b.top \in Nat
  BY AcquirerTypes DEF AcquirerInv, AcquirerTypeOK, ChainTypeOK
<1>2. b.pc = "height" /\ TaskInv(w)
  BY DEF SetHeight, AcquirerInv
<1>3. UNCHANGED chainVars /\ head' = head /\ logs' = logs /\ evmEvents' = evmEvents /\ Rows' = Rows
  BY DEF SetHeight, chainVars, Rows
<1>4. Covered(b.stream, b.top) /\ b.top <= head /\ b.stream \in Streams
  BY <1>2 DEF TaskInv
<1>5. height' = [height EXCEPT ![b.stream] = b.top]
  BY DEF SetHeight
<1>6. acquirer' = [acquirer EXCEPT ![w] = NoAcquirer] /\ acquirer'[w] = NoAcquirer
  BY <1>1 DEF SetHeight, AcquirerDone
<1>7. NoAcquirer \in Acquirer /\ TaskInv(w)'
  BY <1>6, Unassigned
<1>8. b.top \in 0 .. MaxBlocks
  BY <1>1, <1>4, BookEventsAssumption
<1>9. height' \in [Streams -> 0 .. MaxBlocks]
  BY <1>1, <1>5, <1>8
<1>10. HeightsBehind'
  BY <1>1, <1>3, <1>4, <1>5 DEF AcquirerInv, HeightsBehind
<1>11. NothingSkipped'
  <2> SUFFICES ASSUME NEW l \in logs, l.block <= height'[StreamOf(l)]
               PROVE  HasRow(l)
    BY <1>3 DEF NothingSkipped, HasRow
  <2>1. CASE StreamOf(l) = b.stream
    BY <1>1, <1>4, <1>5, <2>1 DEF Covered
  <2>2. CASE StreamOf(l) # b.stream
    <3>1. height'[StreamOf(l)] = height[StreamOf(l)]
      BY <1>1, <1>5, <2>2, AcquirerTypes, StreamType DEF AcquirerInv
    <3> QED BY <3>1 DEF AcquirerInv, NothingSkipped, HasRow
  <2> QED BY <2>1, <2>2
<1>12. WholeStreams'
  BY <1>3 DEF AcquirerInv, WholeStreams
<1> HIDE DEF b
<1> QED BY <1>1, <1>3, <1>6, <1>7, <1>9, <1>10, <1>11, <1>12, TaskAcquirer

LEMMA AcquireStepInv ==
  ASSUME AcquirerInv, NEW w \in Acquirers, UNCHANGED chainVars, AcquireStep(w)
  PROVE  AcquirerInv'
<1>1. CASE Fetch(w)
  BY <1>1, FetchInv
<1>2. CASE Select(w)
  BY <1>2, SelectInv
<1>3. CASE Count(w)
  BY <1>3, CountInv
<1>4. CASE Commit(w)
  BY <1>4, CommitInv
<1>5. CASE SetHeight(w)
  BY <1>5, SetHeightInv
<1>6. CASE AcquireFails(w)
  BY <1>6, AcquirerDoneInv DEF AcquireFails
<1> QED BY <1>1, <1>2, <1>3, <1>4, <1>5, <1>6 DEF AcquireStep

-----------------------------------------------------------------------------
(* The tasks that enqueue and process.                                     *)

MemoOf(l) == [block |-> l.block, book |-> l.book, token |-> l.token]

\* What the statements before the next one have done for the event.
Progress(w) ==
    LET p == processor[w]
        l == p.log
    IN
    /\ l \in Rows
    /\ l.kind # "OwnershipTransferred" /\ p.pc \in 3 .. 7 => p.read # None
    /\ p.pc \in 4 .. 7 \/ (l.kind = "OwnershipTransferred" /\ p.pc = 3) =>
            nftClass[l.book] # None
    /\ l.kind \in OfTokens /\ p.pc \in 4 .. 7 => l.token \in DOMAIN nft[l.book]
    /\ l.kind = "TransferWithMemo" /\ p.pc \in 6 .. 7 => MemoOf(l) \in memos

QueueInv == queue \in Seq(Rows) /\ Len(queue) <= MaxQueue

CheckerInv ==
    /\ checker \in [Workers -> Checker]
    /\ \A w \in Workers : checker[w].todo \subseteq Rows

ProcessorInv ==
    /\ processor \in [Workers -> Processor]
    /\ \A w \in Workers : Task(w) # None => Progress(w)

Holders == UNION {[D -> Accounts \cup {None}] : D \in SUBSET Tokens}

TablesInv ==
    /\ nftClass \in [Books -> ClassRow \cup {None}]
    /\ nft \in [Books -> Holders]
    /\ memos \subseteq [block: 1 .. MaxBlocks, book: Books, token: Tokens]

Inv ==
    /\ AcquirerInv /\ ChainSound
    /\ QueueInv /\ CheckerInv /\ ProcessorInv /\ TablesInv
    /\ ProcessedIsApplied

\* Tables never lose a class, a token or a memo.
TablesGrow ==
    /\ \A b \in Books :
        /\ nftClass[b] # None => nftClass'[b] # None
        /\ DOMAIN nft[b] \subseteq DOMAIN nft'[b]
    /\ memos \subseteq memos'

RowsGrow == Rows \subseteq Rows'

\* No row becomes processed.
NoneProcessed ==
    \A l \in Rows' : evmEvents'[l] = "processed" => l \in Rows /\ evmEvents[l] = "processed"

LEMMA HoldersType ==
  ASSUME NEW h
  PROVE  h \in Holders <=> DOMAIN h \subseteq Tokens /\ h \in [DOMAIN h -> Accounts \cup {None}]
<1>1. ASSUME h \in Holders
      PROVE  DOMAIN h \subseteq Tokens /\ h \in [DOMAIN h -> Accounts \cup {None}]
  BY <1>1 DEF Holders
<1>2. ASSUME DOMAIN h \subseteq Tokens, h \in [DOMAIN h -> Accounts \cup {None}]
      PROVE  h \in Holders
  BY <1>2 DEF Holders
<1> QED BY <1>1, <1>2

\* The row of an event is a log of a book.
LEMMA RowType ==
  ASSUME Inv, NEW l \in Rows
  PROVE  /\ l \in Log /\ l \in logs /\ l # None /\ WellFormed(l)
         /\ l.block \in 1 .. MaxBlocks /\ l.kind \in Kinds /\ l.book \in Books
         /\ l.token \in Tokens \cup {None} /\ l.to \in Accounts \cup {None}
         /\ l.kind \in OfTokens => l.token \in Tokens
<1>1. l \in Log /\ l \in logs
  BY AcquirerTypes DEF Inv, AcquirerInv
<1>2. WellFormed(l)
  BY <1>1 DEF Inv, ChainSound
<1> QED BY <1>1, <1>2, RowAssumption DEF Log, WellFormed

LEMMA InvTypeOK ==
  ASSUME Inv
  PROVE  TypeOK
<1>1. \A b \in Books : /\ DOMAIN nft[b] \subseteq Tokens
                       /\ nft[b] \in [DOMAIN nft[b] -> Accounts \cup {None}]
  BY HoldersType DEF Inv, TablesInv
<1> QED BY <1>1 DEF Inv, AcquirerInv, QueueInv, CheckerInv, ProcessorInv, TablesInv, TypeOK

LEMMA QueueKeeps ==
  ASSUME Inv, RowsGrow, queue' = queue
  PROVE  QueueInv'
  BY DEF Inv, QueueInv, RowsGrow

LEMMA CheckerKeeps ==
  ASSUME Inv, RowsGrow, checker' = checker
  PROVE  CheckerInv'
  BY DEF Inv, CheckerInv, RowsGrow

LEMMA ProgressKeeps ==
  ASSUME Inv, RowsGrow, TablesGrow, NEW w \in Workers, processor'[w] = processor[w],
         Task(w) # None
  PROVE  Progress(w)'
<1>1. Progress(w) /\ Task(w) \in Rows /\ Task(w) = processor[w].log
  BY DEF Inv, ProcessorInv, Progress, Task
<1>2. Task(w).book \in Books
  BY <1>1, RowType
<1> QED BY <1>1, <1>2 DEF Progress, RowsGrow, TablesGrow, MemoOf

\* One task changes, if any.
LEMMA ProcessorKeeps ==
  ASSUME Inv, RowsGrow, TablesGrow, NEW w \in Workers, NEW p \in Processor,
         processor' = [processor EXCEPT ![w] = p],
         p.log # None => Progress(w)'
  PROVE  ProcessorInv'
<1>1. processor \in [Workers -> Processor]
  BY DEF Inv, ProcessorInv
<1>2. processor' \in [Workers -> Processor]
  BY <1>1
<1>3. ASSUME NEW v \in Workers, Task(v)' # None PROVE Progress(v)'
  <2>1. CASE v = w
    BY <1>1, <1>3, <2>1 DEF Task
  <2>2. CASE v # w
    <3>1. processor'[v] = processor[v]
      BY <1>1, <2>2
    <3> QED BY <1>3, <3>1, ProgressKeeps DEF Task
  <2> QED BY <2>1, <2>2
<1> QED BY <1>2, <1>3 DEF ProcessorInv

LEMMA ProcessorsKeep ==
  ASSUME Inv, RowsGrow, TablesGrow, processor' = processor
  PROVE  ProcessorInv'
<1>1. ASSUME NEW w \in Workers, Task(w)' # None PROVE Progress(w)'
  BY <1>1, ProgressKeeps DEF Task
<1> QED BY <1>1 DEF Inv, ProcessorInv

LEMMA AppliedKeeps ==
  ASSUME Inv, TablesGrow, NoneProcessed
  PROVE  ProcessedIsApplied'
<1> SUFFICES ASSUME NEW l \in Rows', evmEvents'[l] = "processed"
             PROVE  /\ nftClass'[l.book] # None
                    /\ l.token # None => l.token \in DOMAIN nft'[l.book]
                    /\ l.kind = "TransferWithMemo" =>
                        [block |-> l.block, book |-> l.book, token |-> l.token] \in memos'
  BY DEF ProcessedIsApplied
<1>1. l \in Rows /\ evmEvents[l] = "processed"
  BY DEF NoneProcessed
<1>2. l.book \in Books
  BY <1>1, RowType
<1> QED BY <1>1, <1>2 DEF Inv, ProcessedIsApplied, TablesGrow

LEMMA TablesUnchanged ==
  ASSUME Inv, UNCHANGED tables
  PROVE  TablesInv' /\ TablesGrow
  BY DEF Inv, TablesInv, TablesGrow, tables

LEMMA InitInv ==
  ASSUME Init
  PROVE  Inv
<1> USE DEF Init, ChainInit, AcquirerInit
<1>1. AcquirerInv
  BY InitAcquirer
<1>2. Rows = {} /\ ChainSound
  BY DEF Rows, ChainSound
<1>3. QueueInv
  BY IndexerAssumption DEF QueueInv
<1>4. CheckerInv
  BY DEF CheckerInv, Checker, NoChecker
<1>5. ProcessorInv
  BY DEF ProcessorInv, Processor, NoProcessor, Task
<1>6. TablesInv
  <2>1. DOMAIN <<>> = {} /\ <<>> \in [{} -> Accounts \cup {None}]
    OBVIOUS
  <2>2. <<>> \in Holders
    BY <2>1, HoldersType
  <2> QED BY <2>2 DEF TablesInv
<1>7. ProcessedIsApplied
  BY <1>2 DEF ProcessedIsApplied
<1> QED BY <1>1, <1>2, <1>3, <1>4, <1>5, <1>6, <1>7 DEF Inv

-----------------------------------------------------------------------------
(* Steps.                                                                  *)

\* Transactions and acquire tasks leave the other tasks and the tables alone.
LEMMA ElseKeeps ==
  ASSUME Inv, AcquirerInv', ChainSound', RowsGrow, NoneProcessed,
         UNCHANGED <<taskVars, tables>>
  PROVE  Inv'
<1>1. queue' = queue /\ checker' = checker /\ processor' = processor
  BY DEF taskVars
<1>2. TablesInv' /\ TablesGrow
  BY TablesUnchanged
<1> QED BY <1>1, <1>2, QueueKeeps, CheckerKeeps, ProcessorsKeep, AppliedKeeps DEF Inv

LEMMA TransactionInv ==
  ASSUME Inv, Transaction, UNCHANGED <<acquirerVars, taskVars, tables>>
  PROVE  Inv'
<1>1. AcquirerInv' /\ ChainSound'
  BY ChainAcquirer DEF Inv
<1>2. RowsGrow /\ NoneProcessed
  BY DEF acquirerVars, RowsGrow, NoneProcessed, Rows
<1> QED BY <1>1, <1>2, ElseKeeps

LEMMA ChainKeeps ==
  ASSUME Inv, UNCHANGED chainVars
  PROVE  ChainSound'
  BY DEF Inv, ChainSound, chainVars

LEMMA AcquireInv ==
  ASSUME Inv, NEW w \in Acquirers, NEW s \in Streams, Acquire(w, s)
  PROVE  Inv'
<1>1. AcquireBegin(w, s) /\ UNCHANGED <<chainVars, taskVars, tables>>
  BY DEF Acquire
<1>2. AcquirerInv' /\ ChainSound'
  BY <1>1, AcquireBeginInv, ChainKeeps DEF Inv
<1>3. RowsGrow /\ NoneProcessed
  BY <1>1 DEF AcquireBegin, RowsGrow, NoneProcessed, Rows
<1> QED BY <1>1, <1>2, <1>3, ElseKeeps

LEMMA AcquiringInv ==
  ASSUME Inv, NEW w \in Acquirers, Acquiring(w)
  PROVE  Inv'
<1>1. AcquireStep(w) /\ UNCHANGED <<chainVars, taskVars, tables>>
  BY DEF Acquiring
<1>2. AcquirerInv' /\ ChainSound'
  BY <1>1, AcquireStepInv, ChainKeeps DEF Inv
<1>3. CASE UNCHANGED evmEvents
  <2>1. RowsGrow /\ NoneProcessed
    BY <1>3 DEF RowsGrow, NoneProcessed, Rows
  <2> QED BY <1>1, <1>2, <2>1, ElseKeeps
<1>4. CASE evmEvents' = [l \in Rows \cup acquirer[w].todo |->
                            IF l \in acquirer[w].todo THEN "received" ELSE evmEvents[l]]
  <2>1. RowsGrow /\ NoneProcessed
    BY <1>4 DEF RowsGrow, NoneProcessed, Rows
  <2> QED BY <1>1, <1>2, <2>1, ElseKeeps
<1> QED BY <1>1, <1>3, <1>4
        DEF AcquireStep, Fetch, Select, Count, Commit, SetHeight, AcquireFails

\* Of the acquirer, the other tasks change nothing but what rows say.
LEMMA StatusKeeps ==
  ASSUME Inv, UNCHANGED <<chainVars, height, acquirer>>, Rows' = Rows,
         evmEvents' \in [Rows' -> Status]
  PROVE  AcquirerInv' /\ ChainSound' /\ RowsGrow
  BY StatusAcquirer, ChainKeeps DEF Inv, RowsGrow

LEMMA RowsKeep ==
  ASSUME Inv, UNCHANGED <<chainVars, acquirerVars>>
  PROVE  AcquirerInv' /\ ChainSound' /\ RowsGrow /\ NoneProcessed
<1>1. evmEvents' = evmEvents /\ height' = height /\ acquirer' = acquirer /\ Rows' = Rows
  BY DEF acquirerVars, Rows
<1>2. evmEvents' \in [Rows' -> Status]
  BY <1>1 DEF Inv, AcquirerInv, AcquirerTypeOK
<1> QED BY <1>1, <1>2, StatusKeeps DEF NoneProcessed

LEMMA CheckBeginInv ==
  ASSUME Inv, NEW w \in Workers, CheckBegin(w)
  PROVE  Inv'
<1> DEFINE received == {l \in Rows : evmEvents[l] = "received"}
           c == [pc |-> "enqueue", todo |-> received, done |-> {}]
<1>1. UNCHANGED <<chainVars, acquirerVars, queue, processor, tables>>
      /\ checker' = [checker EXCEPT ![w] = c]
  BY DEF CheckBegin
<1>2. AcquirerInv' /\ ChainSound' /\ RowsGrow /\ NoneProcessed /\ TablesInv' /\ TablesGrow
  BY <1>1, RowsKeep, TablesUnchanged
<1>3. CheckerInv'
  <2>1. received \subseteq Rows /\ received \subseteq Log
    BY RowType
  <2>2. c \in Checker /\ c.todo = received
    BY <2>1 DEF Checker
  <2> HIDE DEF c, received
  <2> QED BY <1>1, <1>2, <2>1, <2>2 DEF Inv, CheckerInv, RowsGrow
<1> QED BY <1>1, <1>2, <1>3, QueueKeeps, ProcessorsKeep, AppliedKeeps DEF Inv

LEMMA EnqueueInv ==
  ASSUME Inv, NEW w \in Workers, Enqueue(w)
  PROVE  Inv'
<1>1. UNCHANGED <<chainVars, acquirerVars, processor, tables>>
  BY DEF Enqueue
<1>2. AcquirerInv' /\ ChainSound' /\ RowsGrow /\ NoneProcessed /\ TablesInv' /\ TablesGrow
  BY <1>1, RowsKeep, TablesUnchanged
<1>3. PICK l \in checker[w].todo :
        \/ /\ Len(queue) < MaxQueue
           /\ queue' = Append(queue, l)
           /\ checker' = [checker EXCEPT ![w].todo = @ \ {l}, ![w].done = @ \cup {l}]
        \/ /\ checker' = [checker EXCEPT ![w].todo = @ \ {l}]
           /\ UNCHANGED queue
  BY DEF Enqueue
<1>4. /\ checker \in [Workers -> Checker] /\ checker[w] \in Checker
      /\ checker[w].todo \subseteq Rows /\ l \in Rows /\ l \in Log
  BY RowType DEF Inv, CheckerInv
<1>5. QueueInv'
  <2>1. queue \in Seq(Rows) /\ Len(queue) <= MaxQueue
    BY DEF Inv, QueueInv
  <2>2. queue \in Seq(Rows')
    BY <1>2, <2>1 DEF RowsGrow
  <2>3. CASE Len(queue) < MaxQueue /\ queue' = Append(queue, l)
    BY <1>2, <1>4, <2>2, <2>3, IndexerAssumption DEF QueueInv, RowsGrow
  <2>4. CASE UNCHANGED queue
    BY <2>1, <2>2, <2>4 DEF QueueInv
  <2> QED BY <1>3, <2>3, <2>4
<1>6. CheckerInv'
  <2>1. PICK c \in Checker : checker' = [checker EXCEPT ![w] = c] /\ c.todo \subseteq Rows
    <3>1. CASE checker' = [checker EXCEPT ![w].todo = @ \ {l}, ![w].done = @ \cup {l}]
      <4> DEFINE c == [checker[w] EXCEPT !.todo = @ \ {l}, !.done = @ \cup {l}]
      <4>1. c \in Checker /\ c.todo \subseteq Rows
        BY <1>4 DEF Checker
      <4>2. checker' = [checker EXCEPT ![w] = c]
        BY <1>4, <3>1
      <4> QED BY <4>1, <4>2
    <3>2. CASE checker' = [checker EXCEPT ![w].todo = @ \ {l}]
      <4> DEFINE c == [checker[w] EXCEPT !.todo = @ \ {l}]
      <4>1. c \in Checker /\ c.todo \subseteq Rows
        BY <1>4 DEF Checker
      <4>2. checker' = [checker EXCEPT ![w] = c]
        BY <1>4, <3>2
      <4> QED BY <4>1, <4>2
    <3> QED BY <1>3, <3>1, <3>2
  <2> QED BY <1>2, <2>1 DEF Inv, CheckerInv, RowsGrow
<1> QED BY <1>1, <1>2, <1>5, <1>6, ProcessorsKeep, AppliedKeeps DEF Inv

LEMMA NoCheckerInv ==
  ASSUME Inv, NEW w \in Workers, RowsGrow, checker' = [checker EXCEPT ![w] = NoChecker]
  PROVE  CheckerInv'
  BY DEF Inv, CheckerInv, Checker, NoChecker, RowsGrow

LEMMA MarkInv ==
  ASSUME Inv, NEW w \in Workers, Mark(w)
  PROVE  Inv'
<1> DEFINE done == checker[w].done
<1>1. UNCHANGED <<chainVars, height, acquirer, queue, processor, tables>>
      /\ checker' = [checker EXCEPT ![w] = NoChecker]
      /\ evmEvents' = [l \in Rows |-> IF l \in done THEN "enqueued" ELSE evmEvents[l]]
  BY DEF Mark
<1>2. Rows' = Rows
  BY <1>1 DEF Rows
<1>3. evmEvents' \in [Rows' -> Status]
  <2>1. \A l \in Rows : evmEvents[l] \in Status
    BY DEF Inv, AcquirerInv, AcquirerTypeOK
  <2> QED BY <1>1, <1>2, <2>1 DEF Status
<1>4. AcquirerInv' /\ ChainSound' /\ RowsGrow /\ TablesInv' /\ TablesGrow
  BY <1>1, <1>2, <1>3, StatusKeeps, TablesUnchanged
<1>5. NoneProcessed
  BY <1>1, <1>2 DEF NoneProcessed
<1> QED BY <1>1, <1>4, <1>5, NoCheckerInv, QueueKeeps, ProcessorsKeep, AppliedKeeps DEF Inv

LEMMA CheckFailsInv ==
  ASSUME Inv, NEW w \in Workers, CheckFails(w)
  PROVE  Inv'
<1>1. UNCHANGED <<chainVars, acquirerVars, queue, processor, tables>>
      /\ checker' = [checker EXCEPT ![w] = NoChecker]
  BY DEF CheckFails
<1>2. AcquirerInv' /\ ChainSound' /\ RowsGrow /\ NoneProcessed /\ TablesInv' /\ TablesGrow
  BY <1>1, RowsKeep, TablesUnchanged
<1> QED BY <1>1, <1>2, NoCheckerInv, QueueKeeps, ProcessorsKeep, AppliedKeeps DEF Inv

\* A task begins with an event that has a row, or does not begin.
LEMMA StartsInv ==
  ASSUME Inv, NEW w \in Workers, NEW l \in Rows, RowsGrow, TablesGrow, Starts(w, l)
  PROVE  ProcessorInv'
<1> DEFINE p == [pc |-> 1, log |-> l, read |-> None]
<1>1. p \in Processor
  BY RowType DEF Processor
<1>2. CASE processor' = [processor EXCEPT ![w] = p]
  <2>1. processor'[w] = p
    BY <1>2 DEF Inv, ProcessorInv
  <2>2. Progress(w)'
    BY <2>1 DEF Progress, RowsGrow
  <2> HIDE DEF p
  <2> QED BY <1>1, <1>2, <2>2, ProcessorKeeps
<1>3. CASE UNCHANGED processor
  BY <1>3, ProcessorsKeep
<1> QED BY <1>2, <1>3 DEF Starts

LEMMA ProcessBeginInv ==
  ASSUME Inv, NEW w \in Workers, ProcessBegin(w)
  PROVE  Inv'
<1>1. UNCHANGED <<chainVars, acquirerVars, checker, tables>> /\ queue # <<>>
      /\ Starts(w, Head(queue)) /\ queue' = Tail(queue)
  BY DEF ProcessBegin
<1>2. AcquirerInv' /\ ChainSound' /\ RowsGrow /\ NoneProcessed /\ TablesInv' /\ TablesGrow
  BY <1>1, RowsKeep, TablesUnchanged
<1>3. queue \in Seq(Rows) /\ Len(queue) <= MaxQueue
  BY DEF Inv, QueueInv
<1>4. Head(queue) \in Rows /\ Tail(queue) \in Seq(Rows) /\ Len(Tail(queue)) = Len(queue) - 1
  BY <1>1, <1>3
<1>5. QueueInv'
  <2>1. Len(queue) - 1 <= MaxQueue
    BY <1>3, IndexerAssumption
  <2>2. queue' \in Seq(Rows')
    BY <1>1, <1>2, <1>4 DEF RowsGrow
  <2> QED BY <1>1, <1>4, <2>1, <2>2 DEF QueueInv
<1> QED BY <1>1, <1>2, <1>4, <1>5, StartsInv, CheckerKeeps, AppliedKeeps DEF Inv

LEMMA ProcessAtCliInv ==
  ASSUME Inv, NEW w \in Workers, ProcessAtCli(w)
  PROVE  Inv'
<1>1. UNCHANGED <<chainVars, acquirerVars, queue, checker, tables>>
      /\ \E l \in Rows : Starts(w, l)
  BY DEF ProcessAtCli
<1>2. AcquirerInv' /\ ChainSound' /\ RowsGrow /\ NoneProcessed /\ TablesInv' /\ TablesGrow
  BY <1>1, RowsKeep, TablesUnchanged
<1> QED BY <1>1, <1>2, StartsInv, QueueKeeps, CheckerKeeps, AppliedKeeps DEF Inv

-----------------------------------------------------------------------------
(* The statements of a process task.                                       *)

\* Which statement comes when.
LEMMA StepIs ==
  ASSUME Inv, NEW w \in Workers, NEW step, At(w, step)
  PROVE  LET l == Task(w)
             pc == processor[w].pc
         IN
         /\ l \in Rows /\ l # None /\ processor[w] \in Processor /\ processor[w].log = l
         /\ processor \in [Workers -> Processor] /\ Progress(w)
         /\ pc \in 1 .. 7
         /\ step = "claim" => pc = 1
         /\ step = "read" => pc = 2 /\ l.kind # "OwnershipTransferred"
         /\ step = "class" => pc = 3 /\ l.kind = "NewBookNFT"
         /\ step = "owner" => pc = 2 /\ l.kind = "OwnershipTransferred"
         /\ step = "metadata" => pc = 3 /\ l.kind = "ContractURIUpdated"
         /\ step = "token" => pc = 3 /\ l.kind \in OfTokens
         /\ step = "supply" => pc = 4 /\ l.kind \in OfTokens
         /\ step = "memo" => pc = 5 /\ l.kind = "TransferWithMemo"
         /\ step = "holder" => /\ l.kind = "Transfer" => pc = 5
                               /\ l.kind = "TransferWithMemo" => pc = 6
                               /\ l.kind \in OfTokens
         /\ step = "finish" => /\ pc \in 4 .. 7 \/ (l.kind = "OwnershipTransferred" /\ pc = 3)
                               /\ l.kind = "Transfer" => pc = 6
                               /\ l.kind = "TransferWithMemo" => pc = 7
<1> DEFINE l == Task(w)
           pc == processor[w].pc
<1>1. /\ l # None /\ pc \in DOMAIN Program[l.kind] /\ Program[l.kind][pc] = step
  BY DEF At
<1>2. processor \in [Workers -> Processor] /\ Progress(w) /\ l \in Rows
  BY <1>1 DEF Inv, ProcessorInv, Progress, Task
<1>3. l.kind \in Kinds /\ processor[w].log = l
  BY <1>2, RowType DEF Task
<1>4. CASE l.kind = "NewBookNFT"
  <2>1. Program[l.kind] = <<"claim", "read", "class", "finish">>
    BY <1>3, <1>4 DEF Program
  <2>2. pc \in 1 .. 4
    BY <1>1, <2>1
  <2> QED BY <1>1, <1>2, <1>3, <1>4, <2>1, <2>2 DEF OfTokens
<1>5. CASE l.kind = "OwnershipTransferred"
  <2>1. Program[l.kind] = <<"claim", "owner", "finish">>
    BY <1>3, <1>5 DEF Program
  <2>2. pc \in 1 .. 3
    BY <1>1, <2>1
  <2> QED BY <1>1, <1>2, <1>3, <1>5, <2>1, <2>2 DEF OfTokens
<1>6. CASE l.kind = "ContractURIUpdated"
  <2>1. Program[l.kind] = <<"claim", "read", "metadata", "finish">>
    BY <1>3, <1>6 DEF Program
  <2>2. pc \in 1 .. 4
    BY <1>1, <2>1
  <2> QED BY <1>1, <1>2, <1>3, <1>6, <2>1, <2>2 DEF OfTokens
<1>7. CASE l.kind = "Transfer"
  <2>1. Program[l.kind] = <<"claim", "read", "token", "supply", "holder", "finish">>
    BY <1>3, <1>7 DEF Program
  <2>2. pc \in 1 .. 6
    BY <1>1, <2>1
  <2> QED BY <1>1, <1>2, <1>3, <1>7, <2>1, <2>2 DEF OfTokens
<1>8. CASE l.kind = "TransferWithMemo"
  <2>1. Program[l.kind] = <<"claim", "read", "token", "supply", "memo", "holder", "finish">>
    BY <1>3, <1>8 DEF Program
  <2>2. pc \in 1 .. 7
    BY <1>1, <2>1
  <2> QED BY <1>1, <1>2, <1>3, <1>8, <2>1, <2>2 DEF OfTokens
<1> QED BY <1>3, <1>4, <1>5, <1>6, <1>7, <1>8 DEF Kinds

\* What the views of an event's book return.
LEMMA ViewsType ==
  ASSUME Inv, NEW l \in Rows
  PROVE  [owner |-> Owner(l.book), supply |-> Supply(l.book), version |-> Version(l.book)]
            \in ClassRow
<1> DEFINE b == l.book
<1>1. l \in logs /\ b \in Books
  BY RowType
<1>2. logs \subseteq Log /\ ChainSound
  BY AcquirerTypes DEF Inv, AcquirerInv
<1>3. Owner(b) \in Accounts
  <2> DEFINE ls == Of("OwnershipTransferred", b, None)
  <2>1. PICK m \in logs : m.kind = "OwnershipTransferred" /\ m.book = b
    BY <1>1, <1>2 DEF ChainSound, Owned
  <2>2. m.token = None
    BY <1>2, <2>1 DEF ChainSound, WellFormed, OfTokens
  <2>3. ls # {} /\ ls \subseteq Log
    BY <1>2, <2>1, <2>2 DEF Of
  <2>4. Newest(ls) \in ls
    BY <2>3, NewestIs
  <2>5. \A n \in ls : n.to \in Accounts
    BY <1>2 DEF Of, ChainSound, WellFormed
  <2> QED BY <2>4, <2>5 DEF Owner
<1>4. Supply(b) \in Nat
  <2>1. IsFiniteSet({t \in Tokens : Holder(b, t) # None})
    BY BookEventsAssumption, FS_Subset
  <2> QED BY <2>1, FS_CardinalityType DEF Supply
<1>5. Version(b) \in Nat
  <2> DEFINE ls == Of("ContractURIUpdated", b, None)
             update == [i \in 1 .. MaxBlocks |->
                [block |-> i, kind |-> "ContractURIUpdated", book |-> b, token |-> None, to |-> None]]
  <2>1. IsFiniteSet(1 .. MaxBlocks)
    BY BookEventsAssumption, FS_Interval
  <2>2. IsFiniteSet({update[i] : i \in 1 .. MaxBlocks})
    <3>1. update \in Surjection(1 .. MaxBlocks, {update[i] : i \in 1 .. MaxBlocks})
      BY DEF Surjection
    <3> HIDE DEF update
    <3> QED BY <2>1, <3>1, FS_Surjection
  <2>3. ASSUME NEW m \in ls PROVE m \in {update[i] : i \in 1 .. MaxBlocks}
    <3>1. m \in Log /\ m.kind = "ContractURIUpdated" /\ m.book = b /\ m.token = None
          /\ m.to = None
      BY <1>2 DEF Of, ChainSound, WellFormed
    <3>2. m.block \in 1 .. MaxBlocks /\ m = update[m.block]
      BY <3>1 DEF Log
    <3> QED BY <3>2
  <2>4. ls \subseteq {update[i] : i \in 1 .. MaxBlocks}
    BY <2>3
  <2>5. IsFiniteSet(ls)
    BY <2>2, <2>4, FS_Subset
  <2> QED BY <2>5, FS_CardinalityType DEF Version
<1> QED BY <1>3, <1>4, <1>5 DEF ClassRow

\* A statement on the tables, which the others' progress survives.
LEMMA TablesKeep ==
  ASSUME Inv, UNCHANGED <<chainVars, acquirerVars, queue, checker>>,
         TablesInv', TablesGrow, ProcessorInv'
  PROVE  Inv'
<1>1. AcquirerInv' /\ ChainSound' /\ RowsGrow /\ NoneProcessed
  BY RowsKeep
<1> QED BY <1>1, QueueKeeps, CheckerKeeps, AppliedKeeps DEF Inv

LEMMA StatusIs ==
  ASSUME Inv, NEW l \in Rows, NEW status \in Status, SetStatus(l, status)
  PROVE  /\ AcquirerInv' /\ ChainSound' /\ RowsGrow /\ QueueInv' /\ CheckerInv'
         /\ \A m \in Rows' : m \in Rows /\ evmEvents'[m] = IF m = l THEN status ELSE evmEvents[m]
<1>1. evmEvents \in [Rows -> Status]
  BY DEF Inv, AcquirerInv, AcquirerTypeOK
<1>2. evmEvents' = [evmEvents EXCEPT ![l] = status] /\ UNCHANGED <<chainVars, height, acquirer, queue, checker>>
  BY DEF SetStatus
<1>3. Rows' = Rows /\ evmEvents' \in [Rows' -> Status]
  BY <1>1, <1>2 DEF Rows
<1>4. AcquirerInv' /\ ChainSound' /\ RowsGrow
  BY <1>2, <1>3, StatusKeeps
<1>5. \A m \in Rows' : m \in Rows /\ evmEvents'[m] = IF m = l THEN status ELSE evmEvents[m]
  BY <1>1, <1>2, <1>3
<1> QED BY <1>2, <1>4, <1>5, QueueKeeps, CheckerKeeps

\* The task goes on with what it has read.
LEMMA ProceedInv ==
  ASSUME Inv, NEW w \in Workers, NEW step, At(w, step), Proceed(w), RowsGrow, TablesGrow,
         LET l == Task(w) IN
         /\ step # "read" /\ step # "finish"
         /\ step \in {"class", "owner", "metadata", "token"} => nftClass'[l.book] # None
         /\ step = "token" => l.token \in DOMAIN nft'[l.book]
         /\ step = "memo" => MemoOf(l) \in memos'
  PROVE  ProcessorInv'
<1> DEFINE l == Task(w)
           p == [processor[w] EXCEPT !.pc = @ + 1]
<1>1. /\ l \in Rows /\ l # None /\ processor[w] \in Processor /\ processor[w].log = l
      /\ processor \in [Workers -> Processor] /\ Progress(w) /\ processor[w].pc \in 1 .. 7
  BY StepIs
<1>2. l.kind \in Kinds /\ l.book \in Books
  BY <1>1, RowType
<1>3. p \in Processor /\ p.pc = processor[w].pc + 1 /\ p.log = l /\ p.read = processor[w].read
  BY <1>1 DEF Processor
<1>4. processor' = [processor EXCEPT ![w] = p] /\ processor'[w] = p
  BY <1>1 DEF Proceed, Goto
<1>5. step \in {"claim", "class", "owner", "metadata", "token", "supply", "memo", "holder"}
  BY <1>1, <1>2, StepIs DEF At, Program, Kinds
<1> HIDE DEF p
<1>6. Progress(w)'
  <2>1. l \in Rows'
    BY <1>1 DEF RowsGrow
  <2>2. l.kind # "OwnershipTransferred" /\ p.pc \in 3 .. 7 => p.read # None
    BY <1>1, <1>3, <1>5, StepIs DEF Progress, OfTokens
  <2>3. p.pc \in 4 .. 7 \/ (l.kind = "OwnershipTransferred" /\ p.pc = 3) =>
            nftClass'[l.book] # None
    BY <1>1, <1>2, <1>3, <1>5, StepIs DEF Progress, OfTokens, TablesGrow
  <2>4. l.kind \in OfTokens /\ p.pc \in 4 .. 7 => l.token \in DOMAIN nft'[l.book]
    BY <1>1, <1>2, <1>3, <1>5, StepIs DEF Progress, OfTokens, TablesGrow
  <2>5. l.kind = "TransferWithMemo" /\ p.pc \in 6 .. 7 => MemoOf(l) \in memos'
    BY <1>1, <1>2, <1>3, <1>5, StepIs DEF Progress, OfTokens, TablesGrow
  <2> QED BY <1>3, <1>4, <2>1, <2>2, <2>3, <2>4, <2>5 DEF Progress, MemoOf
<1> QED BY <1>3, <1>4, <1>6, ProcessorKeeps

\* A task that ends or fails claims nothing.
LEMMA DoneInv ==
  ASSUME Inv, NEW w \in Workers, ProcessorDone(w), RowsGrow, TablesGrow
  PROVE  ProcessorInv'
<1>1. processor' = [processor EXCEPT ![w] = NoProcessor]
  BY DEF ProcessorDone
<1>2. NoProcessor \in Processor /\ NoProcessor.log = None
  BY DEF NoProcessor, Processor
<1> QED BY <1>1, <1>2, ProcessorKeeps

LEMMA ClaimInv ==
  ASSUME Inv, NEW w \in Workers, Claim(w)
  PROVE  Inv'
<1>1. At(w, "claim") /\ SetStatus(Task(w), "processing") /\ Proceed(w) /\ UNCHANGED tables
  BY DEF Claim
<1>2. Task(w) \in Rows
  BY <1>1, StepIs
<1>3. "processing" \in Status
  BY DEF Status
<1>4. /\ AcquirerInv' /\ ChainSound' /\ RowsGrow /\ QueueInv' /\ CheckerInv'
      /\ \A m \in Rows' : m \in Rows /\ evmEvents'[m] = IF m = Task(w) THEN "processing"
                                                                     ELSE evmEvents[m]
  BY <1>1, <1>2, <1>3, StatusIs
<1>5. NoneProcessed
  BY <1>4 DEF NoneProcessed
<1>6. TablesInv' /\ TablesGrow
  BY <1>1, TablesUnchanged
<1>7. ProcessorInv'
  BY <1>1, <1>4, <1>6, ProceedInv
<1> QED BY <1>4, <1>5, <1>6, <1>7, AppliedKeeps DEF Inv

LEMMA ReadChainInv ==
  ASSUME Inv, NEW w \in Workers, ReadChain(w)
  PROVE  Inv'
<1> DEFINE l == Task(w)
<1>1. At(w, "read") /\ OnlyTables /\ UNCHANGED tables
  BY DEF ReadChain
<1>2. /\ l \in Rows /\ processor[w] \in Processor /\ processor[w].log = l
      /\ processor \in [Workers -> Processor] /\ processor[w].pc = 2
      /\ l.kind # "OwnershipTransferred"
  BY <1>1, StepIs
<1>3. PICK row \in ClassRow :
        processor' = [processor EXCEPT ![w].pc = @ + 1, ![w].read = row]
  BY <1>2, ViewsType DEF ReadChain
<1>4. row # None
  BY RowAssumption
<1>5. PICK p \in Processor :
        /\ processor' = [processor EXCEPT ![w] = p] /\ processor'[w] = p
        /\ p.pc = 3 /\ p.log = l /\ p.read = row
  <2>1. PICK q \in Processor : q = [processor[w] EXCEPT !.pc = @ + 1]
    <3>1. [processor[w] EXCEPT !.pc = @ + 1] \in Processor
      BY <1>2 DEF Processor
    <3> QED BY <3>1
  <2>2. q.pc = 3 /\ q.log = l
    BY <1>2, <2>1 DEF Processor
  <2>3. PICK p \in Processor : p = [q EXCEPT !.read = row]
    <3>1. [q EXCEPT !.read = row] \in Processor
      BY <1>3 DEF Processor
    <3> QED BY <3>1
  <2>4. p.pc = 3 /\ p.log = l /\ p.read = row
    BY <2>2, <2>3 DEF Processor
  <2>5. processor' = [processor EXCEPT ![w] = p]
    BY <1>2, <1>3, <2>1, <2>3
  <2> QED BY <1>2, <2>4, <2>5
<1>6. UNCHANGED <<chainVars, acquirerVars, queue, checker>>
  BY <1>1 DEF OnlyTables
<1>7. TablesInv' /\ TablesGrow /\ RowsGrow
  BY <1>1, <1>6, TablesUnchanged, RowsKeep
<1>8. Progress(w)'
  BY <1>2, <1>4, <1>5, <1>7 DEF Progress, RowsGrow
<1>9. ProcessorInv'
  BY <1>5, <1>7, <1>8, ProcessorKeeps
<1> QED BY <1>6, <1>7, <1>9, TablesKeep

LEMMA InsertClassInv ==
  ASSUME Inv, NEW w \in Workers, InsertClass(w)
  PROVE  Inv'
<1> DEFINE b == Task(w).book
           row == [processor[w].read EXCEPT !.version = 0]
<1>1. At(w, "class") /\ Proceed(w) /\ OnlyTables /\ UNCHANGED <<nft, memos>>
      /\ nftClass' = [nftClass EXCEPT ![b] = row]
  BY DEF InsertClass
<1>2. /\ processor[w] \in Processor /\ Progress(w) /\ processor[w].pc = 3
      /\ processor[w].log.kind = "NewBookNFT" /\ b \in Books
  BY <1>1, StepIs, RowType
<1>3. processor[w].read \in ClassRow
  BY <1>2 DEF Progress, Processor
<1>4. row \in ClassRow /\ row # None
  <2>1. row \in ClassRow
    BY <1>3 DEF ClassRow
  <2> QED BY <2>1, RowAssumption
<1> HIDE DEF row
<1>5. TablesInv' /\ TablesGrow /\ nftClass'[b] # None
  BY <1>1, <1>2, <1>4 DEF Inv, TablesInv, TablesGrow
<1>6. UNCHANGED <<chainVars, acquirerVars, queue, checker>>
  BY <1>1 DEF OnlyTables
<1>7. RowsGrow
  BY <1>6, RowsKeep
<1>8. ProcessorInv'
  BY <1>1, <1>5, <1>7, ProceedInv
<1> QED BY <1>5, <1>6, <1>8, TablesKeep

LEMMA UpdateClassInv ==
  ASSUME Inv, NEW w \in Workers, UpdateClass(w)
  PROVE  Inv'
<1> DEFINE l == Task(w)
           b == l.book
           read == processor[w].read
           row == nftClass[b]
           updated == CASE At(w, "owner") -> [row EXCEPT !.owner = l.to]
                        [] At(w, "metadata") -> [row EXCEPT !.version = read.version]
                        [] At(w, "supply") -> [row EXCEPT !.supply = read.supply]
<1>1. HasClass(w) /\ Proceed(w) /\ OnlyTables /\ UNCHANGED <<nft, memos>>
      /\ nftClass' = [nftClass EXCEPT ![b] = updated]
  BY DEF UpdateClass
<1>2. PICK step \in {"owner", "metadata", "supply"} : At(w, step)
  BY DEF UpdateClass
<1>3. l \in Rows /\ b \in Books /\ WellFormed(l)
  BY <1>2, StepIs, RowType
<1>4. row \in ClassRow
  BY <1>1, <1>3 DEF HasClass, Inv, TablesInv
<1>5. At(w, "owner") => l.to \in Accounts
  BY <1>3, StepIs DEF WellFormed
<1>6. At(w, "metadata") \/ At(w, "supply") => read \in ClassRow
  <2>1. ASSUME NEW s \in {"metadata", "supply"}, At(w, s) PROVE read \in ClassRow
    <3>1. /\ processor[w] \in Processor /\ Progress(w) /\ processor[w].pc \in 3 .. 4
          /\ processor[w].log.kind # "OwnershipTransferred"
      BY <2>1, StepIs DEF OfTokens
    <3> QED BY <3>1 DEF Progress, Processor
  <2> QED BY <2>1
<1>7. updated \in ClassRow
  <2>1. CASE At(w, "owner")
    <3>1. updated = [row EXCEPT !.owner = l.to]
      BY <2>1, StepIs
    <3> QED BY <1>4, <1>5, <2>1, <3>1 DEF ClassRow
  <2>2. CASE At(w, "metadata")
    <3>1. updated = [row EXCEPT !.version = read.version]
      BY <2>2, StepIs
    <3> QED BY <1>4, <1>6, <2>2, <3>1 DEF ClassRow
  <2>3. CASE At(w, "supply")
    <3>1. updated = [row EXCEPT !.supply = read.supply]
      BY <2>3, StepIs
    <3> QED BY <1>4, <1>6, <2>3, <3>1 DEF ClassRow
  <2> QED BY <1>2, <2>1, <2>2, <2>3
<1> HIDE DEF updated
<1>8. updated # None
  BY <1>7, RowAssumption
<1>9. TablesInv' /\ TablesGrow /\ nftClass'[b] # None
  BY <1>1, <1>3, <1>7, <1>8 DEF Inv, TablesInv, TablesGrow
<1>10. UNCHANGED <<chainVars, acquirerVars, queue, checker>>
  BY <1>1 DEF OnlyTables
<1>11. RowsGrow
  BY <1>10, RowsKeep
<1>12. ProcessorInv'
  BY <1>1, <1>2, <1>9, <1>11, ProceedInv
<1> QED BY <1>9, <1>10, <1>12, TablesKeep

\* A token that is given an owner is there, and others stay.
LEMMA OwnKeeps ==
  ASSUME Inv, NEW w \in Workers, Task(w) \in Rows, Task(w).kind \in OfTokens,
         Own(w), UNCHANGED <<nftClass, memos>>
  PROVE  TablesInv' /\ TablesGrow /\ Task(w).token \in DOMAIN nft'[Task(w).book]
<1> DEFINE l == Task(w)
           old == nft[l.book]
           D == DOMAIN old \cup {l.token}
           new == [t \in D |-> IF t = l.token THEN l.to ELSE old[t]]
<1>1. l.book \in Books /\ l.token \in Tokens /\ l.to \in Accounts \cup {None}
  BY RowType
<1>2. nft \in [Books -> Holders] /\ nft' = [nft EXCEPT ![l.book] = new]
  BY DEF Inv, TablesInv, Own
<1>3. DOMAIN old \subseteq Tokens /\ old \in [DOMAIN old -> Accounts \cup {None}]
  BY <1>1, <1>2, HoldersType
<1>4. DOMAIN new = D /\ D \subseteq Tokens /\ new \in [D -> Accounts \cup {None}]
  BY <1>1, <1>3
<1>5. new \in Holders
  BY <1>4, HoldersType
<1>6. DOMAIN old \subseteq DOMAIN new /\ l.token \in DOMAIN new
  BY <1>4
<1> HIDE DEF new, D
<1>7. nft' \in [Books -> Holders] /\ nft'[l.book] = new
      /\ \A c \in Books : c # l.book => nft'[c] = nft[c]
  BY <1>1, <1>2, <1>5
<1>8. \A c \in Books : DOMAIN nft[c] \subseteq DOMAIN nft'[c]
  BY <1>6, <1>7
<1> QED BY <1>6, <1>7, <1>8 DEF Inv, TablesInv, TablesGrow

LEMMA CreateTokenInv ==
  ASSUME Inv, NEW w \in Workers, CreateToken(w)
  PROVE  Inv'
<1> DEFINE l == Task(w)
<1>1. At(w, "token") /\ HasClass(w) /\ Proceed(w) /\ OnlyTables /\ UNCHANGED <<nftClass, memos>>
  BY DEF CreateToken
<1>2. l \in Rows /\ l.kind \in OfTokens
  BY <1>1, StepIs
<1>3. TablesInv' /\ TablesGrow /\ l.token \in DOMAIN nft'[l.book]
  <2>1. CASE l.token \in DOMAIN nft[l.book] /\ UNCHANGED nft
    BY <1>1, <2>1, TablesUnchanged DEF tables
  <2>2. CASE Own(w)
    BY <1>1, <1>2, <2>2, OwnKeeps
  <2> QED BY <2>1, <2>2 DEF CreateToken
<1>4. UNCHANGED <<chainVars, acquirerVars, queue, checker>> /\ nftClass'[l.book] # None
  BY <1>1 DEF OnlyTables, HasClass
<1>5. RowsGrow
  BY <1>4, RowsKeep
<1>6. ProcessorInv'
  BY <1>1, <1>3, <1>4, <1>5, ProceedInv
<1> QED BY <1>3, <1>4, <1>6, TablesKeep

LEMMA InsertMemoInv ==
  ASSUME Inv, NEW w \in Workers, InsertMemo(w)
  PROVE  Inv'
<1> DEFINE l == Task(w)
<1>1. At(w, "memo") /\ Proceed(w) /\ OnlyTables /\ UNCHANGED <<nftClass, nft>>
      /\ memos' = memos \cup {MemoOf(l)}
  BY DEF InsertMemo, MemoOf
<1>2. l.block \in 1 .. MaxBlocks /\ l.book \in Books /\ l.token \in Tokens
  <2>1. l \in Rows /\ l.kind \in OfTokens
    BY <1>1, StepIs DEF OfTokens
  <2> QED BY <2>1, RowType
<1>3. TablesInv' /\ TablesGrow /\ MemoOf(l) \in memos'
  BY <1>1, <1>2 DEF Inv, TablesInv, TablesGrow, MemoOf
<1>4. UNCHANGED <<chainVars, acquirerVars, queue, checker>>
  BY <1>1 DEF OnlyTables
<1>5. RowsGrow
  BY <1>4, RowsKeep
<1>6. ProcessorInv'
  BY <1>1, <1>3, <1>5, ProceedInv
<1> QED BY <1>3, <1>4, <1>6, TablesKeep

LEMMA UpdateHolderInv ==
  ASSUME Inv, NEW w \in Workers, UpdateHolder(w)
  PROVE  Inv'
<1>1. At(w, "holder") /\ Own(w) /\ Proceed(w) /\ OnlyTables /\ UNCHANGED <<nftClass, memos>>
  BY DEF UpdateHolder
<1>2. Task(w) \in Rows /\ Task(w).kind \in OfTokens
  BY <1>1, StepIs
<1>3. TablesInv' /\ TablesGrow
  BY <1>1, <1>2, OwnKeeps
<1>4. UNCHANGED <<chainVars, acquirerVars, queue, checker>>
  BY <1>1 DEF OnlyTables
<1>5. RowsGrow
  BY <1>4, RowsKeep
<1>6. ProcessorInv'
  BY <1>1, <1>3, <1>5, ProceedInv
<1> QED BY <1>3, <1>4, <1>6, TablesKeep

\* By its last statement a task has done what its event stands for.
LEMMA FinishInv ==
  ASSUME Inv, NEW w \in Workers, Finish(w)
  PROVE  Inv'
<1> DEFINE l == Task(w)
<1>1. At(w, "finish") /\ SetStatus(l, "processed") /\ ProcessorDone(w) /\ UNCHANGED tables
  BY DEF Finish
<1>2. /\ l \in Rows /\ processor[w].log = l /\ Progress(w)
      /\ processor[w].pc \in 4 .. 7 \/ (l.kind = "OwnershipTransferred" /\ processor[w].pc = 3)
      /\ l.kind = "TransferWithMemo" => processor[w].pc = 7
  BY <1>1, StepIs
<1>3. "processed" \in Status
  BY DEF Status
<1>4. /\ AcquirerInv' /\ ChainSound' /\ RowsGrow /\ QueueInv' /\ CheckerInv'
      /\ \A m \in Rows' : m \in Rows /\ evmEvents'[m] = IF m = l THEN "processed"
                                                              ELSE evmEvents[m]
  BY <1>1, <1>2, <1>3, StatusIs
<1>5. TablesInv' /\ TablesGrow /\ nftClass' = nftClass /\ nft' = nft /\ memos' = memos
  BY <1>1, TablesUnchanged DEF tables
<1>6. ProcessorInv'
  BY <1>1, <1>4, <1>5, DoneInv
<1>7. /\ nftClass[l.book] # None
      /\ l.token # None => l.token \in DOMAIN nft[l.book]
      /\ l.kind = "TransferWithMemo" => MemoOf(l) \in memos
  <2>1. WellFormed(l)
    BY <1>2, RowType
  <2> QED BY <1>2, <2>1 DEF Progress, WellFormed, OfTokens
<1>8. ProcessedIsApplied'
  <2> SUFFICES ASSUME NEW m \in Rows', evmEvents'[m] = "processed"
               PROVE  /\ nftClass[m.book] # None
                      /\ m.token # None => m.token \in DOMAIN nft[m.book]
                      /\ m.kind = "TransferWithMemo" => MemoOf(m) \in memos
    BY <1>5 DEF ProcessedIsApplied, MemoOf
  <2>1. CASE m = l
    BY <1>7, <2>1
  <2>2. CASE m # l
    <3>1. m \in Rows /\ evmEvents[m] = "processed"
      BY <1>4, <2>2
    <3> QED BY <3>1 DEF Inv, ProcessedIsApplied, MemoOf
  <2> QED BY <2>1, <2>2
<1> QED BY <1>4, <1>5, <1>6, <1>8 DEF Inv

LEMMA StepFailsInv ==
  ASSUME Inv, NEW w \in Workers, StepFails(w)
  PROVE  Inv'
<1> DEFINE p == [processor[w] EXCEPT !.pc = 8]
<1>1. PICK step : At(w, step)
  BY DEF StepFails
<1>2. Goto(w, 8) /\ OnlyTables /\ UNCHANGED tables
  BY DEF StepFails
<1>3. /\ Task(w) \in Rows /\ processor[w] \in Processor /\ processor[w].log = Task(w)
      /\ processor \in [Workers -> Processor]
  BY <1>1, StepIs
<1>4. p \in Processor /\ p.pc = 8 /\ p.log = Task(w)
  BY <1>3 DEF Processor
<1>5. processor' = [processor EXCEPT ![w] = p] /\ processor'[w] = p
  BY <1>2, <1>3 DEF Goto
<1> HIDE DEF p
<1>6. UNCHANGED <<chainVars, acquirerVars, queue, checker>>
  BY <1>2 DEF OnlyTables
<1>7. TablesInv' /\ TablesGrow /\ RowsGrow
  BY <1>2, <1>6, TablesUnchanged, RowsKeep
<1>8. Progress(w)'
  BY <1>3, <1>4, <1>5, <1>7 DEF Progress, RowsGrow
<1>9. ProcessorInv'
  BY <1>4, <1>5, <1>7, <1>8, ProcessorKeeps
<1> QED BY <1>6, <1>7, <1>9, TablesKeep

LEMMA FailInv ==
  ASSUME Inv, NEW w \in Workers, Fail(w)
  PROVE  Inv'
<1> DEFINE l == Task(w)
<1>1. l # None /\ SetStatus(l, "failed") /\ ProcessorDone(w) /\ UNCHANGED tables
  BY DEF Fail, Failing
<1>2. l \in Rows
  BY <1>1 DEF Inv, ProcessorInv, Progress, Task
<1>3. "failed" \in Status
  BY DEF Status
<1>4. /\ AcquirerInv' /\ ChainSound' /\ RowsGrow /\ QueueInv' /\ CheckerInv'
      /\ \A m \in Rows' : m \in Rows /\ evmEvents'[m] = IF m = l THEN "failed" ELSE evmEvents[m]
  BY <1>1, <1>2, <1>3, StatusIs
<1>5. NoneProcessed
  BY <1>4 DEF NoneProcessed
<1>6. TablesInv' /\ TablesGrow
  BY <1>1, TablesUnchanged
<1>7. ProcessorInv'
  BY <1>1, <1>4, <1>6, DoneInv
<1> QED BY <1>4, <1>5, <1>6, <1>7, AppliedKeeps DEF Inv

LEMMA DieInv ==
  ASSUME Inv, NEW w \in Workers, Die(w)
  PROVE  Inv'
<1>1. ProcessorDone(w) /\ OnlyTables /\ UNCHANGED tables
  BY DEF Die
<1>2. UNCHANGED <<chainVars, acquirerVars, queue, checker>>
  BY <1>1 DEF OnlyTables
<1>3. TablesInv' /\ TablesGrow /\ RowsGrow
  BY <1>1, <1>2, TablesUnchanged, RowsKeep
<1>4. ProcessorInv'
  BY <1>1, <1>3, DoneInv
<1> QED BY <1>2, <1>3, <1>4, TablesKeep

-----------------------------------------------------------------------------
(* The invariant.                                                          *)

LEMMA WorkerInv ==
  ASSUME Inv, NEW w \in Workers,
         \/ CheckBegin(w) \/ ProcessBegin(w) \/ ProcessAtCli(w)
         \/ Checking(w) \/ Processing(w)
  PROVE  Inv'
<1>1. CASE CheckBegin(w) \/ Checking(w)
  BY <1>1, CheckBeginInv, EnqueueInv, MarkInv, CheckFailsInv DEF Checking
<1>2. CASE ProcessBegin(w) \/ ProcessAtCli(w)
  BY <1>2, ProcessBeginInv, ProcessAtCliInv
<1>3. CASE Claim(w) \/ ReadChain(w) \/ InsertClass(w) \/ UpdateClass(w)
  BY <1>3, ClaimInv, ReadChainInv, InsertClassInv, UpdateClassInv
<1>4. CASE CreateToken(w) \/ InsertMemo(w) \/ UpdateHolder(w)
  BY <1>4, CreateTokenInv, InsertMemoInv, UpdateHolderInv
<1>5. CASE Finish(w) \/ StepFails(w) \/ Fail(w) \/ Die(w)
  BY <1>5, FinishInv, StepFailsInv, FailInv, DieInv
<1> QED BY <1>1, <1>2, <1>3, <1>4, <1>5 DEF Processing

LEMMA StepInv ==
  ASSUME Inv, [Next]_vars
  PROVE  Inv'
<1>1. CASE Transaction /\ UNCHANGED <<acquirerVars, taskVars, tables>>
  BY <1>1, TransactionInv
<1>2. ASSUME NEW w \in Acquirers, Acquiring(w) PROVE Inv'
  BY <1>2, AcquiringInv
<1>3. ASSUME NEW w \in Acquirers, NEW s \in Streams, Acquire(w, s) PROVE Inv'
  BY <1>3, AcquireInv
<1>4. ASSUME NEW w \in Workers,
             \/ CheckBegin(w) \/ ProcessBegin(w) \/ ProcessAtCli(w)
             \/ Checking(w) \/ Processing(w)
      PROVE  Inv'
  BY <1>4, WorkerInv
<1>5. CASE UNCHANGED vars
  <2>1. UNCHANGED <<chainVars, acquirerVars, taskVars, tables>>
    BY <1>5 DEF vars
  <2>2. AcquirerInv' /\ ChainSound' /\ RowsGrow /\ NoneProcessed
    BY <2>1, RowsKeep
  <2> QED BY <2>1, <2>2, ElseKeeps
<1> QED BY <1>1, <1>2, <1>3, <1>4, <1>5 DEF Next

\* The rows, the tasks and the tables as one invariant.
THEOREM InvCorrect == Spec => []Inv
<1>1. Init => Inv
  BY InitInv
<1>2. Inv /\ [Next]_vars => Inv'
  BY StepInv
<1> QED BY <1>1, <1>2, PTL DEF Spec

\* Rows, tasks and tables are what their columns and fields allow, and a row
\* is of a log that was emitted.
THEOREM TypeOKCorrect == Spec => []TypeOK
<1>1. Inv => TypeOK
  BY InvTypeOK
<1> QED BY <1>1, InvCorrect, PTL

\* Whatever acquire tasks run at once or fail, below the height of its stream
\* every log is of a transaction that has a row (AcquireEVMEvents).
THEOREM NothingSkippedCorrect == Spec => []NothingSkipped
<1>1. Inv => NothingSkipped
  BY DEF Inv, AcquirerInv
<1> QED BY <1>1, InvCorrect, PTL

\* A transaction's logs of one stream have rows together or not at all
\* (InsertEvmEventsIfNeeded).
THEOREM WholeStreamsCorrect == Spec => []WholeStreams
<1>1. Inv => WholeStreams
  BY DEF Inv, AcquirerInv
<1> QED BY <1>1, InvCorrect, PTL

\* An event that is processed is in the tables, however many tasks process it
\* and whichever of them fail (Process).
THEOREM ProcessedIsAppliedCorrect == Spec => []ProcessedIsApplied
<1>1. Inv => ProcessedIsApplied
  BY DEF Inv
<1> QED BY <1>1, InvCorrect, PTL

-----------------------------------------------------------------------------
(* One task at a time: columns that are read from the chain.               *)

OneWorker == \A v, w \in Workers : v = w

Columns == {"supply", "version"}

KindsOf(col) == IF col = "supply" THEN OfTokens ELSE {"ContractURIUpdated"}

View(col, b) == IF col = "supply" THEN Supply(b) ELSE Version(b)
Cell(row, col) == IF col = "supply" THEN row.supply ELSE row.version

Concerns(l, b, col) == l.book = b /\ l.kind \in KindsOf(col)

\* Every transaction that changed the column of b has a row.
Stored(b, col) == \A l \in logs : Concerns(l, b, col) => HasRow(l)

\* A row has the column of now, or there is an event to come that will set it.
Fresh(row, b, col) == Stored(b, col) => Cell(row, col) = View(col, b)

\* A transaction that changes a column of a book emits nothing else.
OneConcern ==
    \A b \in Books, col \in Columns :
        \A l, m \in logs : l.block = m.block /\ Concerns(l, b, col) => Concerns(m, b, col)

ColumnsCurrent ==
    \A b \in Books, col \in Columns :
        nftClass[b] # None /\ Caught(b, KindsOf(col)) => Cell(nftClass[b], col) = View(col, b)

\* The task, if any, has read what is still so, or else rows are to come, for
\* nothing inserts any until it ends.
TaskFresh(w) ==
    LET p == processor[w]
        l == p.log
    IN
    /\ l.kind # "OwnershipTransferred" /\ p.pc \in 3 .. 7 =>
            \A col \in Columns : Fresh(p.read, l.book, col)
    /\ l.kind \in OfTokens /\ p.pc \in 5 .. 7 => Fresh(nftClass[l.book], l.book, "supply")
    /\ l.kind = "ContractURIUpdated" /\ p.pc \in 4 .. 7 =>
            Fresh(nftClass[l.book], l.book, "version")

Exclusive == \A w \in Acquirers : acquirer[w].pc # "idle" => processor[w].log = None

CurrentInv ==
    /\ Exclusive /\ OneConcern /\ ColumnsCurrent
    /\ \A w \in Workers : processor[w].log # None => TaskFresh(w)

\* What is stored now was stored, and shows what it showed.
Behind ==
    \A b \in Books, col \in Columns :
        Stored(b, col)' => Stored(b, col) /\ View(col, b)' = View(col, b)

LEMMA ColumnsType ==
  \A col \in Columns : KindsOf(col) \subseteq Kinds
  BY DEF Columns, KindsOf, OfTokens, Kinds

\* A view of a book changes by the logs that concern it only.
LEMMA ViewSame ==
  ASSUME NEW ls, logs' = logs \cup ls, NEW b, NEW col,
         \A l \in ls : ~ Concerns(l, b, col)
  PROVE  View(col, b)' = View(col, b)
<1>1. CASE col = "supply"
  <2>1. ASSUME NEW t PROVE Of("Transfer", b, t)' = Of("Transfer", b, t)
    BY <1>1 DEF Of, Concerns, KindsOf, OfTokens
  <2>2. ASSUME NEW t PROVE Holder(b, t)' = Holder(b, t)
    BY <2>1 DEF Holder, Issued
  <2>3. Supply(b)' = Supply(b)
    BY <2>2 DEF Supply
  <2> QED BY <1>1, <2>3 DEF View
<1>2. CASE col # "supply"
  <2>1. Of("ContractURIUpdated", b, None)' = Of("ContractURIUpdated", b, None)
    BY <1>2 DEF Of, Concerns, KindsOf
  <2>2. Version(b)' = Version(b)
    BY <2>1 DEF Version
  <2> QED BY <1>2, <2>2 DEF View
<1> QED BY <1>1, <1>2

LEMMA RowsSame ==
  ASSUME logs' = logs, Rows' = Rows
  PROVE  Behind
<1>1. ASSUME NEW b \in Books, NEW col \in Columns PROVE View(col, b)' = View(col, b)
  <2>1. PICK ls : ls = {}
    OBVIOUS
  <2>2. logs' = logs \cup ls /\ \A l \in ls : ~ Concerns(l, b, col)
    BY <2>1
  <2> QED BY <2>2, ViewSame
<1>2. ASSUME NEW b \in Books, NEW col \in Columns, Stored(b, col)' PROVE Stored(b, col)
  BY <1>2 DEF Stored, HasRow
<1> QED BY <1>1, <1>2 DEF Behind

LEMMA CaughtIs ==
  ASSUME NEW b, NEW col
  PROVE  Caught(b, KindsOf(col)) <=>
            /\ Stored(b, col)
            /\ \A r \in Rows : Concerns(r, b, col) => evmEvents[r] = "processed"
  BY DEF Caught, Stored, Concerns, HasRow

LEMMA ColumnsKeep ==
  ASSUME Behind, RowsGrow, NoneProcessed, ColumnsCurrent, UNCHANGED nftClass
  PROVE  ColumnsCurrent'
<1> SUFFICES ASSUME NEW b \in Books, NEW col \in Columns,
                    nftClass'[b] # None, Caught(b, KindsOf(col))'
             PROVE  (Cell(nftClass[b], col) = View(col, b))'
  BY DEF ColumnsCurrent
<1>1. /\ Stored(b, col)'
      /\ \A r \in Rows' : Concerns(r, b, col) => evmEvents'[r] = "processed"
  BY DEF Caught, Stored, Concerns, HasRow
<1>2. Stored(b, col) /\ View(col, b)' = View(col, b)
  BY <1>1 DEF Behind
<1>3. \A r \in Rows : Concerns(r, b, col) => evmEvents[r] = "processed"
  BY <1>1 DEF RowsGrow, NoneProcessed
<1>4. Cell(nftClass[b], col) = View(col, b)
  BY <1>2, <1>3, CaughtIs DEF ColumnsCurrent
<1> QED BY <1>2, <1>4 DEF Cell

LEMMA TaskKeeps ==
  ASSUME Inv, CurrentInv, Behind, UNCHANGED <<processor, nftClass>>
  PROVE  \A w \in Workers : processor'[w].log # None => TaskFresh(w)'
<1> SUFFICES ASSUME NEW w \in Workers, processor[w].log # None
             PROVE  TaskFresh(w)'
  OBVIOUS
<1>1. TaskFresh(w)
  BY DEF CurrentInv
<1>2. processor[w].log \in Rows
  BY DEF Inv, ProcessorInv, Progress, Task
<1>3. processor[w].log.book \in Books
  BY <1>2, RowType
<1>4. {"supply", "version"} = Columns
  BY DEF Columns
<1> QED BY <1>1, <1>3, <1>4 DEF TaskFresh, Fresh, Cell, Behind

\* A transaction is of one block, and what it emits concerns one column.
LEMMA EmittedConcerns ==
  ASSUME NEW kinds, NEW bs, NEW ts, NEW a, Mine(Emitted(kinds, bs, ts, a)),
         \/ \A col \in Columns : kinds \cap KindsOf(col) = {}
         \/ \E c \in Books, d \in Columns :
                bs = {c} /\ kinds \subseteq KindsOf(d)
  PROVE  \E ls :
            /\ logs' = logs \cup ls /\ \A l \in ls : l.block = head + 1
            /\ \A b \in Books, col \in Columns : \A l, m \in ls :
                    Concerns(l, b, col) => Concerns(m, b, col)
<1> DEFINE ls == Emitted(kinds, bs, ts, a)
<1>1. logs' = logs \cup ls
  BY DEF Mine
<1>2. \A l \in ls : l.block = head + 1 /\ l.kind \in kinds /\ l.book \in bs
  BY DEF Emitted
<1>3. \A k, d, e : d \in Columns /\ e \in Columns /\ k \in KindsOf(d) /\ k \in KindsOf(e) => d = e
  BY DEF Columns, KindsOf, OfTokens
<1>4. ASSUME NEW b \in Books, NEW col \in Columns, NEW l \in ls, NEW m \in ls,
             Concerns(l, b, col)
      PROVE  Concerns(m, b, col)
  <2>1. l.book = b /\ l.kind \in KindsOf(col) /\ l.kind \in kinds
    BY <1>2, <1>4 DEF Concerns
  <2>2. PICK c \in Books, d \in Columns : bs = {c} /\ kinds \subseteq KindsOf(d)
    BY <2>1
  <2>3. m.book = c /\ l.book = c /\ m.kind \in KindsOf(d) /\ d = col
    BY <1>2, <1>3, <2>1, <2>2
  <2> QED BY <2>1, <2>3 DEF Concerns
<1> HIDE DEF ls
<1> QED BY <1>1, <1>2, <1>4

LEMMA TransactionConcerns ==
  ASSUME Transaction
  PROVE  \E ls :
            /\ logs' = logs \cup ls /\ \A l \in ls : l.block = head + 1
            /\ \A b \in Books, col \in Columns : \A l, m \in ls :
                    Concerns(l, b, col) => Concerns(m, b, col)
<1> DEFINE Goal ==
        \E ls :
            /\ logs' = logs \cup ls /\ \A l \in ls : l.block = head + 1
            /\ \A b \in Books, col \in Columns : \A l, m \in ls :
                    Concerns(l, b, col) => Concerns(m, b, col)
<1>1. ASSUME NEW kinds, NEW bs, NEW ts, NEW a, Mine(Emitted(kinds, bs, ts, a)),
             \A col \in Columns : kinds \cap KindsOf(col) = {}
      PROVE  Goal
  BY <1>1, EmittedConcerns
<1>2. ASSUME NEW kinds, NEW b \in Books, NEW ts, NEW a, Mine(Emitted(kinds, {b}, ts, a)),
             NEW col \in Columns, kinds \subseteq KindsOf(col)
      PROVE  Goal
  BY <1>2, EmittedConcerns
<1> HIDE DEF Goal
<1>3. /\ "supply" \in Columns /\ KindsOf("supply") = {"Transfer", "TransferWithMemo"}
      /\ "version" \in Columns /\ KindsOf("version") = {"ContractURIUpdated"}
      /\ \A col \in Columns : col = "supply" \/ col = "version"
  BY DEF Columns, KindsOf, OfTokens
<1>4. ASSUME NEW bs, NEW a, NewBooks(bs, a) PROVE Goal
  <2>1. Mine(Emitted({"NewBookNFT", "OwnershipTransferred"}, bs, {None}, a))
    BY <1>4 DEF NewBooks
  <2>2. \A col \in Columns : {"NewBookNFT", "OwnershipTransferred"} \cap KindsOf(col) = {}
    BY <1>3
  <2> QED BY <1>1, <2>1, <2>2
<1>5. ASSUME NEW b \in Books, NEW ts, NEW a, MintTx(b, ts, a) \/ MemoTransferTx(b, ts, a)
      PROVE  Goal
  <2>1. Mine(Emitted({"Transfer", "TransferWithMemo"}, {b}, ts, a))
    BY <1>5 DEF MintTx, MemoTransferTx
  <2> QED BY <1>2, <1>3, <2>1
<1>6. ASSUME NEW b \in Books, NEW t, NEW a, TransferTx(b, t, a) PROVE Goal
  <2>1. Mine(Emitted({"Transfer"}, {b}, {t}, a)) /\ {"Transfer"} \subseteq KindsOf("supply")
    BY <1>3, <1>6 DEF TransferTx
  <2> QED BY <1>2, <1>3, <2>1
<1>7. ASSUME NEW b \in Books, NEW a, OwnershipTx(b, a) PROVE Goal
  <2>1. Mine(Emitted({"OwnershipTransferred"}, {b}, {None}, a))
    BY <1>7 DEF OwnershipTx
  <2>2. \A col \in Columns : {"OwnershipTransferred"} \cap KindsOf(col) = {}
    BY <1>3
  <2> QED BY <1>1, <2>1, <2>2
<1>8. ASSUME NEW b \in Books, UpdateTx(b) PROVE Goal
  <2>1. Mine(Emitted({"ContractURIUpdated"}, {b}, {None}, None))
        /\ {"ContractURIUpdated"} \subseteq KindsOf("version")
    BY <1>3, <1>8 DEF UpdateTx
  <2> QED BY <1>2, <1>3, <2>1
<1>9. Goal
  BY <1>4, <1>5, <1>6, <1>7, <1>8 DEF Transaction
<1> QED BY <1>9 DEF Goal

\* New logs have no rows yet.
LEMMA TransactionBehind ==
  ASSUME Inv, OneConcern, Transaction, UNCHANGED acquirerVars
  PROVE  Behind /\ OneConcern'
<1>1. PICK ls :
        /\ logs' = logs \cup ls /\ \A l \in ls : l.block = head + 1
        /\ \A b \in Books, col \in Columns : \A l, m \in ls :
                Concerns(l, b, col) => Concerns(m, b, col)
  BY TransactionConcerns
<1>2. /\ head \in Nat /\ Rows \subseteq logs
      /\ \A l \in logs : l.block \in Nat /\ l.block <= head
  BY AcquirerTypes DEF Inv, AcquirerInv
<1>3. Rows' = Rows
  BY DEF acquirerVars, Rows
<1>4. ASSUME NEW b \in Books, NEW col \in Columns, Stored(b, col)'
      PROVE  Stored(b, col) /\ View(col, b)' = View(col, b)
  <2>1. \A l \in ls : ~ Concerns(l, b, col)
    <3> SUFFICES ASSUME NEW l \in ls, Concerns(l, b, col) PROVE FALSE
      OBVIOUS
    <3>1. PICK r \in Rows : r.block = l.block
      BY <1>1, <1>3, <1>4 DEF Stored, HasRow
    <3> QED BY <1>1, <1>2, <3>1
  <2>2. View(col, b)' = View(col, b)
    BY <1>1, <2>1, ViewSame
  <2>3. Stored(b, col)
    BY <1>1, <1>3, <1>4 DEF Stored, HasRow
  <2> QED BY <2>2, <2>3
<1>5. OneConcern'
  <2> SUFFICES ASSUME NEW b \in Books, NEW col \in Columns, NEW l \in logs', NEW m \in logs',
                      l.block = m.block, Concerns(l, b, col)
               PROVE  Concerns(m, b, col)
    BY DEF OneConcern
  <2>1. CASE l \in logs /\ m \in logs
    BY <2>1 DEF OneConcern
  <2>2. CASE l \in ls /\ m \in ls
    BY <1>1, <2>2
  <2>3. CASE (l \in logs /\ m \in ls) \/ (l \in ls /\ m \in logs)
    BY <1>1, <1>2, <2>3
  <2> QED BY <1>1, <2>1, <2>2, <2>3
<1> QED BY <1>4, <1>5 DEF Behind

\* Steps that leave to the tables and the rows what they are, and start no task.
LEMMA ElseCurrent ==
  ASSUME Inv, CurrentInv, Behind, OneConcern', RowsGrow, NoneProcessed,
         UNCHANGED <<processor, nftClass>>,
         \A w \in Acquirers : acquirer'[w].pc # "idle" =>
            acquirer[w].pc # "idle" \/ processor[w].log = None
  PROVE  CurrentInv'
<1>1. Exclusive'
  BY DEF CurrentInv, Exclusive
<1>2. ColumnsCurrent'
  BY ColumnsKeep DEF CurrentInv
<1>3. \A w \in Workers : processor'[w].log # None => TaskFresh(w)'
  BY TaskKeeps
<1> QED BY <1>1, <1>2, <1>3 DEF CurrentInv

LEMMA TransactionCurrent ==
  ASSUME Inv, CurrentInv, Transaction, UNCHANGED <<acquirerVars, taskVars, tables>>
  PROVE  CurrentInv'
<1>1. Behind /\ OneConcern'
  BY TransactionBehind DEF CurrentInv
<1>2. acquirer' = acquirer /\ evmEvents' = evmEvents /\ UNCHANGED <<processor, nftClass>>
  BY DEF acquirerVars, taskVars, tables
<1>3. RowsGrow /\ NoneProcessed
  BY <1>2 DEF RowsGrow, NoneProcessed, Rows
<1> QED BY <1>1, <1>2, <1>3, ElseCurrent

LEMMA LogsSame ==
  ASSUME CurrentInv, UNCHANGED logs
  PROVE  OneConcern'
  BY DEF CurrentInv, OneConcern, Concerns

\* Steps that change neither the chain nor the rows.
LEMMA RowsCurrent ==
  ASSUME Inv, CurrentInv, UNCHANGED <<logs, evmEvents, processor, nftClass>>,
         \A w \in Acquirers : acquirer'[w].pc # "idle" =>
            acquirer[w].pc # "idle" \/ processor[w].log = None
  PROVE  CurrentInv'
<1>1. Rows' = Rows /\ RowsGrow /\ NoneProcessed
  BY DEF Rows, RowsGrow, NoneProcessed
<1> QED BY <1>1, RowsSame, LogsSame, ElseCurrent

LEMMA AcquireCurrent ==
  ASSUME Inv, CurrentInv, NEW w \in Acquirers, NEW s \in Streams, Acquire(w, s)
  PROVE  CurrentInv'
<1>1. /\ UNCHANGED <<logs, evmEvents, processor, nftClass>> /\ processor[w].log = None
      /\ acquirer' = [acquirer EXCEPT ![w].pc = "fetch", ![w].stream = s, ![w].top = height[s]]
  BY DEF Acquire, AcquireBegin, Free, chainVars, taskVars, tables
<1>2. acquirer \in [Acquirers -> Acquirer]
  BY DEF Inv, AcquirerInv, AcquirerTypeOK
<1>3. \A v \in Acquirers : v # w => acquirer'[v] = acquirer[v]
  BY <1>1, <1>2
<1> QED BY <1>1, <1>3, RowsCurrent

\* A row that is inserted is to be processed yet.
LEMMA CommitCurrent ==
  ASSUME OneWorker, Inv, Inv', CurrentInv, NEW w \in Acquirers,
         acquirer[w].pc = "commit", UNCHANGED <<logs, processor, nftClass>>,
         NEW todo,
         evmEvents' = [l \in Rows \cup todo |->
                            IF l \in todo THEN "received" ELSE evmEvents[l]]
  PROVE  CurrentInv'
<1>1. \A v \in Workers : processor[v].log = None
  BY IndexerAssumption DEF OneWorker, CurrentInv, Exclusive
<1>2. Exclusive' /\ \A v \in Workers : processor'[v].log # None => TaskFresh(v)'
  BY <1>1, IndexerAssumption DEF Exclusive
<1>3. OneConcern'
  BY LogsSame
<1>4. /\ Rows' = Rows \cup todo
      /\ \A r \in todo : evmEvents'[r] = "received"
      /\ \A r \in Rows : evmEvents'[r] = "processed" => evmEvents[r] = "processed"
  BY DEF Rows
<1>5. Rows' \subseteq logs
  BY DEF Inv, AcquirerInv, AcquirerTypeOK
<1>6. ASSUME NEW b \in Books, NEW col \in Columns PROVE View(col, b)' = View(col, b)
  <2>1. PICK ls : ls = {}
    OBVIOUS
  <2>2. logs' = logs \cup ls /\ \A l \in ls : ~ Concerns(l, b, col)
    BY <2>1
  <2> QED BY <2>2, ViewSame
<1>7. ColumnsCurrent'
  <2> SUFFICES ASSUME NEW b \in Books, NEW col \in Columns,
                      nftClass'[b] # None, Caught(b, KindsOf(col))'
               PROVE  (Cell(nftClass[b], col) = View(col, b))'
    BY DEF ColumnsCurrent
  <2>1. /\ Stored(b, col)'
        /\ \A r \in Rows' : Concerns(r, b, col) => evmEvents'[r] = "processed"
    BY DEF Caught, Stored, Concerns, HasRow
  <2>2. \A r \in todo : ~ Concerns(r, b, col)
    BY <1>4, <2>1
  <2>3. Stored(b, col)
    <3> SUFFICES ASSUME NEW l \in logs, Concerns(l, b, col) PROVE HasRow(l)
      BY DEF Stored
    <3>1. PICK r \in Rows' : r.block = l.block
      BY <2>1 DEF Stored, HasRow
    <3>2. Concerns(r, b, col)
      BY <1>5, <3>1 DEF CurrentInv, OneConcern
    <3>3. r \in Rows
      BY <1>4, <2>2, <3>2
    <3> QED BY <3>1, <3>3 DEF HasRow
  <2>4. \A r \in Rows : Concerns(r, b, col) => evmEvents[r] = "processed"
    BY <1>4, <2>1
  <2>5. Cell(nftClass[b], col) = View(col, b)
    BY <2>3, <2>4, CaughtIs DEF CurrentInv, ColumnsCurrent
  <2> QED BY <1>6, <2>5 DEF Cell
<1> QED BY <1>2, <1>3, <1>7 DEF CurrentInv

LEMMA AcquiringCurrent ==
  ASSUME OneWorker, Inv, Inv', CurrentInv, NEW w \in Acquirers, Acquiring(w)
  PROVE  CurrentInv'
<1>1. AcquireStep(w) /\ UNCHANGED <<logs, processor, nftClass>>
  BY DEF Acquiring, chainVars, taskVars, tables
<1>2. acquirer \in [Acquirers -> Acquirer]
  BY DEF Inv, AcquirerInv, AcquirerTypeOK
<1>3. \A v \in Acquirers : v # w => acquirer'[v] = acquirer[v]
  BY <1>1, <1>2 DEF AcquireStep, Fetch, Select, Count, Commit, SetHeight, AcquireFails,
                    AcquirerDone
<1>4. acquirer[w].pc # "idle"
  BY <1>1 DEF AcquireStep, Fetch, Select, Count, Commit, SetHeight, AcquireFails
<1>5. CASE UNCHANGED evmEvents
  BY <1>1, <1>3, <1>4, <1>5, RowsCurrent
<1>6. CASE /\ acquirer[w].pc = "commit"
           /\ evmEvents' = [l \in Rows \cup acquirer[w].todo |->
                               IF l \in acquirer[w].todo THEN "received" ELSE evmEvents[l]]
  <2>1. PICK todo : todo = acquirer[w].todo
    OBVIOUS
  <2>2. evmEvents' = [l \in Rows \cup todo |-> IF l \in todo THEN "received" ELSE evmEvents[l]]
    BY <1>6, <2>1
  <2> QED BY <1>1, <1>6, <2>2, CommitCurrent
<1> QED BY <1>1, <1>5, <1>6
        DEF AcquireStep, Fetch, Select, Count, Commit, SetHeight, AcquireFails

LEMMA CheckingCurrent ==
  ASSUME Inv, CurrentInv, NEW w \in Workers, CheckBegin(w) \/ Checking(w)
  PROVE  CurrentInv'
<1>1. UNCHANGED <<logs, acquirer, processor, nftClass>>
  BY DEF Checking, CheckBegin, Enqueue, Mark, CheckFails, chainVars, acquirerVars, tables
<1>2. CASE UNCHANGED evmEvents
  BY <1>1, <1>2, RowsCurrent
<1>3. CASE evmEvents' = [l \in Rows |-> IF l \in checker[w].done THEN "enqueued"
                                                                ELSE evmEvents[l]]
  <2>1. Rows' = Rows /\ RowsGrow /\ NoneProcessed
    BY <1>3 DEF Rows, RowsGrow, NoneProcessed
  <2> QED BY <1>1, <2>1, RowsSame, LogsSame, ElseCurrent
<1> QED BY <1>2, <1>3
        DEF Checking, CheckBegin, Enqueue, Mark, CheckFails, acquirerVars

\* A task begins when the worker is free, and has read nothing yet.
LEMMA StartsCurrent ==
  ASSUME Inv, CurrentInv, NEW w \in Workers, ProcessBegin(w) \/ ProcessAtCli(w)
  PROVE  CurrentInv'
<1>1. /\ UNCHANGED <<logs, acquirer, evmEvents, nftClass>>
      /\ w \in Acquirers => acquirer[w].pc = "idle"
  BY DEF ProcessBegin, ProcessAtCli, Free, chainVars, acquirerVars, tables
<1>2. PICK l : Starts(w, l)
  BY DEF ProcessBegin, ProcessAtCli
<1>3. CASE UNCHANGED processor
  BY <1>1, <1>3, RowsCurrent
<1>4. CASE processor' = [processor EXCEPT ![w] = [pc |-> 1, log |-> l, read |-> None]]
  <2>1. processor \in [Workers -> Processor]
    BY DEF Inv, ProcessorInv
  <2>2. processor'[w].pc = 1 /\ \A v \in Workers : v # w => processor'[v] = processor[v]
    BY <1>4, <2>1
  <2>3. Exclusive'
    BY <1>1, <2>2, IndexerAssumption DEF CurrentInv, Exclusive
  <2>4. Rows' = Rows /\ RowsGrow /\ NoneProcessed
    BY <1>1 DEF Rows, RowsGrow, NoneProcessed
  <2>5. OneConcern' /\ ColumnsCurrent' /\ Behind
    BY <1>1, <2>4, RowsSame, LogsSame, ColumnsKeep DEF CurrentInv
  <2>6. ASSUME NEW v \in Workers, processor'[v].log # None PROVE TaskFresh(v)'
    <3>1. CASE v = w
      BY <2>2, <3>1 DEF TaskFresh
    <3>2. CASE v # w
      <4>1. processor'[v] = processor[v] /\ TaskFresh(v)
        BY <2>2, <2>6, <3>2 DEF CurrentInv
      <4>2. processor[v].log \in Rows
        BY <2>6, <4>1 DEF Inv, ProcessorInv, Progress, Task
      <4>3. processor[v].log.book \in Books /\ {"supply", "version"} = Columns
        BY <4>2, RowType DEF Columns
      <4> QED BY <1>1, <2>5, <4>1, <4>3 DEF TaskFresh, Fresh, Cell, Behind
    <3> QED BY <3>1, <3>2
  <2> QED BY <2>3, <2>5, <2>6 DEF CurrentInv
<1> QED BY <1>2, <1>3, <1>4 DEF Starts

\* While a task is processed, nothing is acquired, and the chain is as it was.
LEMMA ProcessingIs ==
  ASSUME Inv, CurrentInv, NEW w \in Workers, Processing(w)
  PROVE  /\ Task(w) \in Rows /\ Task(w) # None /\ processor[w].log = Task(w)
         /\ Task(w).book \in Books /\ TaskFresh(w)
         /\ processor \in [Workers -> Processor]
         /\ UNCHANGED <<logs, acquirer>> /\ Rows' = Rows /\ Behind /\ OneConcern'
         /\ w \in Acquirers => acquirer[w].pc = "idle"
<1>1. Task(w) # None /\ processor[w].log = Task(w)
  BY DEF Processing, Claim, ReadChain, InsertClass, UpdateClass, CreateToken, InsertMemo,
         UpdateHolder, Finish, StepFails, Fail, Failing, Die, At, Task
<1>2. Task(w) \in Rows
  BY <1>1 DEF Inv, ProcessorInv, Progress, Task
<1>3. Task(w).book \in Books
  BY <1>2, RowType
<1>4. /\ UNCHANGED <<logs, acquirer>>
      /\ \/ UNCHANGED evmEvents
         \/ \E status : evmEvents' = [evmEvents EXCEPT ![Task(w)] = status]
  BY DEF Processing, Claim, ReadChain, InsertClass, UpdateClass, CreateToken, InsertMemo,
         UpdateHolder, Finish, StepFails, Fail, Die, OnlyTables, SetStatus,
         chainVars, acquirerVars
<1>5. Rows' = Rows
  BY <1>4 DEF Rows
<1>6. w \in Acquirers => acquirer[w].pc = "idle"
  BY <1>1 DEF CurrentInv, Exclusive
<1>7. processor \in [Workers -> Processor] /\ TaskFresh(w)
  BY <1>1 DEF Inv, ProcessorInv, CurrentInv
<1> QED BY <1>1, <1>2, <1>3, <1>4, <1>5, <1>6, <1>7, RowsSame, LogsSame

\* It is the only task, so that there is only this to show of it.
LEMMA ProcessingCurrent ==
  ASSUME OneWorker, Inv, CurrentInv, NEW w \in Workers, Processing(w),
         ColumnsCurrent', processor'[w].log # None => TaskFresh(w)'
  PROVE  CurrentInv'
<1>1. \A v \in Workers : v = w
  BY DEF OneWorker
<1>2. \A v \in Acquirers : acquirer'[v].pc = "idle"
  BY <1>1, ProcessingIs, IndexerAssumption
<1> QED BY <1>1, <1>2, ProcessingIs DEF CurrentInv, Exclusive

\* Statements that claim nothing, and leave the columns alone.
LEMMA ProceedFresh ==
  ASSUME Inv, CurrentInv, NEW w \in Workers, Processing(w), UNCHANGED nftClass,
         NEW step \in {"claim", "token", "memo", "holder"}, At(w, step), Proceed(w)
  PROVE  TaskFresh(w)'
<1> DEFINE l == Task(w)
           pc == processor[w].pc
<1>1. /\ l \in Rows /\ processor[w].log = l /\ l.book \in Books /\ TaskFresh(w) /\ Behind
      /\ processor[w] \in Processor /\ processor \in [Workers -> Processor]
  BY ProcessingIs
<1>2. /\ pc \in 1 .. 7 /\ pc # 2
      /\ l.kind \in OfTokens => pc # 4
      /\ l.kind = "ContractURIUpdated" => pc # 3
  BY StepIs, RowType DEF OfTokens
<1>3. processor'[w].log = l /\ processor'[w].pc = pc + 1 /\ processor'[w].read = processor[w].read
  BY <1>1 DEF Proceed, Goto, Processor
<1>4. {"supply", "version"} = Columns
  BY DEF Columns
<1> HIDE DEF pc
<1>5. l.kind # "OwnershipTransferred" /\ pc + 1 \in 3 .. 7 => pc \in 3 .. 7
  BY <1>2
<1>6. l.kind \in OfTokens /\ pc + 1 \in 5 .. 7 => pc \in 5 .. 7
  BY <1>2
<1>7. l.kind = "ContractURIUpdated" /\ pc + 1 \in 4 .. 7 => pc \in 4 .. 7
  BY <1>2
<1>8. /\ l.kind # "OwnershipTransferred" /\ pc \in 3 .. 7 =>
              \A col \in Columns : Fresh(processor[w].read, l.book, col)
      /\ l.kind \in OfTokens /\ pc \in 5 .. 7 => Fresh(nftClass[l.book], l.book, "supply")
      /\ l.kind = "ContractURIUpdated" /\ pc \in 4 .. 7 =>
              Fresh(nftClass[l.book], l.book, "version")
  BY <1>1 DEF TaskFresh, pc
<1> QED BY <1>1, <1>3, <1>4, <1>5, <1>6, <1>7, <1>8 DEF TaskFresh, Fresh, Cell, Behind

LEMMA TaskCurrent ==
  ASSUME OneWorker, Inv, CurrentInv, NEW w \in Workers,
         Claim(w) \/ CreateToken(w) \/ InsertMemo(w) \/ UpdateHolder(w)
  PROVE  CurrentInv'
<1>1. Processing(w) /\ UNCHANGED nftClass
  BY DEF Processing, Claim, CreateToken, InsertMemo, UpdateHolder, tables
<1>2. PICK step \in {"claim", "token", "memo", "holder"} : At(w, step) /\ Proceed(w)
  BY DEF Claim, CreateToken, InsertMemo, UpdateHolder
<1>3. TaskFresh(w)'
  BY <1>1, <1>2, ProceedFresh
<1>4. RowsGrow /\ NoneProcessed
  BY <1>1, ProcessingIs
     DEF RowsGrow, NoneProcessed, Claim, CreateToken, InsertMemo, UpdateHolder, SetStatus,
         OnlyTables, acquirerVars, Rows
<1>5. ColumnsCurrent'
  BY <1>1, <1>4, ProcessingIs, ColumnsKeep DEF CurrentInv
<1> QED BY <1>1, <1>3, <1>5, ProcessingCurrent

\* A task that fails claims nothing any more.
LEMMA FailingCurrent ==
  ASSUME OneWorker, Inv, CurrentInv, NEW w \in Workers, StepFails(w) \/ Fail(w) \/ Die(w)
  PROVE  CurrentInv'
<1>1. Processing(w) /\ UNCHANGED nftClass
  BY DEF Processing, StepFails, Fail, Die, tables
<1>2. processor'[w].pc = 8 \/ processor'[w].log = None
  BY <1>1, ProcessingIs DEF StepFails, Fail, Die, Goto, ProcessorDone, NoProcessor, Processor
<1>3. processor'[w].log # None => TaskFresh(w)'
  BY <1>2 DEF TaskFresh
<1>4. RowsGrow /\ NoneProcessed
  BY <1>1, ProcessingIs
     DEF RowsGrow, NoneProcessed, StepFails, Fail, Die, SetStatus, OnlyTables, acquirerVars, Rows
<1>5. ColumnsCurrent'
  BY <1>1, <1>4, ProcessingIs, ColumnsKeep DEF CurrentInv
<1> QED BY <1>1, <1>3, <1>5, ProcessingCurrent

\* What is read is so when it is read.
LEMMA ReadCurrent ==
  ASSUME OneWorker, Inv, CurrentInv, NEW w \in Workers, ReadChain(w)
  PROVE  CurrentInv'
<1> DEFINE l == Task(w)
<1>1. Processing(w) /\ At(w, "read") /\ UNCHANGED <<evmEvents, nftClass>>
  BY DEF Processing, ReadChain, OnlyTables, acquirerVars, tables
<1>2. /\ l \in Rows /\ processor[w].log = l /\ l.book \in Books /\ Behind
      /\ processor \in [Workers -> Processor] /\ processor[w] \in Processor
      /\ processor[w].pc = 2
  BY <1>1, ProcessingIs, StepIs
<1>3. PICK b, row :
        /\ b = l.book
        /\ row = [owner |-> Owner(b), supply |-> Supply(b), version |-> Version(b)]
  OBVIOUS
<1>4. /\ processor'[w].pc = 3 /\ processor'[w].log = l /\ processor'[w].read = row
  <2>1. processor' = [processor EXCEPT ![w].pc = @ + 1, ![w].read = row]
    BY <1>3 DEF ReadChain
  <2> QED BY <1>2, <2>1 DEF Processor
<1>5. ASSUME NEW col \in Columns, Stored(b, col)' PROVE Cell(row, col) = View(col, b)'
  <2>1. row.supply = Supply(b) /\ row.version = Version(b)
    BY <1>3
  <2>2. Cell(row, col) = View(col, b)
    BY <2>1 DEF Cell, View
  <2>3. View(col, b)' = View(col, b)
    BY <1>2, <1>3, <1>5 DEF Behind
  <2> QED BY <2>2, <2>3
<1>6. TaskFresh(w)'
  <2>1. /\ processor'[w].pc = 3 /\ processor'[w].log.book = b /\ processor'[w].read = row
    BY <1>3, <1>4
  <2> QED BY <1>5, <2>1 DEF TaskFresh, Fresh, Cell
<1>7. RowsGrow /\ NoneProcessed
  BY <1>1 DEF RowsGrow, NoneProcessed, Rows
<1>8. ColumnsCurrent'
  BY <1>1, <1>2, <1>7, ColumnsKeep DEF CurrentInv
<1> QED BY <1>1, <1>6, <1>8, ProcessingCurrent

\* A column of the task's book is set to what was read, or stays.
LEMMA ColumnsSet ==
  ASSUME Inv, CurrentInv, NEW w \in Workers, Processing(w), UNCHANGED evmEvents,
         NEW row, nftClass' = [nftClass EXCEPT ![Task(w).book] = row],
         \A col \in Columns :
            \/ Caught(Task(w).book, KindsOf(col)) => Cell(row, col) = View(col, Task(w).book)
            \/ HasClass(w) /\ Cell(row, col) = Cell(nftClass[Task(w).book], col)
  PROVE  ColumnsCurrent'
<1>1. PICK b : b = Task(w).book
  OBVIOUS
<1>2. b \in Books /\ Behind /\ RowsGrow /\ NoneProcessed
  BY <1>1, ProcessingIs DEF RowsGrow, NoneProcessed, Rows
<1>3. nftClass \in [Books -> ClassRow \cup {None}]
  BY DEF Inv, TablesInv
<1> SUFFICES ASSUME NEW c \in Books, NEW col \in Columns,
                    nftClass'[c] # None, Caught(c, KindsOf(col))'
             PROVE  (Cell(nftClass[c], col) = View(col, c))'
  BY DEF ColumnsCurrent
<1>4. /\ Stored(c, col)'
      /\ \A r \in Rows' : Concerns(r, c, col) => evmEvents'[r] = "processed"
  BY DEF Caught, Stored, Concerns, HasRow
<1>5. Stored(c, col) /\ View(col, c)' = View(col, c)
  BY <1>2, <1>4 DEF Behind
<1>6. \A r \in Rows : Concerns(r, c, col) => evmEvents[r] = "processed"
  BY <1>2, <1>4 DEF RowsGrow, NoneProcessed
<1>7. Caught(c, KindsOf(col))
  BY <1>5, <1>6, CaughtIs
<1>8. nftClass[c] # None => Cell(nftClass[c], col) = View(col, c)
  BY <1>7 DEF CurrentInv, ColumnsCurrent
<1>9. CASE c = b
  <2>1. nftClass'[c] = row
    BY <1>1, <1>3, <1>9
  <2>2. Cell(row, col) = View(col, c)
    BY <1>1, <1>7, <1>8, <1>9 DEF HasClass
  <2> QED BY <1>5, <2>1, <2>2 DEF Cell
<1>10. CASE c # b
  <2>1. nftClass'[c] = nftClass[c]
    BY <1>1, <1>3, <1>10
  <2> QED BY <1>5, <1>8, <2>1 DEF Cell
<1> QED BY <1>9, <1>10

\* A book without a row has no update that was processed, so that a new one's
\* metadata is the book's or an update is to come.
LEMMA InsertClassCurrent ==
  ASSUME OneWorker, Inv, CurrentInv, NEW w \in Workers, InsertClass(w)
  PROVE  CurrentInv'
<1>1. PICK b, row : b = Task(w).book /\ row = [processor[w].read EXCEPT !.version = 0]
  OBVIOUS
<1>2. /\ Processing(w) /\ At(w, "class") /\ UNCHANGED evmEvents /\ Proceed(w)
      /\ nftClass[b] = None /\ nftClass' = [nftClass EXCEPT ![b] = row]
  BY <1>1 DEF Processing, InsertClass, OnlyTables, acquirerVars, HasClass
<1>3. /\ Task(w) \in Rows /\ processor[w].log = Task(w) /\ b \in Books /\ Behind
      /\ processor \in [Workers -> Processor] /\ processor[w] \in Processor
      /\ processor[w].pc = 3 /\ Task(w).kind = "NewBookNFT" /\ TaskFresh(w) /\ Progress(w)
  BY <1>1, <1>2, ProcessingIs, StepIs
<1>4. processor[w].read \in ClassRow /\ \A col \in Columns : Fresh(processor[w].read, b, col)
  BY <1>1, <1>3 DEF TaskFresh, Progress, Processor
<1>5. row.supply = processor[w].read.supply /\ row.version = 0
  BY <1>1, <1>4 DEF ClassRow
<1>6. ASSUME Caught(b, KindsOf("supply")) PROVE row.supply = View("supply", b)
  BY <1>4, <1>5, <1>6, CaughtIs DEF Fresh, Cell, Columns
<1>7. ASSUME Caught(b, KindsOf("version")) PROVE row.version = View("version", b)
  <2>1. "version" \in Columns /\ KindsOf("version") = {"ContractURIUpdated"}
    BY DEF Columns, KindsOf
  <2>2. /\ Stored(b, "version")
        /\ \A r \in Rows : Concerns(r, b, "version") => evmEvents[r] = "processed"
    BY <1>7, CaughtIs
  <2>3. \A r \in Rows : ~ Concerns(r, b, "version")
    BY <1>2, <2>2 DEF Inv, ProcessedIsApplied, Concerns
  <2>4. Rows \subseteq logs
    BY DEF Inv, AcquirerInv, AcquirerTypeOK
  <2>5. ASSUME NEW l \in logs, Concerns(l, b, "version") PROVE FALSE
    <3>1. PICK r \in Rows : r.block = l.block
      BY <2>2, <2>5 DEF Stored, HasRow
    <3>2. Concerns(r, b, "version")
      BY <1>3, <2>1, <2>4, <2>5, <3>1 DEF CurrentInv, OneConcern
    <3> QED BY <2>3, <3>2
  <2>6. Of("ContractURIUpdated", b, None) = {}
    BY <2>1, <2>5 DEF Of, Concerns
  <2>7. Version(b) = 0
    BY <2>6, FS_EmptySet DEF Version
  <2> QED BY <1>5, <2>7 DEF View
<1>8. \A col \in Columns : Caught(b, KindsOf(col)) => Cell(row, col) = View(col, b)
  BY <1>6, <1>7 DEF Columns, Cell
<1>9. ColumnsCurrent'
  BY <1>1, <1>2, <1>8, ColumnsSet
<1>10. TaskFresh(w)'
  <2>1. /\ processor'[w].pc = 4 /\ processor'[w].log = Task(w)
        /\ processor'[w].read = processor[w].read
    BY <1>2, <1>3 DEF Proceed, Goto, Processor
  <2>2. Task(w).kind \notin OfTokens /\ Task(w).kind # "ContractURIUpdated"
    BY <1>3 DEF OfTokens
  <2> QED BY <1>1, <1>3, <1>4, <2>1, <2>2 DEF TaskFresh, Fresh, Cell, Behind
<1> QED BY <1>2, <1>9, <1>10, ProcessingCurrent

LEMMA UpdateClassCurrent ==
  ASSUME OneWorker, Inv, CurrentInv, NEW w \in Workers, UpdateClass(w)
  PROVE  CurrentInv'
<1>1. PICK l, b, read, old, row :
        /\ l = Task(w) /\ b = l.book /\ read = processor[w].read /\ old = nftClass[b]
        /\ row = CASE At(w, "owner") -> [old EXCEPT !.owner = l.to]
                   [] At(w, "metadata") -> [old EXCEPT !.version = read.version]
                   [] At(w, "supply") -> [old EXCEPT !.supply = read.supply]
  OBVIOUS
<1>2. PICK step \in {"owner", "metadata", "supply"} : At(w, step)
  BY DEF UpdateClass
<1>3. /\ Processing(w) /\ HasClass(w) /\ UNCHANGED evmEvents /\ Proceed(w)
      /\ nftClass' = [nftClass EXCEPT ![b] = row]
  BY <1>1 DEF Processing, UpdateClass, OnlyTables, acquirerVars
<1>4. /\ l \in Rows /\ processor[w].log = l /\ b \in Books /\ Behind
      /\ processor \in [Workers -> Processor] /\ processor[w] \in Processor
      /\ TaskFresh(w) /\ Progress(w) /\ processor[w].pc \in 2 .. 4
  BY <1>1, <1>2, <1>3, ProcessingIs, StepIs
<1>5. old \in ClassRow /\ nftClass \in [Books -> ClassRow \cup {None}]
  BY <1>1, <1>3, <1>4 DEF HasClass, Inv, TablesInv
<1>6. /\ processor'[w].pc = processor[w].pc + 1 /\ processor'[w].log = l
      /\ processor'[w].read = read
  BY <1>1, <1>3, <1>4 DEF Proceed, Goto, Processor
<1>7. nftClass'[b] = row
  BY <1>3, <1>4, <1>5
<1>8. ASSUME At(w, "metadata") \/ At(w, "supply")
      PROVE  /\ processor[w].pc \in 3 .. 4 /\ l.kind # "OwnershipTransferred"
             /\ read \in ClassRow /\ \A col \in Columns : Fresh(read, b, col)
  <2>1. processor[w].pc \in 3 .. 4 /\ l.kind # "OwnershipTransferred"
    BY <1>1, <1>8, StepIs DEF OfTokens
  <2> QED BY <1>1, <1>4, <2>1 DEF TaskFresh, Progress, Processor
<1>9. CASE step = "owner"
  <2>1. /\ row = [old EXCEPT !.owner = l.to] /\ l.kind = "OwnershipTransferred"
    BY <1>1, <1>2, <1>9, StepIs
  <2>2. row.supply = old.supply /\ row.version = old.version
    BY <1>5, <2>1 DEF ClassRow
  <2>3. ColumnsCurrent'
    BY <1>1, <1>3, <2>2, ColumnsSet DEF Cell
  <2>4. TaskFresh(w)'
    BY <1>6, <2>1 DEF TaskFresh, OfTokens
  <2> QED BY <1>3, <2>3, <2>4, ProcessingCurrent
<1>10. ASSUME NEW col \in Columns, step # "owner",
              col = (IF step = "supply" THEN "supply" ELSE "version"),
              Cell(row, col) = Cell(read, col),
              \A c \in Columns : c # col => Cell(row, c) = Cell(old, c),
              l.kind \in KindsOf(col)
       PROVE  CurrentInv'
  <2>1. \A c \in Columns : Fresh(read, b, c)
    BY <1>2, <1>8, <1>10
  <2>2. Caught(b, KindsOf(col)) => Cell(row, col) = View(col, b)
    BY <1>10, <2>1, CaughtIs DEF Fresh
  <2>3. ColumnsCurrent'
    <3>1. \A c \in Columns :
            \/ Caught(b, KindsOf(c)) => Cell(row, c) = View(c, b)
            \/ HasClass(w) /\ Cell(row, c) = Cell(nftClass[b], c)
      BY <1>1, <1>3, <1>10, <2>2
    <3>2. b = Task(w).book
      BY <1>1
    <3> QED BY <1>3, <3>1, <3>2, ColumnsSet
  <2>4. ASSUME NEW c \in Columns, Stored(b, c)' PROVE Cell(read, c) = View(c, b)'
    BY <1>4, <2>1, <2>4 DEF Fresh, Behind
  <2>5. col = "supply" <=> l.kind \in OfTokens
    BY <1>10 DEF Columns, KindsOf, OfTokens
  <2>6. TaskFresh(w)'
    <3>1. \A c \in Columns : Fresh(read, b, c)'
      BY <2>4 DEF Fresh
    <3>2. Fresh(row, b, col)'
      BY <1>10, <2>4 DEF Fresh
    <3> QED BY <1>1, <1>6, <1>7, <1>10, <2>4, <2>5 DEF TaskFresh, Fresh, Cell, Columns, OfTokens
  <2> QED BY <1>3, <2>3, <2>6, ProcessingCurrent
<1>11. CASE step = "metadata"
  <2>1. row = [old EXCEPT !.version = read.version] /\ l.kind = "ContractURIUpdated"
    BY <1>1, <1>2, <1>11, StepIs
  <2>2. row.supply = old.supply /\ row.version = read.version
    BY <1>5, <2>1 DEF ClassRow
  <2>3. PICK col \in Columns : col = "version"
    BY DEF Columns
  <2> QED BY <1>10, <1>11, <2>1, <2>2, <2>3 DEF Cell, Columns, KindsOf
<1>12. CASE step = "supply"
  <2>1. row = [old EXCEPT !.supply = read.supply] /\ l.kind \in OfTokens
    BY <1>1, <1>2, <1>12, StepIs
  <2>2. row.supply = read.supply /\ row.version = old.version
    BY <1>5, <2>1 DEF ClassRow
  <2>3. PICK col \in Columns : col = "supply"
    BY DEF Columns
  <2> QED BY <1>10, <1>12, <2>1, <2>2, <2>3 DEF Cell, Columns, KindsOf
<1> QED BY <1>9, <1>11, <1>12

\* Finish: the last event to be processed has set the column, or others are
\* to come.
LEMMA FinishCurrent ==
  ASSUME OneWorker, Inv, CurrentInv, NEW w \in Workers, Finish(w)
  PROVE  CurrentInv'
<1>1. PICK l : l = Task(w)
  OBVIOUS
<1>2. /\ Processing(w) /\ At(w, "finish") /\ UNCHANGED nftClass /\ ProcessorDone(w)
      /\ evmEvents' = [evmEvents EXCEPT ![l] = "processed"]
  BY <1>1 DEF Processing, Finish, SetStatus, tables
<1>3. /\ l \in Rows /\ processor[w].log = l /\ l.book \in Books /\ Behind /\ Rows' = Rows
      /\ processor \in [Workers -> Processor] /\ TaskFresh(w)
  BY <1>1, <1>2, ProcessingIs
<1>4. /\ processor[w].pc \in 4 .. 7 \/ (l.kind = "OwnershipTransferred" /\ processor[w].pc = 3)
      /\ l.kind \in OfTokens => processor[w].pc \in 5 .. 7
  BY <1>1, <1>2, StepIs DEF OfTokens
<1>5. ColumnsCurrent'
  <2> SUFFICES ASSUME NEW b \in Books, NEW col \in Columns,
                      nftClass'[b] # None, Caught(b, KindsOf(col))'
               PROVE  (Cell(nftClass[b], col) = View(col, b))'
    BY DEF ColumnsCurrent
  <2>1. /\ Stored(b, col)'
        /\ \A r \in Rows' : Concerns(r, b, col) => evmEvents'[r] = "processed"
    BY DEF Caught, Stored, Concerns, HasRow
  <2>2. Stored(b, col) /\ View(col, b)' = View(col, b)
    BY <1>3, <2>1 DEF Behind
  <2>3. CASE Concerns(l, b, col)
    <3>1. Fresh(nftClass[b], b, col)
      BY <1>3, <1>4, <2>3 DEF TaskFresh, Concerns, Columns, KindsOf, OfTokens
    <3> QED BY <1>2, <2>2, <3>1 DEF Fresh, Cell
  <2>4. CASE ~ Concerns(l, b, col)
    <3>1. \A r \in Rows : Concerns(r, b, col) => evmEvents[r] = "processed"
      BY <1>2, <1>3, <2>1, <2>4
    <3>2. Cell(nftClass[b], col) = View(col, b)
      BY <1>2, <2>2, <3>1, CaughtIs DEF CurrentInv, ColumnsCurrent
    <3> QED BY <1>2, <2>2, <3>2 DEF Cell
  <2> QED BY <2>3, <2>4
<1>6. processor'[w].log = None
  BY <1>2, <1>3 DEF ProcessorDone, NoProcessor
<1> QED BY <1>2, <1>5, <1>6, ProcessingCurrent

LEMMA InitCurrent ==
  ASSUME Init
  PROVE  CurrentInv
<1> USE DEF Init, ChainInit, AcquirerInit
<1>1. Exclusive /\ \A w \in Workers : processor[w].log = None
  BY DEF Exclusive, NoAcquirer, NoProcessor
<1>2. OneConcern /\ ColumnsCurrent
  BY DEF OneConcern, ColumnsCurrent
<1> QED BY <1>1, <1>2 DEF CurrentInv

LEMMA StepCurrent ==
  ASSUME OneWorker, Inv, Inv', CurrentInv, [Next]_vars
  PROVE  CurrentInv'
<1>1. CASE Transaction /\ UNCHANGED <<acquirerVars, taskVars, tables>>
  BY <1>1, TransactionCurrent
<1>2. ASSUME NEW w \in Acquirers, Acquiring(w) \/ \E s \in Streams : Acquire(w, s)
      PROVE  CurrentInv'
  BY <1>2, AcquiringCurrent, AcquireCurrent
<1>3. ASSUME NEW w \in Workers,
             \/ CheckBegin(w) \/ ProcessBegin(w) \/ ProcessAtCli(w) \/ Checking(w)
      PROVE  CurrentInv'
  BY <1>3, CheckingCurrent, StartsCurrent
<1>4. ASSUME NEW w \in Workers, Processing(w) PROVE CurrentInv'
  BY <1>4, TaskCurrent, ReadCurrent, InsertClassCurrent, UpdateClassCurrent,
     FinishCurrent, FailingCurrent DEF Processing
<1>5. CASE UNCHANGED vars
  BY <1>5, RowsCurrent DEF vars, chainVars, acquirerVars, taskVars, tables
<1> QED BY <1>1, <1>2, <1>3, <1>4, <1>5 DEF Next

\* With one task at a time, and whatever fails, the supply and the metadata of a
\* book are the chain's when all its events have been processed, in whatever
\* order they were (the processors' GetTotalSupply and GetContractURI).
THEOREM ClassIsCurrentCorrect ==
  ASSUME OneWorker
  PROVE  Spec => []ClassIsCurrent
<1>1. Init => CurrentInv
  BY InitCurrent
<1>2. Inv /\ Inv' /\ CurrentInv /\ [Next]_vars => CurrentInv'
  BY StepCurrent
<1>3. ASSUME CurrentInv PROVE ClassIsCurrent
  <2>1. ASSUME NEW b \in Books, NEW col \in Columns,
               nftClass[b] # None, Caught(b, KindsOf(col))
        PROVE  Cell(nftClass[b], col) = View(col, b)
    BY <1>3, <2>1 DEF CurrentInv, ColumnsCurrent
  <2>2. /\ "supply" \in Columns /\ KindsOf("supply") = {"Transfer", "TransferWithMemo"}
        /\ "version" \in Columns /\ KindsOf("version") = {"ContractURIUpdated"}
    BY DEF Columns, KindsOf, OfTokens
  <2> QED BY <2>1, <2>2 DEF ClassIsCurrent, Cell, View
<1> QED BY <1>1, <1>2, <1>3, InvCorrect, PTL DEF Spec

-----------------------------------------------------------------------------
(* One task at a time, and no statement fails: no event is forgotten.      *)

\* What a checker is about to mark is in the queue: nobody else takes from it.
CheckersInv ==
    \A w \in Workers :
        /\ checker[w].done \subseteq Queued
        /\ checker[w].pc = "idle" => checker[w].done = {} /\ checker[w].todo = {}

StrandedInv == NoneStranded /\ CheckersInv

\* No row is handed over or claimed by the step, and no task ends.
LEMMA StrandedKeeps ==
  ASSUME Inv, NoneStranded, Queued \subseteq Queued',
         \A l \in Rows' :
            \/ evmEvents'[l] \notin {"enqueued", "processing"}
            \/ l \in Rows /\ evmEvents'[l] = evmEvents[l],
         \A w \in Workers : Task(w) # None => Task(w)' = Task(w)
  PROVE  NoneStranded'
<1> SUFFICES ASSUME NEW l \in Rows', evmEvents'[l] \in {"enqueued", "processing"}
             PROVE  /\ evmEvents'[l] = "enqueued" =>
                            l \in Queued' \/ \E w \in Workers : Task(w)' = l
                    /\ evmEvents'[l] = "processing" => \E w \in Workers : Task(w)' = l
  BY DEF NoneStranded
<1>1. l \in Rows /\ evmEvents'[l] = evmEvents[l]
  OBVIOUS
<1>2. ASSUME NEW w \in Workers, Task(w) = l PROVE Task(w)' = l
  BY <1>1, <1>2, RowType
<1> QED BY <1>1, <1>2 DEF NoneStranded

\* Steps of the chain, of acquire tasks and of a process task that goes on.
LEMMA ElseStranded ==
  ASSUME Inv, StrandedInv, UNCHANGED <<queue, checker>>,
         \A l \in Rows' :
            \/ evmEvents'[l] \notin {"enqueued", "processing"}
            \/ l \in Rows /\ evmEvents'[l] = evmEvents[l],
         \A w \in Workers : Task(w) # None => Task(w)' = Task(w)
  PROVE  StrandedInv'
<1>1. Queued' = Queued
  BY DEF Queued
<1>2. CheckersInv'
  BY <1>1 DEF StrandedInv, CheckersInv
<1> QED BY <1>1, <1>2, StrandedKeeps DEF StrandedInv

LEMMA AcquireStranded ==
  ASSUME Inv, StrandedInv,
         \/ Transaction /\ UNCHANGED <<acquirerVars, taskVars, tables>>
         \/ \E w \in Acquirers : Acquiring(w) \/ \E s \in Streams : Acquire(w, s)
         \/ UNCHANGED vars
  PROVE  StrandedInv'
<1>1. UNCHANGED <<queue, checker, processor>>
  BY DEF Acquiring, Acquire, taskVars, vars
<1>2. \A w \in Workers : Task(w) # None => Task(w)' = Task(w)
  BY <1>1 DEF Task
<1>3. CASE UNCHANGED evmEvents
  BY <1>1, <1>2, <1>3, ElseStranded DEF Rows
<1>4. ASSUME NEW w \in Acquirers,
             evmEvents' = [l \in Rows \cup acquirer[w].todo |->
                              IF l \in acquirer[w].todo THEN "received" ELSE evmEvents[l]]
      PROVE  StrandedInv'
  <2>1. \A l \in Rows' :
            \/ evmEvents'[l] \notin {"enqueued", "processing"}
            \/ l \in Rows /\ evmEvents'[l] = evmEvents[l]
    BY <1>4 DEF Rows
  <2> QED BY <1>1, <1>2, <2>1, ElseStranded
<1> QED BY <1>3, <1>4
        DEF Acquiring, Acquire, AcquireBegin, AcquireStep, Fetch, Select, Count, Commit,
            SetHeight, AcquireFails, acquirerVars, vars

LEMMA CheckStranded ==
  ASSUME Inv, StrandedInv, NEW w \in Workers, CheckBegin(w) \/ Enqueue(w) \/ CheckFails(w)
  PROVE  StrandedInv'
<1>1. UNCHANGED <<evmEvents, processor>>
  BY DEF CheckBegin, Enqueue, CheckFails, acquirerVars
<1>2. /\ queue \in Seq(Rows) /\ checker \in [Workers -> Checker] /\ checker[w] \in Checker
      /\ checker[w].done \subseteq Queued
      /\ checker[w].pc = "idle" => checker[w].done = {} /\ checker[w].todo = {}
  BY DEF Inv, QueueInv, CheckerInv, StrandedInv, CheckersInv
<1>3. PICK c \in Checker :
        /\ checker' = [checker EXCEPT ![w] = c]
        /\ Queued \subseteq Queued'
        /\ c.done \subseteq Queued'
        /\ c.pc = "idle" => c.done = {} /\ c.todo = {}
  <2>1. CASE CheckBegin(w)
    <3>1. PICK received : received = {l \in Rows : evmEvents[l] = "received"}
      OBVIOUS
    <3>2. received \subseteq Log
      BY <3>1, RowType
    <3>3. PICK c : c = [pc |-> "enqueue", todo |-> received, done |-> {}]
      OBVIOUS
    <3>4. c \in Checker /\ c.done = {} /\ c.pc # "idle"
      BY <3>2, <3>3 DEF Checker
    <3>5. checker' = [checker EXCEPT ![w] = c] /\ queue' = queue
      BY <2>1, <3>1, <3>3 DEF CheckBegin
    <3>6. Queued' = Queued
      BY <3>5 DEF Queued
    <3> QED BY <3>4, <3>5, <3>6
  <2>2. CASE CheckFails(w)
    <3>1. checker' = [checker EXCEPT ![w] = NoChecker] /\ queue' = queue
      BY <2>2 DEF CheckFails
    <3>2. NoChecker \in Checker /\ NoChecker.done = {} /\ NoChecker.todo = {}
      BY DEF NoChecker, Checker
    <3>3. Queued' = Queued
      BY <3>1 DEF Queued
    <3> QED BY <3>1, <3>2, <3>3
  <2>3. CASE Enqueue(w)
    <3>1. PICK l \in checker[w].todo :
            \/ /\ queue' = Append(queue, l)
               /\ checker' = [checker EXCEPT ![w].todo = @ \ {l}, ![w].done = @ \cup {l}]
            \/ /\ checker' = [checker EXCEPT ![w].todo = @ \ {l}]
               /\ UNCHANGED queue
      BY <2>3 DEF Enqueue
    <3>2. l \in Log /\ checker[w].pc # "idle"
      BY <1>2, RowType DEF Inv, CheckerInv
    <3>3. CASE /\ queue' = Append(queue, l)
               /\ checker' = [checker EXCEPT ![w].todo = @ \ {l}, ![w].done = @ \cup {l}]
      <4>1. PICK c : c = [checker[w] EXCEPT !.todo = @ \ {l}, !.done = @ \cup {l}]
        OBVIOUS
      <4>2. c \in Checker /\ c.pc = checker[w].pc /\ c.done = checker[w].done \cup {l}
        BY <1>2, <3>2, <4>1 DEF Checker
      <4>3. checker' = [checker EXCEPT ![w] = c]
        BY <1>2, <3>3, <4>1
      <4>4. Queued' = Queued \cup {l}
        BY <1>2, <3>3 DEF Queued
      <4> QED BY <1>2, <3>2, <4>2, <4>3, <4>4
    <3>4. CASE checker' = [checker EXCEPT ![w].todo = @ \ {l}] /\ UNCHANGED queue
      <4>1. PICK c : c = [checker[w] EXCEPT !.todo = @ \ {l}]
        OBVIOUS
      <4>2. c \in Checker /\ c.pc = checker[w].pc /\ c.done = checker[w].done
        BY <1>2, <3>2, <4>1 DEF Checker
      <4>3. checker' = [checker EXCEPT ![w] = c]
        BY <1>2, <3>4, <4>1
      <4>4. Queued' = Queued
        BY <3>4 DEF Queued
      <4> QED BY <1>2, <3>2, <4>2, <4>3, <4>4
    <3> QED BY <3>1, <3>3, <3>4
  <2> QED BY <2>1, <2>2, <2>3
<1>4. CheckersInv'
  BY <1>2, <1>3 DEF StrandedInv, CheckersInv
<1>5. NoneStranded'
  BY <1>1, <1>3, StrandedKeeps DEF StrandedInv, Rows, Task
<1> QED BY <1>4, <1>5 DEF StrandedInv

LEMMA MarkStranded ==
  ASSUME Inv, StrandedInv, NEW w \in Workers, Mark(w)
  PROVE  StrandedInv'
<1> DEFINE done == checker[w].done
<1>1. /\ evmEvents' = [l \in Rows |-> IF l \in done THEN "enqueued" ELSE evmEvents[l]]
      /\ checker' = [checker EXCEPT ![w] = NoChecker] /\ UNCHANGED <<queue, processor>>
  BY DEF Mark
<1>2. done \subseteq Queued /\ Queued' = Queued /\ checker \in [Workers -> Checker]
  BY <1>1 DEF StrandedInv, CheckersInv, Queued, Inv, CheckerInv
<1>3. NoChecker.done = {} /\ NoChecker.todo = {}
  BY DEF NoChecker
<1>4. CheckersInv'
  BY <1>1, <1>2, <1>3 DEF StrandedInv, CheckersInv
<1>5. ASSUME NEW l \in Rows'
      PROVE  /\ evmEvents'[l] = "enqueued" =>
                    l \in Queued' \/ \E v \in Workers : Task(v)' = l
             /\ evmEvents'[l] = "processing" => \E v \in Workers : Task(v)' = l
  <2>1. l \in Rows /\ evmEvents'[l] = IF l \in done THEN "enqueued" ELSE evmEvents[l]
    BY <1>1 DEF Rows
  <2>2. \A v \in Workers : Task(v)' = Task(v)
    BY <1>1 DEF Task
  <2> QED BY <1>2, <2>1, <2>2 DEF StrandedInv, NoneStranded
<1>6. NoneStranded'
  BY <1>5 DEF NoneStranded
<1> QED BY <1>4, <1>6 DEF StrandedInv

\* What is taken from the queue is with the task, unless it is processed or
\* with a task already.
LEMMA StartsStranded ==
  ASSUME OneWorker, Inv, StrandedInv, NEW w \in Workers, ProcessBegin(w) \/ ProcessAtCli(w)
  PROVE  StrandedInv'
<1>1. /\ UNCHANGED <<evmEvents, checker>> /\ checker[w].pc = "idle" /\ Task(w) = None
      /\ \A v \in Workers : v = w
  BY DEF ProcessBegin, ProcessAtCli, Free, acquirerVars, OneWorker, Task
<1>2. CheckersInv'
  BY <1>1 DEF StrandedInv, CheckersInv
<1>3. processor \in [Workers -> Processor] /\ queue \in Seq(Rows)
  BY DEF Inv, ProcessorInv, QueueInv
<1>4. PICK l \in Rows :
        /\ Starts(w, l)
        /\ \A m \in Queued : m # l => m \in Queued'
        /\ UNCHANGED queue \/ queue # <<>>
  <2>1. CASE ProcessBegin(w)
    <3>1. queue # <<>> /\ queue' = Tail(queue) /\ Starts(w, Head(queue))
      BY <2>1 DEF ProcessBegin
    <3>2. Head(queue) \in Rows
      BY <1>3, <3>1
    <3>3. ASSUME NEW k \in 1 .. Len(queue), queue[k] # Head(queue) PROVE queue[k] \in Queued'
      <4>1. k - 1 \in 1 .. Len(Tail(queue)) /\ Tail(queue)[k - 1] = queue[k]
        BY <1>3, <3>1, <3>3
      <4>2. DOMAIN queue' = 1 .. Len(Tail(queue))
        BY <1>3, <3>1
      <4> QED BY <3>1, <4>1, <4>2 DEF Queued
    <3>4. DOMAIN queue = 1 .. Len(queue)
      BY <1>3
    <3> QED BY <3>1, <3>2, <3>3, <3>4 DEF Queued
  <2>2. CASE ProcessAtCli(w)
    BY <2>2 DEF ProcessAtCli, Queued
  <2> QED BY <2>1, <2>2
<1>5. evmEvents[l] = "enqueued" => Task(w)' = l
  BY <1>3, <1>4 DEF Starts, Task
<1>6. ASSUME NEW m \in Rows, evmEvents[m] \in {"enqueued", "processing"}
      PROVE  /\ evmEvents[m] = "enqueued" /\ m \in Queued
  BY <1>1, <1>6, RowType DEF StrandedInv, NoneStranded
<1>7. NoneStranded'
  <2> SUFFICES ASSUME NEW m \in Rows', evmEvents'[m] \in {"enqueued", "processing"}
               PROVE  /\ evmEvents'[m] = "enqueued"
                      /\ m \in Queued' \/ \E v \in Workers : Task(v)' = m
    BY DEF NoneStranded
  <2>1. m \in Rows /\ evmEvents'[m] = evmEvents[m]
    BY <1>1 DEF Rows
  <2> QED BY <1>4, <1>5, <1>6, <2>1
<1> QED BY <1>2, <1>7 DEF StrandedInv

\* A task goes on with its event until it says how that ended.
LEMMA ProcessingStranded ==
  ASSUME Inv, StrandedInv, NEW w \in Workers, Processing(w),
         Faults \cap {"db", "crash"} = {}
  PROVE  StrandedInv'
<1>1. PICK l : l = Task(w)
  OBVIOUS
<1>2. /\ processor \in [Workers -> Processor] /\ processor[w] \in Processor
      /\ evmEvents \in [Rows -> Status]
  BY DEF Inv, ProcessorInv, AcquirerInv, AcquirerTypeOK
<1>3. UNCHANGED <<queue, checker>> /\ ~ Die(w) /\ l # None
  BY <1>1 DEF Processing, Claim, ReadChain, InsertClass, UpdateClass, CreateToken, InsertMemo,
         UpdateHolder, Finish, StepFails, Fail, Failing, Die, At, OnlyTables, SetStatus
<1>4. l \in Rows
  BY <1>1, <1>3 DEF Inv, ProcessorInv, Progress, Task
<1>5. CASE ReadChain(w) \/ InsertClass(w) \/ UpdateClass(w) \/ CreateToken(w)
           \/ InsertMemo(w) \/ UpdateHolder(w) \/ StepFails(w)
  <2>1. UNCHANGED evmEvents
    BY <1>5 DEF ReadChain, InsertClass, UpdateClass, CreateToken, InsertMemo, UpdateHolder,
                StepFails, OnlyTables, acquirerVars
  <2>2. \A v \in Workers : Task(v)' = Task(v)
    BY <1>2, <1>5 DEF ReadChain, InsertClass, UpdateClass, CreateToken, InsertMemo,
                UpdateHolder, StepFails, Proceed, Goto, Task, Processor
  <2> QED BY <1>3, <2>1, <2>2, ElseStranded DEF Rows
<1>6. CASE Claim(w)
  <2>1. evmEvents' = [evmEvents EXCEPT ![l] = "processing"]
    BY <1>1, <1>6 DEF Claim, SetStatus
  <2>2. \A v \in Workers : Task(v)' = Task(v)
    BY <1>2, <1>6 DEF Claim, Proceed, Goto, Task, Processor
  <2>3. Queued' = Queued /\ CheckersInv'
    BY <1>3 DEF Queued, StrandedInv, CheckersInv
  <2>4. \A m \in Rows' : m \in Rows /\ (m # l => evmEvents'[m] = evmEvents[m])
    BY <1>2, <2>1 DEF Rows
  <2>5. NoneStranded'
    BY <1>1, <2>2, <2>3, <2>4 DEF StrandedInv, NoneStranded
  <2> QED BY <2>3, <2>5 DEF StrandedInv
<1>7. CASE Finish(w) \/ Fail(w)
  <2>1. PICK status \in {"processed", "failed"} : evmEvents' = [evmEvents EXCEPT ![l] = status]
    BY <1>1, <1>7 DEF Finish, Fail, SetStatus
  <2>2. \A v \in Workers : v # w => Task(v)' = Task(v)
    BY <1>2, <1>7 DEF Finish, Fail, ProcessorDone, Task
  <2>3. Queued' = Queued /\ CheckersInv'
    BY <1>3 DEF Queued, StrandedInv, CheckersInv
  <2>4. \A m \in Rows' : m \in Rows /\ evmEvents'[m] = IF m = l THEN status ELSE evmEvents[m]
    BY <1>2, <1>4, <2>1 DEF Rows
  <2>5. NoneStranded'
    BY <1>1, <2>2, <2>3, <2>4 DEF StrandedInv, NoneStranded
  <2> QED BY <2>3, <2>5 DEF StrandedInv
<1> QED BY <1>3, <1>5, <1>6, <1>7 DEF Processing

\* With one task at a time and statements that do not fail, an event handed over
\* is in the queue or with a task, and a claimed one with a task, so that events
\* end as long as tasks do (CheckReceivedEVMEvents, Process).
THEOREM NoneStrandedCorrect ==
  ASSUME OneWorker, Faults \cap {"db", "crash"} = {}
  PROVE  Spec => []NoneStranded
<1>1. Init => StrandedInv
  BY DEF Init, AcquirerInit, StrandedInv, NoneStranded, CheckersInv, Rows, NoChecker
<1>2. Inv /\ StrandedInv /\ [Next]_vars => StrandedInv'
  BY AcquireStranded, CheckStranded, MarkStranded, StartsStranded, ProcessingStranded
     DEF Next, Checking
<1>3. StrandedInv => NoneStranded
  BY DEF StrandedInv
<1> QED BY <1>1, <1>2, <1>3, InvCorrect, PTL DEF Spec

=============================================================================
