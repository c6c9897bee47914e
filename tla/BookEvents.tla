----------------------------- MODULE BookEvents -----------------------------
(***************************************************************************)
(* The chain as the indexer reads it: the logs LikeProtocol and the books  *)
(* have emitted, and what a view of a book returns now.  A block is one    *)
(* transaction, so its number stands for the transaction's hash as well.   *)
(* The contracts themselves are LikeProtocol and BookNFT.                  *)
(***************************************************************************)
EXTENDS Naturals, FiniteSets

CONSTANTS
    Books,      \* addresses of books
    Tokens,     \* ids of tokens
    Accounts,
    None,       \* the zero address, no token, no book
    MaxBlocks   \* bound: transactions ever mined

ASSUME BookEventsAssumption ==
    /\ None \notin Books \cup Tokens \cup Accounts
    /\ IsFiniteSet(Tokens)
    /\ MaxBlocks \in Nat

VARIABLES
    head,  \* number of the newest block
    logs   \* all logs up to it

chainVars == <<head, logs>>

Kinds == {"NewBookNFT", "OwnershipTransferred", "ContractURIUpdated",
          "Transfer", "TransferWithMemo"}

Log == [block: 1 .. MaxBlocks, kind: Kinds, book: Books,
        token: Tokens \cup {None}, to: Accounts \cup {None}]

ChainInit == head = 0 /\ logs = {}

-----------------------------------------------------------------------------
(* Views.                                                                  *)

Of(kind, b, t) == {l \in logs : l.kind = kind /\ l.book = b /\ l.token = t}

Newest(ls) == CHOOSE l \in ls : \A m \in ls : m.block <= l.block

Created(b) == Of("NewBookNFT", b, None) # {}
Issued(b, t) == Of("Transfer", b, t) # {}

\* Ownable.owner, ERC721.ownerOf, totalSupply, contractURI
Owner(b) == Newest(Of("OwnershipTransferred", b, None)).to
Holder(b, t) == IF Issued(b, t) THEN Newest(Of("Transfer", b, t)).to ELSE None
Supply(b) == Cardinality({t \in Tokens : Holder(b, t) # None})
Version(b) == Cardinality(Of("ContractURIUpdated", b, None))

-----------------------------------------------------------------------------
(* Transactions that emit what the indexer asks for.                       *)

Emitted(kinds, bs, ts, a) ==
    {[block |-> head + 1, kind |-> k, book |-> b, token |-> t, to |-> a] :
        k \in kinds, b \in bs, t \in ts}

Mine(ls) ==
    /\ head < MaxBlocks
    /\ head' = head + 1
    /\ logs' = logs \cup ls

\* newBookNFTs: each book emits its first OwnershipTransferred.
NewBooks(bs, a) ==
    /\ \A b \in bs : ~Created(b)
    /\ Mine(Emitted({"NewBookNFT", "OwnershipTransferred"}, bs, {None}, a))

\* _mintWithEvent: _safeMint emits Transfer.
MintTx(b, ts, a) ==
    /\ Created(b)
    /\ \A t \in ts : ~Issued(b, t)
    /\ Mine(Emitted({"Transfer", "TransferWithMemo"}, {b}, ts, a))

\* transferWithMemo, batchTransferWithMemo
MemoTransferTx(b, ts, a) ==
    /\ \E from \in Accounts : \A t \in ts : Holder(b, t) = from
    /\ Mine(Emitted({"Transfer", "TransferWithMemo"}, {b}, ts, a))

\* transferFrom; burn transfers to the zero address.
TransferTx(b, t, a) ==
    /\ Holder(b, t) # None
    /\ Mine(Emitted({"Transfer"}, {b}, {t}, a))

OwnershipTx(b, a) ==
    /\ Created(b)
    /\ Mine(Emitted({"OwnershipTransferred"}, {b}, {None}, a))

\* update
UpdateTx(b) ==
    /\ Created(b)
    /\ Mine(Emitted({"ContractURIUpdated"}, {b}, {None}, None))

Transaction ==
    \/ \E bs \in (SUBSET Books) \ {{}}, a \in Accounts : NewBooks(bs, a)
    \/ \E b \in Books :
        \/ \E ts \in (SUBSET Tokens) \ {{}}, a \in Accounts :
            MintTx(b, ts, a) \/ MemoTransferTx(b, ts, a)
        \/ \E t \in Tokens, a \in Accounts \cup {None} : TransferTx(b, t, a)
        \/ \E a \in Accounts : OwnershipTx(b, a)
        \/ UpdateTx(b)

ChainTypeOK ==
    /\ head \in 0 .. MaxBlocks
    /\ logs \subseteq Log
    /\ \A l \in logs : l.block <= head

=============================================================================
