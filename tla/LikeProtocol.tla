---------------------------- MODULE LikeProtocol ----------------------------
(***************************************************************************)
(* The factory LikeProtocol, beacon of all books it has created, and the   *)
(* calls anybody may send to it and to them.  Each action is a transaction *)
(* from sender s that does not revert.  The address of a book is its place *)
(* in the order of creation.                                               *)
(***************************************************************************)
EXTENDS BookNFT

CONSTANTS
    Implementations,  \* addresses that hold code
    Msgs,             \* requests for a new book
    Configs,          \* configurations an updater asks for
    MaxBooks,         \* bound: books created
    MaxTokens,        \* bound: ids a book issues
    MaxBatch          \* bound: length of a list of arguments

ASSUME LikeProtocolAssumption ==
    /\ Msgs \subseteq Msg /\ Configs \subseteq Config
    /\ MaxBooks \in Nat /\ MaxTokens \in Nat /\ MaxBatch \in Nat

VARIABLES
    protocolOwner,   \* Ownable
    paused,          \* Pausable
    implementation,  \* bookNFTImplementation
    books            \* classIdClassMapping, in the order of creation

protocolVars == <<protocolOwner, paused, implementation>>
vars == <<protocolVars, books>>

Ids == 0 .. (MaxTokens - 1)

Lists(S) == UNION {[1 .. n -> S] : n \in 0 .. MaxBatch}

Init ==
    /\ protocolOwner \in Accounts
    /\ paused = FALSE
    /\ implementation \in Implementations
    /\ books = <<>>

-----------------------------------------------------------------------------
(* The factory.                                                            *)

\* newBookNFTs; newBookNFT is a list of one.  One bad message reverts all.
NewBookNFTs(msgs) ==
    /\ ~paused
    /\ Len(books) + Len(msgs) <= MaxBooks
    /\ \A k \in 1 .. Len(msgs) : ValidConfig(msgs[k].config)
    /\ books' = books \o [k \in 1 .. Len(msgs) |-> NewBook(msgs[k])]
    /\ UNCHANGED protocolVars

Pause(s) ==
    /\ s = protocolOwner /\ ~paused
    /\ paused' = TRUE
    /\ UNCHANGED <<protocolOwner, implementation, books>>

Unpause(s) ==
    /\ s = protocolOwner /\ paused
    /\ paused' = FALSE
    /\ UNCHANGED <<protocolOwner, implementation, books>>

UpgradeTo(s, newImplementation) ==
    /\ s = protocolOwner
    /\ newImplementation \in Implementations
    /\ implementation' = newImplementation
    /\ UNCHANGED <<protocolOwner, paused, books>>

\* transferOwnership, renounceOwnership
TransferProtocol(s, to) ==
    /\ s = protocolOwner
    /\ protocolOwner' = to
    /\ UNCHANGED <<paused, implementation, books>>

-----------------------------------------------------------------------------
(* The books.                                                              *)

Becomes(b, book) == books' = [books EXCEPT ![b] = book] /\ UNCHANGED protocolVars

Update(s, b, config) ==
    /\ s \in books[b].updaters
    /\ Updatable(books[b], config)
    /\ Becomes(b, Updated(books[b], config))

Room(b, n) == books[b].currentIndex + n <= MaxTokens

Mint(s, b, to, memos, texts) ==
    /\ s \in books[b].minters
    /\ Mintable(books[b], memos, texts)
    /\ Room(b, Len(texts))
    /\ Becomes(b, Minted(books[b], Len(texts), [k \in 1 .. Len(texts) |-> to], texts))

BatchMint(s, b, tos, memos, texts) ==
    /\ s \in books[b].minters
    /\ BatchMintable(books[b], tos, memos, texts)
    /\ Room(b, Len(tos))
    /\ Becomes(b, Minted(books[b], Len(tos), tos, texts))

SafeMintWithTokenId(s, b, fromTokenId, tos, memos, texts) ==
    /\ s \in books[b].minters
    /\ SafeMintable(books[b], fromTokenId, tos, memos, texts)
    /\ Room(b, Len(texts))
    /\ Becomes(b, Minted(books[b], Len(texts), tos, texts))

BatchTransferWithMemo(s, b, tos, ids, memos) ==
    /\ Transferable(books[b], s, tos, ids)
    /\ Len(ids) <= memos
    /\ Becomes(b, Transferred(books[b], tos, ids))

Burn(s, b, i) ==
    /\ i \in DOMAIN books[b].holder
    /\ books[b].holder[i] = s
    /\ Becomes(b, Burnt(books[b], i))

\* transferOwnership, renounceOwnership: roles stay where they are.
TransferOwnership(s, b, to) ==
    /\ s = books[b].owner
    /\ Becomes(b, [books[b] EXCEPT !.owner = to])

\* renounceRole; nobody has the role that could grant or revoke one.
RenounceRole(s, b) ==
    \/ s \in books[b].minters /\ Becomes(b, [books[b] EXCEPT !.minters = @ \ {s}])
    \/ s \in books[b].updaters /\ Becomes(b, [books[b] EXCEPT !.updaters = @ \ {s}])

-----------------------------------------------------------------------------
OfProtocol(s) ==
    \/ Pause(s) \/ Unpause(s)
    \/ \E i \in Implementations : UpgradeTo(s, i)
    \/ \E to \in Accounts \cup {None} : TransferProtocol(s, to)

Minting(s, b) ==
    \E memos \in 0 .. MaxBatch, texts \in Lists(Texts) :
        \/ \E to \in Accounts : Mint(s, b, to, memos, texts)
        \/ \E tos \in Lists(Accounts) :
            \/ BatchMint(s, b, tos, memos, texts)
            \/ \E i \in 0 .. MaxTokens : SafeMintWithTokenId(s, b, i, tos, memos, texts)

OfBook(s, b) ==
    \/ Minting(s, b)
    \/ \E config \in Configs : Update(s, b, config)
    \/ \E tos \in Lists(Accounts), ids \in Lists(Ids), memos \in 0 .. MaxBatch :
        BatchTransferWithMemo(s, b, tos, ids, memos)
    \/ \E i \in Ids : Burn(s, b, i)
    \/ \E to \in Accounts \cup {None} : TransferOwnership(s, b, to)
    \/ RenounceRole(s, b)

Next ==
    \/ \E msgs \in Lists(Msgs) : NewBookNFTs(msgs)
    \/ \E s \in Accounts : OfProtocol(s)
    \/ \E s \in Accounts, b \in DOMAIN books : OfBook(s, b)

Spec == Init /\ [][Next]_vars

-----------------------------------------------------------------------------
(* Properties.                                                             *)

TypeOK ==
    /\ protocolOwner \in Accounts \cup {None}
    /\ paused \in BOOLEAN
    /\ implementation \in Implementations
    /\ books \in Seq(Book(Ids))
    /\ Len(books) <= MaxBooks

\* No book ever has more tokens than its max_supply, though batchMint ensures
\* the supply for one list and mints along another, burns make room again,
\* and an updater changes the maximum (_ensureEnoughSupply, update).
SupplyBounded ==
    \A b \in DOMAIN books : TotalSupply(books[b]) <= books[b].maxSupply

-----------------------------------------------------------------------------
(* The collections the readers see.                                        *)

Places == 1 .. MaxBooks

Cap == [b \in Places |-> IF b <= Len(books) THEN books[b].maxSupply ELSE 0]
Issued == [b \in Places |-> IF b <= Len(books) THEN books[b].currentIndex ELSE 0]
Text == [b \in Places |-> IF b <= Len(books) THEN books[b].uri ELSE <<>>]
Held == [b \in Places |-> IF b <= Len(books) THEN DOMAIN books[b].holder ELSE {}]

Collections ==
    INSTANCE TokenCollections WITH
        Collections <- Places, cap <- Cap, issued <- Issued, text <- Text, held <- Held

\* The books are collections: whatever is minted, burnt, transferred, updated
\* or paused, an id is issued once and keeps its text (tokenURI), also when
\* burns have made totalSupply and _currentIndex differ.
ImplementsCollections == Collections!Spec

=============================================================================
