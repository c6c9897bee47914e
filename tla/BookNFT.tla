------------------------------ MODULE BookNFT ------------------------------
(***************************************************************************)
(* The BookNFT contract as a value: what its functions read and return.    *)
(* A call is one transaction of the chain.  One that reverts changes       *)
(* nothing, so a function is a guard and the book it leaves behind.        *)
(*                                                                         *)
(* Names, contract metadata and memos are left out, except for the lengths *)
(* of the lists of memos.  The accounts have no code that runs when they   *)
(* receive a token, and one that acts by an approval is the holder.        *)
(***************************************************************************)
EXTENDS Naturals, Sequences, FiniteSets

CONSTANTS
    Accounts,  \* addresses that own books, hold roles and hold tokens
    Symbols,   \* symbols of books that are not empty
    Texts,     \* metadata of tokens
    None       \* the zero address, the empty symbol

ASSUME BookNFTAssumption == None \notin Accounts \cup Symbols

\* tokenURIMap, and the holders of ERC721.
TokenMap(Ids, S) == UNION {[D -> S] : D \in SUBSET Ids}

\* The storage of a contract that issues ids among Ids.
Book(Ids) ==
        [owner: Accounts \cup {None},
         minters: SUBSET Accounts,
         updaters: SUBSET Accounts,
         symbol: Symbols,
         maxSupply: Nat,
         currentIndex: Nat,
         uri: TokenMap(Ids, Texts),
         holder: TokenMap(Ids, Accounts)]

Config == [symbol: Symbols \cup {None}, maxSupply: Nat]

\* MsgNewBookNFT
Msg == [creator: Accounts, minters: SUBSET Accounts, updaters: SUBSET Accounts,
        config: Config]

\* Defect: the symbol is not looked at.
SupplyConfig(config) == config.maxSupply # 0

\* _validateBookConfig
ValidConfig(config) == config.symbol # None /\ config.maxSupply # 0

\* initialize
NewBook(msg) ==
    [owner |-> msg.creator, minters |-> msg.minters, updaters |-> msg.updaters,
     symbol |-> msg.config.symbol, maxSupply |-> msg.config.maxSupply,
     currentIndex |-> 0, uri |-> <<>>, holder |-> <<>>]

\* update
Updatable(book, config) ==
    /\ ValidConfig(config)
    /\ config.maxSupply >= book.maxSupply
    /\ config.symbol = book.symbol

Updated(book, config) == [book EXCEPT !.maxSupply = config.maxSupply]

-----------------------------------------------------------------------------
(* Minting.                                                                *)

TotalSupply(book) == Cardinality(DOMAIN book.holder)

\* Defect: the quantity is not looked at.
AnySupply(book, quantity) == TotalSupply(book) < book.maxSupply

\* _ensureEnoughSupply
EnoughSupply(book, quantity) == TotalSupply(book) + quantity <= book.maxSupply

\* Defect: the next id is taken from the supply.
MintedAtSupply(book, n, tos, texts) ==
    LET first == TotalSupply(book)
        new == first .. (first + n - 1)
    IN [book EXCEPT
            !.currentIndex = @ + n,
            !.uri = [i \in DOMAIN @ \cup new |->
                        IF i \in new THEN texts[i - first + 1] ELSE @[i]],
            !.holder = [i \in DOMAIN @ \cup new |->
                        IF i \in new THEN tos[i - first + 1] ELSE @[i]]]

\* n rounds of _mintWithEvent
Minted(book, n, tos, texts) ==
    LET first == book.currentIndex
        new == first .. (first + n - 1)
    IN [book EXCEPT
            !.currentIndex = @ + n,
            !.uri = [i \in DOMAIN @ \cup new |->
                        IF i \in new THEN texts[i - first + 1] ELSE @[i]],
            !.holder = [i \in DOMAIN @ \cup new |->
                        IF i \in new THEN tos[i - first + 1] ELSE @[i]]]

\* mint: one receiver, a memo for each text.
Mintable(book, memos, texts) ==
    memos = Len(texts) /\ EnoughSupply(book, Len(texts))

\* batchMint: the supply is ensured for the texts, the loop runs over the
\* receivers, and an index past the end of the other lists reverts.
BatchMintable(book, tos, memos, texts) ==
    /\ EnoughSupply(book, Len(texts))
    /\ Len(tos) <= memos /\ Len(tos) <= Len(texts)

\* Defect: the tokens may be others than the caller means.
SafeMintableAnywhere(book, fromTokenId, tos, memos, texts) ==
    /\ EnoughSupply(book, Len(texts))
    /\ Len(texts) <= memos /\ Len(texts) <= Len(tos)

\* safeMintWithTokenId: the loop runs over the texts.
SafeMintable(book, fromTokenId, tos, memos, texts) ==
    /\ TotalSupply(book) = fromTokenId
    /\ EnoughSupply(book, Len(texts))
    /\ Len(texts) <= memos /\ Len(texts) <= Len(tos)

-----------------------------------------------------------------------------
(* Moving and burning tokens.                                              *)

\* batchTransferWithMemo, transferWithMemo and transferFrom of one token: each
\* is from's when its turn comes.
Transferable(book, from, tos, ids) ==
    /\ Len(ids) <= Len(tos)
    /\ \A k \in 1 .. Len(ids) :
        /\ ids[k] \in DOMAIN book.holder
        /\ book.holder[ids[k]] = from
        /\ \A j \in 1 .. (k - 1) : ids[j] = ids[k] => tos[j] = from

Transferred(book, tos, ids) ==
    LET lastTurn(i) == {k \in 1 .. Len(ids) :
                            ids[k] = i /\ \A j \in (k + 1) .. Len(ids) : ids[j] # i}
    IN [book EXCEPT !.holder = [i \in DOMAIN @ |->
            IF lastTurn(i) = {} THEN @[i] ELSE tos[CHOOSE k \in lastTurn(i) : TRUE]]]

\* burn: the text stays in tokenURIMap.
Burnt(book, i) ==
    [book EXCEPT !.holder = [j \in DOMAIN @ \ {i} |-> @[j]]]

=============================================================================
