------------------------- MODULE LikeProtocolProofs -------------------------
(***************************************************************************)
(* Theorems about LikeProtocol for any accounts, requests, texts and       *)
(* bounds: its types, the supply of every book, and that the books are     *)
(* TokenCollections.                                                       *)
(***************************************************************************)
EXTENDS LikeProtocol, FiniteSetTheorems, SequenceTheorems, TLAPS

-----------------------------------------------------------------------------
(* One book.                                                               *)

\* A book's texts are exactly those of the ids it has issued, and its holders
\* hold some of these.
Sound(book) ==
    /\ book \in Book(Ids)
    /\ book.currentIndex <= MaxTokens
    /\ DOMAIN book.uri = 0 .. (book.currentIndex - 1)
    /\ DOMAIN book.holder \subseteq DOMAIN book.uri
    /\ TotalSupply(book) <= book.maxSupply

\* A list of arguments: its length and its members.
LEMMA ListType ==
  ASSUME NEW S, NEW l \in Lists(S)
  PROVE  /\ Len(l) \in 0 .. MaxBatch
         /\ \A k \in 1 .. Len(l) : l[k] \in S
<1>1. PICK n \in 0 .. MaxBatch : l \in [1 .. n -> S]
  BY DEF Lists
<1>2. n \in Nat
  BY <1>1, LikeProtocolAssumption
<1>3. l \in Seq(S) /\ DOMAIN l = 1 .. n
  BY <1>1, <1>2
<1>4. Len(l) = n
  BY <1>2, <1>3
<1> QED BY <1>1, <1>4

LEMMA MapType ==
  ASSUME NEW D, NEW S, NEW m
  PROVE  m \in TokenMap(D, S) <=>
            /\ DOMAIN m \subseteq D
            /\ m \in [DOMAIN m -> S]
<1>1. ASSUME m \in TokenMap(D, S) PROVE DOMAIN m \subseteq D /\ m \in [DOMAIN m -> S]
  BY <1>1 DEF TokenMap
<1>2. ASSUME DOMAIN m \subseteq D, m \in [DOMAIN m -> S] PROVE m \in TokenMap(D, S)
  BY <1>2 DEF TokenMap
<1> QED BY <1>1, <1>2

\* What the holders and the texts of a book are.
LEMMA SoundMaps ==
  ASSUME NEW book, Sound(book)
  PROVE  /\ book.currentIndex \in Nat /\ book.maxSupply \in Nat
         /\ book.uri \in [DOMAIN book.uri -> Texts]
         /\ book.holder \in [DOMAIN book.holder -> Accounts]
         /\ IsFiniteSet(DOMAIN book.holder)
         /\ TotalSupply(book) \in Nat
<1>1. /\ book.currentIndex \in Nat /\ book.maxSupply \in Nat
      /\ book.uri \in TokenMap(Ids, Texts) /\ book.holder \in TokenMap(Ids, Accounts)
  BY DEF Sound, Book
<1>2. book.uri \in [DOMAIN book.uri -> Texts] /\ book.holder \in [DOMAIN book.holder -> Accounts]
  BY <1>1, MapType
<1>3. IsFiniteSet(DOMAIN book.uri)
  BY <1>1, FS_Interval DEF Sound
<1>4. IsFiniteSet(DOMAIN book.holder)
  BY <1>3, FS_Subset DEF Sound
<1>5. TotalSupply(book) \in Nat
  BY <1>4, FS_CardinalityType DEF TotalSupply
<1> QED BY <1>1, <1>2, <1>4, <1>5

LEMMA NewBookSound ==
  ASSUME NEW msg \in Msg, ValidConfig(msg.config)
  PROVE  Sound(NewBook(msg)) /\ NewBook(msg).holder = <<>> /\ NewBook(msg).uri = <<>>
<1> DEFINE book == NewBook(msg)
<1>1. msg.config.symbol \in Symbols /\ msg.config.maxSupply \in Nat
  BY DEF Msg, Config, ValidConfig
<1>2. DOMAIN <<>> = {} /\ <<>> \in [{} -> Texts] /\ <<>> \in [{} -> Accounts]
  OBVIOUS
<1>3. <<>> \in TokenMap(Ids, Texts) /\ <<>> \in TokenMap(Ids, Accounts)
  BY <1>2, MapType
<1>4. book \in Book(Ids)
  BY <1>1, <1>3 DEF NewBook, Book, Msg
<1>5. TotalSupply(book) = 0
  BY <1>2, FS_EmptySet DEF NewBook, TotalSupply
<1>6. DOMAIN book.uri = 0 .. (book.currentIndex - 1)
  BY <1>2 DEF NewBook
<1> QED BY <1>1, <1>2, <1>4, <1>5, <1>6, LikeProtocolAssumption DEF Sound, NewBook

\* Minting n tokens: the ids are those after the last one issued, so they are
\* new to both maps, and the supply grows by n.
LEMMA MintedSound ==
  ASSUME NEW book, Sound(book), NEW n \in Nat, NEW tos, NEW texts,
         book.currentIndex + n <= MaxTokens,
         TotalSupply(book) + n <= book.maxSupply,
         \A k \in 1 .. n : tos[k] \in Accounts,
         \A k \in 1 .. n : texts[k] \in Texts
  PROVE  LET m == Minted(book, n, tos, texts) IN
         /\ Sound(m)
         /\ m.maxSupply = book.maxSupply
         /\ m.currentIndex = book.currentIndex + n
         /\ \A i \in DOMAIN book.uri : m.uri[i] = book.uri[i]
         /\ DOMAIN m.holder =
                DOMAIN book.holder \cup (book.currentIndex .. (m.currentIndex - 1))
<1> DEFINE c == book.currentIndex
           new == c .. (c + n - 1)
           uri == [i \in DOMAIN book.uri \cup new |->
                      IF i \in new THEN texts[i - c + 1] ELSE book.uri[i]]
           holder == [i \in DOMAIN book.holder \cup new |->
                      IF i \in new THEN tos[i - c + 1] ELSE book.holder[i]]
           m == Minted(book, n, tos, texts)
<1>1. /\ c \in Nat /\ book.maxSupply \in Nat
      /\ book.uri \in [DOMAIN book.uri -> Texts]
      /\ book.holder \in [DOMAIN book.holder -> Accounts]
      /\ IsFiniteSet(DOMAIN book.holder) /\ TotalSupply(book) \in Nat
  BY SoundMaps
<1>2. book \in Book(Ids) /\ DOMAIN book.uri = 0 .. (c - 1)
      /\ DOMAIN book.holder \subseteq 0 .. (c - 1)
  BY DEF Sound
<1>3. m = [book EXCEPT !.currentIndex = c + n, !.uri = uri, !.holder = holder]
  BY <1>2 DEF Minted, Book
<1>4. \A i \in new : i - c + 1 \in 1 .. n
  BY <1>1
<1>5. DOMAIN uri = 0 .. (c + n - 1) /\ DOMAIN holder \subseteq DOMAIN uri
  BY <1>1, <1>2
<1>6. DOMAIN uri \subseteq Ids
  BY <1>1, <1>5, LikeProtocolAssumption DEF Ids
<1>7. uri \in [DOMAIN uri -> Texts] /\ holder \in [DOMAIN holder -> Accounts]
  BY <1>1, <1>4
<1>8. uri \in TokenMap(Ids, Texts) /\ holder \in TokenMap(Ids, Accounts)
  <2> HIDE DEF uri, holder
  <2> QED BY <1>5, <1>6, <1>7, MapType
<1>9. m \in Book(Ids) /\ m.maxSupply = book.maxSupply /\ m.currentIndex = c + n
      /\ m.uri = uri /\ m.holder = holder
  <2> HIDE DEF uri, holder, m
  <2>1. c + n \in Nat
    BY <1>1
  <2>2. book \in Book(Ids)
    BY <1>2
  <2> HIDE DEF c
  <2>3. /\ m.maxSupply = book.maxSupply /\ m.currentIndex = c + n
        /\ m.uri = uri /\ m.holder = holder
    BY <2>2, <1>3 DEF Book
  <2>4. m \in Book(Ids)
    BY <2>1, <2>2, <1>3, <1>8 DEF Book
  <2> QED BY <2>3, <2>4
<1>10. TotalSupply(m) <= m.maxSupply
  <2>1. IsFiniteSet(new) /\ Cardinality(new) = n
    <3>1. c \in Int /\ c + n - 1 \in Int
      BY <1>1
    <3>2. /\ IsFiniteSet(new)
          /\ Cardinality(new) = IF c > c + n - 1 THEN 0 ELSE (c + n - 1) - c + 1
      BY <3>1, FS_Interval
    <3> QED BY <1>1, <3>2
  <2>2. DOMAIN book.holder \cap new = {}
    BY <1>1, <1>2
  <2>3. Cardinality(DOMAIN book.holder \cup new) = TotalSupply(book) + n
    <3> HIDE DEF new
    <3> QED BY <1>1, <2>1, <2>2, FS_Union, FS_EmptySet DEF TotalSupply
  <2>4. DOMAIN m.holder = DOMAIN book.holder \cup new
    <3> HIDE DEF m
    <3> QED BY <1>9
  <2> QED BY <1>9, <2>3, <2>4 DEF TotalSupply
<1>11. \A i \in DOMAIN book.uri : uri[i] = book.uri[i]
  BY <1>1, <1>2
<1>12. DOMAIN holder = DOMAIN book.holder \cup (c .. (c + n - 1))
  OBVIOUS
<1>13. Sound(m)
  <2> HIDE DEF uri, holder, m
  <2>1. m.currentIndex <= MaxTokens
    BY <1>9
  <2>2. DOMAIN m.uri = 0 .. (m.currentIndex - 1)
    <3> HIDE DEF c
    <3> QED BY <1>1, <1>5, <1>9
  <2>3. DOMAIN m.holder \subseteq DOMAIN m.uri
    BY <1>5, <1>9
  <2> QED BY <1>9, <1>10, <2>1, <2>2, <2>3 DEF Sound
<1> HIDE DEF uri, holder, m
<1>14. DOMAIN m.holder = DOMAIN book.holder \cup (c .. (m.currentIndex - 1))
  BY <1>1, <1>9, <1>12
<1> QED BY <1>9, <1>11, <1>13, <1>14 DEF m

\* Transfers change who holds what, not what is held.
LEMMA TransferredSound ==
  ASSUME NEW book, Sound(book), NEW tos, NEW ids, Len(ids) \in Nat,
         \A k \in 1 .. Len(ids) : tos[k] \in Accounts
  PROVE  LET t == Transferred(book, tos, ids) IN
         /\ Sound(t)
         /\ t.maxSupply = book.maxSupply /\ t.currentIndex = book.currentIndex
         /\ t.uri = book.uri /\ DOMAIN t.holder = DOMAIN book.holder
<1> DEFINE turns(i) == {k \in 1 .. Len(ids) :
                            ids[k] = i /\ \A j \in (k + 1) .. Len(ids) : ids[j] # i}
           last(i) == CHOOSE k \in turns(i) : TRUE
           holder == [i \in DOMAIN book.holder |->
                        IF turns(i) = {} THEN book.holder[i] ELSE tos[last(i)]]
           t == Transferred(book, tos, ids)
<1>1. t = [book EXCEPT !.holder = holder]
  BY DEF Transferred
<1>2. ASSUME NEW i, turns(i) # {} PROVE last(i) \in 1 .. Len(ids)
  BY <1>2
<1>3. \A i \in DOMAIN book.holder : holder[i] \in Accounts
  <2> TAKE i \in DOMAIN book.holder
  <2>1. CASE turns(i) = {}
    BY <2>1, SoundMaps
  <2>2. CASE turns(i) # {}
    BY <1>2, <2>2
  <2> QED BY <2>1, <2>2
<1> HIDE DEF turns, last
<1>4. DOMAIN holder = DOMAIN book.holder /\ holder \in [DOMAIN holder -> Accounts]
  BY <1>3
<1> HIDE DEF holder, t
<1>5. DOMAIN book.holder \subseteq Ids
  BY MapType DEF Sound, Book
<1>6. holder \in TokenMap(Ids, Accounts)
  BY <1>4, <1>5, MapType
<1>7. /\ t \in Book(Ids) /\ t.holder = holder
      /\ t.maxSupply = book.maxSupply /\ t.currentIndex = book.currentIndex
      /\ t.uri = book.uri
  BY <1>1, <1>6 DEF Sound, Book
<1>8. TotalSupply(t) = TotalSupply(book)
  BY <1>4, <1>7 DEF TotalSupply
<1>9. Sound(t)
  BY <1>4, <1>7, <1>8 DEF Sound
<1> QED BY <1>4, <1>7, <1>9 DEF t

\* A burn takes one token and leaves its text.
LEMMA BurntSound ==
  ASSUME NEW book, Sound(book), NEW i \in DOMAIN book.holder
  PROVE  LET u == Burnt(book, i) IN
         /\ Sound(u)
         /\ u.maxSupply = book.maxSupply /\ u.currentIndex = book.currentIndex
         /\ u.uri = book.uri /\ DOMAIN u.holder = DOMAIN book.holder \ {i}
<1> DEFINE holder == [j \in DOMAIN book.holder \ {i} |-> book.holder[j]]
           u == Burnt(book, i)
<1>1. u = [book EXCEPT !.holder = holder]
  BY DEF Burnt
<1>2. DOMAIN holder = DOMAIN book.holder \ {i} /\ holder \in [DOMAIN holder -> Accounts]
  BY SoundMaps
<1> HIDE DEF holder, u
<1>3. DOMAIN book.holder \subseteq Ids
  BY MapType DEF Sound, Book
<1>4. holder \in TokenMap(Ids, Accounts)
  BY <1>2, <1>3, MapType
<1>5. /\ u \in Book(Ids) /\ u.holder = holder
      /\ u.maxSupply = book.maxSupply /\ u.currentIndex = book.currentIndex
      /\ u.uri = book.uri
  BY <1>1, <1>4 DEF Sound, Book
<1>6. TotalSupply(u) <= TotalSupply(book)
  BY <1>2, <1>5, SoundMaps, FS_Subset DEF TotalSupply
<1>7. TotalSupply(u) \in Nat
  BY <1>2, <1>5, SoundMaps, FS_Subset, FS_CardinalityType DEF TotalSupply
<1>8. book.currentIndex \in Nat /\ book.maxSupply \in Nat /\ TotalSupply(book) \in Nat
  BY SoundMaps
<1>9. Sound(u)
  BY <1>2, <1>5, <1>6, <1>7, <1>8 DEF Sound
<1> QED BY <1>2, <1>5, <1>9 DEF u

LEMMA UpdatedSound ==
  ASSUME NEW book, Sound(book), NEW config \in Config, Updatable(book, config)
  PROVE  LET u == Updated(book, config) IN
         /\ Sound(u)
         /\ u.maxSupply >= book.maxSupply /\ u.currentIndex = book.currentIndex
         /\ u.uri = book.uri /\ u.holder = book.holder
<1> DEFINE u == Updated(book, config)
<1>1. u \in Book(Ids) /\ u.maxSupply = config.maxSupply
      /\ u.currentIndex = book.currentIndex
      /\ u.uri = book.uri /\ u.holder = book.holder
  BY DEF Updated, Sound, Book, Config
<1>2. u.maxSupply >= book.maxSupply /\ u.maxSupply \in Nat
  BY <1>1 DEF Updatable, Config
<1>3. TotalSupply(u) = TotalSupply(book)
  BY <1>1 DEF TotalSupply
<1> HIDE DEF u
<1>4. book.currentIndex \in Nat /\ book.maxSupply \in Nat /\ TotalSupply(book) \in Nat
  BY SoundMaps
<1>5. Sound(u)
  BY <1>1, <1>2, <1>3, <1>4 DEF Sound
<1> QED BY <1>1, <1>2, <1>5 DEF u

-----------------------------------------------------------------------------
(* The protocol: types and supply.                                         *)

Inv == TypeOK /\ \A b \in DOMAIN books : Sound(books[b])

LEMMA InitInv == Init => Inv
<1> SUFFICES ASSUME Init PROVE Inv
  OBVIOUS
<1>1. <<>> \in Seq(Book(Ids)) /\ Len(<<>>) = 0 /\ DOMAIN <<>> = {}
  OBVIOUS
<1>2. 0 <= MaxBooks
  BY LikeProtocolAssumption
<1>3. TypeOK
  BY <1>1, <1>2 DEF Init, TypeOK
<1>4. \A b \in DOMAIN books : Sound(books[b])
  BY <1>1 DEF Init
<1> QED BY <1>3, <1>4 DEF Inv

\* One book becomes a sound one.
LEMMA BecomesInv ==
  ASSUME Inv, NEW b \in DOMAIN books, NEW book, Sound(book), Becomes(b, book)
  PROVE  /\ Inv'
         /\ Len(books') = Len(books) /\ books'[b] = book
         /\ \A c \in DOMAIN books : c # b => books'[c] = books[c]
<1>1. book \in Book(Ids)
  BY DEF Sound
<1>2. books \in Seq(Book(Ids)) /\ b \in 1 .. Len(books)
  BY DEF Inv, TypeOK
<1>3. books' = [books EXCEPT ![b] = book]
  BY DEF Becomes
<1>4. /\ books' \in Seq(Book(Ids)) /\ Len(books') = Len(books)
      /\ \A c \in 1 .. Len(books) : books'[c] = IF c = b THEN book ELSE books[c]
  BY <1>1, <1>2, <1>3, ExceptSeq
<1>5. DOMAIN books = 1 .. Len(books) /\ DOMAIN books' = 1 .. Len(books)
  BY <1>2, <1>4
<1>6. \A c \in DOMAIN books' : Sound(books'[c])
  BY <1>4, <1>5 DEF Inv
<1>7. TypeOK'
  BY <1>4 DEF Inv, TypeOK, Becomes, protocolVars
<1> QED BY <1>2, <1>4, <1>5, <1>6, <1>7 DEF Inv

\* What a transaction to a book leaves behind: a sound book, whose supply,
\* ids and texts changed in one of the ways TokenCollections knows.
Raised(old, new) ==
    /\ new.maxSupply >= old.maxSupply
    /\ new.currentIndex = old.currentIndex /\ new.uri = old.uri
    /\ DOMAIN new.holder = DOMAIN old.holder

MintedTo(old, new) ==
    /\ new.maxSupply = old.maxSupply
    /\ new.currentIndex >= old.currentIndex
    /\ \A i \in DOMAIN old.uri : new.uri[i] = old.uri[i]
    /\ DOMAIN new.holder =
            DOMAIN old.holder \cup (old.currentIndex .. (new.currentIndex - 1))

BurntTo(old, new) ==
    /\ new.maxSupply = old.maxSupply
    /\ new.currentIndex = old.currentIndex /\ new.uri = old.uri
    /\ \E i \in DOMAIN old.holder : DOMAIN new.holder = DOMAIN old.holder \ {i}

Changed(b, new) ==
    /\ Sound(new) /\ Becomes(b, new)
    /\ Raised(books[b], new) \/ MintedTo(books[b], new) \/ BurntTo(books[b], new)

LEMMA MintingChanges ==
  ASSUME Inv, NEW s \in Accounts, NEW b \in DOMAIN books, Minting(s, b)
  PROVE  \E new : Changed(b, new)
<1> DEFINE book == books[b]
<1>1. Sound(book)
  BY DEF Inv
<1>2. book.currentIndex \in Nat /\ book.maxSupply \in Nat /\ TotalSupply(book) \in Nat
  BY <1>1, SoundMaps
<1>3. ASSUME NEW n \in Nat, NEW tos, NEW texts,
             TotalSupply(book) + n <= book.maxSupply, Room(b, n),
             \A k \in 1 .. n : tos[k] \in Accounts,
             \A k \in 1 .. n : texts[k] \in Texts,
             Becomes(b, Minted(book, n, tos, texts))
      PROVE  \E new : Changed(b, new)
  <2> DEFINE new == Minted(book, n, tos, texts)
  <2>1. book.currentIndex + n <= MaxTokens
    BY <1>3 DEF Room
  <2>2. /\ Sound(new) /\ new.maxSupply = book.maxSupply
        /\ new.currentIndex = book.currentIndex + n
        /\ \A i \in DOMAIN book.uri : new.uri[i] = book.uri[i]
        /\ DOMAIN new.holder =
                DOMAIN book.holder \cup (book.currentIndex .. (new.currentIndex - 1))
    <3> HIDE DEF book
    <3> QED BY <1>1, <1>3, <2>1, MintedSound
  <2> HIDE DEF new
  <2>3. MintedTo(book, new)
    BY <1>2, <2>2 DEF MintedTo
  <2>4. Changed(b, new)
    BY <1>3, <2>2, <2>3 DEF Changed, new
  <2> QED BY <2>4
<1>4. PICK memos \in 0 .. MaxBatch, texts \in Lists(Texts) :
        \/ \E to \in Accounts : Mint(s, b, to, memos, texts)
        \/ \E tos \in Lists(Accounts) :
            \/ BatchMint(s, b, tos, memos, texts)
            \/ \E i \in 0 .. MaxTokens : SafeMintWithTokenId(s, b, i, tos, memos, texts)
  BY DEF Minting
<1>5. Len(texts) \in Nat /\ \A k \in 1 .. Len(texts) : texts[k] \in Texts
  BY ListType, LikeProtocolAssumption
<1>6. ASSUME NEW to \in Accounts, Mint(s, b, to, memos, texts)
      PROVE  \E new : Changed(b, new)
  <2> DEFINE tos == [k \in 1 .. Len(texts) |-> to]
  <2>1. \A k \in 1 .. Len(texts) : tos[k] \in Accounts
    OBVIOUS
  <2>2. /\ TotalSupply(book) + Len(texts) <= book.maxSupply /\ Room(b, Len(texts))
        /\ Becomes(b, Minted(book, Len(texts), tos, texts))
    BY <1>6 DEF Mint, Mintable, EnoughSupply
  <2> HIDE DEF tos, book
  <2> QED BY <1>3, <1>5, <2>1, <2>2
<1>7. ASSUME NEW tos \in Lists(Accounts), BatchMint(s, b, tos, memos, texts)
      PROVE  \E new : Changed(b, new)
  <2>1. Len(tos) \in Nat /\ \A k \in 1 .. Len(tos) : tos[k] \in Accounts
    BY ListType, LikeProtocolAssumption
  <2>2. /\ TotalSupply(book) + Len(texts) <= book.maxSupply /\ Len(tos) <= Len(texts)
        /\ Room(b, Len(tos)) /\ Becomes(b, Minted(book, Len(tos), tos, texts))
    BY <1>7 DEF BatchMint, BatchMintable, EnoughSupply
  <2> HIDE DEF book
  <2>3. TotalSupply(book) + Len(tos) <= book.maxSupply
    BY <1>2, <1>5, <2>1, <2>2
  <2>4. \A k \in 1 .. Len(tos) : texts[k] \in Texts
    BY <1>5, <2>1, <2>2
  <2> QED BY <1>3, <2>1, <2>2, <2>3, <2>4
<1>8. ASSUME NEW tos \in Lists(Accounts), NEW i \in 0 .. MaxTokens,
             SafeMintWithTokenId(s, b, i, tos, memos, texts)
      PROVE  \E new : Changed(b, new)
  <2>1. Len(tos) \in Nat /\ \A k \in 1 .. Len(tos) : tos[k] \in Accounts
    BY ListType, LikeProtocolAssumption
  <2>2. /\ TotalSupply(book) + Len(texts) <= book.maxSupply /\ Len(texts) <= Len(tos)
        /\ Room(b, Len(texts)) /\ Becomes(b, Minted(book, Len(texts), tos, texts))
    BY <1>8 DEF SafeMintWithTokenId, SafeMintable, EnoughSupply
  <2> HIDE DEF book
  <2>3. \A k \in 1 .. Len(texts) : tos[k] \in Accounts
    BY <1>5, <2>1, <2>2
  <2> QED BY <1>3, <1>5, <2>2, <2>3
<1> QED BY <1>4, <1>6, <1>7, <1>8

LEMMA BookChanges ==
  ASSUME Inv, NEW s \in Accounts, NEW b \in DOMAIN books, OfBook(s, b)
  PROVE  \E new : Changed(b, new)
<1> DEFINE book == books[b]
<1>1. Sound(book)
  BY DEF Inv
<1>2. book.maxSupply \in Nat /\ book.currentIndex \in Nat
  BY <1>1, SoundMaps
<1>3. CASE Minting(s, b)
  BY <1>3, MintingChanges
<1>4. ASSUME NEW config \in Configs, Update(s, b, config)
      PROVE  \E new : Changed(b, new)
  <2>1. config \in Config /\ Updatable(book, config) /\ Becomes(b, Updated(book, config))
    BY <1>4, LikeProtocolAssumption DEF Update
  <2>2. Sound(Updated(book, config)) /\ Raised(book, Updated(book, config))
    <3> HIDE DEF book
    <3> QED BY <1>1, <2>1, UpdatedSound DEF Raised
  <2> QED BY <2>1, <2>2 DEF Changed
<1>5. ASSUME NEW tos \in Lists(Accounts), NEW ids \in Lists(Ids), NEW memos \in 0 .. MaxBatch,
             BatchTransferWithMemo(s, b, tos, ids, memos)
      PROVE  \E new : Changed(b, new)
  <2>1. /\ Len(tos) \in Nat /\ Len(ids) \in Nat
        /\ \A k \in 1 .. Len(tos) : tos[k] \in Accounts
    BY ListType, LikeProtocolAssumption
  <2>2. Len(ids) <= Len(tos) /\ Becomes(b, Transferred(book, tos, ids))
    BY <1>5 DEF BatchTransferWithMemo, Transferable
  <2>3. \A k \in 1 .. Len(ids) : tos[k] \in Accounts
    BY <2>1, <2>2
  <2> DEFINE new == Transferred(book, tos, ids)
  <2>4. /\ Sound(new) /\ new.maxSupply = book.maxSupply
        /\ new.currentIndex = book.currentIndex /\ new.uri = book.uri
        /\ DOMAIN new.holder = DOMAIN book.holder
    <3> HIDE DEF book
    <3> QED BY <1>1, <2>1, <2>3, TransferredSound
  <2>5. Raised(book, new)
    BY <1>2, <2>4 DEF Raised
  <2> QED BY <2>2, <2>4, <2>5 DEF Changed
<1>6. ASSUME NEW i \in Ids, Burn(s, b, i)
      PROVE  \E new : Changed(b, new)
  <2> DEFINE new == Burnt(book, i)
  <2>1. i \in DOMAIN book.holder /\ Becomes(b, new)
    BY <1>6 DEF Burn
  <2>2. /\ Sound(new) /\ new.maxSupply = book.maxSupply
        /\ new.currentIndex = book.currentIndex /\ new.uri = book.uri
        /\ DOMAIN new.holder = DOMAIN book.holder \ {i}
    <3> HIDE DEF book
    <3> QED BY <1>1, <2>1, BurntSound
  <2>3. BurntTo(book, new)
    BY <2>1, <2>2 DEF BurntTo
  <2> QED BY <2>1, <2>2, <2>3 DEF Changed
<1>7. ASSUME NEW new, Becomes(b, new), new \in Book(Ids),
             new.maxSupply = book.maxSupply, new.currentIndex = book.currentIndex,
             new.uri = book.uri, new.holder = book.holder
      PROVE  \E n : Changed(b, n)
  <2>1. TotalSupply(new) = TotalSupply(book)
    BY <1>7 DEF TotalSupply
  <2>2. Sound(new)
    BY <1>1, <1>7, <2>1 DEF Sound
  <2>3. Raised(book, new)
    BY <1>2, <1>7 DEF Raised
  <2> QED BY <1>7, <2>2, <2>3 DEF Changed
<1>8. ASSUME NEW to \in Accounts \cup {None}, TransferOwnership(s, b, to)
      PROVE  \E new : Changed(b, new)
  <2> DEFINE new == [book EXCEPT !.owner = to]
  <2>1. Becomes(b, new)
    BY <1>8 DEF TransferOwnership
  <2>2. /\ new \in Book(Ids) /\ new.maxSupply = book.maxSupply
        /\ new.currentIndex = book.currentIndex
        /\ new.uri = book.uri /\ new.holder = book.holder
    BY <1>1 DEF Sound, Book
  <2> QED BY <1>7, <2>1, <2>2
<1>9. CASE RenounceRole(s, b)
  <2>1. ASSUME NEW new, Becomes(b, new),
               \/ new = [book EXCEPT !.minters = @ \ {s}]
               \/ new = [book EXCEPT !.updaters = @ \ {s}]
        PROVE  \E n : Changed(b, n)
    <3>1. /\ new \in Book(Ids) /\ new.maxSupply = book.maxSupply
          /\ new.currentIndex = book.currentIndex
          /\ new.uri = book.uri /\ new.holder = book.holder
      BY <1>1, <2>1 DEF Sound, Book
    <3> QED BY <1>7, <2>1, <3>1
  <2> QED BY <1>9, <2>1 DEF RenounceRole
<1> QED BY <1>3, <1>4, <1>5, <1>6, <1>8, <1>9 DEF OfBook

\* New books are sound, and there is room for them.
LEMMA NewBooksInv ==
  ASSUME Inv, NEW msgs \in Lists(Msgs), NewBookNFTs(msgs)
  PROVE  /\ Inv'
         /\ Len(books') >= Len(books)
         /\ \A b \in 1 .. Len(books) : books'[b] = books[b]
         /\ \A b \in 1 .. Len(books') : b > Len(books) =>
                /\ books'[b].maxSupply \in Nat /\ books'[b].currentIndex = 0
                /\ books'[b].uri = <<>> /\ books'[b].holder = <<>>
<1> DEFINE n == Len(msgs)
           new == [k \in 1 .. n |-> NewBook(msgs[k])]
<1>1. n \in Nat /\ \A k \in 1 .. n : msgs[k] \in Msg
  BY ListType, LikeProtocolAssumption
<1>2. \A k \in 1 .. n : Sound(NewBook(msgs[k])) /\ NewBook(msgs[k]).holder = <<>>
                        /\ NewBook(msgs[k]).uri = <<>>
  BY <1>1, NewBookSound DEF NewBookNFTs
<1>3. \A k \in 1 .. n : NewBook(msgs[k]).currentIndex = 0
                        /\ NewBook(msgs[k]).maxSupply \in Nat
  BY <1>2, SoundMaps DEF NewBook
<1>4. \A k \in 1 .. n : new[k] \in Book(Ids)
  BY <1>2 DEF Sound
<1>5. new \in Seq(Book(Ids)) /\ Len(new) = n
  <2> HIDE DEF n
  <2>1. new \in [1 .. n -> Book(Ids)]
    BY <1>4
  <2> HIDE DEF new
  <2> QED BY <1>1, <2>1
<1>6. books \in Seq(Book(Ids)) /\ Len(books) \in Nat /\ DOMAIN books = 1 .. Len(books)
  BY DEF Inv, TypeOK
<1>7. books' = books \o new
  BY DEF NewBookNFTs
<1> HIDE DEF n, new
<1>8. /\ books' \in Seq(Book(Ids)) /\ Len(books') = Len(books) + n
      /\ \A i \in 1 .. Len(books) + n :
            books'[i] = IF i <= Len(books) THEN books[i] ELSE new[i - Len(books)]
  BY <1>5, <1>6, <1>7, ConcatProperties
<1>9. \A b \in 1 .. Len(books) : books'[b] = books[b]
  BY <1>1, <1>6, <1>8
<1>10. \A b \in 1 .. Len(books') : b > Len(books) =>
         \E k \in 1 .. n : books'[b] = NewBook(msgs[k])
  <2> TAKE b \in 1 .. Len(books')
  <2> HAVE b > Len(books)
  <2>1. b - Len(books) \in 1 .. n /\ books'[b] = new[b - Len(books)]
    BY <1>1, <1>6, <1>8
  <2> QED BY <2>1 DEF new
<1>11. \A b \in 1 .. Len(books') : Sound(books'[b])
  BY <1>1, <1>2, <1>6, <1>8, <1>9, <1>10 DEF Inv
<1>12. DOMAIN books' = 1 .. Len(books')
  BY <1>8
<1>13. TypeOK'
  BY <1>8 DEF Inv, TypeOK, NewBookNFTs, protocolVars, n
<1>14. Inv'
  BY <1>11, <1>12, <1>13 DEF Inv
<1> QED BY <1>1, <1>2, <1>3, <1>6, <1>8, <1>9, <1>10, <1>14

\* A transaction of the owner of the protocol touches no book.
LEMMA ProtocolInv ==
  ASSUME Inv, NEW s \in Accounts, OfProtocol(s)
  PROVE  Inv' /\ books' = books
<1>1. books' = books
  BY DEF OfProtocol, Pause, Unpause, UpgradeTo, TransferProtocol
<1>2. /\ protocolOwner' \in Accounts \cup {None} /\ paused' \in BOOLEAN
      /\ implementation' \in Implementations
  BY DEF Inv, TypeOK, OfProtocol, Pause, Unpause, UpgradeTo, TransferProtocol
<1>3. TypeOK'
  BY <1>1, <1>2 DEF Inv, TypeOK
<1>4. \A b \in DOMAIN books' : Sound(books'[b])
  BY <1>1 DEF Inv
<1> QED BY <1>1, <1>3, <1>4 DEF Inv

LEMMA StepInv == Inv /\ [Next]_vars => Inv'
<1> SUFFICES ASSUME Inv, [Next]_vars PROVE Inv'
  OBVIOUS
<1>1. ASSUME NEW msgs \in Lists(Msgs), NewBookNFTs(msgs) PROVE Inv'
  BY <1>1, NewBooksInv
<1>2. ASSUME NEW s \in Accounts, OfProtocol(s) PROVE Inv'
  BY <1>2, ProtocolInv
<1>3. ASSUME NEW s \in Accounts, NEW b \in DOMAIN books, OfBook(s, b) PROVE Inv'
  <2>1. PICK new : Changed(b, new)
    BY <1>3, BookChanges
  <2> QED BY <2>1, BecomesInv DEF Changed
<1>4. CASE UNCHANGED vars
  <2>1. /\ books' = books /\ protocolOwner' = protocolOwner
        /\ paused' = paused /\ implementation' = implementation
    BY <1>4 DEF vars, protocolVars
  <2>2. TypeOK' /\ \A b \in DOMAIN books' : Sound(books'[b])
    BY <2>1 DEF Inv, TypeOK
  <2> QED BY <2>2 DEF Inv
<1> QED BY <1>1, <1>2, <1>3, <1>4 DEF Next

\* The factory and the books are always of their types (LikeProtocol, BookNFT),
\* and a book's texts are those of the ids it has issued.
THEOREM InvCorrect == Spec => []Inv
  BY InitInv, StepInv, PTL DEF Spec

\* The storage of the protocol and of its books is well typed.
THEOREM TypeOKCorrect == Spec => []TypeOK
<1>1. Inv => TypeOK
  BY DEF Inv
<1> QED BY <1>1, InvCorrect, PTL

\* No book ever has more tokens than its max_supply (_ensureEnoughSupply).
THEOREM SupplyBoundedCorrect == Spec => []SupplyBounded
<1>1. Inv => SupplyBounded
  BY DEF Inv, SupplyBounded, Sound
<1> QED BY <1>1, InvCorrect, PTL

-----------------------------------------------------------------------------
(* The books implement TokenCollections.                                   *)

\* A book that becomes another one, as the readers see it.
LEMMA Seen ==
  ASSUME Inv, NEW b \in DOMAIN books, NEW new, Sound(new), Becomes(b, new)
  PROVE  /\ b \in Places
         /\ Cap[b] = books[b].maxSupply /\ Cap' = [Cap EXCEPT ![b] = new.maxSupply]
         /\ Issued[b] = books[b].currentIndex
         /\ Issued' = [Issued EXCEPT ![b] = new.currentIndex]
         /\ Text[b] = books[b].uri /\ Text' = [Text EXCEPT ![b] = new.uri]
         /\ Held[b] = DOMAIN books[b].holder
         /\ Held' = [Held EXCEPT ![b] = DOMAIN new.holder]
<1>1. /\ Len(books') = Len(books) /\ books'[b] = new
      /\ \A c \in DOMAIN books : c # b => books'[c] = books[c]
  BY BecomesInv
<1>2. Len(books) \in Nat /\ DOMAIN books = 1 .. Len(books) /\ Len(books) <= MaxBooks
  BY DEF Inv, TypeOK
<1>3. b \in Places /\ b <= Len(books)
  BY <1>2, LikeProtocolAssumption DEF Places
<1>4. \A c \in Places : c <= Len(books) => c \in DOMAIN books
  BY <1>2 DEF Places
<1>5. \A c \in Places \ {b} : c <= Len(books) => books'[c] = books[c]
  BY <1>1, <1>4
<1>6. Cap[b] = books[b].maxSupply /\ Cap' = [Cap EXCEPT ![b] = new.maxSupply]
  BY <1>1, <1>3, <1>5 DEF Cap
<1>7. /\ Issued[b] = books[b].currentIndex
      /\ Issued' = [Issued EXCEPT ![b] = new.currentIndex]
  BY <1>1, <1>3, <1>5 DEF Issued
<1>8. Text[b] = books[b].uri /\ Text' = [Text EXCEPT ![b] = new.uri]
  BY <1>1, <1>3, <1>5 DEF Text
<1>9. /\ Held[b] = DOMAIN books[b].holder
      /\ Held' = [Held EXCEPT ![b] = DOMAIN new.holder]
  BY <1>1, <1>3, <1>5 DEF Held
<1> QED BY <1>3, <1>6, <1>7, <1>8, <1>9

LEMMA SeenMaps ==
  /\ DOMAIN Cap = Places /\ DOMAIN Issued = Places
  /\ DOMAIN Text = Places /\ DOMAIN Held = Places
  /\ Cap = [c \in Places |-> Cap[c]] /\ Issued = [c \in Places |-> Issued[c]]
  /\ Text = [c \in Places |-> Text[c]] /\ Held = [c \in Places |-> Held[c]]
  BY DEF Cap, Issued, Text, Held

LEMMA ChangedIsStep ==
  ASSUME Inv, NEW b \in DOMAIN books, NEW new, Changed(b, new)
  PROVE  [Collections!Next]_(Collections!vars)
<1> DEFINE old == books[b]
<1>1. /\ b \in Places
      /\ Cap[b] = old.maxSupply /\ Cap' = [Cap EXCEPT ![b] = new.maxSupply]
      /\ Issued[b] = old.currentIndex /\ Issued' = [Issued EXCEPT ![b] = new.currentIndex]
      /\ Text[b] = old.uri /\ Text' = [Text EXCEPT ![b] = new.uri]
      /\ Held[b] = DOMAIN old.holder /\ Held' = [Held EXCEPT ![b] = DOMAIN new.holder]
  BY Seen DEF Changed
<1>2. Sound(old) /\ Sound(new)
  BY DEF Inv, Changed
<1> HIDE DEF old
<1>3. CASE Raised(old, new)
  <2>1. Issued' = Issued /\ Text' = Text /\ Held' = Held
    BY <1>1, <1>3, SeenMaps DEF Raised
  <2>2. Cap'[b] >= Cap[b] /\ Cap' = [Cap EXCEPT ![b] = Cap'[b]]
    BY <1>1, <1>3, SeenMaps DEF Raised
  <2>3. Collections!Raise(b)
    BY <2>1, <2>2 DEF Collections!Raise
  <2> QED BY <1>1, <2>3 DEF Collections!Next
<1>4. CASE MintedTo(old, new)
  <2>1. Cap' = Cap
    BY <1>1, <1>4, SeenMaps DEF MintedTo
  <2>2. Issued'[b] >= Issued[b] /\ Issued' = [Issued EXCEPT ![b] = Issued'[b]]
    BY <1>1, <1>4, SeenMaps DEF MintedTo
  <2>3. /\ Text' = [Text EXCEPT ![b] = Text'[b]]
        /\ DOMAIN Text'[b] = 0 .. (Issued'[b] - 1)
        /\ \A i \in DOMAIN Text[b] : Text'[b][i] = Text[b][i]
    BY <1>1, <1>2, <1>4, SeenMaps DEF MintedTo, Sound
  <2>4. Held' = [Held EXCEPT ![b] = Held[b] \cup (Issued[b] .. (Issued'[b] - 1))]
    BY <1>1, <1>4, SeenMaps DEF MintedTo
  <2>5. Cardinality(Held'[b]) <= Cap[b]
    BY <1>1, <1>2, <1>4, SeenMaps DEF MintedTo, Sound, TotalSupply
  <2>6. Collections!Cardinality(Held'[b]) <= Cap[b]
    BY <2>5 DEF Collections!Cardinality, Cardinality
  <2>7. Collections!Issue(b)
    BY <2>1, <2>2, <2>3, <2>4, <2>6 DEF Collections!Issue
  <2> QED BY <1>1, <2>7 DEF Collections!Next
<1>5. CASE BurntTo(old, new)
  <2>1. Cap' = Cap /\ Issued' = Issued /\ Text' = Text
    BY <1>1, <1>5, SeenMaps DEF BurntTo
  <2>2. \E i \in Held[b] : Held' = [Held EXCEPT ![b] = Held[b] \ {i}]
    BY <1>1, <1>5 DEF BurntTo
  <2>3. Collections!Burn(b)
    BY <2>1, <2>2 DEF Collections!Burn
  <2> QED BY <1>1, <2>3 DEF Collections!Next
<1> QED BY <1>3, <1>4, <1>5 DEF Changed, old

LEMMA NewBooksOpen ==
  ASSUME Inv, NEW msgs \in Lists(Msgs), NewBookNFTs(msgs)
  PROVE  Collections!Open
<1>1. /\ Len(books') >= Len(books)
      /\ \A b \in 1 .. Len(books) : books'[b] = books[b]
      /\ \A b \in 1 .. Len(books') : b > Len(books) =>
                /\ books'[b].maxSupply \in Nat /\ books'[b].currentIndex = 0
                /\ books'[b].uri = <<>> /\ books'[b].holder = <<>>
  BY NewBooksInv
<1>2. Len(books) \in Nat /\ Len(books') \in Nat /\ DOMAIN books = 1 .. Len(books)
  BY NewBooksInv DEF Inv, TypeOK
<1>3. ASSUME NEW b \in Places
      PROVE  \/ /\ b <= Len(books) /\ b <= Len(books') /\ books'[b] = books[b]
                /\ books[b].maxSupply \in Nat
             \/ /\ ~(b <= Len(books)) /\ b <= Len(books')
                /\ books'[b].maxSupply \in Nat /\ books'[b].currentIndex = 0
                /\ books'[b].uri = <<>> /\ books'[b].holder = <<>>
             \/ ~(b <= Len(books)) /\ ~(b <= Len(books'))
  <2>1. b \in Nat /\ b >= 1
    BY DEF Places
  <2>2. CASE b <= Len(books)
    <3>1. b \in DOMAIN books
      BY <1>2, <2>1, <2>2
    <3> QED BY <1>1, <1>2, <2>1, <2>2, <3>1, SoundMaps DEF Inv
  <2> QED BY <1>1, <1>2, <2>1, <2>2
<1>4. DOMAIN <<>> = {}
  OBVIOUS
<1>5. Cap' \in [Places -> Nat] /\ \A b \in Places : Cap'[b] # Cap[b] => Cap[b] = 0
  BY <1>3 DEF Cap
<1>6. Issued' = Issued
  BY <1>3 DEF Issued
<1>7. Text' = Text
  BY <1>3 DEF Text
<1>8. Held' = Held
  BY <1>3, <1>4 DEF Held
<1> QED BY <1>5, <1>6, <1>7, <1>8 DEF Collections!Open

LEMMA InitCollections == Init => Collections!Init
<1> SUFFICES ASSUME Init PROVE Collections!Init
  OBVIOUS
<1>1. Len(books) = 0 /\ \A b \in Places : ~(b <= Len(books))
  BY DEF Init, Places
<1> QED BY <1>1 DEF Collections!Init, Cap, Issued, Text, Held

LEMMA StepCollections == Inv /\ [Next]_vars => [Collections!Next]_(Collections!vars)
<1> SUFFICES ASSUME Inv, [Next]_vars PROVE [Collections!Next]_(Collections!vars)
  OBVIOUS
<1>1. ASSUME NEW msgs \in Lists(Msgs), NewBookNFTs(msgs)
      PROVE  [Collections!Next]_(Collections!vars)
  BY <1>1, NewBooksOpen DEF Collections!Next
<1>2. ASSUME books' = books PROVE UNCHANGED Collections!vars
  BY <1>2 DEF Collections!vars, Cap, Issued, Text, Held
<1>3. ASSUME NEW s \in Accounts, OfProtocol(s) PROVE [Collections!Next]_(Collections!vars)
  BY <1>2, <1>3, ProtocolInv
<1>4. ASSUME NEW s \in Accounts, NEW b \in DOMAIN books, OfBook(s, b)
      PROVE  [Collections!Next]_(Collections!vars)
  BY <1>4, BookChanges, ChangedIsStep
<1>5. CASE UNCHANGED vars
  BY <1>2, <1>5 DEF vars
<1> QED BY <1>1, <1>3, <1>4, <1>5 DEF Next

\* Whatever is minted, burnt, transferred or updated, the books are collections
\* that issue every id once, in order, and keep its text.
THEOREM CollectionsImplemented == Spec => ImplementsCollections
<1>1. Spec => Collections!Init /\ [][Collections!Next]_(Collections!vars)
  BY InitCollections, StepCollections, InvCorrect, PTL DEF Spec
<1> QED BY <1>1 DEF ImplementsCollections, Collections!Spec

=============================================================================
