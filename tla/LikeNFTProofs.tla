--------------------------- MODULE LikeNFTProofs ---------------------------
(***************************************************************************)
(* Theorems about LikeNFTMigration that hold for any migrations, classes,  *)
(* assets, tasks and bounds, and for every set of faults a theorem does    *)
(* not exclude.                                                            *)
(*                                                                         *)
(* What a task or a row knows is about books, and books only grow: what is *)
(* known stays true, however old the copy.  So what is known is stated of  *)
(* the books bs, whichever they are, and carried from one to the next.     *)
(***************************************************************************)
EXTENDS LikeNFTMigration, FiniteSetTheorems, SequenceTheorems, TLAPS

-----------------------------------------------------------------------------
(* Books.                                                                  *)

Accounts == Migrations \cup {Operator}

\* Nothing is burnt: a book's tokens are all those it has issued.
Sound(book) ==
    /\ book \in BookContract!Book(Nat)
    /\ book.owner \in Accounts
    /\ DOMAIN book.holder = 0 .. (book.currentIndex - 1)
    /\ DOMAIN book.uri = 0 .. (book.currentIndex - 1)

IsHome(book, i) ==
    book.holder[i] # Operator =>
        \E a \in NFTs(book.holder[i]) : a.class = book.symbol /\ a.nft \in {i, book.uri[i]}

HasText(book, i) == book.uri[i] \in {TextOf(book.symbol, i)} \cup Plain

Good(book) ==
    /\ Sound(book)
    /\ \A i \in 0 .. (book.currentIndex - 1) : IsHome(book, i) /\ HasText(book, i)

\* A book comes after another: what has left the operator has left for good.
GrowsTo(book, new) ==
    /\ new.symbol = book.symbol
    /\ book.owner # Operator => new.owner = book.owner
    /\ \A i \in DOMAIN book.holder :
        /\ i \in DOMAIN new.holder
        /\ new.uri[i] = book.uri[i]
        /\ book.holder[i] # Operator => new.holder[i] = book.holder[i]

Grow(bs, cs) ==
    /\ DOMAIN bs \subseteq DOMAIN cs
    /\ \A b \in DOMAIN bs : GrowsTo(bs[b], cs[b])

\* Delivered, of one book.
BroughtIn(book, a) ==
    IF a.nft = None THEN book.owner = a.migration
    ELSE \E i \in DOMAIN book.holder :
        book.holder[i] = a.migration /\ a.nft \in {i, book.uri[i]}

Brought(bs, a) ==
    \E b \in DOMAIN bs : bs[b].symbol = a.class /\ BroughtIn(bs[b], a)

\* It has been brought to someone who has it in his snapshot.
Sent(bs, a) ==
    \E o \in Assets :
        /\ o.class = a.class /\ o.nft = a.nft
        /\ a.nft = None => o = a
        /\ Brought(bs, o)

-----------------------------------------------------------------------------
(* Calls, action rows and tasks.                                           *)

BatchCall(c, b, from, n) ==
    MintCall(b, from, [i \in 1 .. n |-> Operator], [i \in 1 .. n |-> TextOf(c, from + i - 1)])

PlainCall(a, b, from) ==
    MintCall(b, from, [i \in 1 .. 1 |-> a.migration], [i \in 1 .. 1 |-> a.nft])

\* a is NFT n of class c, and o's.
IsNFT(a, c, n, o) == a \in NFTs(o) /\ a.class = c /\ a.nft = n

\* The call brings about that a is its user's in book b, or prepares that.
Brings(a, b, call) ==
    \/ a.nft \in Nat /\ call = TransferCall(b, a.migration, a.nft)
    \/ a.nft \in Plain /\ \E from \in Nat : call = PlainCall(a, b, from)

Prepares(a, b, call) ==
    a.nft \in Nat /\ \E from \in Nat, n \in Nat \ {0} : call = BatchCall(a.class, b, from, n)

\* The calls that tasks post.
ValidCall(bs, call) ==
    \/ \E c \in Classes : call = NewBookCall(c)
    \/ \E b \in DOMAIN bs :
        \/ \E to \in Migrations : call = OwnershipCall(b, to)
        \/ \E a \in Assets :
            a.class = bs[b].symbol /\ (Brings(a, b, call) \/ Prepares(a, b, call))

\* What a call that was mined has done.
Done(bs, call, book) ==
    /\ call.method = "newBookNFT" =>
            book \in DOMAIN bs /\ bs[book].symbol = call.msg.config.symbol
    /\ call.method = "transferOwnership" => bs[call.book].owner = call.to
    /\ call.method = "transferFrom" =>
            call.id \in DOMAIN bs[call.book].holder /\ bs[call.book].holder[call.id] = call.to
    /\ call.method = "safeMintWithTokenId" /\ call.tos[1] # Operator =>
            \E i \in DOMAIN bs[call.book].holder :
                bs[call.book].holder[i] = call.tos[1] /\ bs[call.book].uri[i] = call.texts[1]

\* What the signer answers.
AnswerFits(bs, call, answer) ==
    /\ ValidCall(bs, call)
    /\ answer \in [status: {"pending", "mined", "failed"}, book: 1 .. MaxBooks \cup {None}]
    /\ answer.status = "mined" => Done(bs, call, answer.book)

KeyOf(t) ==
    CASE t.stage = "newClass" -> [stage |-> "newClass", class |-> t.job.class]
      [] t.stage = "mintNFT" -> [stage |-> "mintNFT", book |-> t.book, nft |-> t.job.nft]
      [] t.stage = "transferClass" ->
            [stage |-> "transferClass", book |-> t.book, owner |-> t.job.migration]

\* What an action row, or a copy of it, says of the books.
ActionFits(bs, k, action) ==
    /\ k.stage \in Stages
    /\ action \in Action
    /\ k.stage = "newClass" /\ action.status = "completed" =>
            action.book \in DOMAIN bs /\ bs[action.book].symbol = k.class
    /\ k.stage = "mintNFT" =>
        /\ k.book \in DOMAIN bs
        /\ \E a \in Assets :
            /\ IsNFT(a, bs[k.book].symbol, k.nft, action.owner)
            /\ action.status = "completed" => BroughtIn(bs[k.book], a)
    /\ k.stage = "transferClass" =>
        /\ k.book \in DOMAIN bs
        /\ k.owner \in Migrations /\ action.owner = k.owner
        /\ action.status = "completed" => bs[k.book].owner = k.owner

Enqueuing == {"commit", "enqueue"}
Acting == {"start", "post", "poll", "record", "failing"}
Migrating == {"find", "insert"} \cup Acting
Recalculating == {"classes", "nfts", "determine"}
PCs == {"idle", "completed", "failed"} \cup Enqueuing \cup Migrating \cup Recalculating

IsTask(t) ==
    t = [pc |-> t.pc, job |-> t.job, stage |-> t.stage, book |-> t.book,
         action |-> t.action, call |-> t.call, noted |-> t.noted]

\* The action that a task is at is one its row needs.
StageFits(bs, t) ==
    \/ t.stage = "newClass"
    \/ /\ t.book \in DOMAIN bs /\ bs[t.book].symbol = t.job.class
       /\ \/ t.stage = "mintNFT" /\ t.job.nft # None
          \/ t.stage = "transferClass" /\ t.job.nft = None

CallFits(t) ==
    /\ t.stage = "newClass" => t.call = NewBookCall(t.job.class)
    /\ t.stage = "transferClass" => t.call = OwnershipCall(t.book, t.job.migration)
    /\ t.stage = "mintNFT" =>
        \E a \in Assets :
            /\ IsNFT(a, t.job.class, t.job.nft, t.action.owner)
            /\ Brings(a, t.book, t.call) \/ Prepares(a, t.book, t.call)

\* A task that recalculates has read rows of all that is in the set.
Known(t) == {a \in RowsOf(t.job.migration) : t.pc = "determine" \/ a.nft = None}

NotedFits(bs, mg, t) ==
    /\ t.noted \subseteq Status
    /\ t.noted \subseteq {"completed"} =>
        mg[t.job.migration] = "removed" \/ \A a \in Known(t) : Sent(bs, a)

\* What a task knows, by where it is: bs are the books, cs the calls that the
\* signer has, mg the migrations.
Fits(bs, cs, mg, t) ==
    /\ IsTask(t) /\ t.pc \in PCs /\ t.stage \in Stages \cup {None}
    /\ t.pc # "idle" => t.job.migration \in Migrations /\ mg[t.job.migration] # None
    /\ t.pc \in Enqueuing => t.job \in Enqueuers /\ t.noted \subseteq RowsOf(t.job.migration)
    /\ t.pc \notin Enqueuing \cup {"idle"} => t.job \in Assets
    /\ t.pc \in Migrating => StageFits(bs, t)
    /\ t.pc \in Acting => ActionFits(bs, KeyOf(t), t.action)
    /\ t.pc \in {"post", "poll"} => CallFits(t)
    /\ t.pc = "poll" => t.call \in cs
    /\ t.pc = "record" => t.action.status = "completed"
    /\ t.pc = "completed" => Sent(bs, t.job)
    /\ t.pc \in {"nfts", "determine"} => NotedFits(bs, mg, t)

-----------------------------------------------------------------------------
(* The inductive invariant.                                                *)

BooksInv ==
    /\ books \in Seq(BookContract!Book(Nat)) /\ Len(books) <= MaxBooks
    /\ \A b \in DOMAIN books : Good(books[b])

RequestsInv == \A call \in DOMAIN requests : AnswerFits(books, call, requests[call])

ActionsInv == \A k \in DOMAIN actions : ActionFits(books, k, actions[k])

\* A migration has rows from when it is created until it is removed.
MigrationsInv ==
    /\ migrations \in [Migrations -> Status \cup {None, "removed"}]
    /\ \A m \in Migrations :
        migrations[m] = "completed" => \A a \in RowsOf(m) : Sent(books, a)

RowsInv ==
    /\ rows \in [Assets -> Status \cup {None}]
    /\ \A a \in Assets :
        /\ rows[a] = "completed" => Sent(books, a)
        /\ rows[a] = None <=> migrations[a.migration] \in {None, "removed"}

QueueInv ==
    /\ queue \in Seq(Jobs)
    /\ \A k \in 1 .. Len(queue) : migrations[queue[k].migration] # None

UsersInv ==
    /\ retries \in 0 .. MaxRetries
    /\ retrying \in [Migrations -> Nat]
    /\ \A m \in Migrations :
        retrying[m] <= retries /\ (retrying[m] > 0 => migrations[m] # None)

WorkersInv ==
    /\ DOMAIN worker = Workers
    /\ \A w \in Workers : Fits(books, DOMAIN requests, migrations, worker[w])

Inv ==
    /\ BooksInv /\ RequestsInv /\ ActionsInv /\ MigrationsInv
    /\ RowsInv /\ QueueInv /\ UsersInv /\ WorkersInv

\* Only with the signer of CallService: each book is the answer to the one call
\* for a book of its class.
BooksAnswered ==
    \A b \in DOMAIN books :
        LET call == NewBookCall(books[b].symbol) IN
        call \in DOMAIN requests /\ requests[call] = [status |-> "mined", book |-> b]

-----------------------------------------------------------------------------
(* What is known of books is known of those that come after.               *)

LEMMA AssetType ==
  ASSUME NEW a \in Assets
  PROVE  /\ a.migration \in Migrations /\ a.migration # Operator
         /\ a.class \in Classes /\ a.nft \in Numbers \cup {None}
         /\ a \in RowsOf(a.migration)
         /\ a.nft # None => a \in NFTs(a.migration)
  BY LikeNFTAssumption DEF RowsOf, NFTs

LEMMA RowType ==
  ASSUME NEW m, NEW a \in RowsOf(m)
  PROVE  a \in Assets /\ a.migration = m
  BY DEF RowsOf

LEMMA NFTType ==
  ASSUME NEW m, NEW a \in NFTs(m)
  PROVE  a \in Assets /\ a.migration = m /\ a.nft # None /\ a.nft \in Numbers
  BY LikeNFTAssumption DEF NFTs, RowsOf

LEMMA BroughtInGrows ==
  ASSUME NEW book, NEW new, GrowsTo(book, new), NEW a \in Assets, BroughtIn(book, a)
  PROVE  BroughtIn(new, a)
<1>1. a.migration # Operator
  BY AssetType
<1>2. CASE a.nft = None
  BY <1>1, <1>2 DEF GrowsTo, BroughtIn
<1>3. CASE a.nft # None
  BY <1>1, <1>3 DEF GrowsTo, BroughtIn
<1> QED BY <1>2, <1>3

LEMMA SentGrows ==
  ASSUME NEW bs, NEW cs, Grow(bs, cs), NEW a \in Assets, Sent(bs, a)
  PROVE  Sent(cs, a)
<1>1. PICK o \in Assets :
        /\ o.class = a.class /\ o.nft = a.nft /\ (a.nft = None => o = a)
        /\ Brought(bs, o)
  BY DEF Sent
<1>2. PICK b \in DOMAIN bs : bs[b].symbol = o.class /\ BroughtIn(bs[b], o)
  BY <1>1 DEF Brought
<1>3. b \in DOMAIN cs /\ GrowsTo(bs[b], cs[b])
  BY DEF Grow
<1>4. BroughtIn(cs[b], o)
  BY <1>2, <1>3, BroughtInGrows
<1>5. cs[b].symbol = o.class
  BY <1>2, <1>3 DEF GrowsTo
<1>6. Brought(cs, o)
  BY <1>3, <1>4, <1>5 DEF Brought
<1> QED BY <1>1, <1>6 DEF Sent

LEMMA ValidCallGrows ==
  ASSUME NEW bs, NEW cs, Grow(bs, cs), NEW call, ValidCall(bs, call)
  PROVE  ValidCall(cs, call)
<1>1. \A b \in DOMAIN bs : b \in DOMAIN cs /\ cs[b].symbol = bs[b].symbol
  BY DEF Grow, GrowsTo
<1> QED BY <1>1 DEF ValidCall

\* The kinds of calls, by their method.
IsNewBook(call) ==
    call.method = "newBookNFT" /\ \E c \in Classes : call = NewBookCall(c)

IsOwnership(bs, call) ==
    /\ call.method = "transferOwnership"
    /\ call.book \in DOMAIN bs /\ call.to \in Migrations
    /\ call = OwnershipCall(call.book, call.to)

IsTransfer(bs, call) ==
    /\ call.method = "transferFrom" /\ call.book \in DOMAIN bs
    /\ \E a \in Assets :
        /\ a.class = bs[call.book].symbol /\ a.nft \in Nat
        /\ call.to = a.migration /\ call.id = a.nft
        /\ call = TransferCall(call.book, a.migration, a.nft)

IsPlain(bs, call) ==
    /\ call.method = "safeMintWithTokenId" /\ call.book \in DOMAIN bs /\ call.from \in Nat
    /\ \E a \in Assets :
        /\ a.class = bs[call.book].symbol /\ a.nft \in Plain
        /\ call = PlainCall(a, call.book, call.from)

IsBatch(bs, call) ==
    /\ call.method = "safeMintWithTokenId" /\ call.book \in DOMAIN bs /\ call.from \in Nat
    /\ \E n \in Nat \ {0} :
        call = BatchCall(bs[call.book].symbol, call.book, call.from, n)

LEMMA BringsKind ==
  ASSUME NEW bs, NEW call, NEW b \in DOMAIN bs,
         NEW a \in Assets, a.class = bs[b].symbol, Brings(a, b, call)
  PROVE  IsTransfer(bs, call) \/ IsPlain(bs, call)
<1>1. CASE a.nft \in Nat /\ call = TransferCall(b, a.migration, a.nft)
  <2>1. /\ call.method = "transferFrom" /\ call.book = b
        /\ call.to = a.migration /\ call.id = a.nft
    BY <1>1 DEF TransferCall
  <2> QED BY <1>1, <2>1 DEF IsTransfer
<1>2. ASSUME a.nft \in Plain, NEW from \in Nat, call = PlainCall(a, b, from)
      PROVE  IsPlain(bs, call)
  <2>1. call.method = "safeMintWithTokenId" /\ call.book = b /\ call.from = from
    BY <1>2 DEF PlainCall, MintCall
  <2> QED BY <1>2, <2>1 DEF IsPlain
<1> QED BY <1>1, <1>2 DEF Brings

LEMMA PreparesKind ==
  ASSUME NEW bs, NEW call, NEW b \in DOMAIN bs,
         NEW a \in Assets, a.class = bs[b].symbol, Prepares(a, b, call)
  PROVE  IsBatch(bs, call)
<1>1. PICK from \in Nat, n \in Nat \ {0} : call = BatchCall(a.class, b, from, n)
  BY DEF Prepares
<1>2. call.method = "safeMintWithTokenId" /\ call.book = b /\ call.from = from
  BY <1>1 DEF BatchCall, MintCall
<1> QED BY <1>1, <1>2 DEF IsBatch

LEMMA CallKinds ==
  ASSUME NEW bs, NEW call, ValidCall(bs, call)
  PROVE  \/ IsNewBook(call) \/ IsOwnership(bs, call) \/ IsTransfer(bs, call)
         \/ IsPlain(bs, call) \/ IsBatch(bs, call)
<1>1. ASSUME NEW c \in Classes, call = NewBookCall(c) PROVE IsNewBook(call)
  <2>1. call.method = "newBookNFT"
    BY <1>1 DEF NewBookCall
  <2> QED BY <1>1, <2>1 DEF IsNewBook
<1>2. ASSUME NEW b \in DOMAIN bs, NEW to \in Migrations, call = OwnershipCall(b, to)
      PROVE  IsOwnership(bs, call)
  BY <1>2 DEF OwnershipCall, IsOwnership
<1>3. \/ \E c \in Classes : call = NewBookCall(c)
      \/ \E b \in DOMAIN bs : \E to \in Migrations : call = OwnershipCall(b, to)
      \/ \E b \in DOMAIN bs, a \in Assets :
            a.class = bs[b].symbol /\ (Brings(a, b, call) \/ Prepares(a, b, call))
  BY DEF ValidCall
<1> QED BY <1>1, <1>2, <1>3, BringsKind, PreparesKind

LEMMA DoneGrows ==
  ASSUME NEW bs, NEW cs, Grow(bs, cs), NEW call, ValidCall(bs, call),
         NEW book, Done(bs, call, book)
  PROVE  Done(cs, call, book)
<1>1. \A b \in DOMAIN bs : b \in DOMAIN cs /\ GrowsTo(bs[b], cs[b])
  BY DEF Grow
<1>2. Operator \notin Migrations
  BY LikeNFTAssumption
<1>3. CASE IsNewBook(call)
  BY <1>1, <1>3 DEF IsNewBook, Done, GrowsTo
<1>4. CASE IsOwnership(bs, call)
  BY <1>1, <1>2, <1>4 DEF IsOwnership, Done, GrowsTo
<1>5. CASE IsTransfer(bs, call)
  <2>1. call.method = "transferFrom" /\ call.book \in DOMAIN bs /\ call.to # Operator
    BY <1>2, <1>5, AssetType DEF IsTransfer
  <2> QED BY <1>1, <2>1 DEF Done, GrowsTo
<1>6. CASE IsPlain(bs, call) \/ IsBatch(bs, call)
  <2>1. call.method = "safeMintWithTokenId" /\ call.book \in DOMAIN bs
    BY <1>6 DEF IsPlain, IsBatch
  <2>2. CASE call.tos[1] = Operator
    BY <2>1, <2>2 DEF Done
  <2>3. CASE call.tos[1] # Operator
    <3>1. PICK i \in DOMAIN bs[call.book].holder :
            bs[call.book].holder[i] = call.tos[1] /\ bs[call.book].uri[i] = call.texts[1]
      BY <2>1, <2>3 DEF Done
    <3>2. /\ i \in DOMAIN cs[call.book].holder
          /\ cs[call.book].holder[i] = call.tos[1] /\ cs[call.book].uri[i] = call.texts[1]
      BY <1>1, <2>1, <2>3, <3>1 DEF GrowsTo
    <3> QED BY <2>1, <3>2 DEF Done
  <2> QED BY <2>2, <2>3
<1> QED BY <1>3, <1>4, <1>5, <1>6, CallKinds

LEMMA AnswerGrows ==
  ASSUME NEW bs, NEW cs, Grow(bs, cs), NEW call, NEW answer, AnswerFits(bs, call, answer)
  PROVE  AnswerFits(cs, call, answer)
  BY ValidCallGrows, DoneGrows DEF AnswerFits

LEMMA ActionGrows ==
  ASSUME NEW bs, NEW cs, Grow(bs, cs), NEW k, NEW action, ActionFits(bs, k, action)
  PROVE  ActionFits(cs, k, action)
<1>1. \A b \in DOMAIN bs : b \in DOMAIN cs /\ GrowsTo(bs[b], cs[b])
  BY DEF Grow
<1>2. k.stage = "newClass" /\ action.status = "completed" =>
            action.book \in DOMAIN cs /\ cs[action.book].symbol = k.class
  BY <1>1 DEF ActionFits, GrowsTo
<1>3. ASSUME k.stage = "mintNFT"
      PROVE  /\ k.book \in DOMAIN cs
             /\ \E a \in Assets :
                /\ IsNFT(a, cs[k.book].symbol, k.nft, action.owner)
                /\ action.status = "completed" => BroughtIn(cs[k.book], a)
  <2>1. k.book \in DOMAIN bs /\ k.book \in DOMAIN cs /\ GrowsTo(bs[k.book], cs[k.book])
    BY <1>1, <1>3 DEF ActionFits
  <2>2. PICK a \in Assets : /\ IsNFT(a, bs[k.book].symbol, k.nft, action.owner)
                            /\ action.status = "completed" => BroughtIn(bs[k.book], a)
    BY <1>3 DEF ActionFits
  <2>3. cs[k.book].symbol = bs[k.book].symbol
    BY <2>1 DEF GrowsTo
  <2>4. action.status = "completed" => BroughtIn(cs[k.book], a)
    BY <2>1, <2>2, BroughtInGrows
  <2> QED BY <2>1, <2>2, <2>3, <2>4
<1>4. ASSUME k.stage = "transferClass"
      PROVE  /\ k.book \in DOMAIN cs
             /\ k.owner \in Migrations /\ action.owner = k.owner
             /\ action.status = "completed" => cs[k.book].owner = k.owner
  <2>1. k.owner # Operator
    BY <1>4, LikeNFTAssumption DEF ActionFits
  <2> QED BY <1>1, <1>4, <2>1 DEF ActionFits, GrowsTo
<1> QED BY <1>2, <1>3, <1>4 DEF ActionFits

\* Migrations are neither forgotten nor restored.
GoOnFrom(mg, ng) ==
    \A m \in Migrations :
        /\ mg[m] # None => ng[m] # None
        /\ mg[m] = "removed" => ng[m] = "removed"

LEMMA TaskGrows ==
  ASSUME NEW bs, NEW bt, Grow(bs, bt), NEW cs, NEW ct, cs \subseteq ct,
         NEW mg, NEW mh, GoOnFrom(mg, mh),
         NEW t, Fits(bs, cs, mg, t)
  PROVE  Fits(bt, ct, mh, t)
<1>1. \A b \in DOMAIN bs : b \in DOMAIN bt /\ bt[b].symbol = bs[b].symbol
  BY DEF Grow, GrowsTo
<1>2. t.pc # "idle" => t.job.migration \in Migrations /\ mh[t.job.migration] # None
  BY DEF Fits, GoOnFrom
<1>3. t.pc \in Migrating => StageFits(bt, t)
  BY <1>1 DEF Fits, StageFits
<1>4. t.pc \in Acting => ActionFits(bt, KeyOf(t), t.action)
  BY ActionGrows DEF Fits
<1>5. t.pc = "completed" => Sent(bt, t.job)
  BY SentGrows DEF Fits, Enqueuing
<1>6. ASSUME t.pc \in {"nfts", "determine"} PROVE NotedFits(bt, mh, t)
  <2>1. NotedFits(bs, mg, t) /\ t.job.migration \in Migrations
    BY <1>6 DEF Fits
  <2>2. ASSUME NEW a \in Known(t), Sent(bs, a) PROVE Sent(bt, a)
    BY <2>2, SentGrows DEF Known, RowsOf
  <2> QED BY <2>1, <2>2 DEF NotedFits, GoOnFrom
<1> QED BY <1>2, <1>3, <1>4, <1>5, <1>6 DEF Fits

-----------------------------------------------------------------------------
(* What the calls make of books.                                           *)

LEMMA TextMapType ==
  ASSUME NEW D, NEW S, NEW m
  PROVE  m \in BookContract!TokenMap(D, S) <=> DOMAIN m \subseteq D /\ m \in [DOMAIN m -> S]
<1>1. ASSUME m \in BookContract!TokenMap(D, S) PROVE DOMAIN m \subseteq D /\ m \in [DOMAIN m -> S]
  BY <1>1 DEF BookContract!TokenMap
<1>2. ASSUME DOMAIN m \subseteq D, m \in [DOMAIN m -> S] PROVE m \in BookContract!TokenMap(D, S)
  BY <1>2 DEF BookContract!TokenMap
<1> QED BY <1>1, <1>2

\* The texts of tokens, as BookNFT sees them.
Texts == {a.nft : a \in Assets} \cup {None}

LEMMA TextType ==
  ASSUME NEW c, NEW i
  PROVE  TextOf(c, i) \in Texts
  BY DEF TextOf, Texts

\* What the fields of a sound book are.
LEMMA SoundFields ==
  ASSUME NEW book, Sound(book)
  PROVE  /\ book.currentIndex \in Nat /\ book.symbol \in Classes
         /\ DOMAIN book.holder = 0 .. (book.currentIndex - 1)
         /\ DOMAIN book.uri = 0 .. (book.currentIndex - 1)
         /\ book.uri \in [0 .. (book.currentIndex - 1) -> Texts]
         /\ book.holder \in [0 .. (book.currentIndex - 1) -> Accounts]
         /\ BookContract!TotalSupply(book) = book.currentIndex
<1>1. /\ book.currentIndex \in Nat /\ book.symbol \in Classes
      /\ book.uri \in BookContract!TokenMap(Nat, Texts)
      /\ book.holder \in BookContract!TokenMap(Nat, Accounts)
  BY DEF Sound, BookContract!Book, Texts, Accounts
<1>2. DOMAIN book.holder = 0 .. (book.currentIndex - 1) /\ DOMAIN book.uri = 0 .. (book.currentIndex - 1)
  BY DEF Sound
<1>3. /\ book.uri \in [DOMAIN book.uri -> Texts]
      /\ book.holder \in [DOMAIN book.holder -> Accounts]
  BY <1>1, TextMapType
<1>4. Cardinality(0 .. (book.currentIndex - 1)) = book.currentIndex
  BY <1>1, FS_Interval
<1>5. BookContract!TotalSupply(book) = Cardinality(DOMAIN book.holder)
  BY DEF BookContract!TotalSupply, BookContract!Cardinality, Cardinality
<1>6. BookContract!TotalSupply(book) = book.currentIndex
  BY <1>2, <1>4, <1>5
<1> QED BY <1>1, <1>2, <1>3, <1>6

LEMMA NewBookGood ==
  ASSUME NEW c \in Classes
  PROVE  LET new == BookContract!NewBook(NewBookCall(c).msg) IN
         Good(new) /\ new \in BookContract!Book(Nat) /\ new.symbol = c
<1> DEFINE new == BookContract!NewBook(NewBookCall(c).msg)
<1>1. /\ new = [owner |-> Operator, minters |-> {Operator}, updaters |-> {Operator},
                symbol |-> c, maxSupply |-> MaxSupply,
                currentIndex |-> 0, uri |-> <<>>, holder |-> <<>>]
  BY DEF BookContract!NewBook, NewBookCall
<1>2. DOMAIN <<>> = {} /\ <<>> \in [{} -> Texts] /\ <<>> \in [{} -> Accounts]
  OBVIOUS
<1>3. <<>> \in BookContract!TokenMap(Nat, Texts) /\ <<>> \in BookContract!TokenMap(Nat, Accounts)
  BY <1>2, TextMapType
<1>4. Operator \in Accounts /\ MaxSupply \in Nat
  BY LikeNFTAssumption DEF Accounts
<1>5. new \in BookContract!Book(Nat)
  BY <1>1, <1>3, <1>4 DEF BookContract!Book, Texts, Accounts
<1>6. 0 .. (0 - 1) = {}
  OBVIOUS
<1>7. Good(new)
  BY <1>1, <1>2, <1>4, <1>5, <1>6 DEF Good, Sound
<1> QED BY <1>1, <1>5, <1>7

\* Tokens that are minted follow those that are there.
LEMMA MintedGood ==
  ASSUME NEW book, Good(book), NEW n \in Nat, NEW tos, NEW texts,
         \A k \in 1 .. n :
            /\ tos[k] \in Accounts /\ texts[k] \in Texts
            /\ texts[k] \in {TextOf(book.symbol, book.currentIndex + k - 1)} \cup Plain
            /\ tos[k] # Operator =>
                    \E a \in NFTs(tos[k]) : a.class = book.symbol /\ a.nft = texts[k]
  PROVE  LET m == BookContract!Minted(book, n, tos, texts) IN
         /\ Good(m) /\ GrowsTo(book, m)
         /\ m.currentIndex = book.currentIndex + n
         /\ \A k \in 1 .. n :
                /\ m.holder[book.currentIndex + k - 1] = tos[k]
                /\ m.uri[book.currentIndex + k - 1] = texts[k]
<1> DEFINE c == book.currentIndex
           new == c .. (c + n - 1)
           uri == [i \in DOMAIN book.uri \cup new |->
                      IF i \in new THEN texts[i - c + 1] ELSE book.uri[i]]
           holder == [i \in DOMAIN book.holder \cup new |->
                      IF i \in new THEN tos[i - c + 1] ELSE book.holder[i]]
           m == BookContract!Minted(book, n, tos, texts)
<1>1. Sound(book)
  BY DEF Good
<1>2. /\ c \in Nat /\ DOMAIN book.holder = 0 .. (c - 1) /\ DOMAIN book.uri = 0 .. (c - 1)
      /\ book.uri \in [0 .. (c - 1) -> Texts] /\ book.holder \in [0 .. (c - 1) -> Accounts]
  BY <1>1, SoundFields
<1>3. book \in BookContract!Book(Nat) /\ book.owner \in Accounts
  BY <1>1 DEF Sound
<1>4. m = [book EXCEPT !.currentIndex = c + n, !.uri = uri, !.holder = holder]
  BY <1>3 DEF BookContract!Minted, BookContract!Book
<1>5. \A i \in new : i - c + 1 \in 1 .. n
  BY <1>2
<1>6. DOMAIN uri = 0 .. (c + n - 1) /\ DOMAIN holder = 0 .. (c + n - 1)
  BY <1>2
<1>7. uri \in [DOMAIN uri -> Texts] /\ holder \in [DOMAIN holder -> Accounts]
  BY <1>2, <1>5
<1>8. uri \in BookContract!TokenMap(Nat, Texts) /\ holder \in BookContract!TokenMap(Nat, Accounts)
  <2>1. DOMAIN uri \subseteq Nat /\ DOMAIN holder \subseteq Nat
    BY <1>2, <1>6
  <2> HIDE DEF uri, holder
  <2> QED BY <2>1, <1>7, TextMapType
<1>9. \A i \in 0 .. (c - 1) :
        /\ i \in DOMAIN holder
        /\ uri[i] = book.uri[i] /\ holder[i] = book.holder[i]
  BY <1>2
<1>10. \A k \in 1 .. n :
        c + k - 1 \in DOMAIN holder /\ uri[c + k - 1] = texts[k] /\ holder[c + k - 1] = tos[k]
  BY <1>2
<1>11. ASSUME NEW i \in 0 .. (c + n - 1), i \notin 0 .. (c - 1)
       PROVE  i - c + 1 \in 1 .. n /\ i = c + (i - c + 1) - 1
  <2>1. c \in Nat
    BY <1>2
  <2> HIDE DEF c
  <2> QED BY <1>11, <2>1
<1>12. c + n \in Nat
  BY <1>2
<1> HIDE DEF uri, holder, m
<1>13. /\ m.symbol = book.symbol /\ m.owner = book.owner /\ m.currentIndex = c + n
       /\ m.uri = uri /\ m.holder = holder
  <2> HIDE DEF c
  <2> QED BY <1>3, <1>4 DEF BookContract!Book
<1>14. m \in BookContract!Book(Nat)
  <2> HIDE DEF c
  <2> QED BY <1>3, <1>4, <1>8, <1>12 DEF BookContract!Book, Texts, Accounts
<1>15. Sound(m)
  <2> HIDE DEF c
  <2>1. m.owner \in Accounts
    BY <1>3, <1>13
  <2>2. DOMAIN m.holder = 0 .. (m.currentIndex - 1) /\ DOMAIN m.uri = 0 .. (m.currentIndex - 1)
    BY <1>2, <1>6, <1>12, <1>13
  <2> QED BY <1>14, <2>1, <2>2 DEF Sound
<1>16. GrowsTo(book, m)
  BY <1>2, <1>9, <1>13 DEF GrowsTo
<1>17. ASSUME NEW i \in 0 .. (m.currentIndex - 1) PROVE IsHome(m, i) /\ HasText(m, i)
  <2>1. CASE i \in 0 .. (c - 1)
    <3>1. IsHome(book, i) /\ HasText(book, i)
      BY <2>1 DEF Good
    <3>2. m.uri[i] = book.uri[i] /\ m.holder[i] = book.holder[i]
      BY <1>9, <1>13, <2>1
    <3> QED BY <3>1, <3>2, <1>13 DEF IsHome, HasText
  <2>2. CASE i \notin 0 .. (c - 1)
    <3>1. i \in 0 .. (c + n - 1)
      <4> HIDE DEF c
      <4> QED BY <1>2, <1>12, <1>13
    <3>2. PICK k \in 1 .. n : i = c + k - 1
      BY <3>1, <2>2, <1>11
    <3>3. m.uri[i] = texts[k] /\ m.holder[i] = tos[k]
      BY <3>2, <1>10, <1>13
    <3>4. HasText(m, i)
      BY <3>2, <3>3, <1>13 DEF HasText
    <3>5. IsHome(m, i)
      BY <3>3, <1>13 DEF IsHome
    <3> QED BY <3>4, <3>5
  <2> QED BY <2>1, <2>2
<1>18. Good(m)
  BY <1>15, <1>17 DEF Good
<1> QED BY <1>10, <1>13, <1>16, <1>18 DEF m

\* A token that is transferred was the operator's.
LEMMA TransferredGood ==
  ASSUME NEW book, Good(book), NEW a \in Assets, a.class = book.symbol,
         a.nft \in DOMAIN book.holder, book.holder[a.nft] = Operator
  PROVE  LET t == BookContract!Transferred(book, <<a.migration>>, <<a.nft>>) IN
         /\ Good(t) /\ GrowsTo(book, t)
         /\ a.nft \in DOMAIN t.holder /\ t.holder[a.nft] = a.migration
<1> DEFINE to == a.migration
           turns(i) == {k \in 1 .. Len(<<a.nft>>) :
                <<a.nft>>[k] = i /\ \A j \in (k + 1) .. Len(<<a.nft>>) : <<a.nft>>[j] # i}
           holder == [i \in DOMAIN book.holder |->
                IF turns(i) = {} THEN book.holder[i]
                ELSE <<to>>[CHOOSE k \in turns(i) : TRUE]]
           t == BookContract!Transferred(book, <<to>>, <<a.nft>>)
<1>1. Sound(book)
  BY DEF Good
<1>2. t = [book EXCEPT !.holder = holder]
  BY DEF BookContract!Transferred
<1>3. \A i \in DOMAIN book.holder : turns(i) = IF i = a.nft THEN {1} ELSE {}
  OBVIOUS
<1>4. to \in Migrations /\ to \in Accounts /\ a \in NFTs(to)
  <2>1. a.nft # None
    BY <1>1, SoundFields, LikeNFTAssumption DEF Numbers
  <2> QED BY <2>1, AssetType DEF Accounts
<1>5. \A i \in DOMAIN book.holder : holder[i] = IF i = a.nft THEN to ELSE book.holder[i]
  BY <1>3
<1>6. DOMAIN holder = DOMAIN book.holder
  OBVIOUS
<1> HIDE DEF turns, holder, t
<1>7. holder \in [DOMAIN holder -> Accounts] /\ DOMAIN holder \subseteq Nat
  <2>1. holder = [i \in DOMAIN book.holder |-> holder[i]]
    BY DEF holder
  <2>2. book.currentIndex \in Nat /\ DOMAIN book.holder = 0 .. (book.currentIndex - 1)
        /\ book.holder \in [0 .. (book.currentIndex - 1) -> Accounts]
    BY <1>1, SoundFields
  <2>3. \A i \in DOMAIN book.holder : holder[i] \in Accounts
    BY <2>2, <1>4, <1>5
  <2>4. DOMAIN book.holder \subseteq Nat
    BY <2>2
  <2> QED BY <2>1, <2>3, <2>4, <1>6
<1>8. holder \in BookContract!TokenMap(Nat, Accounts)
  BY <1>7, TextMapType
<1>9. book \in BookContract!Book(Nat) /\ book.owner \in Accounts
  BY <1>1 DEF Sound
<1>10. /\ t.symbol = book.symbol /\ t.owner = book.owner /\ t.currentIndex = book.currentIndex
       /\ t.uri = book.uri /\ t.holder = holder
  BY <1>2, <1>9 DEF BookContract!Book
<1>11. t \in BookContract!Book(Nat)
  BY <1>2, <1>8, <1>9 DEF BookContract!Book, Accounts
<1>12. Sound(t)
  BY <1>1, <1>6, <1>9, <1>10, <1>11 DEF Sound
<1>13. GrowsTo(book, t)
  BY <1>5, <1>6, <1>10 DEF GrowsTo
<1>14. ASSUME NEW i \in 0 .. (t.currentIndex - 1) PROVE IsHome(t, i) /\ HasText(t, i)
  <2>1. i \in DOMAIN book.holder /\ IsHome(book, i) /\ HasText(book, i)
    BY <1>1, <1>10 DEF Good, Sound
  <2>2. CASE i = a.nft
    BY <2>1, <2>2, <1>4, <1>5, <1>10 DEF IsHome, HasText
  <2>3. CASE i # a.nft
    BY <2>1, <2>3, <1>5, <1>10 DEF IsHome, HasText
  <2> QED BY <2>2, <2>3
<1>15. Good(t)
  BY <1>12, <1>14 DEF Good
<1> QED BY <1>5, <1>6, <1>10, <1>13, <1>15 DEF t

LEMMA OwnedGood ==
  ASSUME NEW book, Good(book), book.owner = Operator, NEW to \in Migrations
  PROVE  LET o == [book EXCEPT !.owner = to] IN
         Good(o) /\ GrowsTo(book, o) /\ o.owner = to
<1> DEFINE o == [book EXCEPT !.owner = to]
<1>1. book \in BookContract!Book(Nat)
  BY DEF Good, Sound
<1>2. /\ o.symbol = book.symbol /\ o.owner = to /\ o.currentIndex = book.currentIndex
      /\ o.uri = book.uri /\ o.holder = book.holder
  BY <1>1 DEF BookContract!Book
<1>3. o \in BookContract!Book(Nat) /\ to \in Accounts
  BY <1>1 DEF BookContract!Book, Accounts
<1> HIDE DEF o
<1>4. Good(o)
  BY <1>2, <1>3 DEF Good, Sound, IsHome, HasText
<1>5. GrowsTo(book, o)
  BY <1>2 DEF GrowsTo
<1> QED BY <1>2, <1>4, <1>5 DEF o

LEMMA GrowRefl ==
  ASSUME NEW bs
  PROVE  Grow(bs, bs)
  BY DEF Grow, GrowsTo

LEMMA BookGrows ==
  ASSUME BooksInv, NEW b \in DOMAIN books, NEW new, Good(new), GrowsTo(books[b], new),
         books' = [books EXCEPT ![b] = new]
  PROVE  /\ BooksInv' /\ Grow(books, books')
         /\ DOMAIN books' = DOMAIN books /\ books'[b] = new
<1>1. new \in BookContract!Book(Nat)
  BY DEF Good, Sound
<1>2. /\ DOMAIN books' = DOMAIN books /\ books'[b] = new
      /\ \A c \in DOMAIN books : c # b => books'[c] = books[c]
  BY DEF BooksInv
<1>3. books' \in Seq(BookContract!Book(Nat)) /\ Len(books') = Len(books)
  BY <1>1 DEF BooksInv
<1>4. \A c \in DOMAIN books' : Good(books'[c])
  BY <1>2 DEF BooksInv
<1>5. Grow(books, books')
  <2>1. ASSUME NEW c \in DOMAIN books PROVE GrowsTo(books[c], books'[c])
    BY <1>2 DEF GrowsTo
  <2> QED BY <1>2, <2>1 DEF Grow
<1> QED BY <1>2, <1>3, <1>4, <1>5 DEF BooksInv

\* A call that creates a book.
LEMMA RunNewBook ==
  ASSUME BooksInv, NEW c \in Classes, NEW call, call = NewBookCall(c), Run(call)
  PROVE  /\ BooksInv' /\ Grow(books, books')
         /\ Len(books') = Len(books) + 1 /\ DOMAIN books' = DOMAIN books \cup {Len(books')}
         /\ books'[Len(books')].symbol = c
         /\ Created(call) = Len(books') /\ Len(books') \in 1 .. MaxBooks
<1> DEFINE new == BookContract!NewBook(call.msg)
<1>1. call.method = "newBookNFT" /\ call.msg = NewBookCall(c).msg
  BY DEF NewBookCall
<1>2. Good(new) /\ new \in BookContract!Book(Nat) /\ new.symbol = c
  BY <1>1, NewBookGood
<1>3. Len(books) < MaxBooks
  BY <1>1 DEF Run, Succeeds
<1>4. books' = Append(books, new)
  BY <1>1 DEF Run
<1> HIDE DEF new
<1>5. books \in Seq(BookContract!Book(Nat)) /\ MaxBooks \in Nat
  BY LikeNFTAssumption DEF BooksInv
<1>6. /\ books' \in Seq(BookContract!Book(Nat)) /\ Len(books') = Len(books) + 1
      /\ books'[Len(books) + 1] = new
      /\ DOMAIN books = 1 .. Len(books) /\ DOMAIN books' = 1 .. Len(books) + 1
      /\ \A b \in DOMAIN books : books'[b] = books[b]
  BY <1>2, <1>4, <1>5
<1>7. DOMAIN books' = DOMAIN books \cup {Len(books')} /\ Len(books') \in 1 .. MaxBooks
  BY <1>3, <1>5, <1>6
<1>8. \A b \in DOMAIN books' : Good(books'[b])
  BY <1>2, <1>6, <1>7 DEF BooksInv
<1>9. BooksInv'
  BY <1>6, <1>7, <1>8 DEF BooksInv
<1>10. Grow(books, books')
  BY <1>6, <1>7 DEF Grow, GrowsTo
<1>11. Created(call) = Len(books')
  BY <1>1 DEF Created
<1> QED BY <1>2, <1>6, <1>7, <1>9, <1>10, <1>11

LEMMA RunOwnership ==
  ASSUME BooksInv, NEW call, IsOwnership(books, call), Run(call)
  PROVE  /\ BooksInv' /\ Grow(books, books') /\ DOMAIN books' = DOMAIN books
         /\ books'[call.book].owner = call.to
<1> DEFINE book == books[call.book]
           new == [book EXCEPT !.owner = call.to]
<1>1. /\ call.method = "transferOwnership" /\ call.book \in DOMAIN books
      /\ call.to \in Migrations
  BY DEF IsOwnership
<1>2. book.owner = Operator
  BY <1>1 DEF Run, Succeeds
<1>3. books' = [books EXCEPT ![call.book] = new]
  BY <1>1 DEF Run, After
<1>4. Good(book)
  BY <1>1 DEF BooksInv
<1>5. Good(new) /\ GrowsTo(book, new) /\ new.owner = call.to
  BY <1>1, <1>2, <1>4, OwnedGood
<1> HIDE DEF new
<1> QED BY <1>1, <1>3, <1>5, BookGrows

LEMMA RunTransfer ==
  ASSUME BooksInv, NEW call, IsTransfer(books, call), Run(call)
  PROVE  /\ BooksInv' /\ Grow(books, books') /\ DOMAIN books' = DOMAIN books
         /\ call.id \in DOMAIN books'[call.book].holder
         /\ books'[call.book].holder[call.id] = call.to
<1> DEFINE book == books[call.book]
           new == BookContract!Transferred(book, <<call.to>>, <<call.id>>)
<1>1. call.method = "transferFrom" /\ call.book \in DOMAIN books
  BY DEF IsTransfer
<1>2. PICK a \in Assets : a.class = book.symbol /\ call.to = a.migration /\ call.id = a.nft
  BY DEF IsTransfer
<1>3. BookContract!Transferable(book, Operator, <<call.to>>, <<call.id>>)
  BY <1>1 DEF Run, Succeeds
<1>4. call.id \in DOMAIN book.holder /\ book.holder[call.id] = Operator
  BY <1>3 DEF BookContract!Transferable
<1>5. books' = [books EXCEPT ![call.book] = new]
  BY <1>1 DEF Run, After
<1>6. Good(book)
  BY <1>1 DEF BooksInv
<1>7. /\ Good(new) /\ GrowsTo(book, new)
      /\ call.id \in DOMAIN new.holder /\ new.holder[call.id] = call.to
  BY <1>2, <1>4, <1>6, TransferredGood
<1> HIDE DEF new
<1> QED BY <1>1, <1>5, <1>7, BookGrows

\* A call that mints the next tokens, of the operator or of a user without a number.
LEMMA RunMint ==
  ASSUME BooksInv, NEW call, IsPlain(books, call) \/ IsBatch(books, call), Run(call)
  PROVE  /\ BooksInv' /\ Grow(books, books') /\ DOMAIN books' = DOMAIN books
         /\ \E i \in DOMAIN books'[call.book].holder :
                /\ books'[call.book].holder[i] = call.tos[1]
                /\ books'[call.book].uri[i] = call.texts[1]
<1> DEFINE book == books[call.book]
           n == Len(call.texts)
           new == BookContract!Minted(book, n, call.tos, call.texts)
<1>1. call.method = "safeMintWithTokenId" /\ call.book \in DOMAIN books /\ call.from \in Nat
  BY DEF IsPlain, IsBatch
<1>2. books' = [books EXCEPT ![call.book] = new]
  BY <1>1 DEF Run, After
<1>3. Good(book) /\ Sound(book)
  BY <1>1 DEF BooksInv, Good
<1>4. BookContract!SafeMintable(book, call.from, call.tos, Len(call.tos), call.texts)
  BY <1>1 DEF Run, Succeeds
<1>5. book.currentIndex = call.from
  BY <1>3, <1>4, SoundFields DEF BookContract!SafeMintable
<1>6. /\ n \in Nat \ {0}
      /\ \A k \in 1 .. n :
            /\ call.tos[k] \in Accounts /\ call.texts[k] \in Texts
            /\ call.texts[k] \in {TextOf(book.symbol, call.from + k - 1)} \cup Plain
            /\ call.tos[k] # Operator =>
                \E a \in NFTs(call.tos[k]) : a.class = book.symbol /\ a.nft = call.texts[k]
  <2>1. CASE IsPlain(books, call)
    <3>1. PICK a \in Assets : /\ a.class = book.symbol /\ a.nft \in Plain
                              /\ call = PlainCall(a, call.book, call.from)
      BY <2>1 DEF IsPlain
    <3>2. /\ call.tos = [i \in 1 .. 1 |-> a.migration]
          /\ call.texts = [i \in 1 .. 1 |-> a.nft]
      BY <3>1 DEF PlainCall, MintCall
    <3>3. n = 1 /\ \A k \in 1 .. n : call.tos[k] = a.migration /\ call.texts[k] = a.nft
      BY <3>2
    <3>4. a.nft # None
      BY <3>1, LikeNFTAssumption DEF Numbers
    <3>5. a.migration \in Accounts /\ a.nft \in Texts /\ a \in NFTs(a.migration)
      BY <3>4, AssetType DEF Accounts, Texts
    <3> QED BY <3>1, <3>3, <3>5
  <2>2. CASE IsBatch(books, call)
    <3>1. PICK l \in Nat \ {0} : call = BatchCall(book.symbol, call.book, call.from, l)
      BY <2>2 DEF IsBatch
    <3>2. /\ call.tos = [i \in 1 .. l |-> Operator]
          /\ call.texts = [i \in 1 .. l |-> TextOf(book.symbol, call.from + i - 1)]
      BY <3>1 DEF BatchCall, MintCall
    <3>3. n = l
      BY <3>2
    <3>4. \A k \in 1 .. n : /\ call.tos[k] = Operator
                            /\ call.texts[k] = TextOf(book.symbol, call.from + k - 1)
      BY <3>2, <3>3
    <3> QED BY <3>3, <3>4, TextType DEF Accounts
  <2> QED BY <2>1, <2>2
<1>7. /\ Good(new) /\ GrowsTo(book, new)
      /\ new.currentIndex = call.from + n
      /\ \A k \in 1 .. n : /\ new.holder[call.from + k - 1] = call.tos[k]
                           /\ new.uri[call.from + k - 1] = call.texts[k]
  <2>1. \A k \in 1 .. n :
            /\ call.tos[k] \in Accounts /\ call.texts[k] \in Texts
            /\ call.texts[k] \in {TextOf(book.symbol, book.currentIndex + k - 1)} \cup Plain
            /\ call.tos[k] # Operator =>
                \E a \in NFTs(call.tos[k]) : a.class = book.symbol /\ a.nft = call.texts[k]
    BY <1>5, <1>6
  <2>2. n \in Nat
    BY <1>6
  <2> HIDE DEF book, n
  <2>3. /\ Good(new) /\ GrowsTo(book, new)
        /\ new.currentIndex = book.currentIndex + n
        /\ \A k \in 1 .. n : /\ new.holder[book.currentIndex + k - 1] = call.tos[k]
                             /\ new.uri[book.currentIndex + k - 1] = call.texts[k]
    BY <1>3, <2>1, <2>2, MintedGood
  <2> HIDE DEF new
  <2> QED BY <2>3, <1>5
<1>8. /\ call.from \in DOMAIN new.holder
      /\ new.holder[call.from] = call.tos[1] /\ new.uri[call.from] = call.texts[1]
  <2>1. DOMAIN new.holder = 0 .. (new.currentIndex - 1)
    BY <1>7 DEF Good, Sound
  <2> HIDE DEF new, n
  <2>2. 1 \in 1 .. n /\ call.from + 1 - 1 = call.from
    BY <1>1, <1>6
  <2>3. call.from \in 0 .. (call.from + n - 1)
    BY <1>1, <1>6
  <2>4. new.holder[call.from + 1 - 1] = call.tos[1] /\ new.uri[call.from + 1 - 1] = call.texts[1]
    BY <1>7, <2>2
  <2>5. call.from \in DOMAIN new.holder
    <3>1. DOMAIN new.holder = 0 .. (call.from + n - 1)
      BY <1>1, <1>6, <1>7, <2>1
    <3> QED BY <2>3, <3>1
  <2> QED BY <2>2, <2>4, <2>5
<1> HIDE DEF new, n
<1> QED BY <1>1, <1>2, <1>7, <1>8, BookGrows

\* Whatever the call, it does what is said of those that were mined.
LEMMA RunInv ==
  ASSUME BooksInv, NEW call, ValidCall(books, call), Run(call)
  PROVE  /\ BooksInv' /\ Grow(books, books')
         /\ Done(books', call, Created(call))
         /\ Created(call) \in 1 .. MaxBooks \cup {None}
         /\ call.method # "newBookNFT" => DOMAIN books' = DOMAIN books
<1>1. CASE IsNewBook(call)
  <2>1. PICK c \in Classes : call = NewBookCall(c)
    BY <1>1 DEF IsNewBook
  <2>2. call.method = "newBookNFT" /\ call.msg.config.symbol = c
    BY <2>1 DEF NewBookCall
  <2> QED BY <2>1, <2>2, RunNewBook DEF Done
<1>2. ASSUME call.method # "newBookNFT" PROVE Created(call) = None
  BY <1>2 DEF Created
<1>3. CASE IsOwnership(books, call)
  BY <1>2, <1>3, RunOwnership DEF Done, IsOwnership
<1>4. CASE IsTransfer(books, call)
  BY <1>2, <1>4, RunTransfer DEF Done, IsTransfer
<1>5. CASE IsPlain(books, call) \/ IsBatch(books, call)
  <2>1. call.method = "safeMintWithTokenId"
    BY <1>5 DEF IsPlain, IsBatch
  <2> QED BY <1>2, <1>5, <2>1, RunMint DEF Done
<1> QED BY <1>1, <1>3, <1>4, <1>5, CallKinds

-----------------------------------------------------------------------------
(* The parts of the invariant that a step leaves alone, but for what has   *)
(* grown, and those that it moves.                                         *)

LEMMA SameIsGrown ==
  /\ UNCHANGED books => Grow(books, books')
  /\ UNCHANGED migrations => GoOnFrom(migrations, migrations')
  BY GrowRefl DEF GoOnFrom

LEMMA WorkersStay ==
  ASSUME WorkersInv, Grow(books, books'), DOMAIN requests \subseteq DOMAIN requests',
         GoOnFrom(migrations, migrations'), UNCHANGED worker
  PROVE  WorkersInv'
  BY TaskGrows DEF WorkersInv

LEMMA WorkersMove ==
  ASSUME WorkersInv, Grow(books, books'), DOMAIN requests \subseteq DOMAIN requests',
         GoOnFrom(migrations, migrations'), NEW w \in Workers, NEW t,
         worker' = [worker EXCEPT ![w] = t],
         Fits(books', DOMAIN requests', migrations', t)
  PROVE  WorkersInv'
<1>1. DOMAIN worker' = Workers
  BY DEF WorkersInv
<1>2. ASSUME NEW v \in Workers PROVE Fits(books', DOMAIN requests', migrations', worker'[v])
  <2>1. CASE v = w
    BY <2>1 DEF WorkersInv
  <2>2. CASE v # w
    <3>1. worker'[v] = worker[v] /\ Fits(books, DOMAIN requests, migrations, worker[v])
      BY <2>2 DEF WorkersInv
    <3> QED BY <3>1, TaskGrows
  <2> QED BY <2>1, <2>2
<1> QED BY <1>1, <1>2 DEF WorkersInv

LEMMA ActionsStay ==
  ASSUME ActionsInv, Grow(books, books'), UNCHANGED actions
  PROVE  ActionsInv'
  BY ActionGrows DEF ActionsInv

LEMMA ActionsSave ==
  ASSUME ActionsInv, UNCHANGED books, NEW k, NEW action, ActionFits(books, k, action),
         actions' = With(actions, k, action)
  PROVE  ActionsInv'
  BY DEF ActionsInv, With

LEMMA RequestsSave ==
  ASSUME RequestsInv, Grow(books, books'), NEW call, NEW status, NEW book,
         AnswerFits(books', call, [status |-> status, book |-> book]),
         Answer(call, status, book)
  PROVE  RequestsInv' /\ DOMAIN requests \subseteq DOMAIN requests' /\ call \in DOMAIN requests'
<1> DEFINE answer == [status |-> status, book |-> book]
<1>1. requests' = With(requests, call, answer)
  BY DEF Answer
<1> HIDE DEF answer
<1>2. /\ DOMAIN requests' = DOMAIN requests \cup {call} /\ requests'[call] = answer
      /\ \A d \in DOMAIN requests : d # call => requests'[d] = requests[d]
  BY <1>1 DEF With
<1>3. ASSUME NEW d \in DOMAIN requests' PROVE AnswerFits(books', d, requests'[d])
  <2>1. CASE d = call
    BY <1>2, <2>1 DEF answer
  <2>2. CASE d # call
    BY <1>2, <2>2, AnswerGrows DEF RequestsInv
  <2> QED BY <2>1, <2>2
<1> QED BY <1>2, <1>3 DEF RequestsInv

LEMMA RowsStay ==
  ASSUME MigrationsInv, RowsInv, Grow(books, books'), UNCHANGED <<migrations, rows>>
  PROVE  MigrationsInv' /\ RowsInv'
<1>1. \A a \in Assets : Sent(books, a) => Sent(books', a)
  BY SentGrows
<1>2. ASSUME NEW m \in Migrations, migrations'[m] = "completed", NEW a \in RowsOf(m)
      PROVE  Sent(books', a)
  BY <1>1, <1>2, RowType DEF MigrationsInv
<1> QED BY <1>1, <1>2 DEF MigrationsInv, RowsInv

-----------------------------------------------------------------------------
(* The signer.                                                             *)

\* The signer's steps make books grow and leave all that is the tasks' alone.
LEMMA SignerInv ==
  ASSUME Inv, SignerStep
  PROVE  Inv'
<1>1. PICK call \in DOMAIN requests : Execute(call) \/ Refuse(call) \/ Misbehave(call)
  BY DEF SignerStep, Settle
<1>2. /\ ValidCall(books, call)
      /\ requests[call].status \in {"pending", "mined", "failed"}
      /\ requests[call].book \in 1 .. MaxBooks \cup {None}
      /\ requests[call].status = "mined" => Done(books, call, requests[call].book)
  BY DEF Inv, RequestsInv, AnswerFits
<1>3. BooksInv /\ RequestsInv /\ UNCHANGED <<tables, queue, worker, userVars>>
  BY DEF Inv, SignerStep
<1>4. ASSUME Run(call), NEW status \in {"pending", "mined", "failed"},
             Answer(call, status, Created(call))
      PROVE  /\ BooksInv' /\ Grow(books, books')
             /\ RequestsInv' /\ DOMAIN requests \subseteq DOMAIN requests'
  <2>1. PICK book : book = Created(call)
    OBVIOUS
  <2>2. /\ BooksInv' /\ Grow(books, books')
        /\ Done(books', call, book) /\ book \in 1 .. MaxBooks \cup {None}
    BY <1>2, <1>3, <1>4, <2>1, RunInv
  <2>3. AnswerFits(books', call, [status |-> status, book |-> book])
    BY <1>2, <2>2, ValidCallGrows DEF AnswerFits
  <2> QED BY <1>3, <1>4, <2>1, <2>2, <2>3, RequestsSave
<1>5. ASSUME Answer(call, "failed", None), UNCHANGED books
      PROVE  /\ BooksInv' /\ Grow(books, books')
             /\ RequestsInv' /\ DOMAIN requests \subseteq DOMAIN requests'
  <2>1. BooksInv' /\ Grow(books, books')
    BY <1>3, <1>5, SameIsGrown DEF BooksInv
  <2>2. AnswerFits(books', call, [status |-> "failed", book |-> None])
    BY <1>2, <1>5 DEF AnswerFits
  <2> QED BY <1>3, <1>5, <2>1, <2>2, RequestsSave
<1>6. /\ BooksInv' /\ Grow(books, books')
      /\ RequestsInv' /\ DOMAIN requests \subseteq DOMAIN requests'
  BY <1>1, <1>2, <1>4, <1>5 DEF Execute, Refuse, Misbehave
<1>7. ActionsInv' /\ MigrationsInv' /\ RowsInv'
  BY <1>3, <1>6, ActionsStay, RowsStay DEF Inv, tables
<1>8. QueueInv' /\ UsersInv'
  BY <1>3 DEF Inv, QueueInv, UsersInv, tables, userVars
<1>9. WorkersInv'
  BY <1>3, <1>6, WorkersStay, SameIsGrown DEF Inv, tables
<1> QED BY <1>6, <1>7, <1>8, <1>9 DEF Inv

-----------------------------------------------------------------------------
(* Tables and the queue.                                                   *)

LEMMA StatusType ==
  /\ Status = {"init", "in_progress", "completed", "failed"}
  /\ "removed" \notin Status /\ None \notin Status /\ None # "removed"
  BY NullAssumption DEF Status

LEMMA JobType ==
  ASSUME NEW j \in Jobs
  PROVE  j.migration \in Migrations
  BY AssetType DEF Jobs, Enqueuers

LEMMA EnqueuerType ==
  ASSUME NEW kind \in {"all", "failed"}, NEW m \in Migrations
  PROVE  Enqueuer(kind, m) \in Jobs /\ Enqueuer(kind, m).migration = m
  BY DEF Enqueuer, Jobs, Enqueuers

LEMMA QueueStay ==
  ASSUME QueueInv, GoOnFrom(migrations, migrations'), UNCHANGED queue
  PROVE  QueueInv'
<1>1. \A k \in 1 .. Len(queue) : queue[k].migration \in Migrations
  BY JobType DEF QueueInv
<1> QED BY <1>1 DEF QueueInv, GoOnFrom

LEMMA QueueAppend ==
  ASSUME QueueInv, GoOnFrom(migrations, migrations'),
         NEW j \in Jobs, migrations'[j.migration] # None,
         EnqueuedOrNot(j)
  PROVE  QueueInv'
<1>1. CASE UNCHANGED queue
  BY <1>1, QueueStay
<1>2. CASE queue' = Append(queue, j)
  <2>1. queue \in Seq(Jobs)
    BY DEF QueueInv
  <2>2. /\ queue' \in Seq(Jobs) /\ Len(queue') = Len(queue) + 1
        /\ queue'[Len(queue) + 1] = j /\ Len(queue) \in Nat
        /\ \A k \in 1 .. Len(queue) : queue'[k] = queue[k]
    BY <1>2, <2>1
  <2>3. \A k \in 1 .. Len(queue) : queue[k].migration \in Migrations
    BY JobType DEF QueueInv
  <2>4. ASSUME NEW k \in 1 .. Len(queue') PROVE migrations'[queue'[k].migration] # None
    <3>1. CASE k \in 1 .. Len(queue)
      BY <2>2, <2>3, <3>1 DEF QueueInv, GoOnFrom
    <3>2. CASE k = Len(queue) + 1
      BY <2>2, <3>2
    <3> QED BY <2>2, <3>1, <3>2
  <2> QED BY <2>2, <2>4 DEF QueueInv
<1> QED BY <1>1, <1>2 DEF EnqueuedOrNot, Enqueued

LEMMA QueueTake ==
  ASSUME QueueInv, UNCHANGED migrations, NEW w, NEW j, Take(w, j)
  PROVE  QueueInv' /\ j \in Jobs /\ migrations[j.migration] # None
<1>1. queue \in Seq(Jobs) /\ queue # <<>> /\ j = queue[1] /\ queue' = Tail(queue)
  BY DEF QueueInv, Take
<1>2. /\ queue' \in Seq(Jobs) /\ Len(queue') = Len(queue) - 1 /\ Len(queue) \in Nat \ {0}
      /\ \A k \in 1 .. Len(queue') : queue'[k] = queue[k + 1]
  BY <1>1
<1>3. QueueInv'
  BY <1>2 DEF QueueInv
<1> QED BY <1>1, <1>2, <1>3 DEF QueueInv

\* Rows that are written stay rows; what they call completed was sent.
LEMMA RowsWritten ==
  ASSUME MigrationsInv, RowsInv, UNCHANGED <<books, migrations>>,
         NEW as \in SUBSET Assets, NEW status \in Status,
         status = "completed" => \A a \in as : Sent(books, a),
         SetRows(as, status)
  PROVE  MigrationsInv' /\ RowsInv'
<1>1. MigrationsInv'
  BY DEF MigrationsInv
<1>2. rows' \in [Assets -> Status \cup {None}]
  BY DEF RowsInv, SetRows
<1>3. ASSUME NEW a \in Assets
      PROVE  /\ rows'[a] = "completed" => Sent(books', a)
             /\ rows'[a] = None <=> migrations'[a.migration] \in {None, "removed"}
  <2>1. rows'[a] = IF a \in as /\ rows[a] # None THEN status ELSE rows[a]
    BY DEF SetRows
  <2>2. status # None
    BY StatusType
  <2> QED BY <2>1, <2>2 DEF RowsInv
<1> QED BY <1>1, <1>2, <1>3 DEF RowsInv

\* A migration that has rows keeps them when its status is written.
LEMMA MigrationWritten ==
  ASSUME MigrationsInv, RowsInv, UNCHANGED <<books, rows>>,
         NEW m \in Migrations, migrations[m] # None, NEW status \in Status,
         status = "completed" =>
            migrations[m] = "removed" \/ \A a \in RowsOf(m) : Sent(books, a),
         SetMigration(m, status)
  PROVE  MigrationsInv' /\ RowsInv' /\ GoOnFrom(migrations, migrations')
<1>1. migrations \in [Migrations -> Status \cup {None, "removed"}]
  BY DEF MigrationsInv
<1>2. migrations' = [migrations EXCEPT ![m] =
            IF migrations[m] = "removed" THEN migrations[m] ELSE status]
  BY DEF SetMigration
<1>3. migrations' \in [Migrations -> Status \cup {None, "removed"}]
  BY <1>1, <1>2
<1>4. \A n \in Migrations : migrations'[n] =
            IF n # m \/ migrations[n] = "removed" THEN migrations[n] ELSE status
  BY <1>1, <1>2
<1>5. GoOnFrom(migrations, migrations')
  BY <1>4, StatusType DEF GoOnFrom
<1>6. MigrationsInv'
  BY <1>3, <1>4, StatusType DEF MigrationsInv
<1>7. \A n \in Migrations : migrations'[n] \in {None, "removed"} <=> migrations[n] \in {None, "removed"}
  BY <1>4, StatusType
<1>8. RowsInv'
  BY <1>7, AssetType DEF RowsInv
<1> QED BY <1>5, <1>6, <1>8

-----------------------------------------------------------------------------
(* HTTP handlers.                                                          *)

LEMMA CreateInv ==
  ASSUME Inv, NEW m \in Migrations, Create(m)
  PROVE  Inv'
<1>1. /\ BooksInv /\ RequestsInv /\ ActionsInv /\ MigrationsInv /\ RowsInv
      /\ QueueInv /\ UsersInv /\ WorkersInv
  BY DEF Inv
<1>2. UNCHANGED <<actions, worker, retrying, retries, requests, books>>
  BY DEF Create, userVars, signerVars
<1>3. /\ migrations \in [Migrations -> Status \cup {None, "removed"}]
      /\ migrations[m] = None /\ migrations' = [migrations EXCEPT ![m] = "in_progress"]
  BY <1>1 DEF Create, MigrationsInv
<1>4. GoOnFrom(migrations, migrations') /\ Grow(books, books')
  BY <1>2, <1>3, StatusType, SameIsGrown DEF GoOnFrom
<1>5. MigrationsInv'
  BY <1>1, <1>2, <1>3, StatusType DEF MigrationsInv
<1>6. ASSUME NEW a \in Assets
      PROVE  /\ rows'[a] = "completed" => Sent(books', a)
             /\ rows'[a] = None <=> migrations'[a.migration] \in {None, "removed"}
  <2>1. rows'[a] = IF a.migration = m THEN "init" ELSE rows[a]
    BY DEF Create
  <2> QED BY <1>1, <1>2, <1>3, <2>1, AssetType, StatusType DEF RowsInv
<1>7. rows' \in [Assets -> Status \cup {None}]
  BY <1>1, StatusType DEF Create, RowsInv
<1>8. RowsInv'
  BY <1>6, <1>7 DEF RowsInv
<1>9. QueueInv'
  <2>1. EnqueuedOrNot(Enqueuer("all", m))
    BY DEF Create
  <2>2. migrations'[m] # None
    BY <1>3, StatusType
  <2> QED BY <1>1, <1>4, <2>1, <2>2, EnqueuerType, QueueAppend
<1>10. UsersInv'
  BY <1>1, <1>2, <1>4 DEF UsersInv, GoOnFrom
<1>11. WorkersInv' /\ ActionsInv'
  BY <1>1, <1>2, <1>4, WorkersStay, ActionsStay
<1>12. BooksInv' /\ RequestsInv'
  BY <1>1, <1>2 DEF BooksInv, RequestsInv
<1> QED BY <1>5, <1>8, <1>9, <1>10, <1>11, <1>12 DEF Inv

LEMMA RetryCheckInv ==
  ASSUME Inv, NEW m \in Migrations, RetryCheck(m)
  PROVE  Inv'
<1>1. UNCHANGED <<migrations, rows, actions, queue, worker, requests, books>>
  BY DEF RetryCheck, tables, signerVars
<1>2. /\ retries \in 0 .. MaxRetries /\ retrying \in [Migrations -> Nat]
      /\ \A n \in Migrations : retrying[n] <= retries /\ (retrying[n] > 0 => migrations[n] # None)
      /\ MaxRetries \in Nat
  BY LikeNFTAssumption DEF Inv, UsersInv
<1>3. /\ migrations[m] = "failed" /\ retries < MaxRetries /\ retries' = retries + 1
      /\ retrying' = [retrying EXCEPT ![m] = retrying[m] + 1]
  BY DEF RetryCheck
<1>4. retrying[m] + 1 \in Nat
  BY <1>2
<1>5. /\ retrying' \in [Migrations -> Nat]
      /\ \A n \in Migrations : retrying'[n] = IF n = m THEN retrying[m] + 1 ELSE retrying[n]
  BY <1>2, <1>3, <1>4
<1>6. retries' \in 0 .. MaxRetries
  BY <1>2, <1>3
<1>7. \A n \in Migrations : retrying'[n] <= retries' /\ (retrying'[n] > 0 => migrations[n] # None)
  BY <1>2, <1>3, <1>5, StatusType
<1>8. UsersInv'
  BY <1>1, <1>5, <1>6, <1>7 DEF UsersInv
<1>9. WorkersInv' /\ ActionsInv' /\ MigrationsInv' /\ RowsInv'
  BY <1>1, WorkersStay, ActionsStay, RowsStay, SameIsGrown DEF Inv
<1>10. BooksInv' /\ RequestsInv' /\ QueueInv'
  BY <1>1 DEF Inv, BooksInv, RequestsInv, QueueInv
<1> QED BY <1>8, <1>9, <1>10 DEF Inv

LEMMA RetryWriteInv ==
  ASSUME Inv, NEW m \in Migrations, RetryWrite(m)
  PROVE  Inv'
<1>1. UNCHANGED <<rows, actions, worker, retries, requests, books>>
  BY DEF RetryWrite, signerVars
<1>2. /\ retries \in 0 .. MaxRetries /\ retrying \in [Migrations -> Nat]
      /\ \A n \in Migrations : retrying[n] <= retries /\ (retrying[n] > 0 => migrations[n] # None)
      /\ MaxRetries \in Nat
  BY LikeNFTAssumption DEF Inv, UsersInv
<1>3. retrying[m] > 0 /\ retrying' = [retrying EXCEPT ![m] = retrying[m] - 1]
  BY DEF RetryWrite
<1>4. migrations[m] # None
  BY <1>2, <1>3
<1>5. /\ MigrationsInv' /\ RowsInv' /\ GoOnFrom(migrations, migrations')
  <2>1. "in_progress" \in Status /\ SetMigration(m, "in_progress")
    BY StatusType DEF RetryWrite
  <2> QED BY <1>1, <1>4, <2>1, MigrationWritten DEF Inv
<1>6. QueueInv'
  <2>1. EnqueuedOrNot(Enqueuer("failed", m)) /\ migrations'[m] # None
    BY <1>4, <1>5 DEF RetryWrite, GoOnFrom
  <2> QED BY <1>5, <2>1, EnqueuerType, QueueAppend DEF Inv
<1>7. retrying[m] - 1 \in Nat
  BY <1>2, <1>3
<1>8. /\ retrying' \in [Migrations -> Nat]
      /\ \A n \in Migrations : retrying'[n] = IF n = m THEN retrying[m] - 1 ELSE retrying[n]
  BY <1>2, <1>3, <1>7
<1>9. UsersInv'
  <2>1. \A n \in Migrations : retrying'[n] <= retries /\ (retrying'[n] > 0 => migrations[n] # None)
    BY <1>2, <1>3, <1>4, <1>8
  <2> QED BY <1>1, <1>2, <1>5, <1>8, <2>1 DEF UsersInv, GoOnFrom
<1>10. WorkersInv' /\ ActionsInv'
  BY <1>1, <1>5, WorkersStay, ActionsStay, SameIsGrown DEF Inv
<1>11. BooksInv' /\ RequestsInv'
  BY <1>1 DEF Inv, BooksInv, RequestsInv
<1> QED BY <1>5, <1>6, <1>9, <1>10, <1>11 DEF Inv

LEMMA RemoveInv ==
  ASSUME Inv, NEW m \in Migrations, Remove(m)
  PROVE  Inv'
<1>1. UNCHANGED <<actions, queue, worker, retrying, retries, requests, books>>
  BY DEF Remove, userVars, signerVars
<1>2. /\ migrations \in [Migrations -> Status \cup {None, "removed"}]
      /\ migrations[m] # None /\ migrations' = [migrations EXCEPT ![m] = "removed"]
  BY DEF Remove, Inv, MigrationsInv
<1>3. GoOnFrom(migrations, migrations')
  BY <1>2, StatusType DEF GoOnFrom
<1>4. MigrationsInv'
  BY <1>1, <1>2, StatusType DEF Inv, MigrationsInv
<1>5. ASSUME NEW a \in Assets
      PROVE  /\ rows'[a] = "completed" => Sent(books', a)
             /\ rows'[a] = None <=> migrations'[a.migration] \in {None, "removed"}
  <2>1. rows'[a] = IF a.migration = m THEN None ELSE rows[a]
    BY DEF Remove
  <2> QED BY <1>1, <1>2, <2>1, AssetType, StatusType DEF Inv, RowsInv
<1>6. rows' \in [Assets -> Status \cup {None}]
  BY DEF Inv, Remove, RowsInv
<1>7. RowsInv'
  BY <1>5, <1>6 DEF RowsInv
<1>8. UsersInv' /\ QueueInv'
  BY <1>1, <1>3, QueueStay DEF Inv, UsersInv, GoOnFrom
<1>9. WorkersInv' /\ ActionsInv'
  BY <1>1, <1>3, WorkersStay, ActionsStay, SameIsGrown DEF Inv
<1>10. BooksInv' /\ RequestsInv'
  BY <1>1 DEF Inv, BooksInv, RequestsInv
<1> QED BY <1>4, <1>7, <1>8, <1>9, <1>10 DEF Inv

-----------------------------------------------------------------------------
(* Tasks.                                                                  *)

TaskOf(pc, job, stage, book, action, call, noted) ==
    [pc |-> pc, job |-> job, stage |-> stage, book |-> book,
     action |-> action, call |-> call, noted |-> noted]

LEMMA TaskFields ==
  ASSUME NEW p, NEW j, NEW s, NEW b, NEW a, NEW c, NEW n
  PROVE  LET t == TaskOf(p, j, s, b, a, c, n) IN
         /\ IsTask(t) /\ t.pc = p /\ t.job = j /\ t.stage = s /\ t.book = b
         /\ t.action = a /\ t.call = c /\ t.noted = n
  BY DEF TaskOf, IsTask

\* What a task becomes when some of its fields are set.
Fields == {"pc", "job", "stage", "book", "action", "call", "noted"}

LEMMA TaskIs ==
  ASSUME NEW t, t = [x \in Fields |-> t[x]]
  PROVE  t = TaskOf(t.pc, t.job, t.stage, t.book, t.action, t.call, t.noted)
<1>1. DOMAIN t = Fields
  OBVIOUS
<1> QED BY <1>1 DEF TaskOf, Fields

LEMMA SetPc ==
  ASSUME NEW t, IsTask(t), NEW p
  PROVE  [t EXCEPT !.pc = p] =
            TaskOf(p, t.job, t.stage, t.book, t.action, t.call, t.noted)
<1> DEFINE u == [t EXCEPT !.pc = p]
<1>1. DOMAIN t = Fields
  BY DEF IsTask, Fields
<1>2. DOMAIN u = Fields /\ u = [x \in Fields |-> u[x]]
  BY <1>1
<1>3. /\ u.pc = p /\ u.job = t.job /\ u.stage = t.stage /\ u.book = t.book
      /\ u.action = t.action /\ u.call = t.call /\ u.noted = t.noted
  BY <1>1 DEF Fields
<1> HIDE DEF u
<1>4. u = TaskOf(u.pc, u.job, u.stage, u.book, u.action, u.call, u.noted)
  BY <1>2, TaskIs
<1> QED BY <1>3, <1>4 DEF u

LEMMA SetNoted ==
  ASSUME NEW t, IsTask(t), NEW n
  PROVE  [t EXCEPT !.noted = n] =
            TaskOf(t.pc, t.job, t.stage, t.book, t.action, t.call, n)
<1> DEFINE u == [t EXCEPT !.noted = n]
<1>1. DOMAIN t = Fields
  BY DEF IsTask, Fields
<1>2. DOMAIN u = Fields /\ u = [x \in Fields |-> u[x]]
  BY <1>1
<1>3. /\ u.pc = t.pc /\ u.job = t.job /\ u.stage = t.stage /\ u.book = t.book
      /\ u.action = t.action /\ u.call = t.call /\ u.noted = n
  BY <1>1 DEF Fields
<1> HIDE DEF u
<1>4. u = TaskOf(u.pc, u.job, u.stage, u.book, u.action, u.call, u.noted)
  BY <1>2, TaskIs
<1> QED BY <1>3, <1>4 DEF u

LEMMA SetPcNoted ==
  ASSUME NEW t, IsTask(t), NEW p, NEW n
  PROVE  [t EXCEPT !.pc = p, !.noted = n] =
            TaskOf(p, t.job, t.stage, t.book, t.action, t.call, n)
<1> DEFINE u == [t EXCEPT !.pc = p, !.noted = n]
<1>1. DOMAIN t = Fields
  BY DEF IsTask, Fields
<1>2. DOMAIN u = Fields /\ u = [x \in Fields |-> u[x]]
  BY <1>1
<1>3. /\ u.pc = p /\ u.job = t.job /\ u.stage = t.stage /\ u.book = t.book
      /\ u.action = t.action /\ u.call = t.call /\ u.noted = n
  BY <1>1 DEF Fields
<1> HIDE DEF u
<1>4. u = TaskOf(u.pc, u.job, u.stage, u.book, u.action, u.call, u.noted)
  BY <1>2, TaskIs
<1> QED BY <1>3, <1>4 DEF u

LEMMA SetPcAction ==
  ASSUME NEW t, IsTask(t), NEW p, NEW a
  PROVE  [t EXCEPT !.pc = p, !.action = a] =
            TaskOf(p, t.job, t.stage, t.book, a, t.call, t.noted)
<1> DEFINE u == [t EXCEPT !.pc = p, !.action = a]
<1>1. DOMAIN t = Fields
  BY DEF IsTask, Fields
<1>2. DOMAIN u = Fields /\ u = [x \in Fields |-> u[x]]
  BY <1>1
<1>3. /\ u.pc = p /\ u.job = t.job /\ u.stage = t.stage /\ u.book = t.book
      /\ u.action = a /\ u.call = t.call /\ u.noted = t.noted
  BY <1>1 DEF Fields
<1> HIDE DEF u
<1>4. u = TaskOf(u.pc, u.job, u.stage, u.book, u.action, u.call, u.noted)
  BY <1>2, TaskIs
<1> QED BY <1>3, <1>4 DEF u

LEMMA SetPcCall ==
  ASSUME NEW t, IsTask(t), NEW p, NEW c
  PROVE  [t EXCEPT !.pc = p, !.call = c] =
            TaskOf(p, t.job, t.stage, t.book, t.action, c, t.noted)
<1> DEFINE u == [t EXCEPT !.pc = p, !.call = c]
<1>1. DOMAIN t = Fields
  BY DEF IsTask, Fields
<1>2. DOMAIN u = Fields /\ u = [x \in Fields |-> u[x]]
  BY <1>1
<1>3. /\ u.pc = p /\ u.job = t.job /\ u.stage = t.stage /\ u.book = t.book
      /\ u.action = t.action /\ u.call = c /\ u.noted = t.noted
  BY <1>1 DEF Fields
<1> HIDE DEF u
<1>4. u = TaskOf(u.pc, u.job, u.stage, u.book, u.action, u.call, u.noted)
  BY <1>2, TaskIs
<1> QED BY <1>3, <1>4 DEF u

LEMMA SetPcActionCall ==
  ASSUME NEW t, IsTask(t), NEW p, NEW a, NEW c
  PROVE  [t EXCEPT !.pc = p, !.action = a, !.call = c] =
            TaskOf(p, t.job, t.stage, t.book, a, c, t.noted)
<1> DEFINE u == [t EXCEPT !.pc = p, !.action = a, !.call = c]
<1>1. DOMAIN t = Fields
  BY DEF IsTask, Fields
<1>2. DOMAIN u = Fields /\ u = [x \in Fields |-> u[x]]
  BY <1>1
<1>3. /\ u.pc = p /\ u.job = t.job /\ u.stage = t.stage /\ u.book = t.book
      /\ u.action = a /\ u.call = c /\ u.noted = t.noted
  BY <1>1 DEF Fields
<1> HIDE DEF u
<1>4. u = TaskOf(u.pc, u.job, u.stage, u.book, u.action, u.call, u.noted)
  BY <1>2, TaskIs
<1> QED BY <1>3, <1>4 DEF u

LEMMA SetStage ==
  ASSUME NEW t, IsTask(t), NEW b, NEW s
  PROVE  [t EXCEPT !.pc = "find", !.book = b, !.action = None, !.call = None, !.stage = s] =
            TaskOf("find", t.job, s, b, None, None, t.noted)
<1> DEFINE u == [t EXCEPT !.pc = "find", !.book = b, !.action = None, !.call = None, !.stage = s]
<1>1. DOMAIN t = Fields
  BY DEF IsTask, Fields
<1>2. DOMAIN u = Fields /\ u = [x \in Fields |-> u[x]]
  BY <1>1
<1>3. /\ u.pc = "find" /\ u.job = t.job /\ u.stage = s /\ u.book = b
      /\ u.action = None /\ u.call = None /\ u.noted = t.noted
  BY <1>1 DEF Fields
<1> HIDE DEF u
<1>4. u = TaskOf(u.pc, u.job, u.stage, u.book, u.action, u.call, u.noted)
  BY <1>2, TaskIs
<1> QED BY <1>3, <1>4 DEF u

LEMMA SetRecalculating ==
  ASSUME NEW p, NEW j
  PROVE  [Idle EXCEPT !.pc = p, !.job = j] =
            TaskOf(p, j, None, None, None, None, {})
<1> DEFINE u == [Idle EXCEPT !.pc = p, !.job = j]
<1>1. DOMAIN Idle = Fields
  BY DEF Idle, Fields
<1>2. DOMAIN u = Fields /\ u = [x \in Fields |-> u[x]]
  BY <1>1
<1>3. /\ u.pc = p /\ u.job = j /\ u.stage = None /\ u.book = None
      /\ u.action = None /\ u.call = None /\ u.noted = {}
  BY <1>1 DEF Fields, Idle
<1> HIDE DEF u
<1>4. u = TaskOf(u.pc, u.job, u.stage, u.book, u.action, u.call, u.noted)
  BY <1>2, TaskIs
<1> QED BY <1>3, <1>4 DEF u

LEMMA SetMigrating ==
  ASSUME NEW p, NEW j, NEW s
  PROVE  [Idle EXCEPT !.pc = p, !.job = j, !.stage = s] =
            TaskOf(p, j, s, None, None, None, {})
<1> DEFINE u == [Idle EXCEPT !.pc = p, !.job = j, !.stage = s]
<1>1. DOMAIN Idle = Fields
  BY DEF Idle, Fields
<1>2. DOMAIN u = Fields /\ u = [x \in Fields |-> u[x]]
  BY <1>1
<1>3. /\ u.pc = p /\ u.job = j /\ u.stage = s /\ u.book = None
      /\ u.action = None /\ u.call = None /\ u.noted = {}
  BY <1>1 DEF Fields, Idle
<1> HIDE DEF u
<1>4. u = TaskOf(u.pc, u.job, u.stage, u.book, u.action, u.call, u.noted)
  BY <1>2, TaskIs
<1> QED BY <1>3, <1>4 DEF u

LEMMA SetEnqueuing ==
  ASSUME NEW p, NEW j, NEW n
  PROVE  [Idle EXCEPT !.pc = p, !.job = j, !.noted = n] =
            TaskOf(p, j, None, None, None, None, n)
<1> DEFINE u == [Idle EXCEPT !.pc = p, !.job = j, !.noted = n]
<1>1. DOMAIN Idle = Fields
  BY DEF Idle, Fields
<1>2. DOMAIN u = Fields /\ u = [x \in Fields |-> u[x]]
  BY <1>1
<1>3. /\ u.pc = p /\ u.job = j /\ u.stage = None /\ u.book = None
      /\ u.action = None /\ u.call = None /\ u.noted = n
  BY <1>1 DEF Fields, Idle
<1> HIDE DEF u
<1>4. u = TaskOf(u.pc, u.job, u.stage, u.book, u.action, u.call, u.noted)
  BY <1>2, TaskIs
<1> QED BY <1>3, <1>4 DEF u
LEMMA SetIdle ==
  IsTask(Idle) /\ Idle.pc = "idle" /\ Idle.stage = None
  BY DEF Idle, IsTask

-----------------------------------------------------------------------------
(* Steps of tasks: each leaves most of the invariant alone.                *)

LEMMA TaskStays ==
  ASSUME Inv
  PROVE  /\ UNCHANGED books => BooksInv' /\ Grow(books, books')
         /\ UNCHANGED <<books, requests>> => RequestsInv'
         /\ UNCHANGED <<books, actions>> => ActionsInv'
         /\ UNCHANGED <<books, migrations, rows>> => MigrationsInv' /\ RowsInv'
         /\ UNCHANGED migrations => GoOnFrom(migrations, migrations')
         /\ GoOnFrom(migrations, migrations') /\ UNCHANGED queue => QueueInv'
         /\ GoOnFrom(migrations, migrations') /\ UNCHANGED <<retrying, retries>> => UsersInv'
<1>1. UNCHANGED books => BooksInv' /\ Grow(books, books')
  BY SameIsGrown DEF Inv, BooksInv
<1>2. UNCHANGED <<books, requests>> => RequestsInv'
  BY DEF Inv, RequestsInv
<1>3. UNCHANGED <<books, actions>> => ActionsInv'
  BY DEF Inv, ActionsInv
<1>4. UNCHANGED <<books, migrations, rows>> => MigrationsInv' /\ RowsInv'
  BY DEF Inv, MigrationsInv, RowsInv
<1>5. UNCHANGED migrations => GoOnFrom(migrations, migrations')
  BY SameIsGrown
<1>6. GoOnFrom(migrations, migrations') /\ UNCHANGED queue => QueueInv'
  BY QueueStay DEF Inv
<1>7. GoOnFrom(migrations, migrations') /\ UNCHANGED <<retrying, retries>> => UsersInv'
  BY DEF Inv, UsersInv, GoOnFrom
<1> QED BY <1>1, <1>2, <1>3, <1>4, <1>5, <1>6, <1>7

\* What a task knows now, and what it must know next.
FitsNow(t) == Fits(books, DOMAIN requests, migrations, t)

LEMMA TaskNow ==
  ASSUME Inv, NEW w \in Workers
  PROVE  FitsNow(worker[w]) /\ IsTask(worker[w])
  BY DEF Inv, WorkersInv, FitsNow, Fits

\* A step of one task that writes nothing.
LEMMA TaskGoes ==
  ASSUME Inv, NEW w \in Workers, NEW t, FitsNow(t),
         worker' = [worker EXCEPT ![w] = t],
         UNCHANGED <<migrations, rows, actions, queue, retrying, retries, requests, books>>
  PROVE  Inv'
<1>1. WorkersInv'
  BY WorkersMove, SameIsGrown DEF Inv, FitsNow
<1> QED BY <1>1, TaskStays DEF Inv

\* A step of one task that writes as much as the rows or its action's row.
LEMMA TaskWrites ==
  ASSUME Inv, NEW w \in Workers, NEW t, FitsNow(t),
         worker' = [worker EXCEPT ![w] = t],
         MigrationsInv' /\ RowsInv' /\ ActionsInv' /\ QueueInv' /\ UsersInv',
         GoOnFrom(migrations, migrations'), UNCHANGED <<requests, books>>
  PROVE  Inv'
<1>1. Fits(books', DOMAIN requests', migrations', t)
  BY TaskGrows, SameIsGrown DEF FitsNow
<1>2. WorkersInv'
  BY <1>1, WorkersMove, SameIsGrown DEF Inv
<1> QED BY <1>2, TaskStays DEF Inv

LEMMA GotoIs ==
  ASSUME Inv, NEW w \in Workers, NEW t, t = worker[w], NEW p, Goto(w, p)
  PROVE  worker' = [worker EXCEPT ![w] =
                TaskOf(p, t.job, t.stage, t.book, t.action, t.call, t.noted)]
<1>1. IsTask(t) /\ w \in DOMAIN worker
  BY DEF Inv, WorkersInv, Fits
<1>2. worker' = [worker EXCEPT ![w] = [t EXCEPT !.pc = p]]
  BY <1>1 DEF Goto
<1> QED BY <1>1, <1>2, SetPc

LEMMA IdleFits == FitsNow(Idle)
  BY SetIdle DEF FitsNow, Fits, PCs, Enqueuing, Migrating, Acting

\* A task that has an asset may fail, and may recalculate.
LEMMA EndFits ==
  ASSUME Inv, NEW t, FitsNow(t), t.pc \notin Enqueuing \cup {"idle"},
         NEW u, IsTask(u), u.job = t.job, u.stage \in Stages \cup {None},
         u.pc \in {"failed", "classes"}
  PROVE  FitsNow(u)
<1>1. /\ t.job \in Assets /\ t.job.migration \in Migrations
      /\ migrations[t.job.migration] # None
  BY DEF FitsNow, Fits
<1> QED BY <1>1 DEF FitsNow, Fits, PCs, Enqueuing, Migrating, Acting, Recalculating

LEMMA FailInv ==
  ASSUME Inv, NEW w \in Workers, worker[w].pc \notin Enqueuing \cup {"idle"}, Goto(w, "failed"),
         UNCHANGED <<migrations, rows, actions, queue, retrying, retries, requests, books>>
  PROVE  Inv'
<1>1. PICK t : t = worker[w]
  OBVIOUS
<1>2. PICK u : u = TaskOf("failed", t.job, t.stage, t.book, t.action, t.call, t.noted)
  OBVIOUS
<1>3. FitsNow(t) /\ t.stage \in Stages \cup {None}
  BY <1>1, TaskNow DEF FitsNow, Fits
<1>4. IsTask(u) /\ u.job = t.job /\ u.stage = t.stage /\ u.pc = "failed"
  BY <1>2, TaskFields
<1>5. FitsNow(u)
  BY <1>1, <1>3, <1>4, EndFits
<1>6. worker' = [worker EXCEPT ![w] = u]
  BY <1>1, <1>2, GotoIs
<1> QED BY <1>5, <1>6, TaskGoes

LEMMA StopInv ==
  ASSUME Inv, NEW w \in Workers, Stop(w),
         MigrationsInv' /\ RowsInv', GoOnFrom(migrations, migrations'),
         UNCHANGED <<actions, queue, retrying, retries, requests, books>>
  PROVE  Inv'
<1>1. worker' = [worker EXCEPT ![w] = Idle]
  BY DEF Stop
<1>2. ActionsInv' /\ QueueInv' /\ UsersInv'
  BY TaskStays
<1> QED BY <1>1, <1>2, IdleFits, TaskWrites

LEMMA StopsInv ==
  ASSUME Inv, NEW w \in Workers, Stop(w),
         UNCHANGED <<migrations, rows, actions, queue, retrying, retries, requests, books>>
  PROVE  Inv'
  BY StopInv, TaskStays

\* The deferred recalculation begins.
LEMMA RecalculateInv ==
  ASSUME Inv, NEW w \in Workers, worker[w].pc \notin Enqueuing \cup {"idle"}, Recalculate(w),
         MigrationsInv' /\ RowsInv',
         UNCHANGED <<migrations, actions, queue, retrying, retries, requests, books>>
  PROVE  Inv'
<1>1. PICK t : t = worker[w]
  OBVIOUS
<1>2. PICK u : u = TaskOf("classes", t.job, None, None, None, None, {})
  OBVIOUS
<1>3. FitsNow(t)
  BY <1>1, TaskNow
<1>4. IsTask(u) /\ u.job = t.job /\ u.stage = None /\ u.pc = "classes"
  BY <1>2, TaskFields
<1>5. FitsNow(u)
  BY <1>1, <1>3, <1>4, EndFits
<1>6. worker' = [worker EXCEPT ![w] = u]
  BY <1>1, <1>2, SetRecalculating DEF Recalculate
<1> QED BY <1>5, <1>6, TaskWrites, TaskStays

-----------------------------------------------------------------------------
(* Tasks that enqueue tasks.                                               *)

LEMMA EnqueueFits ==
  ASSUME Inv, NEW j \in Enqueuers, migrations[j.migration] # None,
         NEW n \in SUBSET RowsOf(j.migration), NEW p \in Enqueuing,
         NEW u, IsTask(u), u.pc = p, u.job = j, u.noted = n, u.stage \in Stages \cup {None}
  PROVE  FitsNow(u)
<1>1. j.migration \in Migrations
  BY JobType DEF Jobs
<1> QED BY <1>1 DEF FitsNow, Fits, PCs, Enqueuing, Migrating, Acting

LEMMA EnqueueBeginInv ==
  ASSUME Inv, NEW w \in Workers, NEW j \in Jobs, j \notin Assets, EnqueueBegin(w, j)
  PROVE  Inv'
<1>1. UNCHANGED <<migrations, rows, actions, retrying, retries, requests, books>>
  BY DEF EnqueueBegin, tables, userVars, signerVars
<1>2. QueueInv' /\ j \in Enqueuers /\ migrations[j.migration] # None
  BY <1>1, QueueTake DEF EnqueueBegin, Inv, Jobs
<1>3. PICK todo \in SUBSET RowsOf(j.migration), pc \in Enqueuing :
        UNCHANGED worker \/ worker' = [worker EXCEPT ![w] =
                                [Idle EXCEPT !.pc = pc, !.job = j, !.noted = todo]]
  BY DEF EnqueueBegin, Enqueuing
<1>4. CASE UNCHANGED worker
  BY <1>1, <1>2, <1>4, TaskStays, WorkersStay DEF Inv
<1>5. CASE worker' = [worker EXCEPT ![w] = [Idle EXCEPT !.pc = pc, !.job = j, !.noted = todo]]
  <2>1. PICK u : u = TaskOf(pc, j, None, None, None, None, todo)
    OBVIOUS
  <2>2. worker' = [worker EXCEPT ![w] = u]
    <3>1. [Idle EXCEPT !.pc = pc, !.job = j, !.noted = todo] = u
      BY <2>1, SetEnqueuing
    <3> QED BY <1>5, <3>1
  <2>3. IsTask(u) /\ u.pc = pc /\ u.job = j /\ u.noted = todo /\ u.stage = None
    BY <2>1, TaskFields
  <2>4. FitsNow(u)
    BY <1>2, <2>3, EnqueueFits
  <2> QED BY <1>1, <1>2, <2>2, <2>4, TaskWrites, TaskStays
<1> QED BY <1>3, <1>4, <1>5

\* What an enqueuing task knows.
LEMMA EnqueuingKnows ==
  ASSUME Inv, NEW w \in Workers, worker[w].pc \in Enqueuing
  PROVE  /\ worker[w].job \in Enqueuers /\ worker[w].job.migration \in Migrations
         /\ migrations[worker[w].job.migration] # None
         /\ worker[w].noted \in SUBSET RowsOf(worker[w].job.migration)
         /\ worker[w].noted \in SUBSET Assets
         /\ worker[w].stage \in Stages \cup {None} /\ IsTask(worker[w])
  BY TaskNow, RowType DEF FitsNow, Fits, Enqueuing

LEMMA EnqueueCommitInv ==
  ASSUME Inv, NEW w \in Workers, EnqueueCommit(w)
  PROVE  Inv'
<1>1. PICK t : t = worker[w]
  OBVIOUS
<1>2. UNCHANGED <<migrations, actions, queue, retrying, retries, requests, books>>
  BY DEF EnqueueCommit, userVars, signerVars
<1>3. /\ t.job \in Enqueuers /\ migrations[t.job.migration] # None
      /\ t.noted \in SUBSET RowsOf(t.job.migration) /\ t.noted \in SUBSET Assets
      /\ t.stage \in Stages \cup {None}
  BY <1>1, EnqueuingKnows DEF EnqueueCommit, At, Enqueuing
<1>4. MigrationsInv' /\ RowsInv'
  <2>1. SetRows(t.noted, "failed") /\ "failed" \in Status
    BY <1>1, StatusType DEF EnqueueCommit
  <2> QED BY <1>2, <1>3, <2>1, RowsWritten DEF Inv
<1>5. PICK u : u = TaskOf("enqueue", t.job, t.stage, t.book, t.action, t.call, t.noted)
  OBVIOUS
<1>6. worker' = [worker EXCEPT ![w] = u]
  BY <1>1, <1>5, GotoIs DEF EnqueueCommit
<1>7. IsTask(u) /\ u.pc = "enqueue" /\ u.job = t.job /\ u.stage = t.stage /\ u.noted = t.noted
  BY <1>5, TaskFields
<1>8. FitsNow(u)
  BY <1>3, <1>7, EnqueueFits DEF Enqueuing
<1> QED BY <1>2, <1>4, <1>6, <1>8, TaskWrites, TaskStays

LEMMA EnqueueCommitFailsInv ==
  ASSUME Inv, NEW w \in Workers, EnqueueCommitFails(w)
  PROVE  Inv'
<1>1. PICK m \in Migrations : m = worker[w].job.migration /\ migrations[m] # None
  BY EnqueuingKnows DEF EnqueueCommitFails, At, Enqueuing
<1>2. UNCHANGED <<rows, actions, queue, retrying, retries, requests, books>>
  BY DEF EnqueueCommitFails, userVars, signerVars
<1>3. SetMigration(m, "failed") /\ "failed" \in Status
  BY <1>1, StatusType DEF EnqueueCommitFails
<1>4. MigrationsInv' /\ RowsInv' /\ GoOnFrom(migrations, migrations')
  BY <1>1, <1>2, <1>3, MigrationWritten DEF Inv
<1> QED BY <1>2, <1>4, StopInv DEF EnqueueCommitFails

\* The rows that are left to enqueue are rows of the migration still.
LEMMA GoOnIs ==
  ASSUME Inv, NEW w \in Workers, worker[w].pc = "enqueue", NEW a, GoOn(w, a)
  PROVE  \E t : FitsNow(t) /\ worker' = [worker EXCEPT ![w] = t]
<1>1. PICK t : t = worker[w]
  OBVIOUS
<1>2. /\ t.job \in Enqueuers /\ migrations[t.job.migration] # None
      /\ t.noted \in SUBSET RowsOf(t.job.migration)
      /\ t.stage \in Stages \cup {None} /\ IsTask(t) /\ w \in DOMAIN worker
  BY <1>1, EnqueuingKnows DEF Enqueuing, Inv, WorkersInv
<1>3. PICK n : n = t.noted \ {a}
  OBVIOUS
<1>4. CASE n = {}
  BY <1>1, <1>3, <1>4, IdleFits DEF GoOn, Stop
<1>5. CASE n # {}
  <2>1. worker' = [worker EXCEPT ![w] = [t EXCEPT !.noted = n]]
    BY <1>1, <1>2, <1>3, <1>5 DEF GoOn
  <2>2. PICK u : u = TaskOf(t.pc, t.job, t.stage, t.book, t.action, t.call, n)
    OBVIOUS
  <2>3. IsTask(u) /\ u.pc = t.pc /\ u.job = t.job /\ u.stage = t.stage /\ u.noted = n
    BY <2>2, TaskFields
  <2>4. worker' = [worker EXCEPT ![w] = u]
    BY <1>2, <2>1, <2>2, SetNoted
  <2>5. FitsNow(u)
    BY <1>1, <1>2, <1>3, <2>3, EnqueueFits DEF Enqueuing
  <2> QED BY <2>4, <2>5
<1> QED BY <1>4, <1>5

LEMMA EnqueueNextInv ==
  ASSUME Inv, NEW w \in Workers, EnqueueNext(w)
  PROVE  Inv'
<1>1. PICK a \in worker[w].noted : Enqueued(a) /\ GoOn(w, a)
  BY DEF EnqueueNext
<1>2. UNCHANGED <<migrations, rows, actions, retrying, retries, requests, books>>
  BY DEF EnqueueNext, tables, userVars, signerVars
<1>3. worker[w].pc = "enqueue"
  BY DEF EnqueueNext, At
<1>4. a \in Jobs /\ migrations[a.migration] # None
  BY <1>1, <1>3, EnqueuingKnows, RowType DEF Enqueuing, Jobs
<1>5. QueueInv'
  BY <1>1, <1>2, <1>4, QueueAppend, TaskStays DEF EnqueuedOrNot, Inv
<1>6. PICK t : FitsNow(t) /\ worker' = [worker EXCEPT ![w] = t]
  BY <1>1, <1>3, GoOnIs
<1> QED BY <1>2, <1>5, <1>6, TaskWrites, TaskStays

LEMMA EnqueueNextFailsInv ==
  ASSUME Inv, NEW w \in Workers, EnqueueNextFails(w)
  PROVE  Inv'
<1>1. UNCHANGED <<migrations, rows, actions, queue, retrying, retries, requests, books>>
  BY DEF EnqueueNextFails, tables, userVars, signerVars
<1>2. worker[w].pc = "enqueue"
  BY DEF EnqueueNextFails, At
<1>3. PICK a \in worker[w].noted : Stop(w) \/ GoOn(w, a)
  BY DEF EnqueueNextFails
<1>4. CASE Stop(w)
  BY <1>1, <1>4, StopsInv
<1>5. CASE GoOn(w, a)
  <2>1. PICK t : FitsNow(t) /\ worker' = [worker EXCEPT ![w] = t]
    BY <1>2, <1>5, GoOnIs
  <2> QED BY <1>1, <2>1, TaskGoes
<1> QED BY <1>3, <1>4, <1>5

-----------------------------------------------------------------------------
(* Tasks that migrate.                                                     *)

LEMMA MigrateInv ==
  ASSUME Inv, NEW w \in Workers, NEW a \in Assets, Migrate(w, a), QueueInv', UsersInv'
  PROVE  Inv'
<1>1. UNCHANGED <<migrations, actions, requests, books>>
  BY DEF Migrate, signerVars
<1>2. MigrationsInv' /\ RowsInv'
  <2>1. SetRows({a}, "in_progress") /\ "in_progress" \in Status
    BY StatusType DEF Migrate
  <2> QED BY <1>1, <2>1, StatusType, RowsWritten DEF Inv
<1>3. CASE UNCHANGED worker
  BY <1>1, <1>2, <1>3, TaskStays, WorkersStay DEF Inv
<1>4. CASE /\ rows[a] # None
           /\ worker' = [worker EXCEPT ![w] =
                [Idle EXCEPT !.pc = "find", !.job = a, !.stage = "newClass"]]
  <2>1. PICK u : u = TaskOf("find", a, "newClass", None, None, None, {})
    OBVIOUS
  <2>2. worker' = [worker EXCEPT ![w] = u]
    <3>1. [Idle EXCEPT !.pc = "find", !.job = a, !.stage = "newClass"] = u
      BY <2>1, SetMigrating
    <3> QED BY <1>4, <3>1
  <2>3. IsTask(u) /\ u.pc = "find" /\ u.job = a /\ u.stage = "newClass"
    BY <2>1, TaskFields
  <2>4. a.migration \in Migrations /\ migrations[a.migration] # None
    BY <1>4, AssetType DEF Inv, RowsInv
  <2>5. FitsNow(u)
    BY <2>3, <2>4
       DEF FitsNow, Fits, PCs, Enqueuing, Migrating, Acting, StageFits, Stages
  <2> QED BY <1>1, <1>2, <2>2, <2>5, TaskWrites, TaskStays
<1> QED BY <1>3, <1>4 DEF Migrate

LEMMA MigrateBeginInv ==
  ASSUME Inv, NEW w \in Workers, NEW a \in Assets, MigrateBegin(w, a)
  PROVE  Inv'
<1>1. UNCHANGED <<migrations, retrying, retries>>
  BY DEF MigrateBegin, Migrate
<1>2. QueueInv'
  BY <1>1, QueueTake DEF MigrateBegin, Inv
<1>3. UsersInv'
  BY <1>1, TaskStays
<1> QED BY <1>2, <1>3, MigrateInv DEF MigrateBegin

LEMMA MigrateAtCliInv ==
  ASSUME Inv, NEW w \in Workers, NEW a \in Assets, MigrateAtCli(w, a)
  PROVE  Inv'
<1>1. UNCHANGED <<migrations, retrying, queue>> /\ retries < MaxRetries /\ retries' = retries + 1
  BY DEF MigrateAtCli, Migrate
<1>2. QueueInv'
  BY <1>1, TaskStays
<1>3. UsersInv'
  <2>1. /\ retries \in 0 .. MaxRetries /\ MaxRetries \in Nat
        /\ retrying \in [Migrations -> Nat]
        /\ \A m \in Migrations : retrying[m] <= retries /\ (retrying[m] > 0 => migrations[m] # None)
    BY LikeNFTAssumption DEF Inv, UsersInv
  <2>2. retries' \in 0 .. MaxRetries
    BY <1>1, <2>1
  <2>3. \A m \in Migrations : retrying[m] <= retries'
    BY <1>1, <2>1
  <2> QED BY <1>1, <2>1, <2>2, <2>3 DEF UsersInv
<1> QED BY <1>2, <1>3, MigrateInv DEF MigrateAtCli

\* What a migrating task knows.
LEMMA MigratingKnows ==
  ASSUME Inv, NEW w \in Workers, worker[w].pc \in Migrating
  PROVE  LET t == worker[w] IN
         /\ t.job \in Assets /\ StageFits(books, t) /\ t.stage \in Stages
         /\ t.pc \in Acting => ActionFits(books, KeyOf(t), t.action)
         /\ t.pc \in {"post", "poll"} => CallFits(t)
         /\ t.pc = "poll" => t.call \in DOMAIN requests
         /\ t.pc = "record" => t.action.status = "completed"
  BY TaskNow DEF FitsNow, Fits, Enqueuing, Migrating, Acting, StageFits, Stages

LEMMA MigratingFits ==
  ASSUME Inv, NEW t, FitsNow(t), t.pc \in Migrating,
         NEW u, IsTask(u), u.pc \in Migrating, u.job = t.job, u.stage \in Stages,
         StageFits(books, u),
         u.pc \in Acting => ActionFits(books, KeyOf(u), u.action),
         u.pc \in {"post", "poll"} => CallFits(u),
         u.pc = "record" => u.action.status = "completed",
         NEW cs, u.pc = "poll" => u.call \in cs
  PROVE  Fits(books, cs, migrations, u)
<1>1. /\ t.job \in Assets /\ t.job.migration \in Migrations
      /\ migrations[t.job.migration] # None
  BY DEF FitsNow, Fits, Enqueuing, Migrating, Acting
<1> QED BY <1>1 DEF Fits, PCs, Enqueuing, Migrating, Acting, Recalculating

LEMMA KeyIs ==
  ASSUME NEW t
  PROVE  /\ t.stage = "newClass" =>
                KeyOf(t).stage = "newClass" /\ KeyOf(t).class = t.job.class
         /\ t.stage = "mintNFT" =>
                /\ KeyOf(t).stage = "mintNFT"
                /\ KeyOf(t).book = t.book /\ KeyOf(t).nft = t.job.nft
         /\ t.stage = "transferClass" =>
                /\ KeyOf(t).stage = "transferClass"
                /\ KeyOf(t).book = t.book /\ KeyOf(t).owner = t.job.migration
  BY DEF KeyOf

LEMMA KeySame ==
  ASSUME NEW t, NEW u, u.stage = t.stage, u.book = t.book, u.job = t.job
  PROVE  KeyOf(u) = KeyOf(t)
  BY DEF KeyOf

LEMMA KeyOfWorker ==
  ASSUME NEW w
  PROVE  Key(w) = KeyOf(worker[w])
  BY DEF Key, KeyOf

\* A task's own action fits, and so does any that is not completed.
LEMMA NewActionFits ==
  ASSUME NEW bs, NEW t, t.job \in Assets, StageFits(bs, t)
  PROVE  ActionFits(bs, KeyOf(t), [status |-> "init", book |-> None, owner |-> t.job.migration])
<1> DEFINE action == [status |-> "init", book |-> None, owner |-> t.job.migration]
<1>1. action \in Action /\ action.status # "completed" /\ action.owner = t.job.migration
  BY AssetType, StatusType DEF Action
<1> HIDE DEF action
<1>2. ActionFits(bs, KeyOf(t), action)
  <2>1. CASE t.stage = "newClass"
    BY <1>1, <2>1, KeyIs DEF ActionFits, Stages
  <2>2. CASE t.stage = "mintNFT"
    <3>1. t.book \in DOMAIN bs /\ bs[t.book].symbol = t.job.class /\ t.job.nft # None
      BY <2>2 DEF StageFits
    <3>2. IsNFT(t.job, bs[t.book].symbol, t.job.nft, action.owner)
      BY <1>1, <3>1, AssetType DEF IsNFT
    <3> QED BY <1>1, <2>2, <3>1, <3>2, KeyIs DEF ActionFits, Stages
  <2>3. CASE t.stage = "transferClass"
    <3>1. t.book \in DOMAIN bs
      BY <2>3 DEF StageFits
    <3> QED BY <1>1, <2>3, <3>1, KeyIs, AssetType DEF ActionFits, Stages
  <2> QED BY <2>1, <2>2, <2>3 DEF StageFits
<1> QED BY <1>2 DEF action

LEMMA UnfinishedFits ==
  ASSUME NEW bs, NEW k, NEW action, ActionFits(bs, k, action),
         NEW s \in Status, s # "completed"
  PROVE  LET new == [action EXCEPT !.status = s] IN
         ActionFits(bs, k, new) /\ new.owner = action.owner /\ new.book = action.book
<1> DEFINE new == [action EXCEPT !.status = s]
<1>1. action \in Action
  BY DEF ActionFits
<1>2. /\ new \in Action /\ new.status = s
      /\ new.owner = action.owner /\ new.book = action.book
  BY <1>1 DEF Action
<1> HIDE DEF new
<1>3. ActionFits(bs, k, new)
  BY <1>2 DEF ActionFits
<1> QED BY <1>2, <1>3 DEF new

LEMMA FindInv ==
  ASSUME Inv, NEW w \in Workers, Find(w)
  PROVE  Inv'
<1>1. PICK t : t = worker[w]
  OBVIOUS
<1>2. PICK k : k = KeyOf(t)
  OBVIOUS
<1>3. PICK p, a : /\ p = IF k \in DOMAIN actions THEN "start" ELSE "insert"
                  /\ a = IF k \in DOMAIN actions THEN actions[k] ELSE None
  OBVIOUS
<1>4. t.pc = "find" /\ t.pc \in Migrating
  BY <1>1 DEF Find, At, Migrating
<1>5. FitsNow(t) /\ IsTask(t) /\ t.job \in Assets /\ StageFits(books, t) /\ t.stage \in Stages
  BY <1>1, <1>4, TaskNow, MigratingKnows
<1>6. PICK u : u = TaskOf(p, t.job, t.stage, t.book, a, t.call, t.noted)
  OBVIOUS
<1>7. worker' = [worker EXCEPT ![w] = u]
  <2>1. worker' = [worker EXCEPT ![w] = [t EXCEPT !.pc = p, !.action = a]]
    <3>1. Key(w) = k /\ w \in DOMAIN worker
      BY <1>1, <1>2, KeyOfWorker DEF Inv, WorkersInv
    <3>2. worker' = [worker EXCEPT ![w].pc = p, ![w].action = a]
      BY <1>3, <3>1 DEF Find
    <3> QED BY <1>1, <3>1, <3>2
  <2>2. [t EXCEPT !.pc = p, !.action = a] = u
    BY <1>5, <1>6, SetPcAction
  <2> QED BY <2>1, <2>2
<1>8. /\ IsTask(u) /\ u.pc = p /\ u.job = t.job /\ u.stage = t.stage
      /\ u.book = t.book /\ u.action = a
  BY <1>6, TaskFields
<1>9. KeyOf(u) = k
  BY <1>2, <1>8, KeySame
<1>10. StageFits(books, u)
  BY <1>5, <1>8 DEF StageFits
<1>11. u.pc \in Acting => ActionFits(books, KeyOf(u), u.action)
  BY <1>3, <1>8, <1>9 DEF Acting, Inv, ActionsInv
<1>12. FitsNow(u)
  BY <1>3, <1>4, <1>5, <1>8, <1>10, <1>11, MigratingFits DEF FitsNow, Migrating, Acting
<1> QED BY <1>7, <1>12, TaskGoes DEF Find, tables, userVars, signerVars
LEMMA InsertInv ==
  ASSUME Inv, NEW w \in Workers, Insert(w)
  PROVE  Inv'
<1>1. PICK t : t = worker[w]
  OBVIOUS
<1>2. PICK k : k = KeyOf(t)
  OBVIOUS
<1>3. t.pc = "insert" /\ t.pc \in Migrating
  BY <1>1 DEF Insert, At, Migrating
<1>4. /\ FitsNow(t) /\ IsTask(t) /\ t.job \in Assets /\ StageFits(books, t) /\ t.stage \in Stages
      /\ w \in DOMAIN worker /\ Key(w) = k
  BY <1>1, <1>2, <1>3, TaskNow, MigratingKnows, KeyOfWorker DEF Inv, WorkersInv
<1>5. UNCHANGED <<migrations, rows, queue, retrying, retries, requests, books>>
  BY DEF Insert, userVars, signerVars
<1>6. CASE Goto(w, "failed") /\ UNCHANGED actions
  BY <1>1, <1>3, <1>5, <1>6, FailInv DEF Enqueuing
<1>7. ASSUME NEW a, a = [status |-> "init", book |-> None, owner |-> t.job.migration],
             actions' = With(actions, k, a),
             worker' = [worker EXCEPT ![w].pc = "start", ![w].action = a]
      PROVE  Inv'
  <2>1. ActionFits(books, k, a)
    BY <1>2, <1>4, <1>7, NewActionFits
  <2>2. PICK u : u = TaskOf("start", t.job, t.stage, t.book, a, t.call, t.noted)
    OBVIOUS
  <2>3. worker' = [worker EXCEPT ![w] = u]
    <3>1. worker' = [worker EXCEPT ![w] = [t EXCEPT !.pc = "start", !.action = a]]
      BY <1>1, <1>4, <1>7
    <3>2. [t EXCEPT !.pc = "start", !.action = a] = u
      BY <1>4, <2>2, SetPcAction
    <3> QED BY <3>1, <3>2
  <2>4. /\ IsTask(u) /\ u.pc = "start" /\ u.job = t.job /\ u.stage = t.stage
        /\ u.book = t.book /\ u.action = a
    BY <2>2, TaskFields
  <2>5. KeyOf(u) = k /\ StageFits(books, u)
    BY <1>2, <1>4, <2>4, KeySame DEF StageFits
  <2>6. FitsNow(u)
    BY <1>3, <1>4, <2>1, <2>4, <2>5, MigratingFits DEF FitsNow, Migrating, Acting
  <2>7. ActionsInv'
    BY <1>5, <1>7, <2>1, ActionsSave DEF Inv
  <2> QED BY <1>5, <2>3, <2>6, <2>7, TaskWrites, TaskStays
<1> QED BY <1>1, <1>4, <1>6, <1>7 DEF Insert

\* A completed action of the row's other stage: the row is done.
LEMMA CompletedSent ==
  ASSUME NEW bs, NEW t, t.job \in Assets, StageFits(bs, t), t.stage # "newClass",
         NEW action, ActionFits(bs, KeyOf(t), action), action.status = "completed"
  PROVE  Sent(bs, t.job)
<1>1. t.book \in DOMAIN bs /\ bs[t.book].symbol = t.job.class
  BY DEF StageFits
<1>2. PICK k : k = KeyOf(t)
  OBVIOUS
<1>3. CASE t.stage = "mintNFT"
  <2>1. k.stage = "mintNFT" /\ k.book = t.book /\ k.nft = t.job.nft /\ t.job.nft # None
    BY <1>2, <1>3, KeyIs DEF StageFits
  <2>2. PICK a \in Assets : /\ IsNFT(a, bs[t.book].symbol, t.job.nft, action.owner)
                            /\ BroughtIn(bs[t.book], a)
    BY <1>2, <2>1 DEF ActionFits
  <2>3. a.class = t.job.class /\ a.nft = t.job.nft
    BY <1>1, <2>2 DEF IsNFT
  <2>4. Brought(bs, a)
    BY <1>1, <2>2, <2>3 DEF Brought
  <2> QED BY <2>1, <2>3, <2>4 DEF Sent
<1>4. CASE t.stage = "transferClass"
  <2>1. k.stage = "transferClass" /\ k.book = t.book /\ k.owner = t.job.migration /\ t.job.nft = None
    BY <1>2, <1>4, KeyIs DEF StageFits
  <2>2. bs[t.book].owner = t.job.migration
    BY <1>2, <2>1 DEF ActionFits
  <2>3. Brought(bs, t.job)
    BY <1>1, <2>1, <2>2 DEF Brought, BroughtIn
  <2> QED BY <2>3 DEF Sent
<1> QED BY <1>3, <1>4 DEF StageFits

LEMMA NextStageIs ==
  ASSUME Inv, NEW w \in Workers, worker[w].pc \in Migrating,
         NEW action, ActionFits(books, KeyOf(worker[w]), action), action.status = "completed",
         NextStage(w, action)
  PROVE  \E u : FitsNow(u) /\ worker' = [worker EXCEPT ![w] = u]
<1>1. PICK t : t = worker[w]
  OBVIOUS
<1>2. /\ FitsNow(t) /\ IsTask(t) /\ t.job \in Assets /\ StageFits(books, t) /\ t.stage \in Stages
      /\ w \in DOMAIN worker
  BY <1>1, TaskNow, MigratingKnows DEF Inv, WorkersInv
<1>3. CASE t.stage # "newClass"
  <2>1. PICK u : u = TaskOf("completed", t.job, t.stage, t.book, t.action, t.call, t.noted)
    OBVIOUS
  <2>2. worker' = [worker EXCEPT ![w] = u]
    <3>1. [t EXCEPT !.pc = "completed"] = u
      BY <1>2, <2>1, SetPc
    <3> QED BY <1>1, <1>3, <3>1 DEF NextStage
  <2>3. IsTask(u) /\ u.pc = "completed" /\ u.job = t.job /\ u.stage = t.stage
    BY <2>1, TaskFields
  <2>4. Sent(books, u.job)
    BY <1>1, <1>2, <1>3, <2>3, CompletedSent
  <2>5. t.job.migration \in Migrations /\ migrations[t.job.migration] # None
    BY <1>1, <1>2 DEF FitsNow, Fits, Migrating, Acting
  <2>6. FitsNow(u)
    BY <1>2, <2>3, <2>4, <2>5 DEF FitsNow, Fits, PCs, Enqueuing, Migrating, Acting
  <2> QED BY <2>2, <2>6
<1>4. CASE t.stage = "newClass"
  <2>1. PICK s : s = IF t.job.nft = None THEN "transferClass" ELSE "mintNFT"
    OBVIOUS
  <2>2. PICK u : u = TaskOf("find", t.job, s, action.book, None, None, t.noted)
    OBVIOUS
  <2>3. worker' = [worker EXCEPT ![w] = u]
    <3>1. worker' = [worker EXCEPT ![w] =
            [t EXCEPT !.pc = "find", !.book = action.book, !.action = None, !.call = None,
                      !.stage = s]]
      BY <1>1, <1>4, <2>1 DEF NextStage
    <3>2. [t EXCEPT !.pc = "find", !.book = action.book, !.action = None, !.call = None,
                    !.stage = s] = u
      BY <1>2, <2>2, SetStage
    <3> QED BY <3>1, <3>2
  <2>4. IsTask(u) /\ u.pc = "find" /\ u.job = t.job /\ u.stage = s /\ u.book = action.book
    BY <2>2, TaskFields
  <2>5. action.book \in DOMAIN books /\ books[action.book].symbol = t.job.class
    <3>1. PICK k : k = KeyOf(t)
      OBVIOUS
    <3>2. k.stage = "newClass" /\ k.class = t.job.class
      BY <1>4, <3>1, KeyIs
    <3> QED BY <1>1, <3>1, <3>2 DEF ActionFits
  <2>6. StageFits(books, u)
    BY <2>1, <2>4, <2>5 DEF StageFits
  <2>7. FitsNow(u)
    BY <1>1, <1>2, <2>1, <2>4, <2>6, MigratingFits DEF FitsNow, Migrating, Acting, Stages
  <2> QED BY <2>3, <2>7
<1> QED BY <1>3, <1>4

LEMMA SkipInv ==
  ASSUME Inv, NEW w \in Workers, Skip(w)
  PROVE  Inv'
<1>1. UNCHANGED <<migrations, rows, actions, queue, retrying, retries, requests, books>>
  BY DEF Skip, tables, userVars, signerVars
<1>2. worker[w].pc = "start" /\ worker[w].pc \in Migrating /\ worker[w].pc \in Acting
  BY DEF Skip, At, Migrating, Acting
<1>3. ActionFits(books, KeyOf(worker[w]), worker[w].action)
  BY <1>2, MigratingKnows
<1>4. CASE worker[w].action.status = "completed" /\ NextStage(w, worker[w].action)
  <2>1. PICK u : FitsNow(u) /\ worker' = [worker EXCEPT ![w] = u]
    BY <1>2, <1>3, <1>4, NextStageIs
  <2> QED BY <1>1, <2>1, TaskGoes
<1>5. CASE Goto(w, "failed")
  BY <1>1, <1>2, <1>5, FailInv DEF Enqueuing
<1> QED BY <1>4, <1>5 DEF Skip

LEMMA StartClassInv ==
  ASSUME Inv, NEW w \in Workers, StartClass(w)
  PROVE  Inv'
<1>1. PICK t : t = worker[w]
  OBVIOUS
<1>2. PICK k : k = KeyOf(t)
  OBVIOUS
<1>3. t.pc \in Migrating /\ t.pc \in Acting /\ t.stage # "mintNFT"
  BY <1>1 DEF StartClass, Starts, At, Migrating, Acting
<1>4. /\ FitsNow(t) /\ IsTask(t) /\ t.job \in Assets /\ StageFits(books, t) /\ t.stage \in Stages
      /\ w \in DOMAIN worker /\ Key(w) = k /\ ActionFits(books, k, t.action)
  BY <1>1, <1>2, <1>3, TaskNow, MigratingKnows, KeyOfWorker DEF Inv, WorkersInv
<1>5. UNCHANGED <<migrations, rows, queue, retrying, retries, requests, books>>
  BY DEF StartClass, userVars, signerVars
<1>6. PICK a : a = [t.action EXCEPT !.status = "in_progress"]
  OBVIOUS
<1>7. ActionFits(books, k, a) /\ a.owner = t.action.owner
  BY <1>4, <1>6, UnfinishedFits, StatusType
<1>8. PICK c : c = IF t.stage = "newClass" THEN NewBookCall(t.job.class)
                   ELSE OwnershipCall(t.book, t.action.owner)
  OBVIOUS
<1>9. PICK u : u = TaskOf("post", t.job, t.stage, t.book, a, c, t.noted)
  OBVIOUS
<1>10. worker' = [worker EXCEPT ![w] = u] /\ actions' = With(actions, k, a)
  <2>1. /\ worker' = [worker EXCEPT ![w] = [t EXCEPT !.pc = "post", !.action = a, !.call = c]]
        /\ actions' = With(actions, k, a)
    BY <1>1, <1>4, <1>6, <1>8 DEF StartClass
  <2>2. [t EXCEPT !.pc = "post", !.action = a, !.call = c] = u
    BY <1>4, <1>9, SetPcActionCall
  <2> QED BY <2>1, <2>2
<1>11. /\ IsTask(u) /\ u.pc = "post" /\ u.job = t.job /\ u.stage = t.stage
       /\ u.book = t.book /\ u.action = a /\ u.call = c
  BY <1>9, TaskFields
<1>12. KeyOf(u) = k /\ StageFits(books, u)
  BY <1>2, <1>4, <1>11, KeySame DEF StageFits
<1>13. CallFits(u)
  <2>1. CASE t.stage = "newClass"
    BY <1>8, <1>11, <2>1 DEF CallFits
  <2>2. CASE t.stage = "transferClass"
    <3>1. k.stage = "transferClass" /\ k.owner = t.job.migration
      BY <1>2, <2>2, KeyIs
    <3>2. t.action.owner = t.job.migration
      BY <1>4, <3>1 DEF ActionFits
    <3> QED BY <1>8, <1>11, <2>2, <3>2 DEF CallFits
  <2> QED BY <1>3, <1>4, <2>1, <2>2 DEF Stages
<1>14. FitsNow(u)
  BY <1>3, <1>4, <1>7, <1>11, <1>12, <1>13, MigratingFits DEF FitsNow, Migrating, Acting
<1>15. ActionsInv'
  BY <1>5, <1>7, <1>10, ActionsSave DEF Inv
<1> QED BY <1>5, <1>10, <1>14, <1>15, TaskWrites, TaskStays

\* The first call for an NFT prepares its token, or brings it to its owner.
LEMMA FirstMintCallFits ==
  ASSUME BooksInv, NEW b \in DOMAIN books, NEW a \in Assets, a.nft # None
  PROVE  LET call == FirstMintCall(a.class, b, a.nft, a.migration) IN
         Brings(a, b, call) \/ Prepares(a, b, call)
<1>1. PICK c, n, to, ts : /\ c = a.class /\ n = a.nft /\ to = a.migration
                          /\ ts = BookContract!TotalSupply(books[b])
  OBVIOUS
<1>2. ts \in Nat
  BY <1>1, SoundFields DEF BooksInv, Good, BookContract!TotalSupply
<1>3. n \in Nat \/ n \in Plain
  BY <1>1, AssetType DEF Numbers
<1>4. CASE n \in Plain
  <2>1. FirstMintCall(c, b, n, to) = MintCall(b, ts, [i \in 1 .. 1 |-> to], [i \in 1 .. 1 |-> n])
    BY <1>1, <1>4 DEF FirstMintCall
  <2> QED BY <1>1, <1>2, <1>4, <2>1 DEF Brings, PlainCall
<1>5. CASE n \in Nat /\ ts > n
  <2>1. n \notin Plain
    BY <1>5, LikeNFTAssumption
  <2>2. FirstMintCall(c, b, n, to) = TransferCall(b, to, n)
    BY <1>1, <1>5, <2>1 DEF FirstMintCall, GetDesireBatchMintAmount
  <2> QED BY <1>1, <1>5, <2>2 DEF Brings
<1>6. CASE n \in Nat /\ ~(ts > n)
  <2>1. n \notin Plain
    BY <1>6, LikeNFTAssumption
  <2>2. PICK m \in Nat \ {0} : m = n + 1 - ts
    BY <1>2, <1>6
  <2>3. GetDesireBatchMintAmount(ts, n) = m
    BY <1>6, <2>2 DEF GetDesireBatchMintAmount
  <2>4. FirstMintCall(c, b, n, to) =
            MintCall(b, ts, [i \in 1 .. m |-> Operator], [i \in 1 .. m |-> TextOf(c, ts + i - 1)])
    BY <1>1, <2>1, <2>2, <2>3 DEF FirstMintCall
  <2> QED BY <1>1, <1>2, <1>6, <2>2, <2>4 DEF Prepares, BatchCall
<1> QED BY <1>3, <1>4, <1>5, <1>6

LEMMA StartMintInv ==
  ASSUME Inv, NEW w \in Workers, StartMint(w)
  PROVE  Inv'
<1>1. PICK t : t = worker[w]
  OBVIOUS
<1>2. PICK k : k = KeyOf(t)
  OBVIOUS
<1>3. t.pc \in Migrating /\ t.pc \in Acting /\ t.stage = "mintNFT"
  BY <1>1 DEF StartMint, Starts, At, Migrating, Acting
<1>4. /\ FitsNow(t) /\ IsTask(t) /\ t.job \in Assets /\ StageFits(books, t) /\ t.stage \in Stages
      /\ w \in DOMAIN worker /\ ActionFits(books, k, t.action)
  BY <1>1, <1>2, <1>3, TaskNow, MigratingKnows DEF Inv, WorkersInv
<1>5. UNCHANGED <<migrations, rows, actions, queue, retrying, retries, requests, books>>
  BY DEF StartMint, tables, userVars, signerVars
<1>6. PICK c : c = FirstMintCall(t.job.class, t.book, t.job.nft, t.action.owner)
  OBVIOUS
<1>7. \/ worker' = [worker EXCEPT ![w] = [t EXCEPT !.pc = "post", !.call = c]]
      \/ worker' = [worker EXCEPT ![w] = [t EXCEPT !.pc = "failing"]]
  BY <1>1, <1>6 DEF StartMint
<1>8. CASE worker' = [worker EXCEPT ![w] = [t EXCEPT !.pc = "post", !.call = c]]
  <2>1. PICK u : u = TaskOf("post", t.job, t.stage, t.book, t.action, c, t.noted)
    OBVIOUS
  <2>2. worker' = [worker EXCEPT ![w] = u]
    <3>1. [t EXCEPT !.pc = "post", !.call = c] = u
      BY <1>4, <2>1, SetPcCall
    <3> QED BY <1>8, <3>1
  <2>3. /\ IsTask(u) /\ u.pc = "post" /\ u.job = t.job /\ u.stage = t.stage
        /\ u.book = t.book /\ u.action = t.action /\ u.call = c
    BY <2>1, TaskFields
  <2>4. KeyOf(u) = k /\ StageFits(books, u)
    BY <1>2, <1>4, <2>3, KeySame DEF StageFits
  <2>5. CallFits(u)
    <3>1. /\ t.book \in DOMAIN books /\ books[t.book].symbol = t.job.class /\ t.job.nft # None
          /\ k.stage = "mintNFT" /\ k.book = t.book /\ k.nft = t.job.nft
      BY <1>2, <1>3, <1>4, KeyIs DEF StageFits
    <3>2. PICK a \in Assets : IsNFT(a, t.job.class, t.job.nft, t.action.owner)
      BY <1>4, <3>1 DEF ActionFits
    <3>3. a.class = t.job.class /\ a.nft = t.job.nft /\ a.migration = t.action.owner
      BY <3>2, NFTType DEF IsNFT
    <3>4. Brings(a, t.book, c) \/ Prepares(a, t.book, c)
      BY <1>6, <3>1, <3>3, FirstMintCallFits DEF Inv
    <3> QED BY <1>3, <2>3, <3>2, <3>4 DEF CallFits
  <2>6. FitsNow(u)
    BY <1>3, <1>4, <2>3, <2>4, <2>5, MigratingFits DEF FitsNow, Migrating, Acting
  <2> QED BY <1>5, <2>2, <2>6, TaskGoes
<1>9. CASE worker' = [worker EXCEPT ![w] = [t EXCEPT !.pc = "failing"]]
  <2>1. PICK u : u = TaskOf("failing", t.job, t.stage, t.book, t.action, t.call, t.noted)
    OBVIOUS
  <2>2. worker' = [worker EXCEPT ![w] = u]
    <3>1. [t EXCEPT !.pc = "failing"] = u
      BY <1>4, <2>1, SetPc
    <3> QED BY <1>9, <3>1
  <2>3. /\ IsTask(u) /\ u.pc = "failing" /\ u.job = t.job /\ u.stage = t.stage
        /\ u.book = t.book /\ u.action = t.action
    BY <2>1, TaskFields
  <2>4. KeyOf(u) = k /\ StageFits(books, u)
    BY <1>2, <1>4, <2>3, KeySame DEF StageFits
  <2>5. FitsNow(u)
    BY <1>3, <1>4, <2>3, <2>4, MigratingFits DEF FitsNow, Migrating, Acting
  <2> QED BY <1>5, <2>2, <2>5, TaskGoes
<1> QED BY <1>7, <1>8, <1>9

\* What a task posts is a call the signer knows how to make.
LEMMA CallIsValid ==
  ASSUME NEW t, t.job \in Assets, StageFits(books, t), t.stage \in Stages, CallFits(t)
  PROVE  ValidCall(books, t.call)
<1>1. CASE t.stage = "newClass"
  BY <1>1, AssetType DEF CallFits, ValidCall
<1>2. CASE t.stage = "transferClass"
  BY <1>2, AssetType DEF CallFits, StageFits, ValidCall
<1>3. CASE t.stage = "mintNFT"
  <2>1. PICK a \in Assets : /\ IsNFT(a, t.job.class, t.job.nft, t.action.owner)
                            /\ Brings(a, t.book, t.call) \/ Prepares(a, t.book, t.call)
    BY <1>3 DEF CallFits
  <2>2. t.book \in DOMAIN books /\ a.class = books[t.book].symbol
    BY <1>3, <2>1 DEF StageFits, IsNFT
  <2> QED BY <2>1, <2>2 DEF ValidCall
<1> QED BY <1>1, <1>2, <1>3 DEF Stages

LEMMA PostInv ==
  ASSUME Inv, NEW w \in Workers, Post(w)
  PROVE  Inv'
<1>1. PICK t : t = worker[w]
  OBVIOUS
<1>2. t.pc = "post" /\ t.pc \in Migrating /\ t.pc \in Acting
  BY <1>1 DEF Post, At, Migrating, Acting
<1>3. /\ FitsNow(t) /\ IsTask(t) /\ t.job \in Assets /\ StageFits(books, t) /\ t.stage \in Stages
      /\ ActionFits(books, KeyOf(t), t.action) /\ CallFits(t)
  BY <1>1, <1>2, TaskNow, MigratingKnows
<1>4. UNCHANGED <<migrations, rows, actions, queue, retrying, retries, books>>
  BY DEF Post, tables, userVars
<1>5. /\ RequestsInv' /\ DOMAIN requests \subseteq DOMAIN requests'
      /\ t.call \in DOMAIN requests'
  <2>1. CASE UNCHANGED requests /\ t.call \in DOMAIN requests
    BY <1>4, <2>1, TaskStays
  <2>2. CASE Answer(t.call, "pending", None)
    <3>1. AnswerFits(books', t.call, [status |-> "pending", book |-> None])
      BY <1>3, <1>4, CallIsValid DEF AnswerFits
    <3> QED BY <1>4, <2>2, <3>1, RequestsSave, TaskStays DEF Inv
  <2> QED BY <1>1, <2>1, <2>2 DEF Post
<1>6. PICK u : u = TaskOf("poll", t.job, t.stage, t.book, t.action, t.call, t.noted)
  OBVIOUS
<1>7. worker' = [worker EXCEPT ![w] = u]
  BY <1>1, <1>6, GotoIs DEF Post
<1>8. /\ IsTask(u) /\ u.pc = "poll" /\ u.job = t.job /\ u.stage = t.stage
      /\ u.book = t.book /\ u.action = t.action /\ u.call = t.call
  BY <1>6, TaskFields
<1>9. KeyOf(u) = KeyOf(t) /\ StageFits(books, u) /\ CallFits(u)
  BY <1>3, <1>8, KeySame DEF StageFits, CallFits
<1>10. PICK cs : cs = DOMAIN requests'
  OBVIOUS
<1>11. Fits(books, cs, migrations, u)
  BY <1>2, <1>3, <1>5, <1>8, <1>9, <1>10, MigratingFits DEF Migrating, Acting
<1>12. Fits(books', DOMAIN requests', migrations', u)
  BY <1>4, <1>10, <1>11
<1>13. WorkersInv'
  BY <1>4, <1>5, <1>7, <1>12, WorkersMove, SameIsGrown DEF Inv
<1> QED BY <1>4, <1>5, <1>13, TaskStays DEF Inv

\* A call that brings something about has been mined: so it is.
LEMMA BringsBroughtIn ==
  ASSUME NEW bs, NEW b \in DOMAIN bs, NEW a \in Assets, a.nft # None,
         NEW call, Brings(a, b, call), NEW book, Done(bs, call, book)
  PROVE  BroughtIn(bs[b], a)
<1>1. CASE a.nft \in Nat /\ call = TransferCall(b, a.migration, a.nft)
  <2>1. /\ call.method = "transferFrom" /\ call.book = b
        /\ call.to = a.migration /\ call.id = a.nft
    BY <1>1 DEF TransferCall
  <2>2. a.nft \in DOMAIN bs[b].holder /\ bs[b].holder[a.nft] = a.migration
    BY <2>1 DEF Done
  <2> QED BY <2>2 DEF BroughtIn
<1>2. ASSUME NEW from \in Nat, call = PlainCall(a, b, from)
      PROVE  BroughtIn(bs[b], a)
  <2>1. /\ call.method = "safeMintWithTokenId" /\ call.book = b
        /\ call.tos = [i \in 1 .. 1 |-> a.migration] /\ call.texts = [i \in 1 .. 1 |-> a.nft]
    BY <1>2 DEF PlainCall, MintCall
  <2>2. call.tos[1] = a.migration /\ call.texts[1] = a.nft
    BY <2>1
  <2>3. a.migration # Operator
    BY AssetType
  <2>4. PICK i \in DOMAIN bs[b].holder :
            bs[b].holder[i] = a.migration /\ bs[b].uri[i] = a.nft
    BY <2>1, <2>2, <2>3 DEF Done
  <2> QED BY <2>4 DEF BroughtIn
<1> QED BY <1>1, <1>2 DEF Brings

\* The last call of an action has been mined: the action is completed.
LEMMA MinedFits ==
  ASSUME NEW bs, NEW t, t.stage \in Stages, StageFits(bs, t), CallFits(t),
         ActionFits(bs, KeyOf(t), t.action),
         NEW book \in 1 .. MaxBooks \cup {None}, Done(bs, t.call, book),
         ~(t.call.method = "safeMintWithTokenId" /\ t.job.nft \notin Plain),
         NEW action \in Action, action.status = "completed",
         action.book = book, action.owner = t.action.owner
  PROVE  ActionFits(bs, KeyOf(t), action)
<1>1. PICK k : k = KeyOf(t)
  OBVIOUS
<1>2. CASE t.stage = "newClass"
  <2>1. k.stage = "newClass" /\ k.class = t.job.class
    BY <1>1, <1>2, KeyIs
  <2>2. t.call.method = "newBookNFT" /\ t.call.msg.config.symbol = t.job.class
    BY <1>2 DEF CallFits, NewBookCall
  <2>3. book \in DOMAIN bs /\ bs[book].symbol = t.job.class
    BY <2>2 DEF Done
  <2>4. ActionFits(bs, k, action)
    BY <2>1, <2>3 DEF ActionFits, Stages
  <2> QED BY <1>1, <2>4
<1>3. CASE t.stage = "transferClass"
  <2>1. k.stage = "transferClass" /\ k.book = t.book /\ k.owner = t.job.migration
    BY <1>1, <1>3, KeyIs
  <2>2. /\ t.call.method = "transferOwnership"
        /\ t.call.book = t.book /\ t.call.to = t.job.migration
    BY <1>3 DEF CallFits, OwnershipCall
  <2>3. bs[t.book].owner = t.job.migration
    BY <2>2 DEF Done
  <2>4. ActionFits(bs, k, t.action)
    BY <1>1
  <2>5. ActionFits(bs, k, action)
    BY <2>1, <2>3, <2>4 DEF ActionFits, Stages
  <2> QED BY <1>1, <2>5
<1>4. CASE t.stage = "mintNFT"
  <2>1. k.stage = "mintNFT" /\ k.book = t.book /\ k.nft = t.job.nft
    BY <1>1, <1>4, KeyIs
  <2>2. t.book \in DOMAIN bs /\ bs[t.book].symbol = t.job.class /\ t.job.nft # None
    BY <1>4 DEF StageFits
  <2>3. PICK a \in Assets : /\ IsNFT(a, t.job.class, t.job.nft, t.action.owner)
                            /\ Brings(a, t.book, t.call) \/ Prepares(a, t.book, t.call)
    BY <1>4 DEF CallFits
  <2>4. a.nft = t.job.nft
    BY <2>3 DEF IsNFT
  <2>5. ~Prepares(a, t.book, t.call)
    <3>1. ASSUME NEW from \in Nat, NEW n \in Nat, t.call = BatchCall(a.class, t.book, from, n)
          PROVE  t.call.method = "safeMintWithTokenId"
      BY <3>1 DEF BatchCall, MintCall
    <3>2. a.nft \in Nat => t.job.nft \notin Plain
      BY <2>4, LikeNFTAssumption
    <3> QED BY <3>1, <3>2 DEF Prepares
  <2>6. BroughtIn(bs[t.book], a)
    BY <2>2, <2>3, <2>4, <2>5, BringsBroughtIn
  <2>7. ActionFits(bs, k, action)
    BY <2>1, <2>2, <2>3, <2>6 DEF ActionFits, Stages
  <2> QED BY <1>1, <2>7
<1> QED BY <1>2, <1>3, <1>4 DEF Stages

\* After a batch comes the transfer of the token.
LEMMA BatchFits ==
  ASSUME NEW t, t.stage \in Stages, CallFits(t),
         t.call.method = "safeMintWithTokenId", t.job.nft \notin Plain,
         NEW u, u.stage = t.stage, u.job = t.job, u.book = t.book, u.action = t.action,
         u.call = TransferCall(t.book, t.action.owner, t.job.nft)
  PROVE  CallFits(u)
<1>1. t.stage = "mintNFT"
  <2>1. t.stage = "newClass" => t.call.method = "newBookNFT"
    BY DEF CallFits, NewBookCall
  <2>2. t.stage = "transferClass" => t.call.method = "transferOwnership"
    BY DEF CallFits, OwnershipCall
  <2> QED BY <2>1, <2>2 DEF Stages
<1>2. PICK a \in Assets : IsNFT(a, t.job.class, t.job.nft, t.action.owner)
  BY <1>1 DEF CallFits
<1>3. a.nft = t.job.nft /\ a.migration = t.action.owner /\ a.nft \in Numbers
  BY <1>2, NFTType DEF IsNFT
<1>4. a.nft \in Nat
  BY <1>3 DEF Numbers
<1>5. Brings(a, u.book, u.call)
  BY <1>3, <1>4 DEF Brings
<1> QED BY <1>1, <1>2, <1>5 DEF CallFits

LEMMA PollMinedInv ==
  ASSUME Inv, NEW w \in Workers, PollMined(w)
  PROVE  Inv'
<1>1. PICK t : t = worker[w]
  OBVIOUS
<1>2. /\ t.pc = "poll" /\ t.pc \in Migrating /\ t.pc \in Acting
      /\ requests[t.call].status = "mined"
  BY <1>1 DEF PollMined, Answered, At, Migrating, Acting
<1>3. /\ FitsNow(t) /\ IsTask(t) /\ t.job \in Assets /\ StageFits(books, t) /\ t.stage \in Stages
      /\ ActionFits(books, KeyOf(t), t.action) /\ CallFits(t) /\ t.call \in DOMAIN requests
      /\ w \in DOMAIN worker
  BY <1>1, <1>2, TaskNow, MigratingKnows DEF Inv, WorkersInv
<1>4. UNCHANGED <<migrations, rows, actions, queue, retrying, retries, requests, books>>
  BY DEF PollMined, tables, userVars, signerVars
<1>5. PICK b \in 1 .. MaxBooks \cup {None} :
        b = requests[t.call].book /\ Done(books, t.call, b)
  BY <1>2, <1>3 DEF Inv, RequestsInv, AnswerFits
<1>6. CASE t.call.method = "safeMintWithTokenId" /\ t.job.nft \notin Plain
  <2>1. PICK c : c = TransferCall(t.book, t.action.owner, t.job.nft)
    OBVIOUS
  <2>2. PICK u : u = TaskOf("post", t.job, t.stage, t.book, t.action, c, t.noted)
    OBVIOUS
  <2>3. worker' = [worker EXCEPT ![w] = u]
    <3>1. worker' = [worker EXCEPT ![w] = [t EXCEPT !.pc = "post", !.call = c]]
      BY <1>1, <1>6, <2>1 DEF PollMined
    <3>2. [t EXCEPT !.pc = "post", !.call = c] = u
      BY <1>3, <2>2, SetPcCall
    <3> QED BY <3>1, <3>2
  <2>4. /\ IsTask(u) /\ u.pc = "post" /\ u.job = t.job /\ u.stage = t.stage
        /\ u.book = t.book /\ u.action = t.action /\ u.call = c
    BY <2>2, TaskFields
  <2>5. KeyOf(u) = KeyOf(t) /\ StageFits(books, u)
    BY <1>3, <2>4, KeySame DEF StageFits
  <2>6. CallFits(u)
    BY <1>3, <1>6, <2>1, <2>4, BatchFits
  <2>7. FitsNow(u)
    BY <1>2, <1>3, <2>4, <2>5, <2>6, MigratingFits DEF FitsNow, Migrating, Acting
  <2> QED BY <1>4, <2>3, <2>7, TaskGoes
<1>7. CASE ~(t.call.method = "safeMintWithTokenId" /\ t.job.nft \notin Plain)
  <2>1. t.action \in Action /\ "completed" \in Status
    BY <1>3, StatusType DEF ActionFits
  <2>2. PICK a : a = [t.action EXCEPT !.status = "completed", !.book = b]
    OBVIOUS
  <2>3. /\ a \in Action /\ a.status = "completed" /\ a.book = b
        /\ a.owner = t.action.owner
    BY <2>1, <2>2 DEF Action
  <2>4. PICK u : u = TaskOf("record", t.job, t.stage, t.book, a, t.call, t.noted)
    OBVIOUS
  <2>5. worker' = [worker EXCEPT ![w] = u]
    <3>1. worker' = [worker EXCEPT ![w] =
            [t EXCEPT !.pc = "record", !.action.status = "completed",
                      !.action.book = requests[t.call].book]]
      BY <1>1, <1>7 DEF PollMined
    <3>2. [t EXCEPT !.pc = "record", !.action.status = "completed",
                    !.action.book = requests[t.call].book] =
            [t EXCEPT !.pc = "record", !.action = a]
      <4>1. DOMAIN t = Fields
        BY <1>3 DEF IsTask, Fields
      <4> QED BY <1>5, <2>2, <4>1 DEF Fields
    <3>3. [t EXCEPT !.pc = "record", !.action = a] = u
      BY <1>3, <2>4, SetPcAction
    <3> QED BY <3>1, <3>2, <3>3
  <2>6. /\ IsTask(u) /\ u.pc = "record" /\ u.job = t.job /\ u.stage = t.stage
        /\ u.book = t.book /\ u.action = a
    BY <2>4, TaskFields
  <2>7. KeyOf(u) = KeyOf(t) /\ StageFits(books, u)
    BY <1>3, <2>6, KeySame DEF StageFits
  <2>8. ActionFits(books, KeyOf(t), a)
    BY <1>3, <1>5, <1>7, <2>3, MinedFits
  <2>9. FitsNow(u)
    BY <1>2, <1>3, <2>3, <2>6, <2>7, <2>8, MigratingFits DEF FitsNow, Migrating, Acting
  <2> QED BY <1>4, <2>5, <2>9, TaskGoes
<1> QED BY <1>6, <1>7

\* An action that goes wrong is to be recorded as failed.
LEMMA FailingInv ==
  ASSUME Inv, NEW w \in Workers, worker[w].pc \in Acting, Goto(w, "failing"),
         UNCHANGED <<migrations, rows, actions, queue, retrying, retries, requests, books>>
  PROVE  Inv'
<1>1. PICK t : t = worker[w]
  OBVIOUS
<1>2. t.pc \in Migrating /\ t.pc \in Acting
  BY <1>1 DEF Migrating
<1>3. /\ FitsNow(t) /\ IsTask(t) /\ t.job \in Assets /\ StageFits(books, t) /\ t.stage \in Stages
      /\ ActionFits(books, KeyOf(t), t.action)
  BY <1>1, <1>2, TaskNow, MigratingKnows
<1>4. PICK u : u = TaskOf("failing", t.job, t.stage, t.book, t.action, t.call, t.noted)
  OBVIOUS
<1>5. worker' = [worker EXCEPT ![w] = u]
  BY <1>1, <1>4, GotoIs
<1>6. /\ IsTask(u) /\ u.pc = "failing" /\ u.job = t.job /\ u.stage = t.stage
      /\ u.book = t.book /\ u.action = t.action
  BY <1>4, TaskFields
<1>7. KeyOf(u) = KeyOf(t) /\ StageFits(books, u)
  BY <1>3, <1>6, KeySame DEF StageFits
<1>8. FitsNow(u)
  BY <1>2, <1>3, <1>6, <1>7, MigratingFits DEF FitsNow, Migrating, Acting
<1> QED BY <1>5, <1>8, TaskGoes

LEMMA PollFailedInv ==
  ASSUME Inv, NEW w \in Workers, PollFailed(w)
  PROVE  Inv'
<1>1. worker[w].pc \in Acting
  BY DEF PollFailed, Answered, At, Acting
<1> QED BY <1>1, FailingInv DEF PollFailed, tables, userVars, signerVars

LEMMA CallFailsInv ==
  ASSUME Inv, NEW w \in Workers, CallFails(w)
  PROVE  Inv'
<1>1. worker[w].pc \in Acting
  BY DEF CallFails, Starts, At, Acting
<1> QED BY <1>1, FailingInv DEF CallFails, tables, userVars, signerVars

LEMMA RecordInv ==
  ASSUME Inv, NEW w \in Workers, Record(w)
  PROVE  Inv'
<1>1. /\ worker[w].pc = "record" /\ worker[w].pc \in Migrating /\ worker[w].pc \in Acting
  BY DEF Record, At, Migrating, Acting
<1>2. PICK k : k = KeyOf(worker[w])
  OBVIOUS
<1>3. PICK a : a = worker[w].action
  OBVIOUS
<1>4. ActionFits(books, k, a) /\ a.status = "completed" /\ Key(w) = k
  BY <1>1, <1>2, <1>3, MigratingKnows, KeyOfWorker
<1>5. /\ UNCHANGED <<migrations, rows, queue, retrying, retries, requests, books>>
      /\ actions' = With(actions, k, a) /\ NextStage(w, a)
  BY <1>3, <1>4 DEF Record, userVars, signerVars
<1>6. PICK u : FitsNow(u) /\ worker' = [worker EXCEPT ![w] = u]
  BY <1>1, <1>2, <1>4, <1>5, NextStageIs
<1>7. ActionsInv'
  BY <1>4, <1>5, ActionsSave DEF Inv
<1> QED BY <1>5, <1>6, <1>7, TaskWrites, TaskStays

LEMMA RecordFailureInv ==
  ASSUME Inv, NEW w \in Workers, RecordFailure(w)
  PROVE  Inv'
<1>1. PICK t : t = worker[w]
  OBVIOUS
<1>2. PICK k : k = KeyOf(t)
  OBVIOUS
<1>3. t.pc = "failing" /\ t.pc \in Migrating /\ t.pc \in Acting
  BY <1>1 DEF RecordFailure, At, Migrating, Acting
<1>4. FitsNow(t) /\ ActionFits(books, k, t.action) /\ Key(w) = k /\ t.stage \in Stages
  BY <1>1, <1>2, <1>3, TaskNow, MigratingKnows, KeyOfWorker
<1>5. PICK a : a = [t.action EXCEPT !.status = "failed"]
  OBVIOUS
<1>6. ActionFits(books, k, a)
  BY <1>4, <1>5, UnfinishedFits, StatusType
<1>7. /\ UNCHANGED <<migrations, rows, queue, retrying, retries, requests, books>>
      /\ actions' = With(actions, k, a)
  BY <1>1, <1>4, <1>5 DEF RecordFailure, userVars, signerVars
<1>8. ActionsInv'
  BY <1>6, <1>7, ActionsSave DEF Inv
<1>9. PICK u : u = TaskOf("failed", t.job, t.stage, t.book, t.action, t.call, t.noted)
  OBVIOUS
<1>10. worker' = [worker EXCEPT ![w] = u]
  BY <1>1, <1>9, GotoIs DEF RecordFailure
<1>11. IsTask(u) /\ u.pc = "failed" /\ u.job = t.job /\ u.stage = t.stage
  BY <1>9, TaskFields
<1>12. FitsNow(u)
  BY <1>3, <1>4, <1>11, EndFits DEF Enqueuing
<1> QED BY <1>7, <1>8, <1>10, <1>12, TaskWrites, TaskStays

LEMMA SaveRowInv ==
  ASSUME Inv, NEW w \in Workers, SaveRow(w)
  PROVE  Inv'
<1>1. PICK t : t = worker[w]
  OBVIOUS
<1>2. t.pc \in {"completed", "failed"} /\ t.pc \notin Enqueuing \cup {"idle"}
  BY <1>1 DEF SaveRow, At, Enqueuing
<1>3. t.job \in Assets /\ (t.pc = "completed" => Sent(books, t.job))
  BY <1>1, <1>2, TaskNow DEF FitsNow, Fits
<1>4. UNCHANGED <<migrations, actions, queue, retrying, retries, requests, books>>
  BY DEF SaveRow, userVars, signerVars
<1>5. MigrationsInv' /\ RowsInv'
  <2>1. PICK as \in SUBSET Assets, s \in Status : as = {t.job} /\ s = t.pc
    BY <1>2, <1>3, StatusType
  <2>2. SetRows(as, s)
    BY <1>1, <2>1 DEF SaveRow
  <2>3. s = "completed" => \A a \in as : Sent(books, a)
    BY <1>3, <2>1
  <2> QED BY <1>4, <2>2, <2>3, RowsWritten DEF Inv
<1> QED BY <1>1, <1>2, <1>4, <1>5, RecalculateInv DEF SaveRow

-----------------------------------------------------------------------------
(* Recalculation of a migration's status.                                  *)

\* What a task that recalculates knows.
LEMMA RecalculatingKnows ==
  ASSUME Inv, NEW w \in Workers, worker[w].pc \in Recalculating
  PROVE  LET t == worker[w] IN
         /\ t.job \in Assets /\ t.job.migration \in Migrations
         /\ migrations[t.job.migration] # None /\ t.stage \in Stages \cup {None}
         /\ t.pc \in {"nfts", "determine"} => NotedFits(books, migrations, t)
  BY TaskNow DEF FitsNow, Fits, Enqueuing, Recalculating

LEMMA RecalculatingFits ==
  ASSUME NEW t, t.job \in Assets, t.job.migration \in Migrations,
         migrations[t.job.migration] # None,
         NEW u, IsTask(u), u.pc \in {"nfts", "determine"}, u.job = t.job,
         u.stage \in Stages \cup {None}, NotedFits(books, migrations, u)
  PROVE  FitsNow(u)
  BY DEF FitsNow, Fits, PCs, Enqueuing, Migrating, Acting, Recalculating

\* A row of a migration that is not removed is there.
LEMMA RowIsThere ==
  ASSUME Inv, NEW m \in Migrations, migrations[m] \notin {None, "removed"},
         NEW a \in RowsOf(m)
  PROVE  /\ a \in Assets /\ rows[a] # None
         /\ rows[a] = "completed" => Sent(books, a)
  BY RowType DEF Inv, RowsInv

LEMMA ReadClassesInv ==
  ASSUME Inv, NEW w \in Workers, ReadClasses(w)
  PROVE  Inv'
<1>1. PICK t : t = worker[w]
  OBVIOUS
<1>2. PICK m : m = t.job.migration
  OBVIOUS
<1>3. PICK n : n = {rows[a] : a \in RowsOf(m) \ NFTs(m)} \ {None}
  OBVIOUS
<1>4. t.pc = "classes" /\ t.pc \in Recalculating
  BY <1>1 DEF ReadClasses, At, Recalculating
<1>5. /\ t.job \in Assets /\ m \in Migrations /\ migrations[m] # None
      /\ t.stage \in Stages \cup {None} /\ IsTask(t) /\ w \in DOMAIN worker
  BY <1>1, <1>2, <1>4, RecalculatingKnows, TaskNow DEF Inv, WorkersInv
<1>6. UNCHANGED <<migrations, rows, actions, queue, retrying, retries, requests, books>>
  BY DEF ReadClasses, tables, userVars, signerVars
<1>7. CASE migrations[m] = "removed"
  BY <1>1, <1>2, <1>6, <1>7, StopsInv DEF ReadClasses
<1>8. CASE migrations[m] # "removed"
  <2>1. PICK u : u = TaskOf("nfts", t.job, t.stage, t.book, t.action, t.call, n)
    OBVIOUS
  <2>2. worker' = [worker EXCEPT ![w] = u]
    <3>1. worker' = [worker EXCEPT ![w].pc = "nfts", ![w].noted = n]
      BY <1>1, <1>2, <1>3, <1>8 DEF ReadClasses
    <3>2. worker' = [worker EXCEPT ![w] = [t EXCEPT !.pc = "nfts", !.noted = n]]
      BY <1>1, <1>5, <3>1
    <3>3. [t EXCEPT !.pc = "nfts", !.noted = n] = u
      BY <1>5, <2>1, SetPcNoted
    <3> QED BY <3>2, <3>3
  <2>3. IsTask(u) /\ u.pc = "nfts" /\ u.job = t.job /\ u.stage = t.stage /\ u.noted = n
    BY <2>1, TaskFields
  <2>4. n \subseteq Status
    BY <1>3, RowType DEF Inv, RowsInv
  <2>5. ASSUME n \subseteq {"completed"}, NEW a \in Known(u) PROVE Sent(books, a)
    <3>1. a \in RowsOf(m) \ NFTs(m)
      BY <1>2, <2>3, <2>5 DEF Known, NFTs
    <3>2. rows[a] # None /\ (rows[a] = "completed" => Sent(books, a))
      BY <1>5, <1>8, <3>1, RowIsThere
    <3>3. rows[a] \in n
      BY <1>3, <3>1, <3>2
    <3> QED BY <2>5, <3>2, <3>3
  <2>6. NotedFits(books, migrations, u)
    BY <2>3, <2>4, <2>5 DEF NotedFits
  <2>7. FitsNow(u)
    BY <1>2, <1>5, <2>3, <2>6, RecalculatingFits
  <2> QED BY <1>6, <2>2, <2>7, TaskGoes
<1> QED BY <1>7, <1>8

LEMMA ReadNFTsInv ==
  ASSUME Inv, NEW w \in Workers, ReadNFTs(w)
  PROVE  Inv'
<1>1. PICK t : t = worker[w]
  OBVIOUS
<1>2. PICK m : m = t.job.migration
  OBVIOUS
<1>3. PICK n : n = (t.noted \cup {rows[a] : a \in NFTs(m)}) \ {None}
  OBVIOUS
<1>4. t.pc = "nfts" /\ t.pc \in Recalculating
  BY <1>1 DEF ReadNFTs, At, Recalculating
<1>5. /\ t.job \in Assets /\ m \in Migrations /\ migrations[m] # None
      /\ t.stage \in Stages \cup {None} /\ IsTask(t) /\ w \in DOMAIN worker
      /\ NotedFits(books, migrations, t)
  BY <1>1, <1>2, <1>4, RecalculatingKnows, TaskNow DEF Inv, WorkersInv
<1>6. UNCHANGED <<migrations, rows, actions, queue, retrying, retries, requests, books>>
  BY DEF ReadNFTs, tables, userVars, signerVars
<1>7. PICK u : u = TaskOf("determine", t.job, t.stage, t.book, t.action, t.call, n)
  OBVIOUS
<1>8. worker' = [worker EXCEPT ![w] = u]
  <2>1. worker' = [worker EXCEPT ![w] = [t EXCEPT !.pc = "determine", !.noted = n]]
    BY <1>1, <1>2, <1>3, <1>5 DEF ReadNFTs
  <2>2. [t EXCEPT !.pc = "determine", !.noted = n] = u
    BY <1>5, <1>7, SetPcNoted
  <2> QED BY <2>1, <2>2
<1>9. IsTask(u) /\ u.pc = "determine" /\ u.job = t.job /\ u.stage = t.stage /\ u.noted = n
  BY <1>7, TaskFields
<1>10. t.noted \subseteq n /\ n \subseteq Status
  BY <1>3, <1>5, NFTType, StatusType DEF NotedFits, Inv, RowsInv
<1>11. ASSUME n \subseteq {"completed"}, migrations[m] # "removed", NEW a \in Known(u)
       PROVE  Sent(books, a)
  <2>1. a \in RowsOf(m)
    BY <1>2, <1>9, <1>11 DEF Known
  <2>2. CASE a.nft = None
    <3>1. a \in Known(t)
      BY <1>2, <2>1, <2>2 DEF Known
    <3> QED BY <1>2, <1>5, <1>10, <1>11, <3>1 DEF NotedFits
  <2>3. CASE a.nft # None
    <3>1. a \in NFTs(m)
      BY <2>1, <2>3 DEF NFTs
    <3>2. rows[a] # None /\ (rows[a] = "completed" => Sent(books, a))
      BY <1>5, <1>11, <2>1, RowIsThere
    <3>3. rows[a] \in n
      BY <1>3, <3>1, <3>2
    <3> QED BY <1>11, <3>2, <3>3
  <2> QED BY <2>2, <2>3
<1>12. NotedFits(books, migrations, u)
  BY <1>2, <1>9, <1>10, <1>11 DEF NotedFits
<1>13. FitsNow(u)
  BY <1>2, <1>5, <1>9, <1>12, RecalculatingFits
<1> QED BY <1>6, <1>8, <1>13, TaskGoes

LEMMA WriteStatusInv ==
  ASSUME Inv, NEW w \in Workers, WriteStatus(w)
  PROVE  Inv'
<1>1. PICK t : t = worker[w]
  OBVIOUS
<1>2. PICK m : m = t.job.migration
  OBVIOUS
<1>3. PICK s : s = DetermineMigrationStatus(t.noted)
  OBVIOUS
<1>4. t.pc = "determine" /\ t.pc \in Recalculating
  BY <1>1 DEF WriteStatus, At, Recalculating
<1>5. m \in Migrations /\ migrations[m] # None /\ NotedFits(books, migrations, t)
  BY <1>1, <1>2, <1>4, RecalculatingKnows
<1>6. UNCHANGED <<rows, actions, queue, retrying, retries, requests, books>>
  BY DEF WriteStatus, userVars, signerVars
<1>7. s \in Status /\ (s = "completed" => t.noted \subseteq {"completed"})
  BY <1>3, <1>5, StatusType DEF DetermineMigrationStatus, NotedFits
<1>8. s = "completed" => migrations[m] = "removed" \/ \A a \in RowsOf(m) : Sent(books, a)
  BY <1>2, <1>4, <1>5, <1>7 DEF NotedFits, Known
<1>9. SetMigration(m, s)
  BY <1>1, <1>2, <1>3 DEF WriteStatus
<1>10. MigrationsInv' /\ RowsInv' /\ GoOnFrom(migrations, migrations')
  BY <1>5, <1>6, <1>7, <1>8, <1>9, MigrationWritten DEF Inv
<1> QED BY <1>6, <1>10, StopInv DEF WriteStatus

LEMMA DbFailsInv ==
  ASSUME Inv, NEW w \in Workers, DbFails(w)
  PROVE  Inv'
<1>1. UNCHANGED <<migrations, rows, actions, queue, retrying, retries, requests, books>>
  BY DEF DbFails, tables, userVars, signerVars
<1>2. CASE Goto(w, "failed") /\ worker[w].pc \in {"find", "insert", "failing", "completed", "start"}
  BY <1>1, <1>2, FailInv DEF Enqueuing
<1>3. CASE worker[w].pc = "failed" /\ Recalculate(w)
  BY <1>1, <1>3, RecalculateInv, TaskStays DEF Enqueuing
<1>4. CASE Stop(w)
  BY <1>1, <1>4, StopsInv
<1> QED BY <1>2, <1>3, <1>4 DEF DbFails, Starts, At

LEMMA DieInv ==
  ASSUME Inv, NEW w \in Workers, Die(w)
  PROVE  Inv'
  BY StopsInv DEF Die, tables, userVars, signerVars

-----------------------------------------------------------------------------
(* The invariant is inductive.                                             *)

LEMMA InitInv == Init => Inv
<1> SUFFICES ASSUME Init PROVE Inv
  OBVIOUS
<1>1. BooksInv
  <2>1. books = <<>> /\ MaxBooks \in Nat
    BY LikeNFTAssumption DEF Init
  <2> QED BY <2>1 DEF BooksInv
<1>2. RequestsInv /\ ActionsInv
  BY DEF Init, RequestsInv, ActionsInv
<1>3. MigrationsInv /\ RowsInv
  BY StatusType, AssetType DEF Init, MigrationsInv, RowsInv
<1>4. QueueInv
  BY DEF Init, QueueInv
<1>5. UsersInv
  BY LikeNFTAssumption DEF Init, UsersInv
<1>6. WorkersInv
  BY IdleFits DEF Init, WorkersInv, FitsNow
<1> QED BY <1>1, <1>2, <1>3, <1>4, <1>5, <1>6 DEF Inv

LEMMA TaskStepInv ==
  ASSUME Inv, NEW w \in Workers, TaskStep(w)
  PROVE  Inv'
  BY EnqueueCommitInv, EnqueueCommitFailsInv, EnqueueNextInv, EnqueueNextFailsInv,
     FindInv, InsertInv, SkipInv, StartClassInv, StartMintInv,
     PostInv, PollMinedInv, PollFailedInv, CallFailsInv,
     RecordInv, RecordFailureInv, SaveRowInv,
     ReadClassesInv, ReadNFTsInv, WriteStatusInv, DbFailsInv
  DEF TaskStep

LEMMA StutterInv ==
  ASSUME Inv, UNCHANGED vars
  PROVE  Inv'
<1>1. /\ UNCHANGED <<migrations, rows, actions, queue, retrying, retries, requests, books>>
      /\ UNCHANGED worker
  BY DEF vars, tables, userVars, signerVars
<1> QED BY <1>1, TaskStays, WorkersStay DEF Inv

LEMMA StepInv == Inv /\ [Next]_vars => Inv'
<1> SUFFICES ASSUME Inv, [Next]_vars PROVE Inv'
  OBVIOUS
<1>1. ASSUME NEW m \in Migrations, User(m) \/ RetryWrite(m) PROVE Inv'
  BY <1>1, CreateInv, RetryCheckInv, RemoveInv, RetryWriteInv DEF User
<1>2. ASSUME NEW w \in Workers, NEW j \in Jobs, Begin(w, j) PROVE Inv'
  BY <1>2, MigrateBeginInv, EnqueueBeginInv DEF Begin
<1>3. ASSUME NEW w \in Workers, NEW a \in Assets, MigrateAtCli(w, a) PROVE Inv'
  BY <1>3, MigrateAtCliInv
<1>4. ASSUME NEW w \in Workers, TaskStep(w) \/ Die(w) PROVE Inv'
  BY <1>4, TaskStepInv, DieInv
<1> QED BY <1>1, <1>2, <1>3, <1>4, SignerInv, StutterInv DEF Next

\* What tasks, rows and action rows know of the books is true of them, whatever
\* came since they learnt it, and whatever died or failed.
THEOREM InvCorrect == Spec => []Inv
<1> QED BY InitInv, StepInv, PTL DEF Spec

-----------------------------------------------------------------------------
(* What the runs check, for all values of the constants.                   *)

\* Every variable has its type: what a task is at when it decides by the copy it
\* took of an action row (Do...Action) is a row.
THEOREM TypeOKCorrect == Spec => []TypeOK
<1>1. ASSUME Inv PROVE TypeOK
  <2>1. /\ migrations \in [Migrations -> Status \cup {None, "removed"}]
        /\ rows \in [Assets -> Status \cup {None}]
        /\ queue \in Seq(Jobs) /\ Len(books) <= MaxBooks
    BY <1>1 DEF Inv, MigrationsInv, RowsInv, QueueInv, BooksInv
  <2>2. \A k \in DOMAIN actions : k.stage \in Stages /\ actions[k] \in Action
    BY <1>1 DEF Inv, ActionsInv, ActionFits
  <2>3. \A w \in Workers :
            /\ worker[w].stage \in Stages \cup {None}
            /\ At(w, "start") => worker[w].action \in Action
    BY <1>1 DEF Inv, WorkersInv, Fits, At, Acting, ActionFits
  <2>4. retrying \in [Migrations -> 0 .. MaxRetries]
    <3>1. /\ retries \in 0 .. MaxRetries /\ MaxRetries \in Nat
          /\ retrying \in [Migrations -> Nat]
          /\ \A m \in Migrations : retrying[m] <= retries
      BY <1>1, LikeNFTAssumption DEF Inv, UsersInv
    <3>2. \A m \in Migrations : retrying[m] \in 0 .. MaxRetries
      BY <3>1
    <3> QED BY <3>1, <3>2
  <2>5. \A call \in DOMAIN requests : requests[call].status \in {"pending", "mined", "failed"}
    BY <1>1 DEF Inv, RequestsInv, AnswerFits
  <2> QED BY <2>1, <2>2, <2>3, <2>4, <2>5 DEF TypeOK
<1> QED BY <1>1, InvCorrect, PTL

\* A token that left the operator went to one whose NFT it is, however the tasks
\* of several users batch each other's numbers (DoMintNFTAction).
THEOREM TokensGoHomeCorrect == Spec => []TokensGoHome
<1>1. ASSUME Inv PROVE TokensGoHome
  <2> SUFFICES ASSUME NEW b \in DOMAIN books, NEW i \in DOMAIN books[b].holder,
                      books[b].holder[i] # Operator
               PROVE  \E a \in NFTs(books[b].holder[i]) :
                        a.class = books[b].symbol /\ a.nft \in {i, books[b].uri[i]}
    BY DEF TokensGoHome
  <2> QED BY <1>1, SoundFields DEF Inv, BooksInv, Good, IsHome
<1> QED BY <1>1, InvCorrect, PTL

\* A token has the text of its own number, or of an NFT without one, though the
\* supply was read before others minted (DoMintNFTAction).
THEOREM TextsMatchCorrect == Spec => []TextsMatch
<1>1. ASSUME Inv PROVE TextsMatch
  <2> SUFFICES ASSUME NEW b \in DOMAIN books, NEW i \in DOMAIN books[b].uri
               PROVE  books[b].uri[i] \in {TextOf(books[b].symbol, i)} \cup Plain
    BY DEF TextsMatch
  <2> QED BY <1>1, SoundFields DEF Inv, BooksInv, Good, HasText
<1> QED BY <1>1, InvCorrect, PTL

\* What was sent to someone who has it is its user's, if he alone has it.
LEMMA SentDelivered ==
  ASSUME OneOwner, NEW a \in Assets, Sent(books, a)
  PROVE  Delivered(a)
<1>1. PICK o \in Assets : /\ o.class = a.class /\ o.nft = a.nft
                          /\ (a.nft = None => o = a) /\ Brought(books, o)
  BY DEF Sent
<1>2. o = a
  BY <1>1 DEF OneOwner
<1>3. PICK b \in DOMAIN books : books[b].symbol = a.class /\ BroughtIn(books[b], a)
  BY <1>1, <1>2 DEF Brought
<1>4. b \in BooksOf(a.class)
  BY <1>3 DEF BooksOf
<1> QED BY <1>3, <1>4 DEF Delivered, BroughtIn

\* With snapshots that agree, what a row calls completed is the user's on chain,
\* whatever dies or errs, the signer too (SaveRow, Do...Action).
THEOREM CompletedIsDeliveredCorrect ==
  ASSUME OneOwner
  PROVE  Spec => []CompletedIsDelivered
<1>1. ASSUME Inv PROVE CompletedIsDelivered
  BY <1>1, SentDelivered DEF Inv, RowsInv, CompletedIsDelivered
<1> QED BY <1>1, InvCorrect, PTL

\* With snapshots that agree, a migration is called completed only when its user
\* has got everything, though its status is the work of three statements of each
\* of its tasks (RecalculateMigrationStatus).
THEOREM CompletedIsWholeCorrect ==
  ASSUME OneOwner
  PROVE  Spec => []CompletedIsWhole
<1>1. ASSUME Inv PROVE CompletedIsWhole
  BY <1>1, SentDelivered, RowType DEF Inv, MigrationsInv, CompletedIsWhole
<1> QED BY <1>1, InvCorrect, PTL

-----------------------------------------------------------------------------
(* The chain, in a step.                                                   *)

\* Only the signer makes transactions, and only tasks post to it.
LEMMA WhoWrites ==
  ASSUME [Next]_vars
  PROVE  \/ SignerStep
         \/ \E w \in Workers : Post(w)
         \/ UNCHANGED <<requests, books>>
<1>1. ASSUME NEW m \in Migrations, User(m) \/ RetryWrite(m) PROVE UNCHANGED <<requests, books>>
  BY <1>1 DEF User, Create, RetryCheck, Remove, RetryWrite, signerVars
<1>2. ASSUME NEW w \in Workers, NEW j \in Jobs, Begin(w, j) PROVE UNCHANGED <<requests, books>>
  BY <1>2 DEF Begin, MigrateBegin, Migrate, EnqueueBegin, signerVars
<1>3. ASSUME NEW w \in Workers, NEW a \in Assets, MigrateAtCli(w, a)
      PROVE  UNCHANGED <<requests, books>>
  BY <1>3 DEF MigrateAtCli, Migrate, signerVars
<1>4. ASSUME NEW w \in Workers, TaskStep(w), ~Post(w) PROVE UNCHANGED <<requests, books>>
  BY <1>4 DEF TaskStep, EnqueueCommit, EnqueueCommitFails, EnqueueNext, EnqueueNextFails,
              Find, Insert, Skip, StartClass, StartMint, PollMined, PollFailed, CallFails,
              Record, RecordFailure, SaveRow, ReadClasses, ReadNFTs, WriteStatus, DbFails,
              signerVars
<1>5. ASSUME NEW w \in Workers, Die(w) PROVE UNCHANGED <<requests, books>>
  BY <1>5 DEF Die, signerVars
<1>6. UNCHANGED vars => UNCHANGED <<requests, books>>
  BY DEF vars, signerVars
<1> QED BY <1>1, <1>2, <1>3, <1>4, <1>5, <1>6 DEF Next

\* No step, not even of a signer that repeats or disowns calls, takes a book or a
\* token from the one it went to, or changes a token's text (DoMintNFTAction,
\* DoTransferClassAction).
THEOREM DeliveredStaysCorrect == Spec => [][Grow(books, books')]_vars
<1>1. Inv /\ [Next]_vars => [Grow(books, books')]_vars
  <2> SUFFICES ASSUME Inv, [Next]_vars PROVE Grow(books, books')
    OBVIOUS
  <2>1. UNCHANGED books => Grow(books, books')
    BY SameIsGrown
  <2>2. ASSUME SignerStep PROVE Grow(books, books')
    <3>1. PICK call \in DOMAIN requests : Run(call) \/ UNCHANGED books
      BY <2>2 DEF SignerStep, Settle, Execute, Refuse, Misbehave
    <3>2. ValidCall(books, call)
      BY DEF Inv, RequestsInv, AnswerFits
    <3> QED BY <2>1, <3>1, <3>2, RunInv DEF Inv
  <2>3. ASSUME NEW w \in Workers, Post(w) PROVE UNCHANGED books
    BY <2>3 DEF Post
  <2> QED BY <2>1, <2>2, <2>3, WhoWrites
<1> QED BY <1>1, InvCorrect, PTL DEF Spec

\* A call for a book says of which class.
LEMMA NewBookClass ==
  ASSUME NEW c, NEW d, NewBookCall(c) = NewBookCall(d)
  PROVE  c = d
<1>1. NewBookCall(c).msg.config.symbol = c /\ NewBookCall(d).msg.config.symbol = d
  BY DEF NewBookCall
<1> QED BY <1>1

\* The signer's answer to another call leaves that to the call of a book alone.
LEMMA AnsweredStays ==
  ASSUME BooksAnswered, NEW call, NEW status, NEW book, Answer(call, status, book),
         NEW b \in DOMAIN books, call # NewBookCall(books[b].symbol),
         books'[b].symbol = books[b].symbol
  PROVE  LET own == NewBookCall(books'[b].symbol) IN
         own \in DOMAIN requests' /\ requests'[own] = [status |-> "mined", book |-> b]
<1>1. PICK own : own = NewBookCall(books[b].symbol)
  OBVIOUS
<1>2. own \in DOMAIN requests /\ requests[own] = [status |-> "mined", book |-> b] /\ own # call
  BY <1>1 DEF BooksAnswered
<1>3. own \in DOMAIN requests' /\ requests'[own] = requests[own]
  BY <1>2 DEF Answer, With
<1> QED BY <1>1, <1>2, <1>3

LEMMA MadeByMined ==
  ASSUME BooksAnswered, NEW b \in DOMAIN books, NEW call, call = NewBookCall(books[b].symbol)
  PROVE  call \in DOMAIN requests /\ requests[call].status = "mined"
<1>1. call \in DOMAIN requests /\ requests[call] = [status |-> "mined", book |-> b]
  BY DEF BooksAnswered
<1> QED BY <1>1

LEMMA ExecuteAnswered ==
  ASSUME Inv, BooksAnswered, NEW call \in DOMAIN requests, Execute(call)
  PROVE  BooksAnswered'
<1>1. ValidCall(books, call) /\ BooksInv /\ Run(call) /\ requests[call].status = "pending"
  BY DEF Inv, RequestsInv, AnswerFits, Execute
<1>2. PICK made : made = Created(call)
  OBVIOUS
<1>3. Answer(call, "mined", made)
  BY <1>2 DEF Execute
<1>4. \A b \in DOMAIN books : call # NewBookCall(books[b].symbol)
  BY <1>1, MadeByMined
<1>5. \A b \in DOMAIN books : b \in DOMAIN books' /\ books'[b].symbol = books[b].symbol
  BY <1>1, RunInv DEF Grow, GrowsTo
<1>6. ASSUME NEW b \in DOMAIN books
      PROVE  LET own == NewBookCall(books'[b].symbol) IN
             own \in DOMAIN requests' /\ requests'[own] = [status |-> "mined", book |-> b]
  BY <1>3, <1>4, <1>5, AnsweredStays
<1>7. CASE call.method # "newBookNFT"
  <2>1. DOMAIN books' = DOMAIN books
    BY <1>1, <1>7, RunInv
  <2> QED BY <1>6, <2>1 DEF BooksAnswered
<1>8. ASSUME NEW c \in Classes, call = NewBookCall(c) PROVE BooksAnswered'
  <2>1. /\ DOMAIN books' = DOMAIN books \cup {Len(books')}
        /\ books'[Len(books')].symbol = c /\ made = Len(books')
    BY <1>1, <1>2, <1>8, RunNewBook
  <2>2. call \in DOMAIN requests' /\ requests'[call] = [status |-> "mined", book |-> made]
    BY <1>3 DEF Answer, With
  <2> QED BY <1>6, <1>8, <2>1, <2>2 DEF BooksAnswered
<1>9. call.method = "newBookNFT" => \E c \in Classes : call = NewBookCall(c)
  BY <1>1, CallKinds DEF IsNewBook, IsOwnership, IsTransfer, IsPlain, IsBatch
<1> QED BY <1>7, <1>8, <1>9

\* No call is answered anew that has made a book.
LEMMA UnansweredAnswered ==
  ASSUME BooksAnswered, NEW call, NEW status, NEW book, Answer(call, status, book),
         call \in DOMAIN requests => requests[call].status # "mined", UNCHANGED books
  PROVE  BooksAnswered'
<1>1. ASSUME NEW b \in DOMAIN books PROVE call # NewBookCall(books[b].symbol)
  BY MadeByMined
<1> QED BY <1>1, AnsweredStays DEF BooksAnswered

LEMMA BooksAnsweredStep ==
  ASSUME "signer" \notin Faults
  PROVE  Inv /\ BooksAnswered /\ [Next]_vars => BooksAnswered'
<1> SUFFICES ASSUME Inv, BooksAnswered, [Next]_vars PROVE BooksAnswered'
  OBVIOUS
<1>1. ASSUME SignerStep PROVE BooksAnswered'
  <2>1. PICK call \in DOMAIN requests : Execute(call) \/ Refuse(call)
    BY <1>1 DEF SignerStep, Settle, Misbehave, Fault
  <2>2. CASE Execute(call)
    BY <2>2, ExecuteAnswered
  <2>3. CASE Refuse(call)
    BY <2>3, UnansweredAnswered DEF Refuse
  <2> QED BY <2>1, <2>2, <2>3
<1>2. ASSUME NEW w \in Workers, Post(w) PROVE BooksAnswered'
  <2>1. PICK call : call = worker[w].call
    OBVIOUS
  <2>2. CASE UNCHANGED <<requests, books>>
    BY <2>2 DEF BooksAnswered
  <2>3. CASE /\ ~(call \in DOMAIN requests /\ requests[call].status # "failed")
             /\ Answer(call, "pending", None) /\ UNCHANGED books
    BY <2>3, UnansweredAnswered
  <2> QED BY <1>2, <2>1, <2>2, <2>3 DEF Post
<1>3. ASSUME UNCHANGED <<requests, books>> PROVE BooksAnswered'
  BY <1>3 DEF BooksAnswered
<1> QED BY <1>1, <1>2, <1>3, WhoWrites

\* With a signer that keeps what Signer promises, a class has one book, however
\* many tasks make it, die or lose its answer (DoNewClassAction).
THEOREM OneBookCorrect ==
  ASSUME "signer" \notin Faults
  PROVE  Spec => []OneBook
<1>1. Init => BooksAnswered
  BY DEF Init, BooksAnswered
<1>2. ASSUME BooksAnswered PROVE OneBook
  <2> SUFFICES ASSUME NEW c \in Classes PROVE Cardinality(BooksOf(c)) <= 1
    BY DEF OneBook
  <2>1. ASSUME NEW b \in BooksOf(c), NEW d \in BooksOf(c) PROVE b = d
    <3>1. /\ requests[NewBookCall(c)] = [status |-> "mined", book |-> b]
          /\ requests[NewBookCall(c)] = [status |-> "mined", book |-> d]
      BY <1>2 DEF BooksAnswered, BooksOf
    <3> QED BY <3>1
  <2>2. CASE BooksOf(c) = {}
    BY <2>2, FS_EmptySet
  <2>3. CASE BooksOf(c) # {}
    <3>1. PICK b : BooksOf(c) = {b}
      BY <2>1, <2>3
    <3> QED BY <3>1, FS_Singleton
  <2> QED BY <2>2, <2>3
<1> QED BY <1>1, <1>2, BooksAnsweredStep, InvCorrect, PTL DEF Spec


=============================================================================
