--------------------------- MODULE GracefulProofs ---------------------------
(***************************************************************************)
(* Theorems about GracefulHandle for any number of goroutines.             *)
(*                                                                         *)
(* Headers go stale while others write to their arrays.  What can be said  *)
(* of all of them, at any time, is that what they reach are notifiers:     *)
(* appending and removing overwrite notifiers with notifiers, of whom some *)
(* are twice there and some are lost, but no header reaches a nil channel. *)
(***************************************************************************)
EXTENDS GracefulHandle, FiniteSetTheorems, SequenceTheorems, WellFoundedInduction, TLAPS

-----------------------------------------------------------------------------
(* The inductive invariant.                                                *)

Cells == Consumers \cup {None}
Backings == Seq(Cells)

Headers == [array: Nat, len: Nat]

\* What the header h reaches, in the arrays xs.
Solid(xs, h) ==
    /\ h \in Headers /\ h.array \in 0 .. Len(xs)
    /\ h.len > 0 => h.array # 0 /\ h.len <= Len(xs[h.array])
    /\ \A k \in 1 .. h.len : xs[h.array][k] \in Consumers

Enrolled == {c \in Consumers : consumer[c] \notin {"new", "append"}}
Running == {c \in Consumers : consumer[c] = "running"}

\* An array is written in place, consumers over consumers.
Written(x, y) ==
    /\ Len(y) = Len(x)
    /\ \A k \in 1 .. Len(x) : x[k] \in Consumers => y[k] \in Consumers

\* Arrays are written and more of them allocated.
ArraysGrow(xs, ys) ==
    /\ Len(xs) <= Len(ys)
    /\ \A a \in 1 .. Len(xs) : Written(xs[a], ys[a])

PCs == {"new", "append", "running", "index", "remove", "gone"}

ArraysInv == arrays \in Seq(Backings)

\* No slice is longer than there are consumers that were put on one.
HeadersInv ==
    /\ Solid(arrays, slice) /\ slice.len <= Cardinality(Enrolled)
    /\ header \in [Consumers -> Headers]
    /\ \A c \in Consumers :
        Solid(arrays, header[c]) /\ header[c].len <= Cardinality(Enrolled)

ConsumersInv ==
    /\ consumer \in [Consumers -> PCs]
    /\ index \in [Consumers -> 0 .. Cardinality(Consumers)]
    /\ wg = Cardinality(Running)

LoopInv ==
    /\ loop \in [pc: {"idle", "notify", "wait", "done"}, range: Headers, next: Nat \ {0}]
    /\ Solid(arrays, loop.range)
    /\ closed \subseteq Consumers /\ cancelled \subseteq closed
    /\ crashed \in BOOLEAN

Inv == ArraysInv /\ HeadersInv /\ ConsumersInv /\ LoopInv

-----------------------------------------------------------------------------
(* Arrays and counts.                                                      *)

LEMMA SolidGrows ==
  ASSUME NEW xs \in Seq(Backings), NEW ys \in Seq(Backings), ArraysGrow(xs, ys),
         NEW h, Solid(xs, h)
  PROVE  Solid(ys, h)
<1>1. h.array \in Nat /\ h.len \in Nat /\ h \in Headers /\ h.array \in 0 .. Len(xs)
  BY DEF Solid, Headers
<1>2. Len(xs) \in Nat /\ Len(ys) \in Nat /\ Len(xs) <= Len(ys)
  BY DEF ArraysGrow, Written
<1>3. CASE h.len = 0
  BY <1>1, <1>2, <1>3 DEF Solid
<1>4. CASE h.len > 0
  <2>1. h.array \in 1 .. Len(xs) /\ h.len <= Len(xs[h.array])
    BY <1>1, <1>2, <1>4 DEF Solid
  <2>2. xs[h.array] \in Backings
    BY <2>1
  <2>3. Len(xs[h.array]) \in Nat
    BY <2>2 DEF Backings
  <2>4. ASSUME NEW k \in 1 .. h.len PROVE ys[h.array][k] \in Consumers
    <3>1. k \in 1 .. Len(xs[h.array]) /\ xs[h.array][k] \in Consumers
      BY <1>1, <2>1, <2>3 DEF Solid
    <3> QED BY <2>1, <3>1 DEF ArraysGrow, Written
  <2>5. Len(ys[h.array]) = Len(xs[h.array])
    BY <2>1 DEF ArraysGrow, Written
  <2> QED BY <1>1, <1>2, <2>1, <2>4, <2>5 DEF Solid
<1> QED BY <1>1, <1>3, <1>4

LEMMA ArraysSame ==
  ASSUME NEW xs \in Seq(Backings)
  PROVE  ArraysGrow(xs, xs)
  BY DEF ArraysGrow, Written

\* The sets of consumers are finite, and a consumer more or less counts for one.
LEMMA Counts ==
  /\ IsFiniteSet(Enrolled) /\ Cardinality(Enrolled) \in Nat
  /\ Cardinality(Enrolled) <= Cardinality(Consumers)
  /\ IsFiniteSet(Running) /\ Cardinality(Running) \in Nat
  /\ Cardinality(Running) <= Cardinality(Consumers)
  /\ Cardinality(Consumers) \in Nat
<1>1. IsFiniteSet(Consumers)
  BY GracefulAssumption
<1>2. Enrolled \subseteq Consumers /\ Running \subseteq Consumers
  BY DEF Enrolled, Running
<1> QED BY <1>1, <1>2, FS_Subset, FS_CardinalityType

\* Steps that leave the arrays and the slice alone, and all that is enrolled or
\* running.
LEMMA SliceStays ==
  ASSUME Inv, UNCHANGED <<arrays, slice, header>>, Enrolled \subseteq Enrolled'
  PROVE  ArraysInv' /\ HeadersInv'
<1>1. Cardinality(Enrolled) <= Cardinality(Enrolled') /\ Cardinality(Enrolled') \in Nat
  <2>1. IsFiniteSet(Enrolled')
    <3>1. Enrolled' \subseteq Consumers
      BY DEF Enrolled
    <3> QED BY <3>1, GracefulAssumption, FS_Subset
  <2> QED BY <2>1, FS_Subset, FS_CardinalityType
<1>2. Cardinality(Enrolled)' = Cardinality(Enrolled')
  OBVIOUS
<1>3. \A h : Solid(arrays, h) => h.len \in Nat
  BY DEF Solid, Headers
<1>4. Cardinality(Enrolled) \in Nat
  BY Counts
<1>5. \A n \in Nat : n <= Cardinality(Enrolled) => n <= Cardinality(Enrolled')
  BY <1>1, <1>4
<1>6. /\ Solid(arrays, slice) /\ slice.len <= Cardinality(Enrolled)
      /\ \A c \in Consumers : Solid(arrays, header[c]) /\ header[c].len <= Cardinality(Enrolled)
  BY DEF Inv, HeadersInv
<1> QED BY <1>3, <1>5, <1>6 DEF Inv, ArraysInv, HeadersInv

LEMMA LoopStays ==
  ASSUME Inv, UNCHANGED <<arrays, closed, cancelled, loop, crashed>>
  PROVE  LoopInv'
  BY DEF Inv, LoopInv

\* What slices.Index looks for, if it is there, is somewhere first.
LEMMA Least ==
  ASSUME NEW T, T \subseteq Nat, T # {}
  PROVE  \E k \in T : \A j \in T : k <= j
<1>1. PICK k \in T : \A j \in T : ~ (<<j, k>> \in OpToRel(<, Nat))
  <2>1. IsWellFoundedOn(OpToRel(<, Nat), Nat)
    BY NatLessThanWellFounded
  <2> QED BY <2>1, WFMin
<1>2. \A j \in T : ~ (j < k)
  BY <1>1 DEF OpToRel
<1>3. \A j \in T : k <= j
  BY <1>2
<1> QED BY <1>3

LEMMA InitInv == Init => Inv
<1> SUFFICES ASSUME Init PROVE Inv
  OBVIOUS
<1>1. Enrolled = {} /\ Running = {}
  BY DEF Init, Enrolled, Running
<1>2. Cardinality(Enrolled) = 0 /\ Cardinality(Running) = 0 /\ Cardinality(Consumers) \in Nat
  BY <1>1, FS_EmptySet, Counts
<1>3. arrays = <<>> /\ Len(arrays) = 0
  BY DEF Init
<1>4. ArraysInv
  BY <1>3 DEF ArraysInv
<1>5. Solid(arrays, Empty) /\ Empty.len = 0 /\ Empty \in Headers
  BY <1>3 DEF Solid, Empty, Headers
<1>6. HeadersInv
  BY <1>2, <1>5 DEF Init, HeadersInv
<1>7. ConsumersInv
  BY <1>2 DEF Init, ConsumersInv, PCs
<1>8. LoopInv
  <2>1. loop = [pc |-> "idle", range |-> Empty, next |-> 1]
    BY DEF Init
  <2>2. loop.range = Empty
    BY <2>1
  <2>3. loop \in [pc: {"idle", "notify", "wait", "done"}, range: Headers, next: Nat \ {0}]
    BY <1>5, <2>1
  <2>4. Solid(arrays, loop.range)
    BY <1>5, <2>2
  <2> QED BY <2>3, <2>4 DEF Init, LoopInv
<1> QED BY <1>4, <1>6, <1>7, <1>8 DEF Inv

-----------------------------------------------------------------------------
(* WithGraceful.                                                           *)

LEMMA EnrollInv ==
  ASSUME Inv, NEW c \in Consumers, Enroll(c)
  PROVE  Inv'
<1>1. /\ consumer[c] = "new" /\ consumer' = [consumer EXCEPT ![c] = "append"]
      /\ header' = [header EXCEPT ![c] = slice]
      /\ UNCHANGED <<arrays, slice, wg, index, closed, cancelled, loop, crashed>>
  BY DEF Enroll, At, Goto, sliceVars
<1>2. consumer \in [Consumers -> PCs]
  BY DEF Inv, ConsumersInv
<1>3. consumer' \in [Consumers -> PCs] /\ Enrolled' = Enrolled /\ Running' = Running
  BY <1>1, <1>2 DEF PCs, Enrolled, Running
<1>4. ConsumersInv'
  BY <1>1, <1>3 DEF Inv, ConsumersInv
<1>5. ArraysInv' /\ LoopInv'
  BY <1>1, LoopStays DEF Inv, ArraysInv
<1>6. HeadersInv'
  BY <1>1, <1>3 DEF Inv, HeadersInv, Solid
<1> QED BY <1>4, <1>5, <1>6 DEF Inv

LEMMA FinishInv ==
  ASSUME Inv, NEW c \in Consumers, Finish(c)
  PROVE  Inv'
<1>1. /\ consumer[c] = "running" /\ consumer' = [consumer EXCEPT ![c] = "index"]
      /\ wg' = wg - 1
      /\ UNCHANGED <<arrays, slice, header, index, closed, cancelled, loop, crashed>>
  BY DEF Finish, At, Goto
<1>2. consumer \in [Consumers -> PCs]
  BY DEF Inv, ConsumersInv
<1>3. consumer' \in [Consumers -> PCs] /\ Enrolled' = Enrolled /\ Running' = Running \ {c}
  BY <1>1, <1>2 DEF PCs, Enrolled, Running
<1>4. c \in Running
  BY <1>1 DEF Running
<1>5. Cardinality(Running') = Cardinality(Running) - 1
  BY <1>3, <1>4, Counts, FS_RemoveElement
<1>6. ConsumersInv'
  BY <1>1, <1>3, <1>5 DEF Inv, ConsumersInv
<1>7. ArraysInv' /\ HeadersInv' /\ LoopInv'
  BY <1>1, <1>3, SliceStays, LoopStays
<1> QED BY <1>6, <1>7 DEF Inv

LEMMA FindInv ==
  ASSUME Inv, NEW c \in Consumers, Find(c)
  PROVE  Inv'
<1> DEFINE found == {k \in 1 .. slice.len : arrays[slice.array][k] = c}
           i == IF found = {} THEN 0 ELSE CHOOSE k \in found : \A j \in found : k <= j
<1>1. /\ consumer[c] = "index" /\ consumer' = [consumer EXCEPT ![c] = "remove"]
      /\ index' = [index EXCEPT ![c] = i]
      /\ UNCHANGED <<arrays, slice, wg, header, closed, cancelled, loop, crashed>>
  BY DEF Find, At, Goto, sliceVars
<1>2. slice.len \in Nat /\ slice.len <= Cardinality(Enrolled)
  BY DEF Inv, HeadersInv, Solid, Headers
<1>3. found \subseteq Nat /\ found \subseteq 1 .. slice.len
  BY <1>2
<1>4. i \in 0 .. slice.len
  <2>1. CASE found = {}
    BY <1>2, <2>1
  <2>2. CASE found # {}
    <3>1. \E k \in found : \A j \in found : k <= j
      <4> HIDE DEF found
      <4> QED BY <1>3, <2>2, Least
    <3>2. i \in found
      BY <2>2, <3>1
    <3> QED BY <1>2, <1>3, <3>2
  <2> QED BY <2>1, <2>2
<1> HIDE DEF i, found
<1>5. i \in 0 .. Cardinality(Consumers)
  BY <1>2, <1>4, Counts
<1>6. consumer \in [Consumers -> PCs]
  BY DEF Inv, ConsumersInv
<1>7. consumer' \in [Consumers -> PCs] /\ Enrolled' = Enrolled /\ Running' = Running
  BY <1>1, <1>6 DEF PCs, Enrolled, Running
<1>8. ConsumersInv'
  BY <1>1, <1>5, <1>7 DEF Inv, ConsumersInv
<1>9. ArraysInv' /\ HeadersInv' /\ LoopInv'
  BY <1>1, <1>7, SliceStays, LoopStays
<1> QED BY <1>8, <1>9 DEF Inv

Put(xs, a, row) == [xs EXCEPT ![a] = row]

\* One backing array is overwritten, consumers with consumers.
LEMMA Overwrite ==
  ASSUME NEW xs \in Seq(Backings), NEW a \in 1 .. Len(xs), NEW row \in Backings,
         Written(xs[a], row),
         NEW ys, ys = Put(xs, a, row)
  PROVE  /\ ys \in Seq(Backings) /\ Len(ys) = Len(xs) /\ ys[a] = row
         /\ ArraysGrow(xs, ys)
<1>1. ys \in Seq(Backings) /\ Len(ys) = Len(xs) /\ ys[a] = row
  BY ExceptSeq DEF Put
<1>2. \A b \in 1 .. Len(xs) : b # a => ys[b] = xs[b]
  BY <1>1 DEF Put
<1> QED BY <1>1, <1>2 DEF ArraysGrow, Written

\* Another one is allocated.
LEMMA Allocate ==
  ASSUME NEW xs \in Seq(Backings), NEW row \in Backings, NEW ys, ys = Append(xs, row)
  PROVE  /\ ys \in Seq(Backings) /\ Len(ys) = Len(xs) + 1 /\ ys[Len(ys)] = row
         /\ Len(xs) \in Nat /\ ArraysGrow(xs, ys)
<1>1. /\ ys \in Seq(Backings) /\ Len(ys) = Len(xs) + 1 /\ ys[Len(ys)] = row
      /\ Len(xs) \in Nat
  BY AppendProperties
<1>2. \A b \in 1 .. Len(xs) : ys[b] = xs[b]
  BY AppendProperties
<1> QED BY <1>1, <1>2 DEF ArraysGrow, Written

\* The array that append writes to has the header's notifiers and c.
LEMMA StoreSlice ==
  ASSUME Inv, NEW c \in Consumers, Store(c)
  PROVE  /\ ArraysInv' /\ ArraysGrow(arrays, arrays')
         /\ Solid(arrays', slice') /\ slice'.len = header[c].len + 1
<1>1. PICK h, a, n : h = header[c] /\ a = h.array /\ n = h.len
  OBVIOUS
<1>2. arrays \in Seq(Backings) /\ Solid(arrays, h)
  BY <1>1 DEF Inv, ArraysInv, HeadersInv
<1>3. a \in Nat /\ n \in Nat /\ a \in 0 .. Len(arrays) /\ Len(arrays) \in Nat
  BY <1>1, <1>2 DEF Solid, Headers
<1>4. /\ n > 0 => a # 0 /\ n <= Len(arrays[a])
      /\ \A k \in 1 .. n : arrays[a][k] \in Consumers
  BY <1>1, <1>2 DEF Solid
<1>5. CASE n < Cap(h)
  <2>1. a # 0 /\ Cap(h) = Len(arrays[a])
    BY <1>1, <1>3, <1>5 DEF Cap
  <2>2. a \in 1 .. Len(arrays)
    BY <1>3, <2>1
  <2>3. arrays[a] \in Backings
    BY <1>2, <2>2
  <2>4. PICK row : row = [arrays[a] EXCEPT ![n + 1] = c]
    OBVIOUS
  <2>5. n + 1 \in 1 .. Len(arrays[a]) /\ Len(arrays[a]) \in Nat
    BY <1>3, <1>5, <2>1, <2>3 DEF Backings
  <2>6. /\ row \in Backings /\ Len(row) = Len(arrays[a]) /\ row[n + 1] = c
        /\ \A k \in 1 .. Len(arrays[a]) : k # n + 1 => row[k] = arrays[a][k]
    BY <2>3, <2>4, <2>5, ExceptSeq DEF Backings, Cells
  <2>7. /\ arrays' = [arrays EXCEPT ![a] = row]
        /\ slice' = [array |-> a, len |-> n + 1]
    BY <1>1, <1>5, <2>4 DEF Store
  <2>8. PICK ys : ys = arrays'
    OBVIOUS
  <2>9. ys \in Seq(Backings) /\ Len(ys) = Len(arrays) /\ ys[a] = row /\ ArraysGrow(arrays, ys)
    <3>1. \A k \in 1 .. Len(arrays[a]) : arrays[a][k] \in Consumers => row[k] \in Consumers
      BY <2>6
    <3>2. ys = Put(arrays, a, row)
      BY <2>7, <2>8 DEF Put
    <3>3. row \in Backings /\ Written(arrays[a], row)
      BY <2>6, <3>1 DEF Written
    <3> QED BY <1>2, <2>2, <3>2, <3>3, Overwrite
  <2>10. \A k \in 1 .. n + 1 : row[k] \in Consumers
    <3>1. ASSUME NEW k \in 1 .. n + 1, k # n + 1 PROVE row[k] \in Consumers
      <4>1. k \in 1 .. n /\ k \in 1 .. Len(arrays[a])
        BY <1>3, <2>5, <3>1
      <4> QED BY <1>4, <2>6, <3>1, <4>1
    <3> QED BY <2>6, <3>1
  <2>11. slice'.array = a /\ slice'.len = n + 1 /\ slice' \in Headers
    BY <1>3, <2>7 DEF Headers
  <2>12. Solid(ys, slice')
    BY <1>3, <2>1, <2>5, <2>6, <2>9, <2>10, <2>11 DEF Solid
  <2> QED BY <1>1, <2>8, <2>9, <2>11, <2>12 DEF ArraysInv
<1>6. CASE ~(n < Cap(h))
  <2>1. PICK size \in Nat : size = (IF n = 0 THEN 1 ELSE 2 * n) /\ n + 1 <= size
    BY <1>3
  <2>2. PICK row : row = [k \in 1 .. size |->
            IF k <= n THEN arrays[a][k] ELSE IF k = n + 1 THEN c ELSE None]
    OBVIOUS
  <2>3. row \in Backings /\ Len(row) = size
    <3>1. \A k \in 1 .. size : row[k] \in Cells
      BY <1>3, <1>4, <2>2 DEF Cells
    <3>2. row \in [1 .. size -> Cells]
      BY <2>2, <3>1
    <3> QED BY <3>2 DEF Backings
  <2>4. \A k \in 1 .. n + 1 : row[k] \in Consumers
    BY <1>3, <1>4, <2>1, <2>2
  <2>5. arrays' = Append(arrays, row) /\ slice' = [array |-> Len(arrays) + 1, len |-> n + 1]
    <3>1. Grown(h, c) = row
      BY <1>1, <2>1, <2>2 DEF Grown
    <3> QED BY <1>1, <1>6, <3>1 DEF Store
  <2>6. PICK ys : ys = arrays'
    OBVIOUS
  <2>7. /\ ys \in Seq(Backings) /\ Len(ys) = Len(arrays) + 1 /\ ys[Len(arrays) + 1] = row
        /\ ArraysGrow(arrays, ys)
    BY <1>2, <2>3, <2>5, <2>6, Allocate
  <2>8. slice'.array = Len(arrays) + 1 /\ slice'.len = n + 1 /\ slice' \in Headers
    BY <1>3, <2>5 DEF Headers
  <2>9. Solid(ys, slice')
    BY <1>3, <2>1, <2>3, <2>4, <2>7, <2>8 DEF Solid
  <2> QED BY <1>1, <2>6, <2>7, <2>8, <2>9 DEF ArraysInv
<1> QED BY <1>5, <1>6

LEMMA StoreInv ==
  ASSUME Inv, NEW c \in Consumers, Store(c)
  PROVE  Inv'
<1>1. /\ consumer[c] = "append" /\ consumer' = [consumer EXCEPT ![c] = "running"]
      /\ wg' = wg + 1 /\ header' = [header EXCEPT ![c] = Empty]
      /\ UNCHANGED <<index, closed, cancelled, loop, crashed>>
  BY DEF Store, At, Goto
<1>2. consumer \in [Consumers -> PCs]
  BY DEF Inv, ConsumersInv
<1>3. /\ consumer' \in [Consumers -> PCs]
      /\ Enrolled' = Enrolled \cup {c} /\ Running' = Running \cup {c}
      /\ c \notin Enrolled /\ c \notin Running
  BY <1>1, <1>2 DEF PCs, Enrolled, Running
<1>4. /\ Cardinality(Enrolled') = Cardinality(Enrolled) + 1
      /\ Cardinality(Running') = Cardinality(Running) + 1
      /\ Cardinality(Enrolled) \in Nat
  BY <1>3, Counts, FS_AddElement
<1>5. /\ ArraysInv' /\ ArraysGrow(arrays, arrays')
      /\ Solid(arrays', slice') /\ slice'.len = header[c].len + 1
  BY StoreSlice
<1>6. \A h : Solid(arrays, h) => Solid(arrays', h) /\ h.len \in Nat
  BY <1>5, SolidGrows DEF Inv, ArraysInv, Solid, Headers
<1>7. ConsumersInv'
  BY <1>1, <1>3, <1>4 DEF Inv, ConsumersInv
<1>8. LoopInv'
  BY <1>1, <1>6 DEF Inv, LoopInv
<1>9. Solid(arrays', Empty) /\ Empty.len = 0
  BY <1>5 DEF ArraysInv, Solid, Empty, Headers
<1>10. HeadersInv'
  <2>1. \A d \in Consumers : Solid(arrays, header[d]) /\ header[d].len <= Cardinality(Enrolled)
    BY DEF Inv, HeadersInv
  <2>2. slice'.len <= Cardinality(Enrolled')
    BY <1>4, <1>5, <1>6, <2>1
  <2>3. ASSUME NEW d \in Consumers
        PROVE  Solid(arrays', header'[d]) /\ header'[d].len <= Cardinality(Enrolled')
    <3>1. CASE d = c
      BY <1>1, <1>4, <1>9, <3>1 DEF Inv, HeadersInv
    <3>2. CASE d # c
      BY <1>1, <1>4, <1>6, <2>1, <3>2 DEF Inv, HeadersInv
    <3> QED BY <3>1, <3>2
  <2>4. header' \in [Consumers -> Headers]
    BY <1>1, <1>9 DEF Inv, HeadersInv, Solid
  <2> QED BY <1>5, <2>2, <2>3, <2>4 DEF HeadersInv
<1> QED BY <1>5, <1>7, <1>8, <1>10 DEF Inv

\* A removal shifts what comes after it, and drops the last.
LEMMA RemoveSlice ==
  ASSUME Inv, NEW c \in Consumers, Remove(c)
  PROVE  /\ ArraysInv' /\ ArraysGrow(arrays, arrays')
         /\ Solid(arrays', slice') /\ slice'.len <= slice.len
<1>1. PICK h, a, n, i : h = slice /\ a = h.array /\ n = h.len /\ i = index[c]
  OBVIOUS
<1>2. arrays \in Seq(Backings) /\ Solid(arrays, h)
  BY <1>1 DEF Inv, ArraysInv, HeadersInv
<1>3. /\ a \in Nat /\ n \in Nat /\ a \in 0 .. Len(arrays) /\ Len(arrays) \in Nat
      /\ i \in 1 .. n
  BY <1>1, <1>2 DEF Solid, Headers, Remove
<1>4. /\ a # 0 /\ n <= Len(arrays[a])
      /\ \A k \in 1 .. n : arrays[a][k] \in Consumers
  BY <1>1, <1>2, <1>3 DEF Solid
<1>5. a \in 1 .. Len(arrays)
  BY <1>3, <1>4
<1>6. arrays[a] \in Backings
  BY <1>2, <1>5
<1>7. PICK m \in Nat : m = Len(arrays[a])
  BY <1>6 DEF Backings
<1>8. PICK row : row = [k \in 1 .. m |->
        IF k \in i .. n - 1 THEN arrays[a][k + 1] ELSE arrays[a][k]]
  OBVIOUS
<1>9. DOMAIN arrays[a] = 1 .. m /\ \A k \in 1 .. m : arrays[a][k] \in Cells
  BY <1>6, <1>7 DEF Backings
<1>10. row \in Backings /\ Len(row) = m
  <2>1. \A k \in 1 .. m : row[k] \in Cells
    <3>1. \A k \in i .. n - 1 : k + 1 \in 1 .. m
      BY <1>3, <1>4, <1>7
    <3> QED BY <1>8, <1>9, <3>1
  <2>2. row \in [1 .. m -> Cells]
    BY <1>8, <2>1
  <2> QED BY <2>2 DEF Backings
<1>11. \A k \in 1 .. m : arrays[a][k] \in Consumers => row[k] \in Consumers
  <2>1. \A k \in i .. n - 1 : k + 1 \in 1 .. n
    BY <1>3
  <2> QED BY <1>4, <1>8, <2>1
<1>12. arrays' = [arrays EXCEPT ![a] = row] /\ slice' = [slice EXCEPT !.len = n - 1]
  BY <1>1, <1>8, <1>9 DEF Remove
<1>13. PICK ys : ys = arrays'
  OBVIOUS
<1>14. ys \in Seq(Backings) /\ Len(ys) = Len(arrays) /\ ys[a] = row /\ ArraysGrow(arrays, ys)
  <2>1. ys = Put(arrays, a, row)
    BY <1>12, <1>13 DEF Put
  <2>2. Written(arrays[a], row)
    BY <1>7, <1>10, <1>11 DEF Written
  <2> QED BY <1>2, <1>5, <1>10, <2>1, <2>2, Overwrite
<1>15. slice'.array = a /\ slice'.len = n - 1 /\ slice' \in Headers /\ n - 1 \in Nat
  BY <1>1, <1>2, <1>3, <1>12 DEF Solid, Headers
<1>16. \A k \in 1 .. n - 1 : row[k] \in Consumers
  <2>1. \A k \in 1 .. n - 1 : k \in 1 .. m /\ k \in 1 .. n
    BY <1>3, <1>4, <1>7
  <2> QED BY <1>4, <1>11, <2>1
<1>17. Solid(ys, slice')
  BY <1>3, <1>4, <1>7, <1>10, <1>14, <1>15, <1>16 DEF Solid
<1> QED BY <1>1, <1>3, <1>13, <1>14, <1>15, <1>17 DEF ArraysInv

LEMMA RemoveInv ==
  ASSUME Inv, NEW c \in Consumers, Remove(c)
  PROVE  Inv'
<1>1. /\ consumer[c] = "remove" /\ consumer' = [consumer EXCEPT ![c] = "gone"]
      /\ index' = [index EXCEPT ![c] = 0]
      /\ UNCHANGED <<wg, header, closed, cancelled, loop, crashed>>
  BY DEF Remove, At, Goto
<1>2. consumer \in [Consumers -> PCs]
  BY DEF Inv, ConsumersInv
<1>3. consumer' \in [Consumers -> PCs] /\ Enrolled' = Enrolled /\ Running' = Running
  BY <1>1, <1>2 DEF PCs, Enrolled, Running
<1>4. /\ ArraysInv' /\ ArraysGrow(arrays, arrays')
      /\ Solid(arrays', slice') /\ slice'.len <= slice.len
  BY RemoveSlice
<1>5. \A h : Solid(arrays, h) => Solid(arrays', h)
  BY <1>4, SolidGrows DEF Inv, ArraysInv
<1>6. ConsumersInv'
  BY <1>1, <1>3, Counts DEF Inv, ConsumersInv
<1>7. LoopInv'
  BY <1>1, <1>5 DEF Inv, LoopInv
<1>8. HeadersInv'
  <2>1. slice.len \in Nat /\ slice'.len \in Nat /\ slice.len <= Cardinality(Enrolled)
    BY <1>4 DEF Inv, HeadersInv, Solid, Headers
  <2>2. slice'.len <= Cardinality(Enrolled')
    BY <1>3, <1>4, <2>1, Counts
  <2>3. Cardinality(Enrolled') = Cardinality(Enrolled)
    BY <1>3
  <2> QED BY <1>1, <1>4, <1>5, <2>2, <2>3 DEF Inv, HeadersInv
<1> QED BY <1>4, <1>6, <1>7, <1>8 DEF Inv

-----------------------------------------------------------------------------
(* Done.                                                                   *)

\* The steps of Done and of the notified, and a panic.
LEMMA DoneInv ==
  ASSUME Inv, UNCHANGED <<arrays, slice, wg, consumer, header, index>>, LoopInv'
  PROVE  Inv'
<1>1. Enrolled' = Enrolled /\ Running' = Running
  BY DEF Enrolled, Running
<1>2. ArraysInv' /\ HeadersInv'
  BY <1>1, SliceStays
<1>3. ConsumersInv'
  BY <1>1 DEF Inv, ConsumersInv
<1> QED BY <1>2, <1>3 DEF Inv

LEMMA PanicInv ==
  ASSUME Inv, Panic
  PROVE  Inv'
<1>1. LoopInv'
  BY DEF Inv, LoopInv, Panic, sliceVars
<1> QED BY <1>1, DoneInv DEF Panic, sliceVars

LEMMA SignalInv ==
  ASSUME Inv, Signal
  PROVE  Inv'
<1>1. /\ loop' = [pc |-> "notify", range |-> slice, next |-> 1]
      /\ UNCHANGED <<arrays, slice, wg, consumer, header, index, closed, cancelled, crashed>>
  BY DEF Signal, sliceVars
<1>2. Solid(arrays, slice) /\ slice \in Headers
  BY DEF Inv, HeadersInv, Solid
<1>3. loop'.range = slice
  BY <1>1
<1>4. loop' \in [pc: {"idle", "notify", "wait", "done"}, range: Headers, next: Nat \ {0}]
  BY <1>1, <1>2
<1>5. LoopInv'
  BY <1>1, <1>2, <1>3, <1>4 DEF Inv, LoopInv
<1> QED BY <1>1, <1>5, DoneInv

\* The loop never comes upon a nil channel.
LEMMA CurrentIs ==
  ASSUME Inv, loop.next <= loop.range.len
  PROVE  Current \in Consumers
<1>1. loop.next \in Nat \ {0} /\ loop.range \in Headers /\ Solid(arrays, loop.range)
  BY DEF Inv, LoopInv
<1>2. loop.next \in 1 .. loop.range.len
  BY <1>1 DEF Headers
<1> QED BY <1>1, <1>2 DEF Solid, Current

LEMMA NotifyInv ==
  ASSUME Inv, Notify
  PROVE  Inv'
<1>1. /\ loop' = [loop EXCEPT !.next = loop.next + 1]
      /\ closed' = closed \cup {Current} /\ Current \in Consumers
      /\ UNCHANGED <<arrays, slice, wg, consumer, header, index, cancelled, crashed>>
  BY CurrentIs DEF Notify, sliceVars
<1>2. loop \in [pc: {"idle", "notify", "wait", "done"}, range: Headers, next: Nat \ {0}]
  BY DEF Inv, LoopInv
<1>3. loop.next + 1 \in Nat \ {0}
  BY <1>2
<1>4. /\ loop' \in [pc: {"idle", "notify", "wait", "done"}, range: Headers, next: Nat \ {0}]
      /\ loop'.range = loop.range
  BY <1>1, <1>2, <1>3
<1>5. LoopInv'
  BY <1>1, <1>4 DEF Inv, LoopInv
<1> QED BY <1>1, <1>5, DoneInv

LEMMA LoopMoves ==
  ASSUME Inv, NEW pc \in {"wait", "done"}, loop' = [loop EXCEPT !.pc = pc],
         UNCHANGED <<arrays, slice, wg, consumer, header, index, closed, cancelled, crashed>>
  PROVE  Inv'
<1>1. loop \in [pc: {"idle", "notify", "wait", "done"}, range: Headers, next: Nat \ {0}]
  BY DEF Inv, LoopInv
<1>2. /\ loop' \in [pc: {"idle", "notify", "wait", "done"}, range: Headers, next: Nat \ {0}]
      /\ loop'.range = loop.range
  BY <1>1
<1>3. LoopInv'
  BY <1>2 DEF Inv, LoopInv
<1> QED BY <1>3, DoneInv

LEMMA CancelInv ==
  ASSUME Inv, NEW c \in Consumers, Cancel(c)
  PROVE  Inv'
<1>1. LoopInv'
  BY DEF Inv, LoopInv, Cancel, sliceVars
<1> QED BY <1>1, DoneInv DEF Cancel, sliceVars

-----------------------------------------------------------------------------
(* The invariant is inductive.                                             *)

LEMMA StepInv == Inv /\ [Next]_vars => Inv'
<1> SUFFICES ASSUME Inv, [Next]_vars PROVE Inv'
  OBVIOUS
<1>1. ASSUME NEW c \in Consumers, Enroll(c) \/ Finish(c) PROVE Inv'
  BY <1>1, EnrollInv, FinishInv
<1>2. ASSUME NEW c \in Consumers, Goes(c) PROVE Inv'
  BY <1>2, StoreInv, FindInv, RemoveInv, PanicInv, CancelInv DEF Goes, RemovePanics
<1>3. CASE Signal
  BY <1>3, SignalInv
<1>4. CASE Notify \/ NotifyPanics
  BY <1>4, NotifyInv, PanicInv DEF NotifyPanics
<1>5. CASE NotifyEnds \/ Wait
  BY <1>5, LoopMoves DEF NotifyEnds, Wait, sliceVars
<1>6. CASE UNCHANGED vars
  <2>1. /\ UNCHANGED <<arrays, slice, wg, consumer, header, index>>
        /\ UNCHANGED <<closed, cancelled, loop, crashed>>
    BY <1>6 DEF vars, sliceVars
  <2> QED BY <2>1, DoneInv, LoopStays
<1> QED BY <1>1, <1>2, <1>3, <1>4, <1>5, <1>6 DEF Next, Shutdown

\* Whatever headers goroutines hold over each other's writes, each reaches
\* notifiers only, as many as were ever enrolled at most.
THEOREM InvCorrect == Spec => []Inv
<1> QED BY InitInv, StepInv, PTL DEF Spec

\* The slice stays within its array, the loop of Done sends to notifiers and never
\* to a nil channel, where it would stay for ever, and the wait group counts.
THEOREM TypeOKCorrect == Spec => []TypeOK
<1>1. ASSUME Inv PROVE TypeOK
  <2>1. arrays \in Seq(Backings) /\ Len(arrays) \in Nat
    BY <1>1 DEF Inv, ArraysInv
  <2>2. ASSUME NEW a \in DOMAIN arrays, NEW k \in DOMAIN arrays[a]
        PROVE  arrays[a][k] \in Consumers \cup {None}
    <3>1. arrays[a] \in Backings
      BY <2>1
    <3> QED BY <3>1 DEF Backings, Cells
  <2>3. \A h : Solid(arrays, h) => h \in [array: 0 .. Len(arrays), len: Nat]
    BY DEF Solid, Headers
  <2>4. slice \in [array: 0 .. Len(arrays), len: 0 .. Cap(slice)]
    <3>1. Solid(arrays, slice) /\ slice \in Headers
      BY <1>1 DEF Inv, HeadersInv, Solid
    <3>2. slice.len \in 0 .. Cap(slice)
      <4>1. CASE slice.array = 0
        BY <3>1, <4>1 DEF Solid, Cap, Headers
      <4>2. CASE slice.array # 0
        <5>1. slice.array \in 1 .. Len(arrays)
          BY <2>1, <3>1, <4>2 DEF Solid, Headers
        <5>2. arrays[slice.array] \in Backings
          BY <2>1, <5>1
        <5>3. Len(arrays[slice.array]) \in Nat
          BY <5>2 DEF Backings
        <5> QED BY <3>1, <4>2, <5>3 DEF Solid, Cap, Headers
      <4> QED BY <4>1, <4>2
    <3> QED BY <3>1, <3>2 DEF Solid, Headers
  <2>5. header \in [Consumers -> [array: 0 .. Len(arrays), len: Nat]]
    <3>1. header \in [Consumers -> Headers] /\ \A c \in Consumers : Solid(arrays, header[c])
      BY <1>1 DEF Inv, HeadersInv
    <3> QED BY <2>3, <3>1
  <2>6. /\ consumer \in [Consumers -> PCs]
        /\ index \in [Consumers -> 0 .. Cardinality(Consumers)]
        /\ wg \in 0 .. Cardinality(Consumers)
    BY <1>1, Counts DEF Inv, ConsumersInv
  <2>7. loop \in [pc: {"idle", "notify", "wait", "done"},
                  range: [array: 0 .. Len(arrays), len: Nat], next: Nat]
    BY <1>1, <2>3 DEF Inv, LoopInv
  <2> QED BY <1>1, <2>2, <2>4, <2>5, <2>6, <2>7 DEF TypeOK, PCs, Inv, LoopInv
<1> QED BY <1>1, InvCorrect, PTL

=============================================================================
