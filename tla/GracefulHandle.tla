--------------------------- MODULE GracefulHandle ---------------------------
(***************************************************************************)
(* signer-backend, pkg/context/graceful.go: how the goroutines that await  *)
(* transactions are told of a shutdown.  WithGraceful puts a notifier (an  *)
(* unbuffered channel with a goroutine that listens to it) on the slice    *)
(* h.shutdownNotifiers, a goroutine takes it off when the consumer is      *)
(* done, and Done ranges over the slice, all without a lock.               *)
(*                                                                         *)
(* A slice is a header, the number of its backing array and a length; a    *)
(* removal shifts the array in place, under whoever holds an older header. *)
(* The data race on the header is modelled as far as reads and writes of   *)
(* it interleave; torn headers, which the build can also produce, are not. *)
(***************************************************************************)
EXTENDS Naturals, Sequences, FiniteSets

CONSTANTS
    Consumers,  \* calls of WithGraceful
    None        \* a nil channel

ASSUME GracefulAssumption == None \notin Consumers /\ IsFiniteSet(Consumers)

VARIABLES
    arrays,     \* the backing arrays ever allocated
    slice,      \* h.shutdownNotifiers
    consumer,   \* control points of WithGraceful and its clean-up goroutine
    header,     \* the header a consumer has read
    index,      \* the index a consumer has found, 0 for Go's -1
    closed,     \* notifiers that were sent to and closed
    cancelled,  \* consumers whose context is cancelled
    wg,         \* h.wg
    loop,       \* the goroutine of Done, with the header it ranges over
    crashed     \* has a goroutine panicked?

sliceVars == <<arrays, slice, wg>>
vars == <<sliceVars, consumer, header, index, closed, cancelled, loop, crashed>>

-----------------------------------------------------------------------------
Empty == [array |-> 0, len |-> 0]

Init ==
    /\ arrays = <<>>
    /\ slice = Empty
    /\ consumer = [c \in Consumers |-> "new"]
    /\ header = [c \in Consumers |-> Empty]
    /\ index = [c \in Consumers |-> 0]
    /\ closed = {}
    /\ cancelled = {}
    /\ wg = 0
    /\ loop = [pc |-> "idle", range |-> Empty, next |-> 1]
    /\ crashed = FALSE

Cap(h) == IF h.array = 0 THEN 0 ELSE Len(arrays[h.array])

\* The process runs until a goroutine panics or main returns.
Up == ~crashed /\ loop.pc # "done"

At(c, pc) == Up /\ consumer[c] = pc

Goto(c, pc) == consumer' = [consumer EXCEPT ![c] = pc]

-----------------------------------------------------------------------------
(* WithGraceful.                                                           *)

\* append reads the header ...
Enroll(c) ==
    /\ At(c, "new")
    /\ header' = [header EXCEPT ![c] = slice]
    /\ Goto(c, "append")
    /\ UNCHANGED <<sliceVars, index, closed, cancelled, loop, crashed>>

\* A full array is copied to one of twice the size.
Grown(h, c) ==
    [k \in 1 .. IF h.len = 0 THEN 1 ELSE 2 * h.len |->
        IF k <= h.len THEN arrays[h.array][k] ELSE IF k = h.len + 1 THEN c ELSE None]

\* ... and writes the element and the header.
Store(c) ==
    /\ At(c, "append")
    /\ LET h == header[c] IN
       IF h.len < Cap(h)
       THEN /\ arrays' = [arrays EXCEPT ![h.array][h.len + 1] = c]
            /\ slice' = [array |-> h.array, len |-> h.len + 1]
       ELSE /\ arrays' = Append(arrays, Grown(h, c))
            /\ slice' = [array |-> Len(arrays) + 1, len |-> h.len + 1]
    /\ wg' = wg + 1
    /\ header' = [header EXCEPT ![c] = Empty]
    /\ Goto(c, "running")
    /\ UNCHANGED <<index, closed, cancelled, loop, crashed>>

\* The consumer is done, told to stop or not, and calls its CancelFunc.
Finish(c) ==
    /\ At(c, "running")
    /\ wg' = wg - 1
    /\ Goto(c, "index")
    /\ UNCHANGED <<arrays, slice, header, index, closed, cancelled, loop, crashed>>

\* slices.Index
Find(c) ==
    /\ At(c, "index")
    /\ LET found == {k \in 1 .. slice.len : arrays[slice.array][k] = c}
       IN  index' = [index EXCEPT ![c] =
                IF found = {} THEN 0 ELSE CHOOSE k \in found : \A j \in found : k <= j]
    /\ Goto(c, "remove")
    /\ UNCHANGED <<sliceVars, header, closed, cancelled, loop, crashed>>

\* Mutant: a notifier that is not there is removed without a panic.
RemoveMissing(c) ==
    /\ At(c, "remove")
    /\ slice' = [slice EXCEPT !.len = @ - 1]
    /\ Goto(c, "gone")
    /\ UNCHANGED <<arrays, wg, header, index, closed, cancelled, loop, crashed>>

\* append(s[:idx], s[idx+1:]...) of the slice as it is by now.
Remove(c) ==
    /\ At(c, "remove")
    /\ index[c] \in 1 .. slice.len
    /\ arrays' = [arrays EXCEPT ![slice.array] =
            [k \in DOMAIN @ |->
                IF k \in index[c] .. slice.len - 1 THEN @[k + 1] ELSE @[k]]]
    /\ slice' = [slice EXCEPT !.len = @ - 1]
    /\ index' = [index EXCEPT ![c] = 0]
    /\ Goto(c, "gone")
    /\ UNCHANGED <<wg, header, closed, cancelled, loop, crashed>>

Panic ==
    /\ crashed' = TRUE
    /\ UNCHANGED <<sliceVars, consumer, header, index, closed, cancelled, loop>>

\* A bound is out of range.
RemovePanics(c) ==
    /\ At(c, "remove")
    /\ index[c] \notin 1 .. slice.len
    /\ Panic

-----------------------------------------------------------------------------
(* Done.                                                                   *)

\* The signal: range evaluates the slice once.
Signal ==
    /\ Up
    /\ loop.pc = "idle"
    /\ loop' = [pc |-> "notify", range |-> slice, next |-> 1]
    /\ UNCHANGED <<sliceVars, consumer, header, index, closed, cancelled, crashed>>

Notifying == Up /\ loop.pc = "notify"

Current == arrays[loop.range.array][loop.next]

\* Mutant: nobody listens once the consumer is done.
NotifyListening ==
    /\ Notifying
    /\ loop.next <= loop.range.len
    /\ Current \notin closed
    /\ Current = None \/ consumer[Current] = "running"
    /\ closed' = closed \cup {Current}
    /\ loop' = [loop EXCEPT !.next = @ + 1]
    /\ UNCHANGED <<sliceVars, consumer, header, index, cancelled, crashed>>

\* The goroutine that listens stays there when its consumer is done.
Notify ==
    /\ Notifying
    /\ loop.next <= loop.range.len
    /\ Current \notin closed
    /\ closed' = closed \cup {Current}
    /\ loop' = [loop EXCEPT !.next = @ + 1]
    /\ UNCHANGED <<sliceVars, consumer, header, index, cancelled, crashed>>

\* Send on a closed channel.
NotifyPanics ==
    /\ Notifying
    /\ loop.next <= loop.range.len
    /\ Current \in closed
    /\ Panic

NotifyEnds ==
    /\ Notifying
    /\ loop.next > loop.range.len
    /\ loop' = [loop EXCEPT !.pc = "wait"]
    /\ UNCHANGED <<sliceVars, consumer, header, index, closed, cancelled, crashed>>

\* notifierCancel
Cancel(c) ==
    /\ Up
    /\ c \in closed \ cancelled
    /\ cancelled' = cancelled \cup {c}
    /\ UNCHANGED <<sliceVars, consumer, header, index, closed, loop, crashed>>

\* All are completed, or the timeout of ten seconds is over, long after every
\* goroutine that was notified has run.
Wait ==
    /\ Up
    /\ loop.pc = "wait"
    /\ wg = 0 \/ closed \subseteq cancelled
    /\ loop' = [loop EXCEPT !.pc = "done"]
    /\ UNCHANGED <<sliceVars, consumer, header, index, closed, cancelled, crashed>>

-----------------------------------------------------------------------------
Goes(c) == Store(c) \/ Find(c) \/ Remove(c) \/ RemovePanics(c) \/ Cancel(c)

Shutdown == Notify \/ NotifyPanics \/ NotifyEnds \/ Wait

Next ==
    \/ \E c \in Consumers : Enroll(c) \/ Finish(c) \/ Goes(c)
    \/ Signal
    \/ Shutdown

Spec == Init /\ [][Next]_vars

\* Goroutines run; a consumer need not heed its context.
FairSpec ==
    /\ Spec
    /\ \A c \in Consumers : WF_vars(Goes(c))
    /\ WF_vars(Shutdown)

-----------------------------------------------------------------------------
(* Properties.                                                             *)

TypeOK ==
    /\ \A a \in DOMAIN arrays : \A k \in DOMAIN arrays[a] : arrays[a][k] \in Consumers \cup {None}
    /\ slice \in [array: 0 .. Len(arrays), len: 0 .. Cap(slice)]
    /\ consumer \in [Consumers -> {"new", "append", "running", "index", "remove", "gone"}]
    /\ header \in [Consumers -> [array: 0 .. Len(arrays), len: Nat]]
    /\ index \in [Consumers -> 0 .. Cardinality(Consumers)]
    /\ closed \subseteq Consumers
    /\ cancelled \subseteq closed
    /\ wg \in 0 .. Cardinality(Consumers)
    /\ loop \in [pc: {"idle", "notify", "wait", "done"},
                 range: [array: 0 .. Len(arrays), len: Nat], next: Nat]
    /\ crashed \in BOOLEAN

\* Whatever the interleaving, a shutdown is not held up: each notifier the loop
\* of Done meets, stale ones too, has a goroutine that receives.
ShutdownEnds == loop.pc = "notify" ~> loop.pc = "done" \/ crashed

=============================================================================
