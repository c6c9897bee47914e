-------------------------- MODULE TokenCollections --------------------------
(***************************************************************************)
(* What the NFT contracts promise to whoever holds or reads their tokens:  *)
(* in each collection the ids 0, 1, 2, ... are issued in order and once,   *)
(* never more of them are held than the collection's cap, the cap is only  *)
(* raised, and the text of an id stays what it was when it was issued,     *)
(* also after the token has been burnt.                                    *)
(***************************************************************************)
EXTENDS Naturals, FiniteSets

CONSTANT Collections

VARIABLES
    cap,     \* collection -> tokens that may be held; 0 before it is opened
    issued,  \* collection -> ids issued so far: 0 .. issued - 1
    text,    \* collection -> the text of each of them
    held     \* collection -> those that are held

vars == <<cap, issued, text, held>>

Init ==
    /\ cap = [c \in Collections |-> 0]
    /\ issued = [c \in Collections |-> 0]
    /\ text = [c \in Collections |-> <<>>]
    /\ held = [c \in Collections |-> {}]

Open ==
    /\ cap' \in [Collections -> Nat]
    /\ \A c \in Collections : cap'[c] # cap[c] => cap[c] = 0
    /\ UNCHANGED <<issued, text, held>>

Raise(c) ==
    /\ cap'[c] >= cap[c]
    /\ cap' = [cap EXCEPT ![c] = cap'[c]]
    /\ UNCHANGED <<issued, text, held>>

Issue(c) ==
    /\ issued'[c] >= issued[c]
    /\ issued' = [issued EXCEPT ![c] = issued'[c]]
    /\ text' = [text EXCEPT ![c] = text'[c]]
    /\ DOMAIN text'[c] = 0 .. (issued'[c] - 1)
    /\ \A i \in DOMAIN text[c] : text'[c][i] = text[c][i]
    /\ held' = [held EXCEPT ![c] = @ \cup (issued[c] .. (issued'[c] - 1))]
    /\ Cardinality(held'[c]) <= cap[c]
    /\ UNCHANGED cap

Burn(c) ==
    /\ \E i \in held[c] : held' = [held EXCEPT ![c] = @ \ {i}]
    /\ UNCHANGED <<cap, issued, text>>

Next == Open \/ \E c \in Collections : Raise(c) \/ Issue(c) \/ Burn(c)

Spec == Init /\ [][Next]_vars

=============================================================================
