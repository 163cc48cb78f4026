-------------------------------- MODULE Post --------------------------------
(***************************************************************************)
(* What the dispatcher of Labs/lab6 promises its clients: a post in which  *)
(* each client numbers its letters from 1 and addresses them to the other  *)
(* two in turn.  Letters may be lost.  A client whose box is open is given *)
(* only letters to it, and those of one sender in the order of their       *)
(* numbers, none twice.  To one whose box was closed, by a failed call, no *)
(* new letter is given: it may find its last one again, any number of      *)
(* times, or something nobody wrote.                                       *)
(***************************************************************************)
EXTENDS Naturals, Sequences

CONSTANT Clients     \* some of 1..3

VARIABLES
    sent,    \* how many letters each client has written
    open,    \* the clients' boxes that are open
    got      \* the letters each client was given

vars == <<sent, open, got>>

\* The k-th letter of s is for the next one in the circle of the three, or for
\* the one after that.
Receiver(s, k) == IF k % 2 = 1 THEN (s % 3) + 1 ELSE ((s + 1) % 3) + 1

Letter(s, d, k) == [source |-> s, dest |-> d, id |-> k]
Nobody          == Letter(0, 0, 0)

\* The numbers of the letters that s wrote to d.
Written(s, d) == {k \in 1..sent[s] : s # d /\ Receiver(s, k) = d}

Init ==
    /\ sent = [c \in Clients |-> 0] /\ open = [c \in Clients |-> TRUE]
    /\ got = [c \in Clients |-> <<>>]

Write(c) == sent' = [sent EXCEPT ![c] = @ + 1] /\ UNCHANGED <<open, got>>
Close(c) == open' = [open EXCEPT ![c] = FALSE] /\ UNCHANGED <<sent, got>>

Give(d, x) == got' = [got EXCEPT ![d] = Append(@, x)] /\ UNCHANGED <<sent, open>>

Deliver(d) ==
    /\ open[d]
    /\ \E s \in Clients : \E k \in Written(s, d) :
           /\ \A i \in 1..Len(got[d]) : got[d][i].source = s => got[d][i].id < k
           /\ Give(d, Letter(s, d, k))

Find(d) ==
    /\ ~open[d]
    /\ \/ Give(d, Nobody)
       \/ got[d] # <<>> /\ Give(d, got[d][Len(got[d])])

Next == \E c \in Clients : Write(c) \/ Close(c) \/ Deliver(c) \/ Find(c)

Spec == Init /\ [][Next]_vars
=============================================================================
