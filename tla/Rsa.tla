-------------------------------- MODULE Rsa --------------------------------
(***************************************************************************)
(* Labs/lab8: two programs, client1 and client2, that are to exchange RSA- *)
(* encrypted texts over two UDP ports.  Each derives the same key pair,    *)
(* binds one port in main and one in its receive thread, encrypts a text   *)
(* and sends it.                                                           *)
(*                                                                         *)
(* main sends to the address cli_addr, which nothing ever fills: sendto()  *)
(* to port 0 fails and the program gives up.  What follows in the two      *)
(* loops (printing what came, receiving and decrypting) is not reached.    *)
(* A text is one of its letters.                                           *)
(***************************************************************************)
EXTENDS Integers

CONSTANT Letters      \* the characters that texts are made of

ASSUME RsaAssumption == Letters \subseteq 0..127

INT_MAX == 2147483647

-----------------------------------------------------------------------------
(* The arithmetic *)

\* Euclid's loop, on numbers up to phi: the divisor of a and h, which falls.
gcd[h \in 1..220] == [a \in 0..220 |-> IF a % h = 0 THEN h ELSE gcd[a % h][h]]

p   == 11
q   == 23
n   == p * q
phi == (p - 1) * (q - 1)

\* Mutant: the first e, coprime or not.
FirstE == 2

\* The first e above 1 that is coprime to phi.
e == CHOOSE x \in 2..phi : gcd[phi][x] = 1 /\ \A y \in 2..(x - 1) : gcd[phi][y] # 1

k == 2
d == (1 + k * phi) \div e

\* a^b mod c, as the loop computes it.
PowerMod(a, b, c) ==
    LET res[i \in 0..b] == IF i = 0 THEN 1 ELSE (res[i - 1] * a) % c IN res[b]

\* a^b as an int, or a number above INT_MAX \div a: it does not fit.
Fits(a, b) ==
    LET pow[i \in 0..b] == IF i = 0 THEN 1
                           ELSE IF pow[i - 1] > INT_MAX \div (a + 1) THEN INT_MAX
                           ELSE pow[i - 1] * a
    IN  pow[b] < INT_MAX

\* a^b.
Power(a, b) == LET pow[i \in 0..b] == IF i = 0 THEN 1 ELSE pow[i - 1] * a IN pow[b]

encrypt(m) == Power(m, e) % n

Char(x) == ((x + 128) % 256) - 128

\* The characters that decrypt() can give.  A power that does not fit an int has
\* no defined value: the processor gives the least int, or another the largest.
\* Their remainders are those of C++, with the sign of the dividend.
decrypt(c) ==
    IF Fits(c, d) THEN {Char(PowerMod(c, d, n) + 48)}
    ELSE {Char((INT_MAX % n) + 48), Char(((-INT_MAX - 1) % n) - n + 48)}

-----------------------------------------------------------------------------
(* The programs *)

Clients == 1..2
Ports   == {1153, 1155}

VARIABLES
    main,        \* control point of each client's main thread
    recv,        \* control point of its receive thread
    is_running,  \* its flag
    bound,       \* the client that holds each port, or 0
    letter,      \* what it sends, 0 before
    sendBuf      \* and that encrypted

vars == <<main, recv, is_running, bound, letter, sendBuf>>

Init ==
    /\ main = [c \in Clients |-> "start"] /\ recv = [c \in Clients |-> "none"]
    /\ is_running = [c \in Clients |-> TRUE] /\ bound = [x \in Ports |-> 0]
    /\ letter = [c \in Clients |-> 0] /\ sendBuf = [c \in Clients |-> 0]

destPort == <<1155, 1153>>
srcPort  == <<1153, 1155>>
Idle     == {"start", "ended", "failed"}

At(c, x) == main' = [main EXCEPT ![c] = x]

\* The process is over: so are both threads, and its ports are free.
End(c, how) ==
    /\ At(c, how) /\ recv' = [recv EXCEPT ![c] = "done"]
    /\ bound' = [x \in Ports |-> IF bound[x] = c THEN 0 ELSE bound[x]]

\* Keys and the handler of ctrl-C.
Start(c) ==
    /\ main[c] = "start" /\ At(c, "bind")
    /\ UNCHANGED <<recv, is_running, bound, letter, sendBuf>>

\* main binds the port it is to send to.
Bind(c) ==
    /\ main[c] = "bind"
    /\ IF bound[destPort[c]] = 0
       THEN At(c, "create") /\ bound' = [bound EXCEPT ![destPort[c]] = c] /\ recv' = recv
       ELSE End(c, "failed")
    /\ UNCHANGED <<is_running, letter, sendBuf>>

\* A thread that could not be created goes unnoticed.
Create(c) ==
    /\ main[c] = "create" /\ At(c, "loop")
    /\ \E x \in {"bind", "none"} : recv' = [recv EXCEPT ![c] = x]
    /\ UNCHANGED <<is_running, bound, letter, sendBuf>>

\* Without ctrl-C, which may come during the sleep before, a text is encrypted;
\* with it, the socket closed.
Loop(c) ==
    /\ main[c] = "loop"
    /\ \/ /\ is_running[c] /\ At(c, "send")
          /\ \E m \in Letters :
                 /\ letter' = [letter EXCEPT ![c] = m]
                 /\ sendBuf' = [sendBuf EXCEPT ![c] = encrypt(m)]
          /\ bound' = bound
       \/ /\ ~is_running[c] /\ At(c, "join")
          /\ bound' = [bound EXCEPT ![destPort[c]] = 0]
          /\ UNCHANGED <<letter, sendBuf>>
    /\ UNCHANGED <<recv, is_running>>

\* sendto() port 0 of no address.
Send(c) ==
    /\ main[c] = "send" /\ End(c, "failed")
    /\ UNCHANGED <<is_running, letter, sendBuf>>

\* A thread that was not created has no id to wait for: the wait may end in
\* any way.
Join(c) ==
    /\ main[c] = "join"
    /\ \/ recv[c] = "done" /\ End(c, "ended")
       \/ recv[c] = "none" /\ \E how \in {"ended", "failed"} : End(c, how)
    /\ UNCHANGED <<is_running, letter, sendBuf>>

\* The receive thread's port; when it is taken, exit() ends main too.
RecvBind(c) ==
    /\ recv[c] = "bind"
    /\ IF bound[srcPort[c]] = 0
       THEN /\ recv' = [recv EXCEPT ![c] = "loop"]
            /\ bound' = [bound EXCEPT ![srcPort[c]] = c] /\ main' = main
       ELSE End(c, "failed")
    /\ UNCHANGED <<is_running, letter, sendBuf>>

\* Mutant: the thread does not look at the flag.
RecvLoopForever(c) ==
    /\ recv[c] = "loop" /\ UNCHANGED vars

\* Nothing comes: recvfrom() fails, again and again, until ctrl-C.
RecvLoop(c) ==
    /\ recv[c] = "loop" /\ ~is_running[c]
    /\ recv' = [recv EXCEPT ![c] = "done"]
    /\ UNCHANGED <<main, is_running, bound, letter, sendBuf>>

Interrupt(c) ==
    /\ main[c] \notin Idle /\ is_running' = [is_running EXCEPT ![c] = FALSE]
    /\ UNCHANGED <<main, recv, bound, letter, sendBuf>>

MainStep(c) == Bind(c) \/ Create(c) \/ Loop(c) \/ Send(c) \/ Join(c)
RecvStep(c) == RecvBind(c) \/ RecvLoop(c)

Next == \E c \in Clients : Start(c) \/ MainStep(c) \/ RecvStep(c) \/ Interrupt(c)

Spec == Init /\ [][Next]_vars

\* Both threads of a client that was started are scheduled again and again.
FairSpec ==
    /\ Spec
    /\ \A c \in Clients : WF_vars(MainStep(c)) /\ WF_vars(RecvStep(c))

-----------------------------------------------------------------------------
(* Properties *)

\* The two keys belong together: what a client encrypts with e, exponentiation
\* with d modulo n turns back into the letter (client1.cpp:79-103, 212-217).
KeysFit == \A c \in Clients : sendBuf[c] # 0 => PowerMod(sendBuf[c], d, n) = letter[c]

\* A client that was started ends, in whatever order the two meet at the ports,
\* with ctrl-C or without (client1.cpp:137-202, 244-279).
EveryClientEnds == \A c \in Clients : main[c] \notin Idle ~> main[c] \in Idle
=============================================================================
