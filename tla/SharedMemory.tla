---------------------------- MODULE SharedMemory ----------------------------
(***************************************************************************)
(* Labs/lab7: three clients that pass messages to each other in one shared *)
(* memory segment under a named semaphore.  Each takes the semaphore       *)
(* NumMessages times; when the message there is for it, it reads it and    *)
(* writes its own in its place.  Client 3 starts everything: it gives the  *)
(* semaphore its token and writes the first message.  Each client, when it *)
(* ends, removes the semaphore's name and the segment.                     *)
(*                                                                         *)
(* A name that was removed is created anew by the next client that opens   *)
(* it: semaphores and segments are numbered in the order they are created, *)
(* and a client stays on the ones it opened.                               *)
(***************************************************************************)
EXTENDS Naturals, Sequences, FiniteSets

CONSTANTS NumMessages,     \* NUM_MESSAGES, 30 in client.h
          MaxInterrupts    \* bound: how often ctrl-C is pressed

ASSUME SharedMemoryAssumption == NumMessages \in Nat /\ MaxInterrupts \in Nat

Clients == 1..3

VARIABLES
    pc,           \* control point of each client
    i,            \* its loop counter
    is_running,   \* its loop flag
    ShmID,        \* the segment it is attached to
    sem_id,       \* the semaphore it opened
    got,          \* the sender and the message it last read
    shmName,      \* the segment that ftok()'s key leads to, or 0
    semName,      \* the semaphore that "sharedMsg" leads to, or 0
    Memory,       \* the segments
    sem,          \* the values of the semaphores
    interrupts,   \* counter for the bound
    forged        \* history: how many sem_wait() calls ctrl-C has ended

client == <<pc, i, is_running, ShmID, sem_id, got>>
system == <<shmName, semName, Memory, sem>>
counts == <<interrupts, forged>>
vars   == <<client, system, counts>>

\* A message is its writer and number; a fresh segment is all zeroes.
NoMessage == <<0, 0>>
Fresh     == [srcClientNo |-> 0, destClientNo |-> 0, message |-> NoMessage]

InitialWrite == {"firstSrc", "firstDest", "firstMessage"}
Inside       == {"check", "read", "src", "dest", "message", "post"}
Init ==
    /\ pc = [c \in Clients |-> "attach"] /\ i = [c \in Clients |-> 0]
    /\ is_running = [c \in Clients |-> TRUE]
    /\ ShmID = [c \in Clients |-> 0] /\ sem_id = [c \in Clients |-> 0]
    /\ got = [c \in Clients |-> [from |-> 0, message |-> NoMessage]]
    /\ shmName = 0 /\ semName = 0 /\ Memory = <<>> /\ sem = <<>>
    /\ interrupts = 0 /\ forged = 0

Goto(c, p)    == pc' = [pc EXCEPT ![c] = p]
Mine(c)       == Memory[ShmID[c]]
Write(c, f, v) == Memory' = [Memory EXCEPT ![ShmID[c]][f] = v]
Post(c)       == sem' = [sem EXCEPT ![sem_id[c]] = @ + 1]

-----------------------------------------------------------------------------
(* Start *)

\* shmget(IPC_CREAT) and shmat().
Attach(c) ==
    /\ pc[c] = "attach" /\ Goto(c, "open")
    /\ IF shmName = 0
       THEN Memory' = Append(Memory, Fresh) /\ shmName' = Len(Memory')
       ELSE UNCHANGED <<Memory, shmName>>
    /\ ShmID' = [ShmID EXCEPT ![c] = shmName']
    /\ UNCHANGED <<i, is_running, sem_id, got, semName, sem, counts>>

\* Mutant: the semaphore starts with a token of its own.
OpenWithToken(c) ==
    /\ pc[c] = "open" /\ Goto(c, IF c = 3 THEN "firstPost" ELSE "loop")
    /\ IF semName = 0
       THEN sem' = Append(sem, 1) /\ semName' = Len(sem')
       ELSE UNCHANGED <<sem, semName>>
    /\ sem_id' = [sem_id EXCEPT ![c] = semName']
    /\ UNCHANGED <<i, is_running, ShmID, got, shmName, Memory, counts>>

\* sem_open(O_CREAT) with the initial value 0.
Open(c) ==
    /\ pc[c] = "open" /\ Goto(c, IF c = 3 THEN "firstPost" ELSE "loop")
    /\ IF semName = 0
       THEN sem' = Append(sem, 0) /\ semName' = Len(sem')
       ELSE UNCHANGED <<sem, semName>>
    /\ sem_id' = [sem_id EXCEPT ![c] = semName']
    /\ UNCHANGED <<i, is_running, ShmID, got, shmName, Memory, counts>>

\* Client 3 posts before it writes the first message.
FirstPost(c) ==
    /\ pc[c] = "firstPost" /\ Goto(c, "firstSrc") /\ Post(c)
    /\ UNCHANGED <<i, is_running, ShmID, sem_id, got, shmName, semName, Memory, counts>>

FirstWrite(c) ==
    /\ \/ pc[c] = "firstSrc" /\ Goto(c, "firstDest") /\ Write(c, "srcClientNo", c)
       \/ pc[c] = "firstDest" /\ Goto(c, "firstMessage") /\ Write(c, "destClientNo", 1)
       \/ pc[c] = "firstMessage" /\ Goto(c, "loop") /\ Write(c, "message", <<c, 0>>)
    /\ UNCHANGED <<i, is_running, ShmID, sem_id, got, shmName, semName, sem, counts>>

-----------------------------------------------------------------------------
(* The loop *)

Loop(c) ==
    /\ pc[c] = "loop"
    /\ Goto(c, IF i[c] < NumMessages /\ is_running[c] THEN "wait" ELSE "unlink")
    /\ UNCHANGED <<i, is_running, ShmID, sem_id, got, system, counts>>

\* Mutant: the semaphore is looked at but not taken.
WaitNoDecrement(c) ==
    /\ pc[c] = "wait" /\ sem[sem_id[c]] > 0
    /\ Goto(c, "check")
    /\ UNCHANGED <<i, is_running, ShmID, sem_id, got, system, counts>>

Wait(c) ==
    /\ pc[c] = "wait" /\ sem[sem_id[c]] > 0
    /\ Goto(c, "check") /\ sem' = [sem EXCEPT ![sem_id[c]] = @ - 1]
    /\ UNCHANGED <<i, is_running, ShmID, sem_id, got, shmName, semName, Memory, counts>>

\* Mutant: who has nothing to read does not give the semaphore back.
CheckNoPost(c) ==
    /\ pc[c] = "check"
    /\ IF Mine(c).destClientNo = c
       THEN Goto(c, "read") /\ i' = i
       ELSE Goto(c, "loop") /\ i' = [i EXCEPT ![c] = @ + 1]
    /\ UNCHANGED <<is_running, ShmID, sem_id, got, system, counts>>

Check(c) ==
    /\ pc[c] = "check"
    /\ Goto(c, IF Mine(c).destClientNo = c THEN "read" ELSE "post")
    /\ UNCHANGED <<i, is_running, ShmID, sem_id, got, system, counts>>

Read(c) ==
    /\ pc[c] = "read" /\ Goto(c, "src")
    /\ got' = [got EXCEPT ![c] = [from |-> Mine(c).srcClientNo, message |-> Mine(c).message]]
    /\ UNCHANGED <<i, is_running, ShmID, sem_id, system, counts>>

\* 2 + i % 2, 1 + 2 * (i % 2) and 1 + i % 2.
Dest(c) == LET odd == i[c] % 2 IN <<2 + odd, 1 + 2 * odd, 1 + odd>>[c]

Answer(c) ==
    /\ \/ pc[c] = "src" /\ Goto(c, "dest") /\ Write(c, "srcClientNo", c)
       \/ pc[c] = "dest" /\ Goto(c, "message") /\ Write(c, "destClientNo", Dest(c))
       \/ pc[c] = "message" /\ Goto(c, "post") /\ Write(c, "message", <<c, i[c] + 1>>)
    /\ UNCHANGED <<i, is_running, ShmID, sem_id, got, shmName, semName, sem, counts>>

Release(c) ==
    /\ pc[c] = "post" /\ Goto(c, "loop")
    /\ Post(c) /\ i' = [i EXCEPT ![c] = @ + 1]
    /\ UNCHANGED <<is_running, ShmID, sem_id, got, shmName, semName, Memory, counts>>

-----------------------------------------------------------------------------
(* The end *)

\* sem_unlink() removes the name, whichever semaphore it now leads to.
Unlink(c) ==
    /\ pc[c] = "unlink" /\ Goto(c, "remove")
    /\ semName' = 0
    /\ UNCHANGED <<i, is_running, ShmID, sem_id, got, shmName, Memory, sem, counts>>

\* shmctl(IPC_RMID) removes the client's own segment; who is attached to it
\* keeps it.
Remove(c) ==
    /\ pc[c] = "remove" /\ Goto(c, "ended")
    /\ shmName' = IF shmName = ShmID[c] THEN 0 ELSE shmName
    /\ UNCHANGED <<i, is_running, ShmID, sem_id, got, semName, Memory, sem, counts>>

\* SIGINT; sa_flags is 0, so a sem_wait() that waits fails, and the client goes
\* on as if it had the semaphore.
Interrupt(c) ==
    /\ interrupts < MaxInterrupts /\ pc[c] # "ended"
    /\ interrupts' = interrupts + 1
    /\ is_running' = [is_running EXCEPT ![c] = FALSE]
    /\ IF pc[c] = "wait" /\ sem[sem_id[c]] = 0
       THEN Goto(c, "check") /\ forged' = forged + 1
       ELSE pc' = pc /\ forged' = forged
    /\ UNCHANGED <<i, ShmID, sem_id, got, system>>

Start(c) == Attach(c) \/ Open(c) \/ FirstPost(c) \/ FirstWrite(c)
Pass(c)  == Loop(c) \/ Wait(c) \/ Check(c) \/ Read(c) \/ Answer(c) \/ Release(c)
Leave(c) == Unlink(c) \/ Remove(c)
Step(c)  == Start(c) \/ Pass(c) \/ Leave(c)

Next == \E c \in Clients : Step(c) \/ Interrupt(c)

Spec == Init /\ [][Next]_vars

\* Every client is scheduled again and again.
FairSpec == Spec /\ \A c \in Clients : WF_vars(Step(c))

-----------------------------------------------------------------------------
(* Properties *)

Holders(k) == {c \in Clients : sem_id[c] = k /\ pc[c] \in Inside}

\* Every semaphore has one token, at the semaphore or with a client in its
\* section, whatever the order in which clients start, end, remove the name and
\* create it anew; one more for every sem_wait() that ctrl-C ended, and for
\* nothing else (client1.cpp:60-81, client3.cpp:63-65).
TokensAccounted ==
    \A k \in 1..Len(sem) : sem[k] + Cardinality(Holders(k)) <= 1 + forged

\* client3.cpp:72, "Synchronize processes with semaphores": the message a client
\* is about to read was written by the sender it reads with it.  The exception
\* is client 3's first message, which client 3 writes after it posted; and
\* nothing is promised once ctrl-C has let somebody in without the token.
MessageWhole ==
    \A c \in Clients :
        (pc[c] = "read" /\ forged = 0 /\ pc[3] \notin InitialWrite)
            => Mine(c).message[1] = Mine(c).srcClientNo \/ Mine(c).message = <<3, 0>>

\* All three clients are on one semaphore.
Together == \A c, d \in Clients : sem_id[c] # 0 /\ sem_id[c] = sem_id[d]

\* Three clients that found each other all end: nobody keeps the semaphore and
\* nobody is left waiting for it when another has ended and removed its name.
TogetherEnd == Together ~> \A c \in Clients : pc[c] = "ended"
=============================================================================
