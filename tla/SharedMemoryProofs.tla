-------------------------- MODULE SharedMemoryProofs --------------------------
(* The tokens of the semaphores and the messages in the segments, for any   *)
(* number of turns and interrupts.                                         *)
EXTENDS SharedMemory, FiniteSetTheorems, TLAPS

Outside == {"attach", "open", "firstPost", "loop", "wait", "unlink", "remove", "ended"}
               \cup InitialWrite

\* The part of the types that the tokens depend on.
SemTypes ==
    /\ pc \in [Clients -> Outside \cup Inside]
    /\ sem \in Seq(Nat) /\ semName \in 0..Len(sem)
    /\ sem_id \in [Clients -> 0..Len(sem)] /\ forged \in Nat

\* A client is on no semaphore before it opened one, and on one of those that
\* were created afterwards; only client 3 gives the first token and writes the
\* first message.
OpenInv ==
    \A c \in Clients :
        /\ pc[c] \in {"attach", "open"} <=> sem_id[c] = 0
        /\ pc[c] \in {"firstPost"} \cup InitialWrite => c = 3

\* What client 3 has given semaphore k.
Given(k) == IF sem_id[3] = k /\ pc[3] \notin {"attach", "open", "firstPost"} THEN 1 ELSE 0

TokenInv == \A k \in 1..Len(sem) : sem[k] + Cardinality(Holders(k)) <= Given(k) + forged

Text    == Nat \X Nat
Segment == [srcClientNo : Nat, destClientNo : Nat, message : Text]

\* The types of the segments, and who is attached to one.
SegTypes ==
    /\ Memory \in Seq(Segment) /\ shmName \in 0..Len(Memory)
    /\ ShmID \in [Clients -> 0..Len(Memory)] /\ i \in [Clients -> Nat]
    /\ \A c \in Clients : pc[c] = "attach" <=> ShmID[c] = 0

Writing   == {"dest", "message"}
Beginning == {"attach", "open", "firstPost", "firstSrc", "firstDest"}

\* Before client 3 has named a receiver, nobody finds a message.
Begun ==
    pc[3] \in Beginning =>
        /\ \A g \in 1..Len(Memory) : Memory[g].destClientNo = 0
        /\ \A c \in Clients : pc[c] \notin {"read", "src"} \cup Writing

\* Who has written its number finds it there until it is done.
Signed == \A c \in Clients : pc[c] \in Writing => Memory[ShmID[c]].srcClientNo = c

\* A segment whose message is not its sender's is in somebody's work.
Whole(m)  == m.message[1] = m.srcClientNo \/ m.message = <<3, 0>>
InWork(g) == \/ \E c \in Clients : ShmID[c] = g /\ pc[c] \in Writing
             \/ ShmID[3] = g /\ pc[3] \in {"firstDest", "firstMessage"}
Settled   == \A g \in 1..Len(Memory) : Whole(Memory[g]) \/ InWork(g)

SectionInv == forged = 0 => Begun /\ Signed /\ Settled

IInv == SemTypes /\ OpenInv /\ TokenInv /\ SegTypes /\ SectionInv

-----------------------------------------------------------------------------
\* Holders are clients, of which there are three.
LEMMA HoldersFinite ==
    \A k : IsFiniteSet(Holders(k)) /\ Cardinality(Holders(k)) \in Nat
<1> SUFFICES ASSUME NEW k PROVE IsFiniteSet(Holders(k)) /\ Cardinality(Holders(k)) \in Nat
    OBVIOUS
<1>1. IsFiniteSet(Clients)
  <2>1. 1 \in Int /\ 3 \in Int
    OBVIOUS
  <2>2. IsFiniteSet(1..3)
    BY <2>1, FS_Interval, Zenon
  <2> QED
    BY <2>2 DEF Clients
<1>2. Holders(k) \subseteq Clients
  BY DEF Holders
<1>3. IsFiniteSet(Holders(k))
  BY <1>1, <1>2, FS_Subset
<1> QED
  BY <1>3, FS_CardinalityType

\* A client comes into its section.
LEMMA Enter ==
    ASSUME NEW c \in Clients, UNCHANGED sem_id, pc[c] \notin Inside, pc'[c] \in Inside,
           \A d \in Clients : d # c => pc'[d] = pc[d], NEW k
    PROVE  Cardinality(Holders(k))' = Cardinality(Holders(k)) + (IF sem_id[c] = k THEN 1 ELSE 0)
<1>1. CASE sem_id[c] = k
  <2>1. Holders(k)' = Holders(k) \cup {c} /\ c \notin Holders(k)
    BY <1>1 DEF Holders
  <2> QED
    BY <1>1, <2>1, HoldersFinite, FS_AddElement
<1>2. CASE sem_id[c] # k
  <2>1. Holders(k)' = Holders(k)
    BY <1>2 DEF Holders
  <2> QED
    BY <1>2, <2>1, HoldersFinite
<1> QED
  BY <1>1, <1>2

\* A client leaves its section.
LEMMA LeaveSection ==
    ASSUME NEW c \in Clients, UNCHANGED sem_id, pc[c] \in Inside, pc'[c] \notin Inside,
           \A d \in Clients : d # c => pc'[d] = pc[d], NEW k
    PROVE  Cardinality(Holders(k))' = Cardinality(Holders(k)) - (IF sem_id[c] = k THEN 1 ELSE 0)
<1>1. CASE sem_id[c] = k
  <2>1. Holders(k)' = Holders(k) \ {c} /\ c \in Holders(k)
    BY <1>1 DEF Holders
  <2> QED
    BY <1>1, <2>1, HoldersFinite, FS_RemoveElement
<1>2. CASE sem_id[c] # k
  <2>1. Holders(k)' = Holders(k)
    BY <1>2 DEF Holders
  <2> QED
    BY <1>2, <2>1, HoldersFinite
<1> QED
  BY <1>1, <1>2

\* A step outside of the section, or within it, that has nothing to do with tokens.
LEMMA TokenSame ==
    ASSUME TokenInv, SemTypes, UNCHANGED <<sem, sem_id, forged>>,
           \A c \in Clients : pc'[c] \in Inside <=> pc[c] \in Inside,
           pc[3] \notin {"attach", "open", "firstPost"} =>
               pc'[3] \notin {"attach", "open", "firstPost"}
    PROVE  TokenInv'
<1> SUFFICES ASSUME NEW k \in 1..Len(sem)
             PROVE  sem[k] + Cardinality(Holders(k))' <= Given(k)' + forged
  BY DEF TokenInv
<1>1. Holders(k)' = Holders(k)
  BY DEF Holders
<1>2. Given(k) \in Int /\ Given(k)' \in Int /\ Given(k) <= Given(k)'
  BY DEF Given
<1>3. sem[k] + Cardinality(Holders(k)) <= Given(k) + forged /\ sem[k] \in Nat /\ forged \in Nat
  BY DEF TokenInv, SemTypes
<1> QED
  BY <1>1, <1>2, <1>3, HoldersFinite

-----------------------------------------------------------------------------
\* A semaphore more, and one with another value.
LEMMA SemAppend ==
    ASSUME NEW q \in Seq(Nat)
    PROVE  Append(q, 0) \in Seq(Nat) /\ Len(Append(q, 0)) = Len(q) + 1
OBVIOUS

LEMMA SemUpdate ==
    ASSUME NEW q \in Seq(Nat), NEW x \in 1..Len(q), NEW v \in Nat
    PROVE  [q EXCEPT ![x] = v] \in Seq(Nat) /\ Len([q EXCEPT ![x] = v]) = Len(q)
OBVIOUS

\* Every step keeps the types and who is on which semaphore.
LEMMA TypeStep == SemTypes /\ OpenInv /\ [Next]_vars => SemTypes' /\ OpenInv'
<1> SUFFICES ASSUME SemTypes, OpenInv, [Next]_vars PROVE SemTypes' /\ OpenInv'
    OBVIOUS
<1> USE DEF SemTypes, OpenInv, Outside, Inside, InitialWrite, Goto, client, system, counts
<1>1. ASSUME NEW c \in Clients, Attach(c) \/ FirstWrite(c) \/ Loop(c) \/ Check(c) \/ Read(c) \/ Answer(c)
      PROVE  SemTypes' /\ OpenInv'
  BY <1>1 DEF Attach, FirstWrite, Loop, Check, Read, Answer
<1>2. ASSUME NEW c \in Clients, Open(c) PROVE SemTypes' /\ OpenInv'
  <2>1. CASE semName = 0
    <3>1. sem' = Append(sem, 0) /\ sem' \in Seq(Nat) /\ Len(sem') = Len(sem) + 1 /\ semName' = Len(sem')
      <4>1. sem' = Append(sem, 0) /\ semName' = Len(sem') /\ sem \in Seq(Nat)
        BY <1>2, <2>1 DEF Open
      <4> QED
        BY <4>1, SemAppend
    <3>2. sem_id' = [sem_id EXCEPT ![c] = Len(sem) + 1] /\ forged' = forged
      BY <1>2, <3>1 DEF Open
    <3>3. pc' = [pc EXCEPT ![c] = IF c = 3 THEN "firstPost" ELSE "loop"]
      BY <1>2 DEF Open
    <3>4. Len(sem) \in Nat /\ 0..Len(sem) \subseteq 0..Len(sem')
      BY <3>1
    <3>5. sem_id' \in [Clients -> 0..Len(sem')]
      BY <3>1, <3>2, <3>4
    <3>6. SemTypes'
      BY <3>1, <3>2, <3>3, <3>5
    <3>7. OpenInv'
      BY <3>2, <3>3, <3>4
    <3> QED
      BY <3>6, <3>7
  <2>2. CASE semName # 0
    BY <1>2, <2>2 DEF Open
  <2> QED
    BY <2>1, <2>2
<1>3. ASSUME NEW c \in Clients, FirstPost(c) \/ Release(c) PROVE SemTypes' /\ OpenInv'
  <2>1. sem' \in Seq(Nat) /\ Len(sem') = Len(sem)
    <3>1. sem \in Seq(Nat) /\ sem_id[c] \in 1..Len(sem)
      BY <1>3 DEF FirstPost, Release
    <3>2. sem[sem_id[c]] + 1 \in Nat
      BY <3>1
    <3>3. sem' = [sem EXCEPT ![sem_id[c]] = sem[sem_id[c]] + 1]
      BY <1>3 DEF FirstPost, Release, Post
    <3> QED
      BY <3>1, <3>2, <3>3, SemUpdate
  <2> QED
    BY <1>3, <2>1 DEF FirstPost, Release
<1>4. ASSUME NEW c \in Clients, Wait(c) PROVE SemTypes' /\ OpenInv'
  <2>1. sem' \in Seq(Nat) /\ Len(sem') = Len(sem)
    BY <1>4 DEF Wait
  <2> QED
    BY <1>4, <2>1 DEF Wait
<1>5. ASSUME NEW c \in Clients, Unlink(c) \/ Remove(c) \/ Interrupt(c) PROVE SemTypes' /\ OpenInv'
  <2>1. CASE Unlink(c) \/ Remove(c)
    <3>1. /\ UNCHANGED <<sem, sem_id, forged>> /\ semName' \in {0, semName} /\ Len(sem) \in Nat
          /\ \/ pc[c] = "unlink" /\ pc' = [pc EXCEPT ![c] = "remove"]
             \/ pc[c] = "remove" /\ pc' = [pc EXCEPT ![c] = "ended"]
      BY <2>1 DEF Unlink, Remove
    <3>2. SemTypes'
      BY <3>1
    <3>3. OpenInv'
      BY <3>1
    <3> QED
      BY <3>2, <3>3
  <2>2. CASE Interrupt(c)
    <3>1. /\ UNCHANGED <<sem, sem_id, semName>> /\ forged' \in {forged, forged + 1}
          /\ pc' = pc \/ (pc[c] = "wait" /\ pc' = [pc EXCEPT ![c] = "check"])
      BY <2>2 DEF Interrupt
    <3>2. SemTypes'
      BY <3>1
    <3>3. OpenInv'
      BY <3>1
    <3> QED
      BY <3>2, <3>3
  <2> QED
    BY <1>5, <2>1, <2>2
<1>6. CASE UNCHANGED vars
  BY <1>6 DEF vars
<1> QED
  BY <1>1, <1>2, <1>3, <1>4, <1>5, <1>6 DEF Next, Step, Start, Pass, Leave

\* Tokens come from client 3 and from ctrl-C only.
LEMMA TokenStep == SemTypes /\ OpenInv /\ TokenInv /\ [Next]_vars => TokenInv'
<1> SUFFICES ASSUME SemTypes, OpenInv, TokenInv, [Next]_vars PROVE TokenInv'
    OBVIOUS
<1>0. /\ pc \in [Clients -> Outside \cup Inside] /\ sem \in Seq(Nat) /\ forged \in Nat
      /\ sem_id \in [Clients -> 0..Len(sem)] /\ 3 \in Clients
      /\ \A k \in 1..Len(sem) : sem[k] \in Nat
      /\ \A k : Given(k) \in {0, 1}
  BY DEF SemTypes, Clients, Given
<1> USE DEF Outside, Inside, InitialWrite, Goto, client, system, counts
<1>1. ASSUME NEW c \in Clients,
             Attach(c) \/ FirstWrite(c) \/ Loop(c) \/ Check(c) \/ Read(c) \/ Answer(c)
                 \/ Unlink(c) \/ Remove(c)
      PROVE  TokenInv'
  <2>1. UNCHANGED <<sem, sem_id, forged>>
    BY <1>1 DEF Attach, FirstWrite, Loop, Check, Read, Answer, Unlink, Remove
  <2>2. /\ \A d \in Clients : pc'[d] \in Inside <=> pc[d] \in Inside
        /\ pc[3] \notin {"attach", "open", "firstPost"} =>
               pc'[3] \notin {"attach", "open", "firstPost"}
    BY <1>0, <1>1 DEF Attach, FirstWrite, Loop, Check, Read, Answer, Unlink, Remove
  <2> QED
    BY <2>1, <2>2, TokenSame
<1>2. ASSUME NEW c \in Clients, Open(c) PROVE TokenInv'
  <2>1. /\ pc[c] = "open" /\ pc'[c] \notin Inside /\ sem_id[c] = 0 /\ forged' = forged
        /\ \A d \in Clients : d # c => pc'[d] = pc[d] /\ sem_id'[d] = sem_id[d]
    BY <1>0, <1>2 DEF Open, OpenInv
  <2>2. ASSUME NEW k \in 1..Len(sem) PROVE Holders(k)' = Holders(k) /\ Given(k) <= Given(k)'
    <3>1. Holders(k)' = Holders(k)
      BY <2>1 DEF Holders
    <3>2. Given(k) <= Given(k)'
      BY <1>0, <2>1 DEF Given
    <3> QED
      BY <3>1, <3>2
  <2>3. CASE sem' = sem
    <3> SUFFICES ASSUME NEW k \in 1..Len(sem)
                 PROVE  sem[k] + Cardinality(Holders(k))' <= Given(k)' + forged
      BY <2>1, <2>3 DEF TokenInv
    <3>1. sem[k] + Cardinality(Holders(k)) <= Given(k) + forged
      BY DEF TokenInv
    <3>2. Given(k)' \in {0, 1} /\ Given(k) \in {0, 1}
      BY DEF Given
    <3> QED
      BY <1>0, <2>2, <3>1, <3>2, HoldersFinite
  <2>4. CASE sem' = Append(sem, 0)
    <3> SUFFICES ASSUME NEW k \in 1..Len(sem')
                 PROVE  sem'[k] + Cardinality(Holders(k))' <= Given(k)' + forged
      BY <2>1 DEF TokenInv
    <3>1. CASE k \in 1..Len(sem)
      <4>1. sem'[k] = sem[k]
        BY <1>0, <2>4, <3>1
      <4>2. sem[k] + Cardinality(Holders(k)) <= Given(k) + forged
        BY <3>1 DEF TokenInv
      <4>3. Given(k)' \in {0, 1} /\ Given(k) \in {0, 1}
        BY DEF Given
      <4> QED
        BY <1>0, <2>2, <3>1, <4>1, <4>2, <4>3, HoldersFinite
    <3>2. CASE k = Len(sem) + 1
      <4>1. sem'[k] = 0
        BY <1>0, <2>4, <3>2
      <4>2. Holders(k)' = {}
        <5>1. \A d \in Clients : sem_id[d] # k
          BY <1>0, <3>2
        <5> QED
          BY <2>1, <5>1 DEF Holders
      <4>3. Given(k)' \in {0, 1}
        BY DEF Given
      <4> QED
        BY <1>0, <4>1, <4>2, <4>3, FS_EmptySet
    <3>3. k \in 1..Len(sem) \/ k = Len(sem) + 1
      BY <1>0, <2>4
    <3> QED
      BY <3>1, <3>2, <3>3
  <2> QED
    BY <1>2, <2>3, <2>4 DEF Open
<1>3. ASSUME NEW c \in Clients, FirstPost(c) PROVE TokenInv'
  <2>1. /\ c = 3 /\ sem' = [sem EXCEPT ![sem_id[3]] = @ + 1] /\ UNCHANGED <<sem_id, forged>>
        /\ pc[3] = "firstPost" /\ pc'[3] = "firstSrc"
        /\ \A d \in Clients : d # 3 => pc'[d] = pc[d]
    BY <1>0, <1>3 DEF FirstPost, Post, OpenInv
  <2> SUFFICES ASSUME NEW k \in 1..Len(sem)
               PROVE  sem'[k] + Cardinality(Holders(k))' <= Given(k)' + forged
    BY <1>0, <2>1 DEF TokenInv
  <2>2. Holders(k)' = Holders(k)
    BY <2>1 DEF Holders
  <2>3. Given(k) = 0 /\ Given(k)' = IF sem_id[3] = k THEN 1 ELSE 0
    BY <2>1 DEF Given
  <2>4. sem'[k] = IF sem_id[3] = k THEN sem[k] + 1 ELSE sem[k]
    BY <1>0, <2>1
  <2>5. sem[k] + Cardinality(Holders(k)) <= Given(k) + forged
    BY DEF TokenInv
  <2> QED
    BY <1>0, <2>2, <2>3, <2>4, <2>5, HoldersFinite
<1>4. ASSUME NEW c \in Clients, Wait(c) PROVE TokenInv'
  <2>1. /\ sem' = [sem EXCEPT ![sem_id[c]] = @ - 1] /\ UNCHANGED <<sem_id, forged>>
        /\ pc[c] = "wait" /\ pc'[c] = "check" /\ \A d \in Clients : d # c => pc'[d] = pc[d]
    BY <1>0, <1>4 DEF Wait
  <2> SUFFICES ASSUME NEW k \in 1..Len(sem)
               PROVE  sem'[k] + Cardinality(Holders(k))' <= Given(k)' + forged
    BY <1>0, <2>1 DEF TokenInv
  <2>2. Cardinality(Holders(k))' = Cardinality(Holders(k)) + (IF sem_id[c] = k THEN 1 ELSE 0)
    BY <2>1, Enter
  <2>3. Given(k)' = Given(k)
    BY <1>0, <2>1 DEF Given
  <2>4. sem'[k] = IF sem_id[c] = k THEN sem[k] - 1 ELSE sem[k]
    BY <1>0, <2>1
  <2>5. sem[k] + Cardinality(Holders(k)) <= Given(k) + forged
    BY DEF TokenInv
  <2> QED
    BY <1>0, <2>2, <2>3, <2>4, <2>5, HoldersFinite
<1>5. ASSUME NEW c \in Clients, Release(c) PROVE TokenInv'
  <2>1. /\ sem' = [sem EXCEPT ![sem_id[c]] = @ + 1] /\ UNCHANGED <<sem_id, forged>>
        /\ pc[c] = "post" /\ pc'[c] = "loop" /\ \A d \in Clients : d # c => pc'[d] = pc[d]
    BY <1>0, <1>5 DEF Release, Post
  <2> SUFFICES ASSUME NEW k \in 1..Len(sem)
               PROVE  sem'[k] + Cardinality(Holders(k))' <= Given(k)' + forged
    BY <1>0, <2>1 DEF TokenInv
  <2>2. Cardinality(Holders(k))' = Cardinality(Holders(k)) - (IF sem_id[c] = k THEN 1 ELSE 0)
    BY <2>1, LeaveSection
  <2>3. Given(k)' = Given(k)
    BY <1>0, <2>1 DEF Given
  <2>4. sem'[k] = IF sem_id[c] = k THEN sem[k] + 1 ELSE sem[k]
    BY <1>0, <2>1
  <2>5. sem[k] + Cardinality(Holders(k)) <= Given(k) + forged
    BY DEF TokenInv
  <2> QED
    BY <1>0, <2>2, <2>3, <2>4, <2>5, HoldersFinite
<1>6. ASSUME NEW c \in Clients, Interrupt(c) PROVE TokenInv'
  <2>1. CASE pc' = pc /\ forged' = forged
    <3>1. UNCHANGED <<sem, sem_id>>
      BY <1>6 DEF Interrupt
    <3> QED
      BY <2>1, <3>1, TokenSame
  <2>2. CASE pc[c] = "wait" /\ pc' = [pc EXCEPT ![c] = "check"] /\ forged' = forged + 1
    <3>1. /\ UNCHANGED <<sem, sem_id>> /\ pc'[c] = "check"
          /\ \A d \in Clients : d # c => pc'[d] = pc[d]
      BY <1>0, <1>6, <2>2 DEF Interrupt
    <3> SUFFICES ASSUME NEW k \in 1..Len(sem)
                 PROVE  sem[k] + Cardinality(Holders(k))' <= Given(k)' + forged'
      BY <3>1 DEF TokenInv
    <3>2. Cardinality(Holders(k))' = Cardinality(Holders(k)) + (IF sem_id[c] = k THEN 1 ELSE 0)
      BY <2>2, <3>1, Enter
    <3>3. Given(k)' = Given(k)
      BY <2>2, <3>1 DEF Given
    <3>4. sem[k] + Cardinality(Holders(k)) <= Given(k) + forged
      BY DEF TokenInv
    <3> QED
      <4>1. sem[k] \in Nat /\ forged \in Nat /\ Given(k) \in Nat /\ forged' = forged + 1
        <5>1. Given(k) \in Nat
          BY DEF Given
        <5> QED
          BY <1>0, <2>2, <5>1
      <4>2. Cardinality(Holders(k))' <= Cardinality(Holders(k)) + 1
        BY <3>2, HoldersFinite
      <4>3. Cardinality(Holders(k)) \in Nat /\ Cardinality(Holders(k))' \in Nat
        BY <3>2, HoldersFinite
      <4> QED
        BY <3>3, <3>4, <4>1, <4>2, <4>3
  <2> QED
    BY <1>6, <2>1, <2>2 DEF Interrupt
<1>7. CASE UNCHANGED vars
  BY <1>7, TokenSame DEF vars
<1> QED
  BY <1>1, <1>2, <1>3, <1>4, <1>5, <1>6, <1>7 DEF Next, Step, Start, Pass, Leave

-----------------------------------------------------------------------------
\* Without a forged token nobody shares a section, nor has one of its own: only
\* client 3 gives tokens, to its own semaphore.
Alone == forged = 0 => \A c, d \in Clients : pc[c] \in Inside /\ pc[d] \in Inside => c = d

LEMMA AloneHolds == SemTypes /\ OpenInv /\ TokenInv => Alone
<1> SUFFICES ASSUME SemTypes, OpenInv, TokenInv, forged = 0,
                    NEW c \in Clients, NEW d \in Clients, pc[c] \in Inside, pc[d] \in Inside
             PROVE  c = d
    BY DEF Alone
<1>1. ASSUME NEW e \in Clients, pc[e] \in Inside
      PROVE  /\ sem_id[e] = sem_id[3] /\ e \in Holders(sem_id[3])
             /\ Cardinality(Holders(sem_id[3])) <= 1
  <2> DEFINE k == sem_id[e]
  <2>1. k \in 1..Len(sem)
    <3>1. k # 0 /\ k \in 0..Len(sem) /\ Len(sem) \in Nat
      BY <1>1 DEF SemTypes, OpenInv, Inside
    <3> QED
      BY <3>1
  <2>2. sem[k] \in Nat /\ sem[k] + Cardinality(Holders(k)) <= Given(k)
    <3>1. sem[k] + Cardinality(Holders(k)) <= Given(k) + forged
      BY <2>1 DEF TokenInv
    <3>2. sem[k] \in Nat
      BY <2>1 DEF SemTypes
    <3>3. Given(k) \in Nat
      BY DEF Given
    <3> QED
      BY <3>1, <3>2, <3>3, HoldersFinite
  <2>3. e \in Holders(k)
    BY <1>1 DEF Holders
  <2> HIDE DEF k
  <2>4. Cardinality(Holders(k)) # 0
    BY <2>3, HoldersFinite, FS_EmptySet
  <2>5. Given(k) = 1 /\ Cardinality(Holders(k)) <= 1
    <3>1. Given(k) \in {0, 1}
      BY DEF Given
    <3> QED
      BY <2>2, <2>4, <3>1, HoldersFinite
  <2>6. k = sem_id[3]
    BY <2>5 DEF Given
  <2> QED
    BY <2>3, <2>5, <2>6 DEF k
<1> DEFINE H == Holders(sem_id[3])
<1>2. c \in H /\ d \in H /\ Cardinality(H) <= 1
  BY <1>1
<1>3. IsFiniteSet(H) /\ Cardinality(H) \in Nat
  BY HoldersFinite
<1> HIDE DEF H
<1>4. Cardinality(H) = 0 \/ Cardinality(H) = 1
  BY <1>2, <1>3
<1>5. Cardinality(H) = 0 => H = {}
  BY <1>3, FS_EmptySet
<1>6. Cardinality(H) = 1 => \E x : H = {x}
  BY <1>3, FS_Singleton
<1> QED
  BY <1>2, <1>4, <1>5, <1>6

-----------------------------------------------------------------------------
\* A segment more, and one that is written.
LEMMA SegAppend ==
    ASSUME NEW M \in Seq(Segment)
    PROVE  /\ Append(M, Fresh) \in Seq(Segment) /\ Len(Append(M, Fresh)) = Len(M) + 1
           /\ \A g \in 1..Len(M) : Append(M, Fresh)[g] = M[g]
           /\ Append(M, Fresh)[Len(M) + 1] = Fresh
<1>1. Fresh \in Segment
  BY DEF Fresh, Segment, NoMessage, Text
<1> HIDE DEF Segment
<1> QED
  BY <1>1

\* All segments but g are as before.
Changed(g) ==
    /\ Memory' \in Seq(Segment) /\ Len(Memory') = Len(Memory)
    /\ \A h \in 1..Len(Memory) : h # g => Memory'[h] = Memory[h]

LEMMA SegUpdate ==
    ASSUME Memory \in Seq(Segment), NEW g \in 1..Len(Memory), NEW m \in Segment,
           Memory' = [Memory EXCEPT ![g] = m]
    PROVE  Changed(g) /\ Memory'[g] = m
BY DEF Changed

\* What a client that writes does to its segment.
LEMMA WriteEffect ==
    ASSUME SegTypes, NEW c \in Clients, ShmID[c] # 0, NEW v \in Nat, NEW w \in Text,
           NEW g, g = ShmID[c]
    PROVE  /\ g \in 1..Len(Memory)
           /\ Write(c, "srcClientNo", v) =>
                  /\ Changed(g) /\ Memory'[g].srcClientNo = v
                  /\ Memory'[g].destClientNo = Memory[g].destClientNo
                  /\ Memory'[g].message = Memory[g].message
           /\ Write(c, "destClientNo", v) =>
                  /\ Changed(g) /\ Memory'[g].srcClientNo = Memory[g].srcClientNo
                  /\ Memory'[g].message = Memory[g].message
           /\ Write(c, "message", w) =>
                  /\ Changed(g) /\ Memory'[g].message = w
                  /\ Memory'[g].srcClientNo = Memory[g].srcClientNo
                  /\ Memory'[g].destClientNo = Memory[g].destClientNo
<1>1. Memory \in Seq(Segment) /\ g \in 0..Len(Memory) /\ g # 0
  BY DEF SegTypes
<1>2. Len(Memory) \in Nat
  BY <1>1
<1>3. g \in 1..Len(Memory) /\ Memory[g] \in Segment
  BY <1>1, <1>2
<1> HIDE DEF Segment
<1>4. ASSUME Write(c, "srcClientNo", v)
      PROVE  /\ Changed(g) /\ Memory'[g].srcClientNo = v
             /\ Memory'[g].destClientNo = Memory[g].destClientNo
             /\ Memory'[g].message = Memory[g].message
  <2>1. PICK m : m = [Memory[g] EXCEPT !["srcClientNo"] = v]
    OBVIOUS
  <2>2. Memory' = [Memory EXCEPT ![g] = m]
    BY <1>4, <2>1 DEF Write
  <2>3. /\ m \in Segment /\ m.srcClientNo = v
        /\ m.destClientNo = Memory[g].destClientNo /\ m.message = Memory[g].message
    BY <1>3, <2>1 DEF Segment
  <2>4. Changed(g) /\ Memory'[g] = m
    BY <1>1, <1>3, <2>2, <2>3, SegUpdate
  <2> QED
    BY <2>3, <2>4
<1>5. ASSUME Write(c, "destClientNo", v)
      PROVE  /\ Changed(g) /\ Memory'[g].srcClientNo = Memory[g].srcClientNo
             /\ Memory'[g].message = Memory[g].message
  <2>1. PICK m : m = [Memory[g] EXCEPT !["destClientNo"] = v]
    OBVIOUS
  <2>2. Memory' = [Memory EXCEPT ![g] = m]
    BY <1>5, <2>1 DEF Write
  <2>3. m \in Segment /\ m.srcClientNo = Memory[g].srcClientNo /\ m.message = Memory[g].message
    BY <1>3, <2>1 DEF Segment
  <2>4. Changed(g) /\ Memory'[g] = m
    BY <1>1, <1>3, <2>2, <2>3, SegUpdate
  <2> QED
    BY <2>3, <2>4
<1>6. ASSUME Write(c, "message", w)
      PROVE  /\ Changed(g) /\ Memory'[g].message = w
             /\ Memory'[g].srcClientNo = Memory[g].srcClientNo
             /\ Memory'[g].destClientNo = Memory[g].destClientNo
  <2>1. PICK m : m = [Memory[g] EXCEPT !["message"] = w]
    OBVIOUS
  <2>2. Memory' = [Memory EXCEPT ![g] = m]
    BY <1>6, <2>1 DEF Write
  <2>3. /\ m \in Segment /\ m.message = w
        /\ m.srcClientNo = Memory[g].srcClientNo /\ m.destClientNo = Memory[g].destClientNo
    BY <1>3, <2>1 DEF Segment
  <2>4. Changed(g) /\ Memory'[g] = m
    BY <1>1, <1>3, <2>2, <2>3, SegUpdate
  <2> QED
    BY <2>3, <2>4
<1> QED
  BY <1>3, <1>4, <1>5, <1>6

\* What is written has its type.
LEMMA Texts ==
    ASSUME SegTypes, NEW c \in Clients
    PROVE  c \in Nat /\ 1 \in Nat /\ <<c, 0>> \in Text /\ Dest(c) \in Nat /\ <<c, i[c] + 1>> \in Text
<1>1. i[c] \in Nat /\ i[c] % 2 \in 0..1 /\ c \in 1..3
  BY DEF SegTypes, Clients
<1>2. Dest(c) \in Nat
  <2>1. CASE c = 1
    BY <1>1, <2>1 DEF Dest
  <2>2. CASE c = 2
    BY <1>1, <2>2 DEF Dest
  <2>3. CASE c = 3
    BY <1>1, <2>3 DEF Dest
  <2> QED
    BY <1>1, <2>1, <2>2, <2>3
<1> QED
  BY <1>1, <1>2 DEF Text

\* Every step keeps the types of the segments.
LEMMA SegStep == SemTypes /\ OpenInv /\ SegTypes /\ [Next]_vars => SegTypes'
<1> SUFFICES ASSUME SemTypes, OpenInv, SegTypes, [Next]_vars PROVE SegTypes'
    OBVIOUS
<1>0. /\ pc \in [Clients -> Outside \cup Inside] /\ Memory \in Seq(Segment)
      /\ shmName \in 0..Len(Memory) /\ Len(Memory) \in Nat
      /\ ShmID \in [Clients -> 0..Len(Memory)] /\ i \in [Clients -> Nat]
      /\ \A c \in Clients : pc[c] = "attach" <=> ShmID[c] = 0
  BY DEF SemTypes, SegTypes
<1> USE DEF Outside, Inside, InitialWrite, Goto, client, system, counts
<1>1. ASSUME NEW c \in Clients, Attach(c) PROVE SegTypes'
  <2>1. CASE shmName = 0
    <3>1. Memory' = Append(Memory, Fresh) /\ shmName' = Len(Memory')
      BY <1>1, <2>1 DEF Attach
    <3>2. Memory' \in Seq(Segment) /\ Len(Memory') = Len(Memory) + 1
      BY <1>0, <3>1, SegAppend
    <3>3. /\ ShmID' = [ShmID EXCEPT ![c] = Len(Memory) + 1] /\ i' = i
          /\ pc' = [pc EXCEPT ![c] = "open"]
      BY <1>1, <3>1, <3>2 DEF Attach
    <3> HIDE DEF Segment
    <3> QED
      BY <1>0, <3>1, <3>2, <3>3 DEF SegTypes
  <2>2. CASE shmName # 0
    <3>1. /\ ShmID' = [ShmID EXCEPT ![c] = shmName] /\ UNCHANGED <<i, Memory, shmName>>
          /\ pc' = [pc EXCEPT ![c] = "open"]
      BY <1>1, <2>2 DEF Attach
    <3> QED
      BY <1>0, <2>2, <3>1 DEF SegTypes
  <2> QED
    BY <2>1, <2>2
<1>2. ASSUME NEW c \in Clients, FirstWrite(c) \/ Answer(c) PROVE SegTypes'
  <2>1. /\ UNCHANGED <<i, ShmID, shmName>> /\ pc[c] # "attach" /\ ShmID[c] # 0
        /\ \E x : x # "attach" /\ pc' = [pc EXCEPT ![c] = x]
    BY <1>0, <1>2 DEF FirstWrite, Answer
  <2>2. c \in Nat /\ 1 \in Nat /\ <<c, 0>> \in Text /\ Dest(c) \in Nat /\ <<c, i[c] + 1>> \in Text
    BY Texts
  <2>3. \/ Write(c, "srcClientNo", c) \/ Write(c, "destClientNo", 1) \/ Write(c, "message", <<c, 0>>)
        \/ Write(c, "destClientNo", Dest(c)) \/ Write(c, "message", <<c, i[c] + 1>>)
    BY <1>2 DEF FirstWrite, Answer
  <2>4. Changed(ShmID[c])
    BY <2>1, <2>2, <2>3, WriteEffect
  <2> QED
    BY <1>0, <2>1, <2>4 DEF SegTypes, Changed
<1>3. ASSUME NEW c \in Clients,
             Open(c) \/ FirstPost(c) \/ Loop(c) \/ Wait(c) \/ Check(c) \/ Read(c) \/ Release(c)
                 \/ Unlink(c) \/ Remove(c) \/ Interrupt(c)
      PROVE  SegTypes'
  <2>1. /\ UNCHANGED <<Memory, ShmID>> /\ shmName' \in {0, shmName}
        /\ i' = i \/ i' = [i EXCEPT ![c] = i[c] + 1]
    BY <1>3 DEF Open, FirstPost, Loop, Wait, Check, Read, Release, Unlink, Remove, Interrupt
  <2>2. pc' = pc \/ (pc[c] # "attach" /\ \E x : x # "attach" /\ pc' = [pc EXCEPT ![c] = x])
    BY <1>3 DEF Open, FirstPost, Loop, Wait, Check, Read, Release, Unlink, Remove, Interrupt
  <2>3. \A d \in Clients : pc'[d] = "attach" <=> pc[d] = "attach"
    BY <1>0, <2>2
  <2>4. i' \in [Clients -> Nat]
    BY <1>0, <2>1
  <2> QED
    BY <1>0, <2>1, <2>3, <2>4 DEF SegTypes
<1>4. CASE UNCHANGED vars
  BY <1>0, <1>4 DEF vars, SegTypes
<1> QED
  BY <1>1, <1>2, <1>3, <1>4 DEF Next, Step, Start, Pass, Leave

\* A step that writes nothing into a segment, of a client that neither writes
\* nor comes to write.
LEMMA SectionSame ==
    ASSUME SemTypes, SegTypes, Begun, Signed, Settled, NEW c \in Clients, NEW x,
           UNCHANGED <<Memory, ShmID>>, pc' = [pc EXCEPT ![c] = x],
           pc[c] \notin Writing \cup {"firstDest", "firstMessage"}, x \notin Writing,
           c = 3 /\ x \in Beginning => pc[3] \in Beginning,
           x \in {"read", "src"} => pc[3] \notin Beginning
    PROVE  Begun' /\ Signed' /\ Settled'
<1>1. pc \in [Clients -> Outside \cup Inside] /\ 3 \in Clients
  BY DEF SemTypes, Clients
<1>2. Begun'
  BY <1>1 DEF Begun, Beginning, Writing
<1>3. Signed'
  BY <1>1 DEF Signed
<1>4. Settled'
  BY <1>1 DEF Settled, InWork
<1> QED
  BY <1>2, <1>3, <1>4

\* As long as ctrl-C forged no token, one client at a time works on a segment.
LEMMA SectionStep ==
    ASSUME SemTypes, OpenInv, SegTypes, SectionInv, Alone, [Next]_vars
    PROVE  SectionInv'
<1> SUFFICES ASSUME forged' = 0 PROVE Begun' /\ Signed' /\ Settled'
  BY DEF SectionInv
<1>0. /\ pc \in [Clients -> Outside \cup Inside] /\ 3 \in Clients
      /\ Memory \in Seq(Segment) /\ Len(Memory) \in Nat
      /\ ShmID \in [Clients -> 0..Len(Memory)]
      /\ \A c \in Clients : pc[c] = "attach" <=> ShmID[c] = 0
      /\ \A c \in Clients : pc[c] \in {"firstPost"} \cup InitialWrite => c = 3
  BY DEF SemTypes, SegTypes, OpenInv, Clients
<1>a. forged = 0
  <2>1. forged \in Nat /\ (forged' = forged \/ forged' = forged + 1)
    BY DEF SemTypes, Next, Step, Start, Pass, Leave, vars, Attach, Open, FirstPost, FirstWrite,
           Loop, Wait, Check, Read, Answer, Release, Unlink, Remove, Interrupt, counts
  <2> QED
    BY <2>1
<1>b. /\ Begun /\ Signed /\ Settled
      /\ \A c, d \in Clients : pc[c] \in Inside /\ pc[d] \in Inside => c = d
  BY <1>a DEF SectionInv, Alone
<1> USE DEF Goto, client, system, counts
<1>1. ASSUME NEW c \in Clients, Attach(c) PROVE Begun' /\ Signed' /\ Settled'
  <2>1. /\ pc[c] = "attach" /\ pc' = [pc EXCEPT ![c] = "open"]
        /\ \A d \in Clients : d # c => ShmID'[d] = ShmID[d]
        /\ Memory' = Memory \/ Memory' = Append(Memory, Fresh)
    BY <1>0, <1>1 DEF Attach
  <2>2. /\ \A g \in 1..Len(Memory) : Memory'[g] = Memory[g]
        /\ \A g \in 1..Len(Memory') : g \in 1..Len(Memory) \/ Memory'[g] = Fresh
    BY <1>0, <2>1, SegAppend
  <2>3. Begun'
    <3> SUFFICES ASSUME pc'[3] \in Beginning
                 PROVE  /\ \A g \in 1..Len(Memory') : Memory'[g].destClientNo = 0
                        /\ \A d \in Clients : pc'[d] \notin {"read", "src"} \cup Writing
      BY DEF Begun
    <3>1. pc[3] \in Beginning
      BY <1>0, <2>1 DEF Beginning
    <3>2. Fresh.destClientNo = 0
      BY DEF Fresh
    <3>3. \A g \in 1..Len(Memory') : Memory'[g].destClientNo = 0
      BY <1>b, <2>2, <3>1, <3>2 DEF Begun
    <3>4. \A d \in Clients : pc'[d] \notin {"read", "src"} \cup Writing
      BY <1>0, <1>b, <2>1, <3>1 DEF Begun, Writing
    <3> QED
      BY <3>3, <3>4
  <2>4. Signed'
    <3> SUFFICES ASSUME NEW d \in Clients, pc'[d] \in Writing
                 PROVE  Memory'[ShmID'[d]].srcClientNo = d
      BY DEF Signed
    <3>1. d # c /\ pc[d] \in Writing /\ ShmID'[d] = ShmID[d]
      BY <1>0, <2>1 DEF Writing
    <3>2. ShmID[d] \in 1..Len(Memory)
      BY <1>0, <3>1 DEF Writing
    <3> QED
      BY <1>b, <2>2, <3>1, <3>2 DEF Signed
  <2>5. Settled'
    <3> SUFFICES ASSUME NEW g \in 1..Len(Memory') PROVE Whole(Memory'[g]) \/ InWork(g)'
      BY DEF Settled
    <3>1. CASE g \in 1..Len(Memory)
      <4>1. InWork(g) => InWork(g)'
        BY <1>0, <2>1 DEF InWork, Writing
      <4> QED
        BY <1>b, <2>2, <3>1, <4>1 DEF Settled
    <3>2. CASE Memory'[g] = Fresh
      BY <3>2 DEF Whole, Fresh, NoMessage
    <3> QED
      BY <2>2, <3>1, <3>2
  <2> QED
    BY <2>3, <2>4, <2>5
<1>2. ASSUME NEW c \in Clients, FirstWrite(c) \/ Answer(c) PROVE Begun' /\ Signed' /\ Settled'
  <2> DEFINE g == ShmID[c]
  <2>1. g \in 1..Len(Memory) /\ g # 0 /\ UNCHANGED ShmID
    BY <1>0, <1>2 DEF FirstWrite, Answer
  <2>2. c \in Nat /\ 1 \in Nat /\ <<c, 0>> \in Text /\ Dest(c) \in Nat /\ <<c, i[c] + 1>> \in Text
    BY Texts
  <2> HIDE DEF g
  <2>3. CASE /\ \/ pc[c] = "firstSrc" /\ pc' = [pc EXCEPT ![c] = "firstDest"]
                \/ pc[c] = "src" /\ pc' = [pc EXCEPT ![c] = "dest"]
             /\ Write(c, "srcClientNo", c)
    <3>1. /\ Changed(g) /\ Memory'[g].srcClientNo = c
          /\ Memory'[g].destClientNo = Memory[g].destClientNo
      BY <2>1, <2>2, <2>3, WriteEffect DEF g
    <3>2. \A d \in Clients : d # c => pc[d] \notin Writing
      BY <1>0, <1>b, <2>3 DEF Begun, Beginning, Inside, Writing, InitialWrite
    <3>3. Begun'
      BY <1>0, <1>b, <2>1, <2>3, <3>1 DEF Begun, Beginning, Writing, Changed, InitialWrite
    <3>4. Signed'
      BY <1>0, <2>1, <2>3, <3>1, <3>2 DEF Signed, Writing, g
    <3>5. Settled'
      BY <1>0, <1>b, <2>1, <2>3, <3>1, <3>2 DEF Settled, InWork, Writing, Changed, g, InitialWrite
    <3> QED
      BY <3>3, <3>4, <3>5
  <2>4. CASE \/ pc[c] = "firstDest" /\ pc' = [pc EXCEPT ![c] = "firstMessage"] /\ Write(c, "destClientNo", 1)
             \/ pc[c] = "dest" /\ pc' = [pc EXCEPT ![c] = "message"] /\ Write(c, "destClientNo", Dest(c))
    <3>1. /\ Changed(g) /\ Memory'[g].srcClientNo = Memory[g].srcClientNo
          /\ Memory'[g].message = Memory[g].message
      BY <2>1, <2>2, <2>4, WriteEffect DEF g
    <3>2. pc'[3] \notin Beginning
      BY <1>0, <1>b, <2>4 DEF Begun, Beginning, Writing, InitialWrite
    <3>3. Signed'
      BY <1>0, <1>b, <2>1, <2>4, <3>1 DEF Signed, Writing, Changed, g
    <3>4. Settled'
      BY <1>0, <1>b, <2>1, <2>4, <3>1 DEF Settled, Whole, InWork, Writing, Changed, g, InitialWrite
    <3> QED
      BY <3>2, <3>3, <3>4 DEF Begun
  <2>5. CASE \/ pc[c] = "firstMessage" /\ pc' = [pc EXCEPT ![c] = "loop"] /\ Write(c, "message", <<c, 0>>)
             \/ pc[c] = "message" /\ pc' = [pc EXCEPT ![c] = "post"] /\ Write(c, "message", <<c, i[c] + 1>>)
    <3>1. /\ Changed(g) /\ Memory'[g].srcClientNo = Memory[g].srcClientNo
          /\ \/ Memory'[g].message = <<c, 0>> /\ c = 3
             \/ Memory'[g].message = <<c, i[c] + 1>> /\ pc[c] = "message"
      BY <1>0, <2>1, <2>2, <2>5, WriteEffect DEF g, InitialWrite
    <3>2. pc'[3] \notin Beginning
      BY <1>0, <1>b, <2>5 DEF Begun, Beginning, Writing, InitialWrite
    <3>6. /\ \A h \in 1..Len(Memory) : h # g => Memory'[h] = Memory[h]
          /\ Len(Memory') = Len(Memory) /\ Memory'[g].srcClientNo = Memory[g].srcClientNo
          /\ pc[c] \in {"firstMessage", "message"}
          /\ pc[c] = "firstMessage" => c = 3
          /\ pc' = [pc EXCEPT ![c] = "loop"] \/ pc' = [pc EXCEPT ![c] = "post"]
      BY <1>0, <2>5, <3>1 DEF Changed, InitialWrite
    <3>3. Signed'
      <4> SUFFICES ASSUME NEW d \in Clients, pc'[d] \in Writing
                   PROVE  Memory'[ShmID'[d]].srcClientNo = d
        BY DEF Signed
      <4>1. pc[d] \in Writing /\ ShmID'[d] = ShmID[d] /\ Memory[ShmID[d]].srcClientNo = d
        BY <1>0, <1>b, <2>1, <3>6 DEF Signed, Writing
      <4>2. ShmID[d] \in 1..Len(Memory)
        BY <1>0, <4>1 DEF Writing
      <4> QED
        BY <3>6, <4>1, <4>2
    <3>4. Whole(Memory'[g])
      BY <1>b, <2>1, <3>1 DEF Whole, Signed, Writing, g
    <3>5. Settled'
      <4> SUFFICES ASSUME NEW h \in 1..Len(Memory), h # g PROVE Whole(Memory[h]) \/ InWork(h)'
        BY <3>4, <3>6 DEF Settled
      <4>1. InWork(h) => InWork(h)'
        BY <1>0, <2>1, <3>6 DEF InWork, Writing, g
      <4> QED
        BY <1>b, <4>1 DEF Settled
    <3> QED
      BY <3>2, <3>3, <3>5 DEF Begun
  <2> QED
    BY <1>2, <2>3, <2>4, <2>5 DEF FirstWrite, Answer
<1>3. ASSUME NEW c \in Clients, Check(c) PROVE Begun' /\ Signed' /\ Settled'
  <2>1. /\ pc[c] = "check" /\ UNCHANGED <<Memory, ShmID>>
        /\ pc' = [pc EXCEPT ![c] = IF Memory[ShmID[c]].destClientNo = c THEN "read" ELSE "post"]
    BY <1>3 DEF Check, Mine
  <2>2. Memory[ShmID[c]].destClientNo = c => pc[3] \notin Beginning
    <3>1. c # 0 /\ ShmID[c] \in 1..Len(Memory)
      BY <1>0, <2>1 DEF Clients
    <3> QED
      BY <1>b, <3>1 DEF Begun
  <2>3. PICK x : /\ pc' = [pc EXCEPT ![c] = x] /\ x \in {"read", "post"}
                 /\ x = "read" => pc[3] \notin Beginning
    BY <2>1, <2>2
  <2>4. /\ pc[c] \notin Writing \cup {"firstDest", "firstMessage"}
        /\ x \notin Writing \cup Beginning \cup {"src"}
    BY <2>1, <2>3 DEF Writing, Beginning
  <2> QED
    BY <1>b, <2>1, <2>3, <2>4, SectionSame
<1>4. ASSUME NEW c \in Clients, Open(c) \/ FirstPost(c) \/ Loop(c) \/ Wait(c) \/ Read(c) \/ Release(c)
                 \/ Unlink(c) \/ Remove(c)
      PROVE  Begun' /\ Signed' /\ Settled'
  <2>1. UNCHANGED <<Memory, ShmID>>
    BY <1>4 DEF Open, FirstPost, Loop, Wait, Read, Release, Unlink, Remove
  <2>2. PICK x : /\ pc' = [pc EXCEPT ![c] = x] /\ x \notin Writing
                 /\ x \in Beginning => pc[c] \in Beginning
                 /\ x \in {"read", "src"} => pc[c] = "read"
    BY <1>4 DEF Open, FirstPost, Loop, Wait, Read, Release, Unlink, Remove, Writing, Beginning
  <2>3. pc[c] \notin Writing \cup {"firstDest", "firstMessage"}
    BY <1>4 DEF Open, FirstPost, Loop, Wait, Read, Release, Unlink, Remove, Writing
  <2>4. pc[c] = "read" => pc[3] \notin Beginning
    BY <1>b DEF Begun
  <2> QED
    BY <1>b, <2>1, <2>2, <2>3, <2>4, SectionSame
<1>5. ASSUME NEW c \in Clients, Interrupt(c) PROVE Begun' /\ Signed' /\ Settled'
  <2>1. UNCHANGED <<pc, Memory, ShmID>>
    BY <1>a, <1>5 DEF Interrupt
  <2> QED
    BY <1>b, <2>1 DEF Begun, Signed, Settled, InWork
<1>6. CASE UNCHANGED vars
  BY <1>b, <1>6 DEF vars, Begun, Signed, Settled, InWork
<1> QED
  BY <1>1, <1>2, <1>3, <1>4, <1>5, <1>6 DEF Next, Step, Start, Pass, Leave

-----------------------------------------------------------------------------
\* The inductive invariant: a token from client 3 and one for each interrupt, and
\* segments that are whole outside of their writers' sections.
THEOREM Inductive == Spec => []IInv
<1>1. Init => IInv
  <2> SUFFICES ASSUME Init PROVE IInv
      OBVIOUS
  <2>1. SemTypes /\ OpenInv /\ TokenInv
    BY DEF Init, SemTypes, OpenInv, TokenInv, Outside, InitialWrite, Clients
  <2>2. SegTypes /\ SectionInv
    BY DEF Init, SegTypes, SectionInv, Begun, Signed, Settled, Writing, Clients
  <2> QED
    BY <2>1, <2>2 DEF IInv
<1>2. IInv /\ [Next]_vars => IInv'
  BY TypeStep, TokenStep, SegStep, AloneHolds, SectionStep DEF IInv
<1> QED
  BY <1>1, <1>2, PTL DEF Spec

\* A semaphore has one token and those that ctrl-C forged, however often the
\* clients take turns and however often they are interrupted
\* (client1.cpp:60-81, client3.cpp:63-65).
THEOREM TokensAccountedAlways == Spec => []TokensAccounted
<1>1. IInv => TokensAccounted
  <2> SUFFICES ASSUME IInv, NEW k \in 1..Len(sem)
               PROVE  sem[k] + Cardinality(Holders(k)) <= 1 + forged
    BY DEF TokensAccounted
  <2>1. sem[k] + Cardinality(Holders(k)) <= Given(k) + forged
    BY DEF IInv, TokenInv
  <2>2. Given(k) \in {0, 1} /\ sem[k] \in Nat /\ forged \in Nat
    BY DEF Given, IInv, SemTypes
  <2> QED
    BY <2>1, <2>2, HoldersFinite
<1> QED
  BY Inductive, <1>1, PTL

\* Mutual exclusion: as long as ctrl-C ended no sem_wait(), no two clients are in
\* their sections together, also when they are on different semaphores because a
\* name was removed between them (client1.cpp:65-76).
THEOREM MutualExclusion == Spec => []Alone
<1>1. IInv => Alone
  BY AloneHolds DEF IInv
<1> QED
  BY Inductive, <1>1, PTL

\* The message that a client reads is the one of the sender it reads with it,
\* client 3's first message apart, until ctrl-C lets somebody in
\* (client3.cpp:66-81, client1.cpp:65-76).
THEOREM MessageWholeAlways == Spec => []MessageWhole
<1>1. IInv => MessageWhole
  <2> SUFFICES ASSUME IInv, NEW c \in Clients, pc[c] = "read", forged = 0, pc[3] \notin InitialWrite
               PROVE  Mine(c).message[1] = Mine(c).srcClientNo \/ Mine(c).message = <<3, 0>>
    BY DEF MessageWhole
  <2>1. ShmID[c] \in 1..Len(Memory)
    <3>1. ShmID[c] \in 0..Len(Memory) /\ ShmID[c] # 0 /\ Len(Memory) \in Nat
      BY DEF IInv, SegTypes
    <3> QED
      BY <3>1
  <2>2. \A d \in Clients : pc[d] \notin Writing
    BY AloneHolds DEF IInv, Alone, Inside, Writing
  <2>3. ~InWork(ShmID[c])
    BY <2>2 DEF InWork, InitialWrite
  <2>4. Whole(Memory[ShmID[c]])
    BY <2>1, <2>3 DEF IInv, SectionInv, Settled
  <2> QED
    BY <2>4 DEF Whole, Mine
<1> QED
  BY Inductive, <1>1, PTL
=============================================================================
