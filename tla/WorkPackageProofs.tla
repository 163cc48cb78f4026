-------------------------- MODULE WorkPackageProofs --------------------------
(* The shared record, for any number of processes: its balance, and that nothing in it *)
(* is invented. *)
EXTENDS WorkPackage, TLAPS

\* What the control points say about the registers.
HeldInv ==
    \A p \in Procs :
        /\ at[p] \in {"worked", "entered"} => reg[p] \in Nat
        /\ at[p] = "amount" => amt[p] = 0 /\ selection[p] \in 1..3

\* What a process has seen of the balance, as long as nobody changed it since.
Seen(p) ==
    /\ at[p] = "pay" => amt[p] <= amount
    /\ at[p] = "paid" => reg[p] = amount /\ amt[p] <= amount
    /\ at[p] = "deposited" => reg[p] = amount

BalanceInv ==
    ~torn => /\ amount = ledger /\ amount >= 0
             /\ \A p \in Procs : ~stale[p] => Seen(p)

IInv == TypeOK /\ HeldInv /\ BalanceInv
-----------------------------------------------------------------------------
\* The numbers of a process.
LEMMA Numbers == TypeOK => \A p \in Procs : amt[p] \in Nat /\ reg[p] \in Int
<1> SUFFICES ASSUME TypeOK, NEW p \in Procs PROVE amt[p] \in Nat /\ reg[p] \in Int
    OBVIOUS
<1>1. amt \in [Procs -> Amounts \cup {0}] /\ reg \in [Procs -> Int]
  BY DEF TypeOK
<1>2. Amounts \subseteq Nat
  BY WorkPackageAssumption
<1>3. amt[p] \in Amounts \cup {0} /\ reg[p] \in Int
  BY <1>1
<1>4. 0 \in Nat
  OBVIOUS
<1> QED
  BY <1>2, <1>3, <1>4, Zenon

\* Every step keeps the types, and what the registers hold.
LEMMA TypeOKStep == TypeOK /\ HeldInv /\ [Next]_vars => TypeOK' /\ HeldInv'
<1> SUFFICES ASSUME TypeOK, HeldInv, [Next]_vars PROVE TypeOK' /\ HeldInv'
    OBVIOUS
<1> USE WorkPackageAssumption DEF TypeOK, HeldInv, record, input, history, From, Points, Choice
<1>1. ASSUME NEW p \in Procs, Open(p) PROVE TypeOK' /\ HeldInv'
  BY <1>1 DEF Open
<1>2. ASSUME NEW p \in Procs, Select(p) PROVE TypeOK' /\ HeldInv'
  BY <1>2 DEF Select, PointOf
<1>3. ASSUME NEW p \in Procs, Amount(p) PROVE TypeOK' /\ HeldInv'
  <2>1. at' \in [Procs -> Points] /\ selection' \in [Procs -> Choice] /\ file' \in {"empty", "record"}
    BY <1>3 DEF Amount, Field
  <2>2. /\ amount' \in Int /\ hours' \in Nat /\ entries' \in Nat /\ ledger' \in Int
        /\ reg' \in [Procs -> Int] /\ amt' \in [Procs -> Amounts \cup {0}]
    BY <1>3 DEF Amount, Field
  <2>3. stuck' \in [Procs -> BOOLEAN]
    BY <1>3 DEF Amount, Field
  <2>4. stale' \in [Procs -> BOOLEAN] /\ torn' \in BOOLEAN
    BY <1>3 DEF Amount, Field
  <2>5. \A q \in Procs : stuck'[q] => amt'[q] = 0
    BY <1>3 DEF Amount, Field
  <2>6. HeldInv'
    BY <1>3 DEF Amount, Field
  <2> QED
    BY <2>1, <2>2, <2>3, <2>4, <2>5, <2>6
<1>4. ASSUME NEW p \in Procs, Check(p) PROVE TypeOK' /\ HeldInv'
  BY <1>4 DEF Check, Fresh
<1>5. ASSUME NEW p \in Procs, LoadToPay(p) \/ LoadToDeposit(p) PROVE TypeOK' /\ HeldInv'
  <2>1. at' \in [Procs -> Points] /\ selection' \in [Procs -> Choice] /\ file' \in {"empty", "record"}
    BY <1>5 DEF LoadToPay, LoadToDeposit, Load, Fresh
  <2>2. /\ amount' \in Int /\ hours' \in Nat /\ entries' \in Nat /\ ledger' \in Int
        /\ reg' \in [Procs -> Int] /\ amt' \in [Procs -> Amounts \cup {0}]
    BY <1>5 DEF LoadToPay, LoadToDeposit, Load, Fresh
  <2>3. stuck' \in [Procs -> BOOLEAN]
    BY <1>5 DEF LoadToPay, LoadToDeposit, Load, Fresh
  <2>4. stale' \in [Procs -> BOOLEAN] /\ torn' \in BOOLEAN
    BY <1>5 DEF LoadToPay, LoadToDeposit, Load, Fresh
  <2>5. \A q \in Procs : stuck'[q] => amt'[q] = 0
    BY <1>5 DEF LoadToPay, LoadToDeposit, Load, Fresh
  <2>6. HeldInv'
    BY <1>5 DEF LoadToPay, LoadToDeposit, Load, Fresh
  <2> QED
    BY <2>1, <2>2, <2>3, <2>4, <2>5, <2>6
<1>6. ASSUME NEW p \in Procs, StorePaid(p) \/ StoreDeposited(p) PROVE TypeOK' /\ HeldInv'
  <2>1. at' \in [Procs -> Points] /\ selection' \in [Procs -> Choice] /\ file' \in {"empty", "record"}
    BY <1>6 DEF StorePaid, StoreDeposited, Store
  <2>2. /\ amount' \in Int /\ hours' \in Nat /\ entries' \in Nat /\ ledger' \in Int
        /\ reg' \in [Procs -> Int] /\ amt' \in [Procs -> Amounts \cup {0}]
    <3>1. amt[p] \in Int /\ reg[p] \in Int /\ ledger \in Int
      BY Numbers
    <3> QED
      BY <1>6, <3>1 DEF StorePaid, StoreDeposited, Store
  <2>3. stuck' \in [Procs -> BOOLEAN]
    BY <1>6 DEF StorePaid, StoreDeposited, Store
  <2>4. stale' \in [Procs -> BOOLEAN] /\ torn' \in BOOLEAN
    BY <1>6 DEF StorePaid, StoreDeposited, Store
  <2>5. \A q \in Procs : stuck'[q] => amt'[q] = 0
    BY <1>6 DEF StorePaid, StoreDeposited, Store
  <2>6. HeldInv'
    BY <1>6 DEF StorePaid, StoreDeposited, Store
  <2> QED
    BY <2>1, <2>2, <2>3, <2>4, <2>5, <2>6
<1>7. ASSUME NEW p \in Procs, LoadHours(p) \/ LoadEntries(p) PROVE TypeOK' /\ HeldInv'
  BY <1>7 DEF LoadHours, LoadEntries, Load
<1>8. ASSUME NEW p \in Procs, StoreHours(p) \/ StoreEntries(p) PROVE TypeOK' /\ HeldInv'
  <2>1. at' \in [Procs -> Points] /\ selection' \in [Procs -> Choice] /\ file' \in {"empty", "record"}
    BY <1>8 DEF StoreHours, StoreEntries
  <2>2. /\ amount' \in Int /\ hours' \in Nat /\ entries' \in Nat /\ ledger' \in Int
        /\ reg' \in [Procs -> Int] /\ amt' \in [Procs -> Amounts \cup {0}]
    <3>1. amt[p] \in Nat /\ reg[p] \in Nat
      BY <1>8, Numbers DEF StoreHours, StoreEntries
    <3>2. (2 * reg[p] + amt[p]) \div 2 \in Nat /\ reg[p] + 1 \in Nat
      BY <3>1
    <3> QED
      BY <1>8, <3>2 DEF StoreHours, StoreEntries
  <2>3. stuck' \in [Procs -> BOOLEAN]
    BY <1>8 DEF StoreHours, StoreEntries
  <2>4. stale' \in [Procs -> BOOLEAN] /\ torn' \in BOOLEAN
    BY <1>8 DEF StoreHours, StoreEntries
  <2>5. \A q \in Procs : stuck'[q] => amt'[q] = 0
    BY <1>8 DEF StoreHours, StoreEntries
  <2>6. HeldInv'
    BY <1>8 DEF StoreHours, StoreEntries
  <2> QED
    BY <2>1, <2>2, <2>3, <2>4, <2>5, <2>6
<1>9. ASSUME NEW p \in Procs, ClearData(p) PROVE TypeOK' /\ HeldInv'
  <2>1. at' \in [Procs -> Points] /\ selection' \in [Procs -> Choice] /\ file' \in {"empty", "record"}
    BY <1>9 DEF ClearData, Clear, ClearEntries, ClearHours
  <2>2. /\ amount' \in Int /\ hours' \in Nat /\ entries' \in Nat /\ ledger' \in Int
        /\ reg' \in [Procs -> Int] /\ amt' \in [Procs -> Amounts \cup {0}]
    BY <1>9 DEF ClearData, Clear, ClearEntries, ClearHours
  <2>3. stuck' \in [Procs -> BOOLEAN]
    BY <1>9 DEF ClearData, Clear, ClearEntries, ClearHours
  <2>4. stale' \in [Procs -> BOOLEAN] /\ torn' \in BOOLEAN
    BY <1>9 DEF ClearData, Clear, ClearEntries, ClearHours
  <2>5. \A q \in Procs : stuck'[q] => amt'[q] = 0
    BY <1>9 DEF ClearData, Clear, ClearEntries, ClearHours
  <2>6. HeldInv'
    BY <1>9 DEF ClearData, Clear, ClearEntries, ClearHours
  <2> QED
    BY <2>1, <2>2, <2>3, <2>4, <2>5, <2>6
<1>10. CASE UNCHANGED vars
  BY <1>10 DEF vars
<1> QED
  BY <1>1, <1>2, <1>3, <1>4, <1>5, <1>6, <1>7, <1>8, <1>9, <1>10 DEF Next, Menu, Balance, Work

\* A balance that is stored is one that was seen, or the store is torn.
LEMMA BalanceStep == TypeOK /\ HeldInv /\ BalanceInv /\ [Next]_vars => BalanceInv'
<1> SUFFICES ASSUME TypeOK, HeldInv, BalanceInv, [Next]_vars PROVE BalanceInv'
    OBVIOUS
<1> USE WorkPackageAssumption DEF TypeOK, BalanceInv, Seen, record, input, history, From, Points
<1>1. ASSUME NEW p \in Procs, Open(p) \/ Select(p) PROVE BalanceInv'
  BY <1>1 DEF Open, Select, PointOf
<1>3. ASSUME NEW p \in Procs, Amount(p) PROVE BalanceInv'
  BY <1>3 DEF Amount, Field, HeldInv
<1>4. ASSUME NEW p \in Procs, Check(p) PROVE BalanceInv'
  <2>1. \A q \in Procs : q # p => stale'[q] = stale[q] /\ at'[q] = at[q]
    BY <1>4 DEF Check, Fresh
  <2>2. at'[p] \in {"menu", "pay"} /\ (at'[p] = "pay" => amt[p] <= amount)
    <3>1. amt[p] \in Int /\ amount \in Int /\ at'[p] = IF amt[p] > amount THEN "menu" ELSE "pay"
      BY <1>4, Numbers DEF Check
    <3> QED
      BY <3>1
  <2>3. UNCHANGED <<amount, ledger, amt, reg, torn>>
    BY <1>4 DEF Check
  <2> QED
    BY <2>1, <2>2, <2>3
<1>5. ASSUME NEW p \in Procs, LoadToPay(p) \/ LoadToDeposit(p) PROVE BalanceInv'
  BY <1>5 DEF LoadToPay, LoadToDeposit, Load, Fresh
<1>6. ASSUME NEW p \in Procs, StorePaid(p) \/ StoreDeposited(p) PROVE BalanceInv'
  <2>1. ASSUME ~torn' PROVE ~torn /\ ~stale[p]
    BY <1>6, <2>1 DEF StorePaid, StoreDeposited, Store
  <2>2. ASSUME ~torn' PROVE amount' = ledger' /\ amount' >= 0
    <3>1. amount = ledger /\ amount >= 0 /\ amt[p] \in Nat /\ Seen(p)
      <4>1. amt[p] \in Nat
        BY Numbers
      <4> QED
        BY <2>1, <2>2, <4>1
    <3>2. CASE StorePaid(p)
      BY <3>1, <3>2 DEF StorePaid, Store
    <3>3. CASE StoreDeposited(p)
      BY <3>1, <3>3 DEF StoreDeposited, Store
    <3> QED
      BY <1>6, <3>2, <3>3
  <2>3. \A q \in Procs : ~stale'[q] => q = p
    BY <1>6 DEF StorePaid, StoreDeposited, Store
  <2>4. at'[p] = "menu"
    BY <1>6 DEF StorePaid, StoreDeposited
  <2> QED
    BY <2>2, <2>3, <2>4
<1>7. ASSUME NEW p \in Procs, Work(p) PROVE BalanceInv'
  BY <1>7 DEF Work, LoadHours, LoadEntries, Load, StoreHours, StoreEntries
<1>8. ASSUME NEW p \in Procs, ClearData(p) PROVE BalanceInv'
  <2>1. CASE Clear(p)
    <3>1. \A q \in Procs : ~stale'[q] => q = p
      BY <2>1 DEF Clear
    <3>2. at'[p] = "clearEntries" /\ amount' = 0 /\ ledger' = 0
      BY <2>1 DEF Clear
    <3> QED
      BY <3>1, <3>2
  <2>2. CASE ClearEntries(p) \/ ClearHours(p)
    BY <2>2 DEF ClearEntries, ClearHours
  <2> QED
    BY <1>8, <2>1, <2>2 DEF ClearData
<1>9. CASE UNCHANGED vars
  BY <1>9 DEF vars
<1> QED
  BY <1>1, <1>3, <1>4, <1>5, <1>6, <1>7, <1>8, <1>9 DEF Next, Menu, Balance

-----------------------------------------------------------------------------
\* The inductive invariant: types, registers, and what was seen of the balance.
THEOREM Inductive == Spec => []IInv
<1>1. Init => IInv
  <2> SUFFICES ASSUME Init PROVE IInv
    OBVIOUS
  <2>1. TypeOK
    <3>1. stuck \in [Procs -> BOOLEAN] /\ stale \in [Procs -> BOOLEAN] /\ torn \in BOOLEAN
      BY DEF Init
    <3>2. /\ at \in [Procs -> Points] /\ selection \in [Procs -> Choice]
          /\ amt \in [Procs -> Amounts \cup {0}] /\ reg \in [Procs -> Int]
      BY DEF Init, Points, Choice
    <3>3. \A p \in Procs : stuck[p] => amt[p] = 0
      BY DEF Init
    <3> QED
      BY <3>1, <3>2, <3>3 DEF Init, TypeOK
  <2>2. HeldInv /\ BalanceInv
    BY DEF Init, HeldInv, BalanceInv, Seen
  <2> QED
    BY <2>1, <2>2 DEF IInv
<1>2. IInv /\ [Next]_vars => IInv'
  BY TypeOKStep, BalanceStep DEF IInv
<1> QED
  BY <1>1, <1>2, PTL DEF Spec

\* For any number of processes and any amounts: as long as nobody stored over
\* what it had not seen, the balance is exact and not overdrawn
\* (workPackage.cpp:74-79, 87).
THEOREM ExactUnlessTornAlways == Spec => []ExactUnlessTorn
<1>1. IInv => ExactUnlessTorn
  BY DEF IInv, BalanceInv, ExactUnlessTorn
<1> QED
  BY Inductive, <1>1, PTL

-----------------------------------------------------------------------------
(* Nothing invented *)
(* What the processes of a set K are about to add, a[p] each, has its place   *)
(* between the total T that was typed and a mark M that neither the field v   *)
(* nor a value r[p] that a process of L loaded exceeds: side by side, from    *)
(* f[p] on.  When p adds its amount the mark rises by it, and the places      *)
(* below p's move up and fill p's own.                                        *)

Room(M, T, K, a) ==
    \E f \in [Procs -> Int] :
        /\ \A p \in K : M <= f[p] /\ f[p] + a[p] <= T
        /\ \A p, q \in K : p # q => f[p] + a[p] <= f[q] \/ f[q] + a[q] <= f[p]

Fits(v, T, K, a, L, r) ==
    \E M \in Nat : /\ v <= M /\ M <= T /\ (\A p \in L : r[p] <= M)
                   /\ Room(M, T, K, a)

AtOne(S) == {p \in Procs : at[p] \in S}

MoneyFits ==
    Fits(amount, typed.money, AtOne({"deposit", "deposited"}), amt,
         AtOne({"paid", "deposited"}), reg)
HoursFit ==
    Fits(2 * hours, typed.hours, AtOne({"work", "worked"}), amt,
         AtOne({"worked"}), [p \in Procs |-> 2 * reg[p]])
EntriesFit ==
    Fits(entries, typed.entries, AtOne({"work", "worked", "enter", "entered"}),
         [p \in Procs |-> 1], AtOne({"entered"}), reg)

TypedOK == typed \in [money : Nat, hours : Nat, entries : Nat]

AddedInv == TypedOK /\ MoneyFits /\ HoursFit /\ EntriesFit

\* When one more process has typed what it is about to add, there is room for it.
LEMMA RoomEnter ==
    ASSUME NEW M \in Nat, NEW T \in Nat, NEW K \in SUBSET Procs, NEW p \in Procs \ K,
           NEW a \in [Procs -> Nat], NEW b \in [Procs -> Nat], M <= T,
           \A q \in K : b[q] = a[q], Room(M, T, K, a)
    PROVE  Room(M, T + b[p], K \cup {p}, b)
<1>1. PICK f \in [Procs -> Int] :
        /\ \A q \in K : M <= f[q] /\ f[q] + a[q] <= T
        /\ \A q, s \in K : q # s => f[q] + a[q] <= f[s] \/ f[s] + a[s] <= f[q]
  BY DEF Room
<1> DEFINE g == [f EXCEPT ![p] = T]
<1>2. g \in [Procs -> Int] /\ g[p] = T /\ \A q \in K : g[q] = f[q] /\ q \in Procs
  OBVIOUS
<1> HIDE DEF g
<1>3. ASSUME NEW q \in K \cup {p} PROVE M <= g[q] /\ g[q] + b[q] <= T + b[p]
  <2>1. CASE q = p
    BY <1>2, <2>1
  <2>2. CASE q \in K
    <3>1. M <= f[q] /\ f[q] + a[q] <= T /\ g[q] = f[q] /\ b[q] = a[q]
      BY <1>1, <1>2, <2>2
    <3>2. f[q] \in Int /\ a[q] \in Nat /\ b[p] \in Nat
      BY <2>2
    <3> QED
      BY <3>1, <3>2
  <2> QED
    BY <2>1, <2>2
<1>4. ASSUME NEW q \in K PROVE g[q] + b[q] <= g[p]
  BY <1>1, <1>2
<1>5. \A q, s \in K \cup {p} : q # s => g[q] + b[q] <= g[s] \/ g[s] + b[s] <= g[q]
  BY <1>1, <1>2, <1>4
<1> QED
  BY <1>2, <1>3, <1>5 DEF Room

\* The mark may rise by what one of them has added: the rest moves up.
LEMMA RoomLeave ==
    ASSUME NEW M \in Nat, NEW T \in Nat, NEW K \in SUBSET Procs, NEW p \in K,
           NEW a \in [Procs -> Nat], Room(M, T, K, a)
    PROVE  M + a[p] <= T /\ Room(M + a[p], T, K \ {p}, a)
<1>1. PICK f \in [Procs -> Int] :
        /\ \A q \in K : M <= f[q] /\ f[q] + a[q] <= T
        /\ \A q, s \in K : q # s => f[q] + a[q] <= f[s] \/ f[s] + a[s] <= f[q]
  BY DEF Room
<1> DEFINE g == [q \in Procs |-> IF f[q] + a[q] <= f[p] THEN f[q] + a[p] ELSE f[q]]
<1>2. /\ a[p] \in Nat /\ f[p] \in Int
      /\ \A q \in Procs : a[q] \in Nat /\ f[q] \in Int
  OBVIOUS
<1>3. g \in [Procs -> Int]
  BY <1>2
<1>4. M + a[p] <= T
  BY <1>1, <1>2
<1>5. ASSUME NEW q \in K \ {p}
      PROVE  /\ M + a[p] <= g[q] /\ g[q] + a[q] <= T
             /\ \/ f[q] + a[q] <= f[p] /\ g[q] = f[q] + a[p]
                \/ f[p] + a[p] <= f[q] /\ g[q] = f[q]
  <2>1. /\ a[q] \in Nat /\ f[q] \in Int /\ M <= f[q] /\ f[q] + a[q] <= T
        /\ M <= f[p] /\ f[p] + a[p] <= T
        /\ f[q] + a[q] <= f[p] \/ f[p] + a[p] <= f[q]
    BY <1>1, <1>2
  <2>2. CASE f[q] + a[q] <= f[p]
    <3>1. g[q] = f[q] + a[p]
      BY <2>2
    <3> QED
      BY <1>2, <2>1, <2>2, <3>1
  <2>3. CASE ~(f[q] + a[q] <= f[p])
    <3>1. g[q] = f[q]
      BY <2>3
    <3> QED
      BY <1>2, <2>1, <2>3, <3>1
  <2> QED
    BY <2>2, <2>3
<1> HIDE DEF g
<1>6. ASSUME NEW q \in K \ {p}, NEW s \in K \ {p}, q # s
      PROVE  g[q] + a[q] <= g[s] \/ g[s] + a[s] <= g[q]
  <2>1. f[q] + a[q] <= f[s] \/ f[s] + a[s] <= f[q]
    BY <1>1, <1>6
  <2>2. a[q] \in Nat /\ f[q] \in Int /\ a[s] \in Nat /\ f[s] \in Int
    BY <1>2
  <2> QED
    BY <1>2, <1>5, <2>1, <2>2
<1> QED
  BY <1>3, <1>4, <1>5, <1>6 DEF Room

\* With fewer processes there is room all the more.
LEMMA RoomKept ==
    ASSUME NEW M \in Nat, NEW T \in Nat, NEW K \in SUBSET Procs, NEW J \in SUBSET K,
           NEW a \in [Procs -> Nat], NEW b, \A p \in J : b[p] = a[p], Room(M, T, K, a)
    PROVE  Room(M, T, J, b)
<1>1. PICK f \in [Procs -> Int] :
        /\ \A p \in K : M <= f[p] /\ f[p] + a[p] <= T
        /\ \A p, q \in K : p # q => f[p] + a[p] <= f[q] \/ f[q] + a[q] <= f[p]
  BY DEF Room
<1>2. \A p \in J : M <= f[p] /\ f[p] + b[p] <= T
  BY <1>1
<1>3. \A p, q \in J : p # q => f[p] + b[p] <= f[q] \/ f[q] + b[q] <= f[p]
  BY <1>1
<1> QED
  BY <1>2, <1>3 DEF Room

\* So all fits when a process has typed an amount to add,
LEMMA FitsEnter ==
    ASSUME NEW v \in Int, NEW T \in Nat,
           NEW K \in SUBSET Procs, NEW p \in Procs \ K, NEW J, J = K \cup {p},
           NEW a \in [Procs -> Nat], NEW b \in [Procs -> Nat], \A q \in K : b[q] = a[q],
           NEW L, NEW N, N \subseteq L, NEW r, Fits(v, T, K, a, L, r)
    PROVE  Fits(v, T + b[p], J, b, N, r)
<1>1. PICK M \in Nat : /\ v <= M /\ M <= T /\ (\A q \in L : r[q] <= M)
                       /\ Room(M, T, K, a)
  BY DEF Fits
<1>2. Room(M, T + b[p], J, b)
  BY <1>1, RoomEnter
<1>3. M <= T + b[p]
  <2>1. b[p] \in Nat
    OBVIOUS
  <2> QED
    BY <1>1, <2>1
<1> QED
  BY <1>1, <1>2, <1>3 DEF Fits

\* and when it has stored it, added to the value it loaded.
LEMMA FitsLeave ==
    ASSUME NEW v \in Int, NEW w \in Int, NEW T \in Nat,
           NEW K \in SUBSET Procs, NEW p \in K, NEW J, J = K \ {p},
           NEW a \in [Procs -> Nat],
           NEW L, p \in L, NEW N, N \subseteq L, NEW r,
           \A q \in L : r[q] \in Int,
           w <= r[p] + a[p], Fits(v, T, K, a, L, r)
    PROVE  Fits(w, T, J, a, N, r)
<1>1. PICK M \in Nat : /\ v <= M /\ M <= T /\ (\A q \in L : r[q] <= M)
                       /\ Room(M, T, K, a)
  BY DEF Fits
<1>2. M + a[p] <= T /\ Room(M + a[p], T, J, a)
  BY <1>1, RoomLeave
<1>3. a[p] \in Nat /\ r[p] \in Int /\ r[p] <= M
  BY <1>1
<1>4. w <= M + a[p] /\ M + a[p] \in Nat
  BY <1>3
<1>5. \A q \in N : r[q] <= M + a[p]
  <2> SUFFICES ASSUME NEW q \in N PROVE r[q] <= M + a[p]
    OBVIOUS
  <2>1. r[q] \in Int /\ r[q] <= M
    BY <1>1
  <2> QED
    BY <1>3, <2>1
<1> QED
  BY <1>2, <1>4, <1>5 DEF Fits


-----------------------------------------------------------------------------
\* The numbers the three sums are made of.
LEMMA Addends ==
    TypeOK => /\ amt \in [Procs -> Nat] /\ [p \in Procs |-> 1] \in [Procs -> Nat]
              /\ \A p \in Procs : reg[p] \in Int
              /\ amount \in Int /\ hours \in Int /\ entries \in Int
BY Numbers DEF TypeOK

\* A process that moves on joins and leaves the sets of its points.
LEMMA AtMoves ==
    ASSUME TypeOK, NEW p \in Procs, NEW x, NEW y, From(p, x, y), NEW S
    PROVE  /\ p \in AtOne(S) <=> x \in S
           /\ AtOne(S)' = IF y \in S THEN AtOne(S) \cup {p} ELSE AtOne(S) \ {p}
BY DEF TypeOK, From, AtOne

\* What the user types in is counted at once.
LEMMA TypedBy ==
    ASSUME TypedOK, NEW s \in 1..3, NEW a \in Nat, typed' = Typed(s, a)
    PROVE  /\ TypedOK'
           /\ s = 1 => /\ typed'.money = typed.money /\ typed'.hours = typed.hours + a
                       /\ typed'.entries = typed.entries + 1
           /\ s = 2 => typed' = typed
           /\ s = 3 => /\ typed'.money = typed.money + a /\ typed'.hours = typed.hours
                       /\ typed'.entries = typed.entries
<1>1. /\ s = 1 => typed' = [typed EXCEPT !.hours = typed.hours + a, !.entries = typed.entries + 1]
      /\ s = 2 => typed' = typed
      /\ s = 3 => typed' = [typed EXCEPT !.money = typed.money + a]
  BY DEF Typed
<1>2. typed \in [money : Nat, hours : Nat, entries : Nat]
  BY DEF TypedOK
<1>3. typed' \in [money : Nat, hours : Nat, entries : Nat]
  <2>1. typed.money \in Nat /\ typed.hours \in Nat /\ typed.entries \in Nat
    BY <1>2
  <2>2. typed.money + a \in Nat /\ typed.hours + a \in Nat /\ typed.entries + 1 \in Nat
    BY <2>1
  <2>3. \A m, h, e \in Nat :
            /\ [typed EXCEPT !.hours = h, !.entries = e] \in [money : Nat, hours : Nat, entries : Nat]
            /\ [typed EXCEPT !.money = m] \in [money : Nat, hours : Nat, entries : Nat]
    BY <1>2
  <2>4. s = 1 \/ s = 2 \/ s = 3
    OBVIOUS
  <2> QED
    BY <1>1, <1>2, <2>2, <2>3, <2>4
<1> QED
  BY <1>1, <1>2, <1>3 DEF TypedOK

\* The one step that adds to what was typed.
LEMMA AmountTyped ==
    ASSUME TypeOK, HeldInv, TypedOK, NEW p \in Procs, Amount(p)
    PROVE  /\ TypedOK' /\ UNCHANGED <<record, reg>> /\ amt'[p] \in Nat
           /\ \A q \in Procs \ {p} : amt'[q] = amt[q]
           /\ \/ /\ From(p, "amount", "work") /\ typed'.money = typed.money
                 /\ typed'.hours = typed.hours + amt'[p]
                 /\ typed'.entries = typed.entries + 1
              \/ From(p, "amount", "check") /\ typed' = typed
              \/ /\ From(p, "amount", "deposit") /\ typed'.money = typed.money + amt'[p]
                 /\ typed'.hours = typed.hours /\ typed'.entries = typed.entries
<1>1. /\ From(p, "amount", Field(selection[p])) /\ typed' = Typed(selection[p], amt'[p])
      /\ UNCHANGED <<record, reg>>
  BY DEF Amount
<1>2. selection[p] \in 1..3 /\ amt[p] = 0
  BY <1>1 DEF HeldInv, From
<1>3. amt \in [Procs -> Nat]
  BY Addends
<1>4. amt' = amt \/ \E a \in Nat : amt' = [amt EXCEPT ![p] = a]
  BY WorkPackageAssumption DEF Amount
<1>5. amt'[p] \in Nat /\ \A q \in Procs \ {p} : amt'[q] = amt[q]
  BY <1>3, <1>4
<1>6. /\ selection[p] = 1 => Field(selection[p]) = "work"
      /\ selection[p] = 2 => Field(selection[p]) = "check"
      /\ selection[p] = 3 => Field(selection[p]) = "deposit"
  BY DEF Field
<1>7. selection[p] = 1 \/ selection[p] = 2 \/ selection[p] = 3
  BY <1>2
<1> QED
  BY <1>1, <1>2, <1>5, <1>6, <1>7, TypedBy

\* A choice moves no process to a point where it adds something.
LEMMA SelectMoves ==
    ASSUME TypeOK, NEW p \in Procs, Open(p) \/ Select(p) \/ Check(p)
    PROVE  /\ \E y \in {"menu", "amount", "clear", "ended", "killed", "pay"}, x \in {"open", "menu", "check"} :
                  From(p, x, y)
           /\ UNCHANGED <<record, reg, typed>>
           /\ at[p] \in {"open", "menu", "check"}
           /\ \A q \in Procs \ {p} : amt'[q] = amt[q]
<1>1. \E y \in {"menu", "amount", "clear", "ended", "killed", "pay"}, x \in {"open", "menu", "check"} :
          From(p, x, y)
  BY DEF Open, Select, Check, PointOf
<1>2. UNCHANGED <<record, reg, typed>>
  BY DEF Open, Select, Check, history
<1>3. \A q \in Procs \ {p} : amt'[q] = amt[q]
  BY DEF Open, Select, Check, input, TypeOK
<1> QED
  BY <1>1, <1>2, <1>3 DEF From

LEMMA MoneyStep ==
    ASSUME TypeOK, TypeOK', HeldInv, TypedOK, MoneyFits, NEW p \in Procs,
           Menu(p) \/ Balance(p) \/ Work(p) \/ ClearData(p)
    PROVE  MoneyFits'
<1> DEFINE K == AtOne({"deposit", "deposited"})
           L == AtOne({"paid", "deposited"})
<1>0. /\ amt \in [Procs -> Nat] /\ amt' \in [Procs -> Nat] /\ amount \in Int /\ amount' \in Int
      /\ typed.money \in Nat /\ K \in SUBSET Procs /\ L \in SUBSET Procs
      /\ \A q \in Procs : reg[q] \in Int
  <2>1. amt' \in [Procs -> Nat]
    <3>1. amt' \in [Procs -> Amounts \cup {0}]
      BY DEF TypeOK
    <3>2. Amounts \cup {0} \subseteq Nat
      BY WorkPackageAssumption
    <3> QED
      BY <3>1, <3>2
  <2> QED
    BY <2>1, Addends DEF TypeOK, TypedOK, AtOne
<1>1. Fits(amount, typed.money, K, amt, L, reg)
  BY DEF MoneyFits
<1>a. ASSUME K' \subseteq K, typed'.money = typed.money, \A q \in K' : amt'[q] = amt[q],
             amount' = amount \/ amount' <= 0 \/ \E q \in L : reg[q] \in Int /\ amount' <= reg[q],
             \A q \in L' : (q \in L /\ reg'[q] = reg[q]) \/ reg'[q] = amount
      PROVE  MoneyFits'
  <2> HIDE DEF K, L
  <2>1. PICK M \in Nat : /\ amount <= M /\ M <= typed.money /\ (\A q \in L : reg[q] <= M)
                         /\ Room(M, typed.money, K, amt)
    BY <1>1 DEF Fits
  <2>2. Room(M, typed.money, K', amt')
    BY <1>0, <1>a, <2>1, RoomKept
  <2>3. amount' <= M
    BY <1>0, <1>a, <2>1
  <2>4. \A q \in L' : reg'[q] <= M
    BY <1>a, <2>1
  <2>5. Fits(amount', typed.money, K', amt', L', reg')
    BY <2>1, <2>2, <2>3, <2>4 DEF Fits
  <2> QED
    BY <1>a, <2>5 DEF MoneyFits, K, L
<1>2. CASE Open(p) \/ Select(p) \/ Check(p)
  <2>1. K' \subseteq K /\ p \notin K' /\ L' \subseteq L
    BY <1>2, SelectMoves, AtMoves
  <2>2. UNCHANGED <<amount, reg, typed>>
    BY <1>2, SelectMoves DEF record
  <2>3. \A q \in K' : amt'[q] = amt[q]
    BY <1>0, <1>2, <2>1, SelectMoves
  <2> QED
    BY <1>a, <2>1, <2>2, <2>3
<1>3. CASE Amount(p)
  <2>1. UNCHANGED <<amount, reg>> /\ \A q \in Procs \ {p} : amt'[q] = amt[q]
    BY <1>3, AmountTyped DEF record
  <2>2. CASE From(p, "amount", "deposit") /\ typed'.money = typed.money + amt'[p]
    <3>1. K' = K \cup {p} /\ p \notin K /\ L' = L \ {p}
      BY <2>2, AtMoves
    <3> HIDE DEF K, L
    <3>2. Fits(amount, typed.money + amt'[p], K', amt', L', reg)
      BY <1>0, <1>1, <2>1, <3>1, FitsEnter
    <3> QED
      BY <2>1, <2>2, <3>2 DEF MoneyFits, K, L
  <2>3. CASE \/ From(p, "amount", "work") /\ typed'.money = typed.money
             \/ From(p, "amount", "check") /\ typed' = typed
    <3>1. K' = K \ {p} /\ L' = L \ {p} /\ typed'.money = typed.money
      BY <2>3, AtMoves
    <3> QED
      BY <1>0, <1>a, <2>1, <3>1
  <2> QED
    BY <1>3, <2>2, <2>3, AmountTyped
<1>4. CASE LoadToPay(p) \/ LoadToDeposit(p)
  <2>1. /\ UNCHANGED <<amount, amt, typed>> /\ reg' = [reg EXCEPT ![p] = amount]
        /\ From(p, "pay", "paid") \/ From(p, "deposit", "deposited")
    BY <1>4 DEF LoadToPay, LoadToDeposit, Load, record, input, history
  <2>2. K' \subseteq K /\ L' = L \cup {p}
    BY <2>1, AtMoves
  <2>3. \A q \in L' : (q \in L /\ reg'[q] = reg[q]) \/ reg'[q] = amount
    BY <1>0, <2>1, <2>2 DEF TypeOK
  <2> QED
    BY <1>a, <2>1, <2>2, <2>3
<1>5. CASE StorePaid(p)
  <2>1. /\ UNCHANGED <<amt, reg, typed>> /\ From(p, "paid", "menu")
        /\ amount' = reg[p] - amt[p]
    BY <1>5 DEF StorePaid, Store, input
  <2>2. K' \subseteq K /\ L' \subseteq L /\ p \in L
    BY <2>1, AtMoves
  <2>3. reg[p] \in Int /\ amt[p] \in Nat
    BY <1>0
  <2>4. amount' <= reg[p]
    BY <2>1, <2>3
  <2> QED
    BY <1>a, <2>1, <2>2, <2>3, <2>4
<1>6. CASE StoreDeposited(p)
  <2>1. /\ UNCHANGED <<amt, reg, typed>> /\ From(p, "deposited", "menu")
        /\ amount' = reg[p] + amt[p]
    BY <1>6 DEF StoreDeposited, Store, input
  <2>2. K' = K \ {p} /\ L' \subseteq L /\ p \in L /\ p \in K
    BY <2>1, AtMoves
  <2>3. amount' <= reg[p] + amt[p]
    BY <1>0, <2>1
  <2> HIDE DEF K, L
  <2>4. \A q \in L : reg[q] \in Int
    BY <1>0
  <2>5. Fits(amount', typed.money, K', amt, L', reg)
    BY <1>0, <1>1, <2>2, <2>3, <2>4, FitsLeave
  <2> QED
    BY <2>1, <2>5 DEF MoneyFits, K, L
<1>7. CASE LoadHours(p) \/ LoadEntries(p)
  <2>1. /\ UNCHANGED <<amount, amt, typed>> /\ \A q \in Procs \ {p} : reg'[q] = reg[q]
        /\ From(p, "work", "worked") \/ From(p, "enter", "entered")
    BY <1>7 DEF LoadHours, LoadEntries, Load, record, input, history, TypeOK
  <2>2. K' \subseteq K /\ L' = L \ {p}
    BY <2>1, AtMoves
  <2> QED
    BY <1>0, <1>a, <2>1, <2>2
<1>8. CASE StoreHours(p) \/ StoreEntries(p) \/ ClearData(p)
  <2>1. /\ UNCHANGED <<amt, reg, typed>> /\ (amount' = amount \/ amount' = 0)
        /\ \E x \in {"worked", "entered", "clear", "clearEntries", "clearHours"},
              y \in {"enter", "menu", "clearEntries", "clearHours"} : From(p, x, y)
    BY <1>8 DEF StoreHours, StoreEntries, ClearData, Clear, ClearEntries, ClearHours, input, history
  <2>2. K' \subseteq K /\ L' \subseteq L
    BY <2>1, AtMoves
  <2>3. amount' = amount \/ amount' <= 0
    BY <2>1
  <2> QED
    BY <1>a, <2>1, <2>2, <2>3
<1> QED
  BY <1>2, <1>3, <1>4, <1>5, <1>6, <1>7, <1>8 DEF Menu, Balance, Work

LEMMA HoursStep ==
    ASSUME TypeOK, TypeOK', HeldInv, TypedOK, HoursFit, NEW p \in Procs,
           Menu(p) \/ Balance(p) \/ Work(p) \/ ClearData(p)
    PROVE  HoursFit'
<1> DEFINE K == AtOne({"work", "worked"})
           L == AtOne({"worked"})
           twice == [q \in Procs |-> 2 * reg[q]]
<1>0. /\ amt \in [Procs -> Nat] /\ amt' \in [Procs -> Nat] /\ hours \in Nat /\ hours' \in Nat
      /\ typed.hours \in Nat /\ K \in SUBSET Procs /\ L \in SUBSET Procs
      /\ \A q \in Procs : reg[q] \in Int /\ twice[q] = 2 * reg[q] /\ twice'[q] = 2 * reg'[q]
  <2>1. amt' \in [Procs -> Nat]
    <3>1. amt' \in [Procs -> Amounts \cup {0}]
      BY DEF TypeOK
    <3>2. Amounts \cup {0} \subseteq Nat
      BY WorkPackageAssumption
    <3> QED
      BY <3>1, <3>2
  <2> QED
    BY <2>1, Addends DEF TypeOK, TypedOK, AtOne
<1>1. Fits(2 * hours, typed.hours, K, amt, L, twice)
  BY DEF HoursFit
<1>a. ASSUME K' \subseteq K, typed'.hours = typed.hours, \A q \in K' : amt'[q] = amt[q],
             hours' = hours \/ hours' = 0,
             \A q \in L' : (q \in L /\ reg'[q] = reg[q]) \/ reg'[q] = hours
      PROVE  HoursFit'
  <2>0. L' \subseteq Procs
    BY DEF AtOne
  <2> HIDE DEF K, L, twice
  <2>1. PICK M \in Nat : /\ 2 * hours <= M /\ M <= typed.hours /\ (\A q \in L : twice[q] <= M)
                         /\ Room(M, typed.hours, K, amt)
    BY <1>1 DEF Fits
  <2>2. Room(M, typed.hours, K', amt')
    BY <1>0, <1>a, <2>1, RoomKept
  <2>3. 2 * hours' <= M
    BY <1>0, <1>a, <2>1
  <2>4. \A q \in L' : twice'[q] <= M
    BY <1>0, <1>a, <2>0, <2>1
  <2>5. Fits(2 * hours', typed.hours, K', amt', L', twice')
    BY <2>1, <2>2, <2>3, <2>4 DEF Fits
  <2> QED
    BY <1>a, <2>5 DEF HoursFit, K, L, twice
<1>2. CASE Open(p) \/ Select(p) \/ Check(p)
  <2>1. K' \subseteq K /\ p \notin K' /\ L' \subseteq L
    BY <1>2, SelectMoves, AtMoves
  <2>2. UNCHANGED <<hours, reg, typed>>
    BY <1>2, SelectMoves DEF record
  <2>3. \A q \in K' : amt'[q] = amt[q]
    BY <1>0, <1>2, <2>1, SelectMoves
  <2> QED
    BY <1>a, <2>1, <2>2, <2>3
<1>3. CASE Amount(p)
  <2>1. UNCHANGED <<hours, reg>> /\ \A q \in Procs \ {p} : amt'[q] = amt[q]
    BY <1>3, AmountTyped DEF record
  <2>2. CASE From(p, "amount", "work") /\ typed'.hours = typed.hours + amt'[p]
    <3>1. K' = K \cup {p} /\ p \notin K /\ L' = L \ {p} /\ twice' = twice
      BY <2>1, <2>2, AtMoves
    <3> HIDE DEF K, L, twice
    <3>2. 2 * hours \in Int
      BY <1>0
    <3>3. Fits(2 * hours, typed.hours + amt'[p], K', amt', L', twice)
      BY <1>0, <1>1, <2>1, <3>1, <3>2, FitsEnter
    <3> QED
      BY <2>1, <2>2, <3>1, <3>3 DEF HoursFit, K, L, twice
  <2>3. CASE \/ From(p, "amount", "deposit") /\ typed'.hours = typed.hours
             \/ From(p, "amount", "check") /\ typed' = typed
    <3>1. K' = K \ {p} /\ L' = L \ {p} /\ typed'.hours = typed.hours
      BY <2>3, AtMoves
    <3> QED
      BY <1>0, <1>a, <2>1, <3>1
  <2> QED
    BY <1>3, <2>2, <2>3, AmountTyped
<1>4. CASE LoadHours(p)
  <2>1. /\ UNCHANGED <<hours, amt, typed>> /\ reg' = [reg EXCEPT ![p] = hours]
        /\ From(p, "work", "worked")
    BY <1>4 DEF LoadHours, Load, record, input, history
  <2>2. K' \subseteq K /\ L' = L \cup {p}
    BY <2>1, AtMoves
  <2>3. \A q \in L' : (q \in L /\ reg'[q] = reg[q]) \/ reg'[q] = hours
    BY <1>0, <2>1, <2>2 DEF TypeOK
  <2> QED
    BY <1>a, <2>1, <2>2, <2>3
<1>5. CASE StoreHours(p)
  <2>1. /\ UNCHANGED <<amt, reg, typed>> /\ From(p, "worked", "enter")
        /\ hours' = (2 * reg[p] + amt[p]) \div 2
    BY <1>5 DEF StoreHours, input, history
  <2>2. K' = K \ {p} /\ L' \subseteq L /\ p \in L /\ p \in K
    BY <2>1, AtMoves
  <2>3. 2 * hours' <= twice[p] + amt[p]
    <3>1. reg[p] \in Nat /\ amt[p] \in Nat /\ twice[p] = 2 * reg[p]
      BY <1>0, <2>1 DEF HeldInv, From
    <3>2. \A n \in Nat : 2 * (n \div 2) <= n
      OBVIOUS
    <3>3. 2 * reg[p] + amt[p] \in Nat
      BY <3>1
    <3> QED
      BY <2>1, <3>1, <3>2, <3>3
  <2>4. \A q \in L : twice[q] \in Int
    BY <1>0
  <2>5. 2 * hours \in Int /\ 2 * hours' \in Int
    BY <1>0
  <2> HIDE DEF K, L, twice
  <2>6. Fits(2 * hours', typed.hours, K', amt, L', twice)
    <3>1. PICK v \in Int : v = 2 * hours
      BY <2>5
    <3>2. PICK w \in Int : w = 2 * hours'
      BY <2>5
    <3>3. w <= twice[p] + amt[p] /\ Fits(v, typed.hours, K, amt, L, twice)
      BY <1>1, <2>3, <3>1, <3>2
    <3>4. Fits(w, typed.hours, K', amt, L', twice)
      BY <1>0, <2>2, <2>4, <3>3, FitsLeave
    <3> QED
      BY <3>2, <3>4
  <2> QED
    BY <2>1, <2>6 DEF HoursFit, K, L, twice
<1>6. CASE LoadToPay(p) \/ LoadToDeposit(p) \/ LoadEntries(p)
  <2>1. /\ UNCHANGED <<hours, amt, typed>> /\ \A q \in Procs \ {p} : reg'[q] = reg[q]
        /\ \/ From(p, "pay", "paid") \/ From(p, "deposit", "deposited")
           \/ From(p, "enter", "entered")
    BY <1>6 DEF LoadToPay, LoadToDeposit, LoadEntries, Load, record, input, history, TypeOK
  <2>2. K' \subseteq K /\ L' = L \ {p}
    BY <2>1, AtMoves
  <2> QED
    BY <1>0, <1>a, <2>1, <2>2
<1>7. CASE StorePaid(p) \/ StoreDeposited(p) \/ StoreEntries(p) \/ ClearData(p)
  <2>1. /\ UNCHANGED <<amt, reg, typed>> /\ (hours' = hours \/ hours' = 0)
        /\ \E x \in {"paid", "deposited", "entered", "clear", "clearEntries", "clearHours"},
              y \in {"menu", "clearEntries", "clearHours"} : From(p, x, y)
    BY <1>7 DEF StorePaid, StoreDeposited, StoreEntries, ClearData, Clear, ClearEntries,
       ClearHours, input, history
  <2>2. K' \subseteq K /\ L' \subseteq L
    BY <2>1, AtMoves
  <2> QED
    BY <1>a, <2>1, <2>2
<1> QED
  BY <1>2, <1>3, <1>4, <1>5, <1>6, <1>7 DEF Menu, Balance, Work

LEMMA EntriesStep ==
    ASSUME TypeOK, TypeOK', HeldInv, TypedOK, EntriesFit, NEW p \in Procs,
           Menu(p) \/ Balance(p) \/ Work(p) \/ ClearData(p)
    PROVE  EntriesFit'
<1> DEFINE K == AtOne({"work", "worked", "enter", "entered"})
           L == AtOne({"entered"})
           one == [q \in Procs |-> 1]
<1>0. /\ one \in [Procs -> Nat] /\ entries \in Nat /\ entries' \in Nat
      /\ typed.entries \in Nat /\ K \in SUBSET Procs /\ L \in SUBSET Procs
      /\ \A q \in Procs : reg[q] \in Int /\ one[q] = 1
  BY Addends DEF TypeOK, TypedOK, AtOne
<1>1. Fits(entries, typed.entries, K, one, L, reg)
  BY DEF EntriesFit
<1>a. ASSUME K' \subseteq K, typed'.entries = typed.entries,
             entries' = entries \/ entries' = 0,
             \A q \in L' : (q \in L /\ reg'[q] = reg[q]) \/ reg'[q] = entries
      PROVE  EntriesFit'
  <2> HIDE DEF K, L, one
  <2>1. PICK M \in Nat : /\ entries <= M /\ M <= typed.entries /\ (\A q \in L : reg[q] <= M)
                         /\ Room(M, typed.entries, K, one)
    BY <1>1 DEF Fits
  <2>2. Room(M, typed.entries, K', one)
    BY <1>0, <1>a, <2>1, RoomKept
  <2>3. entries' <= M
    BY <1>0, <1>a, <2>1
  <2>4. \A q \in L' : reg'[q] <= M
    BY <1>a, <2>1
  <2>5. Fits(entries', typed.entries, K', one, L', reg')
    BY <2>1, <2>2, <2>3, <2>4 DEF Fits
  <2> QED
    BY <1>a, <2>5 DEF EntriesFit, K, L, one
<1>2. CASE Open(p) \/ Select(p) \/ Check(p)
  <2>1. K' \subseteq K /\ L' \subseteq L
    BY <1>2, SelectMoves, AtMoves
  <2>2. UNCHANGED <<entries, reg, typed>>
    BY <1>2, SelectMoves DEF record
  <2> QED
    BY <1>a, <2>1, <2>2
<1>3. CASE Amount(p)
  <2>1. UNCHANGED <<entries, reg>>
    BY <1>3, AmountTyped DEF record
  <2>2. CASE From(p, "amount", "work") /\ typed'.entries = typed.entries + 1
    <3>1. K' = K \cup {p} /\ p \notin K /\ L' = L \ {p}
      BY <2>2, AtMoves
    <3>0. entries \in Int
      BY <1>0
    <3> HIDE DEF K, L, one
    <3>2. Fits(entries, typed.entries + one[p], K', one, L', reg)
      BY <1>0, <1>1, <2>1, <3>0, <3>1, FitsEnter
    <3> QED
      BY <1>0, <2>1, <2>2, <3>2 DEF EntriesFit, K, L, one
  <2>3. CASE \/ From(p, "amount", "deposit") /\ typed'.entries = typed.entries
             \/ From(p, "amount", "check") /\ typed' = typed
    <3>1. K' = K \ {p} /\ L' = L \ {p} /\ typed'.entries = typed.entries
      BY <2>3, AtMoves
    <3> QED
      BY <1>0, <1>a, <2>1, <3>1
  <2> QED
    BY <1>3, <2>2, <2>3, AmountTyped
<1>4. CASE LoadEntries(p)
  <2>1. /\ UNCHANGED <<entries, typed>> /\ reg' = [reg EXCEPT ![p] = entries]
        /\ From(p, "enter", "entered")
    BY <1>4 DEF LoadEntries, Load, record, history
  <2>2. K' \subseteq K /\ L' = L \cup {p}
    BY <2>1, AtMoves
  <2>3. \A q \in L' : (q \in L /\ reg'[q] = reg[q]) \/ reg'[q] = entries
    BY <1>0, <2>1, <2>2 DEF TypeOK
  <2> QED
    BY <1>a, <2>1, <2>2, <2>3
<1>5. CASE StoreEntries(p)
  <2>1. /\ UNCHANGED <<reg, typed>> /\ From(p, "entered", "menu") /\ entries' = reg[p] + 1
    BY <1>5 DEF StoreEntries, history
  <2>2. K' = K \ {p} /\ L' \subseteq L /\ p \in L /\ p \in K
    BY <2>1, AtMoves
  <2>3. entries' <= reg[p] + one[p] /\ \A q \in L : reg[q] \in Int
    BY <1>0, <2>1
  <2> HIDE DEF K, L, one
  <2>4. Fits(entries', typed.entries, K', one, L', reg)
    BY <1>0, <1>1, <2>2, <2>3, FitsLeave
  <2> QED
    BY <2>1, <2>4 DEF EntriesFit, K, L, one
<1>6. CASE LoadToPay(p) \/ LoadToDeposit(p) \/ LoadHours(p)
  <2>1. /\ UNCHANGED <<entries, typed>> /\ \A q \in Procs \ {p} : reg'[q] = reg[q]
        /\ \/ From(p, "pay", "paid") \/ From(p, "deposit", "deposited")
           \/ From(p, "work", "worked")
    BY <1>6 DEF LoadToPay, LoadToDeposit, LoadHours, Load, record, history, TypeOK
  <2>2. K' \subseteq K /\ L' = L \ {p}
    BY <2>1, AtMoves
  <2> QED
    BY <1>0, <1>a, <2>1, <2>2
<1>7. CASE StorePaid(p) \/ StoreDeposited(p) \/ StoreHours(p) \/ ClearData(p)
  <2>1. /\ UNCHANGED <<reg, typed>> /\ (entries' = entries \/ entries' = 0)
        /\ \/ From(p, "worked", "enter")
           \/ \E x \in {"paid", "deposited", "clear", "clearEntries", "clearHours"},
              y \in {"menu", "clearEntries", "clearHours"} : From(p, x, y)
    BY <1>7 DEF StorePaid, StoreDeposited, StoreHours, ClearData, Clear, ClearEntries,
       ClearHours, history
  <2>2. K' \subseteq K /\ L' \subseteq L
    BY <2>1, AtMoves
  <2> QED
    BY <1>a, <2>1, <2>2
<1> QED
  BY <1>2, <1>3, <1>4, <1>5, <1>6, <1>7 DEF Menu, Balance, Work

\* Nothing but Amount changes what was typed.
LEMMA TypedStep ==
    ASSUME TypeOK, HeldInv, TypedOK, NEW p \in Procs,
           Menu(p) \/ Balance(p) \/ Work(p) \/ ClearData(p)
    PROVE  TypedOK'
<1>1. CASE Amount(p)
  BY <1>1, AmountTyped
<1>2. CASE ~Amount(p)
  <2>1. typed' = typed
    BY <1>2 DEF Menu, Open, Select, Balance, Check, LoadToPay, StorePaid, LoadToDeposit,
       StoreDeposited, Work, LoadHours, StoreHours, LoadEntries, StoreEntries, ClearData,
       Clear, ClearEntries, ClearHours, history
  <2> QED
    BY <2>1 DEF TypedOK
<1> QED
  BY <1>1, <1>2

\* For any number of processes, amounts and turns: what the record holds was typed
\* in, however the loads and stores of the processes fall (workPackage.cpp:65-66,
\* 78, 87, 96-98).
THEOREM NothingInventedAlways == Spec => []NothingInvented
<1>1. Init => AddedInv
  <2> SUFFICES ASSUME Init PROVE AddedInv
    OBVIOUS
  <2>1. typed = [money |-> 0, hours |-> 0, entries |-> 0] /\ TypedOK
    BY DEF Init, TypedOK
  <2>2. \A p \in Procs : at[p] = "open"
    BY DEF Init
  <2>3. ASSUME NEW a PROVE Room(0, 0, {}, a)
    <3>1. [p \in Procs |-> 0] \in [Procs -> Int]
      OBVIOUS
    <3> QED
      BY <3>1, Zenon DEF Room
  <2>4. PICK z \in Nat : z = 0
    OBVIOUS
  <2>5. ASSUME NEW a, NEW r PROVE Fits(0, 0, {}, a, {}, r)
    BY <2>3, <2>4 DEF Fits
  <2>6. /\ AtOne({"deposit", "deposited"}) = {} /\ AtOne({"paid", "deposited"}) = {}
        /\ AtOne({"work", "worked"}) = {} /\ AtOne({"worked"}) = {}
        /\ AtOne({"work", "worked", "enter", "entered"}) = {} /\ AtOne({"entered"}) = {}
    BY <2>2 DEF AtOne
  <2>7. amount = 0 /\ 2 * hours = 0 /\ entries = 0
    BY DEF Init
  <2> QED
    BY <2>1, <2>5, <2>6, <2>7 DEF AddedInv, MoneyFits, HoursFit, EntriesFit
<1>2. IInv /\ IInv' /\ AddedInv /\ [Next]_vars => AddedInv'
  <2> SUFFICES ASSUME TypeOK, TypeOK', HeldInv, AddedInv, [Next]_vars PROVE AddedInv'
    BY DEF IInv
  <2>1. CASE Next
    BY <2>1, TypedStep, MoneyStep, HoursStep, EntriesStep DEF AddedInv, Next
  <2>2. CASE UNCHANGED vars
    BY <2>2 DEF AddedInv, TypedOK, MoneyFits, HoursFit, EntriesFit, AtOne, vars, record,
       input, history
  <2> QED
    BY <2>1, <2>2
<1>3. IInv /\ AddedInv => NothingInvented
  <2> SUFFICES ASSUME IInv, AddedInv PROVE NothingInvented
    OBVIOUS
  <2>1. /\ amount \in Int /\ hours \in Nat /\ entries \in Nat
        /\ typed.money \in Nat /\ typed.hours \in Nat /\ typed.entries \in Nat
    BY DEF IInv, TypeOK, AddedInv, TypedOK
  <2>2. amount <= typed.money
    BY <2>1 DEF AddedInv, MoneyFits, Fits
  <2>3. 2 * hours <= typed.hours
    <3>1. PICK M \in Nat : 2 * hours <= M /\ M <= typed.hours
      BY DEF AddedInv, HoursFit, Fits
    <3> QED
      BY <2>1, <3>1
  <2>4. entries <= typed.entries
    BY <2>1 DEF AddedInv, EntriesFit, Fits
  <2> QED
    BY <2>2, <2>3, <2>4 DEF NothingInvented
<1> QED
  BY Inductive, <1>1, <1>2, <1>3, PTL DEF Spec
=============================================================================
