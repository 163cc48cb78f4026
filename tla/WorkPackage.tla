---------------------------- MODULE WorkPackage ----------------------------
(***************************************************************************)
(* Labs/lab10: processes that keep one record of hours, entries and a      *)
(* balance in a file mapped into all of them (workPackage.cpp).  Nothing   *)
(* locks it: every change of a field is a load followed by a store, and    *)
(* the test of an expense is a load of its own.                            *)
(*                                                                         *)
(* Money and hours are counted in halves, so that the conversion of a      *)
(* fractional number of hours to the int field is the code's truncation.   *)
(* The amounts that users type are not negative; the code does not ask.    *)
(***************************************************************************)
EXTENDS Integers

CONSTANTS
    Procs,       \* the processes
    Amounts,     \* what their users type
    MaxTurns     \* turns of the menu loop, in all processes together

ASSUME WorkPackageAssumption == Amounts \subseteq Nat /\ MaxTurns \in Nat

VARIABLES
    file,                     \* is there a record in it, or is it new and empty?
    amount, hours, entries,   \* the mapped record
    at,                       \* control point of each process
    selection,                \* what its user chose last
    amt,                      \* the amount typed in this turn
    stuck,                    \* cin failed: every later >> fails, too
    reg,                      \* the value loaded and not yet stored
    turns,                    \* turns taken
    typed,                    \* history: all the money, hours and entries typed
    ledger,                   \* history: the balance, had each change been one step
    stale, torn               \* history: has the balance changed since the process
                              \* read it?  Did one ever store nevertheless?

record  == <<amount, hours, entries>>
input   == <<selection, amt, stuck>>
history == <<typed, ledger, stale, torn>>
vars    == <<file, record, at, input, reg, turns, history>>

Choice  == 0..6        \* 6 stands for any number without a meaning
Points  == {"open", "menu", "amount", "check", "pay", "paid", "deposit", "deposited",
            "work", "worked", "enter", "entered", "clear", "clearEntries", "clearHours",
            "ended", "killed"}

Init ==
    /\ file \in {"empty", "record"}
    /\ amount = 0 /\ hours = 0 /\ entries = 0
    /\ at = [p \in Procs |-> "open"]
    /\ selection = [p \in Procs |-> 0] /\ amt = [p \in Procs |-> 0]
    /\ stuck = [p \in Procs |-> FALSE]
    /\ reg = [p \in Procs |-> 0]
    /\ turns = 0
    /\ typed = [money |-> 0, hours |-> 0, entries |-> 0]
    /\ ledger = 0
    /\ stale = [p \in Procs |-> FALSE] /\ torn = FALSE

From(p, a, b) == at[p] = a /\ at' = [at EXCEPT ![p] = b]

-----------------------------------------------------------------------------
(* The menu *)

\* open() has just created the file if there was none, so stat() finds it and
\* the 64 bytes are not written: the first look at the record is a SIGBUS.
Open(p) ==
    /\ From(p, "open", IF file = "empty" THEN "killed" ELSE "menu")
    /\ UNCHANGED <<file, record, input, reg, turns, history>>

PointOf(s) ==
    CASE s \in 1..3 -> "amount" [] s = 5 -> "clear" [] s = 0 -> "ended" [] OTHER -> "menu"

\* cin >> selection: a failed stream leaves the last choice in place; the first
\* failure stores 0, which is Quit.
Select(p) ==
    /\ turns < MaxTurns /\ turns' = turns + 1
    /\ \E s \in Choice :
          /\ stuck[p] => s = selection[p]
          /\ From(p, "menu", PointOf(s))
          /\ selection' = [selection EXCEPT ![p] = s]
    /\ amt' = [amt EXCEPT ![p] = 0]
    /\ UNCHANGED <<file, record, stuck, reg, history>>

Field(s) == CASE s = 1 -> "work" [] s = 2 -> "check" [] s = 3 -> "deposit"

\* What a user has typed in: hours with an entry, or money.
Typed(s, a) ==
    CASE s = 1 -> [typed EXCEPT !.hours = @ + a, !.entries = @ + 1]
      [] s = 2 -> typed
      [] s = 3 -> [typed EXCEPT !.money = @ + a]

\* cin >> amt: a failure stores 0 when it is the first, and later leaves the 0
\* of the declaration.
Amount(p) ==
    /\ From(p, "amount", Field(selection[p]))
    /\ \/ /\ ~stuck[p] /\ stuck' = stuck
          /\ \E a \in Amounts : amt' = [amt EXCEPT ![p] = a]
       \/ stuck' = [stuck EXCEPT ![p] = TRUE] /\ amt' = amt
    /\ typed' = Typed(selection[p], amt'[p])
    /\ UNCHANGED <<file, record, selection, reg, turns, ledger, stale, torn>>

-----------------------------------------------------------------------------
(* The balance *)

Load(p, v) == reg' = [reg EXCEPT ![p] = v]
Fresh(p)   == stale' = [stale EXCEPT ![p] = FALSE]

\* The balance gets value v; in the ledger it becomes l.
Store(p, v, l) ==
    /\ amount' = v /\ ledger' = l
    /\ torn' = (torn \/ stale[p])
    /\ stale' = [q \in Procs |-> q # p]

\* Mutant: the balance is not tested.
CheckNothing(p) ==
    /\ From(p, "check", "pay")
    /\ Fresh(p)
    /\ UNCHANGED <<file, record, input, reg, turns, typed, ledger, torn>>

\* Insufficient Balance, or not.
Check(p) ==
    /\ From(p, "check", IF amt[p] > amount THEN "menu" ELSE "pay")
    /\ Fresh(p)
    /\ UNCHANGED <<file, record, input, reg, turns, typed, ledger, torn>>

LoadToPay(p) ==
    /\ From(p, "pay", "paid") /\ Load(p, amount)
    /\ UNCHANGED <<file, record, input, turns, history>>

StorePaid(p) ==
    /\ From(p, "paid", "menu") /\ Store(p, reg[p] - amt[p], ledger - amt[p])
    /\ UNCHANGED <<file, hours, entries, input, reg, turns, typed>>

LoadToDeposit(p) ==
    /\ From(p, "deposit", "deposited") /\ Load(p, amount) /\ Fresh(p)
    /\ UNCHANGED <<file, record, input, turns, typed, ledger, torn>>

\* Mutant: the deposit is added to what has been loaded and once more to store it.
StoreDepositedTwice(p) ==
    /\ From(p, "deposited", "menu") /\ Store(p, reg[p] + 2 * amt[p], ledger + amt[p])
    /\ UNCHANGED <<file, hours, entries, input, reg, turns, typed>>

StoreDeposited(p) ==
    /\ From(p, "deposited", "menu") /\ Store(p, reg[p] + amt[p], ledger + amt[p])
    /\ UNCHANGED <<file, hours, entries, input, reg, turns, typed>>

-----------------------------------------------------------------------------
(* Hours and entries, and Clear Data *)

LoadHours(p) ==
    /\ From(p, "work", "worked") /\ Load(p, hours)
    /\ UNCHANGED <<file, record, input, turns, history>>

StoreHours(p) ==
    /\ From(p, "worked", "enter") /\ hours' = (2 * reg[p] + amt[p]) \div 2
    /\ UNCHANGED <<file, amount, entries, input, reg, turns, history>>

LoadEntries(p) ==
    /\ From(p, "enter", "entered") /\ Load(p, entries)
    /\ UNCHANGED <<file, record, input, turns, history>>

StoreEntries(p) ==
    /\ From(p, "entered", "menu") /\ entries' = reg[p] + 1
    /\ UNCHANGED <<file, amount, hours, input, reg, turns, history>>

\* No read comes before the stores, so that none of them is torn.
Clear(p) ==
    /\ From(p, "clear", "clearEntries")
    /\ amount' = 0 /\ ledger' = 0 /\ stale' = [q \in Procs |-> q # p]
    /\ UNCHANGED <<file, hours, entries, input, reg, turns, typed, torn>>

ClearEntries(p) ==
    /\ From(p, "clearEntries", "clearHours") /\ entries' = 0
    /\ UNCHANGED <<file, amount, hours, input, reg, turns, history>>

ClearHours(p) ==
    /\ From(p, "clearHours", "menu") /\ hours' = 0
    /\ UNCHANGED <<file, amount, entries, input, reg, turns, history>>

-----------------------------------------------------------------------------
Menu(p)    == Open(p) \/ Select(p) \/ Amount(p)
Balance(p) == Check(p) \/ LoadToPay(p) \/ StorePaid(p) \/ LoadToDeposit(p) \/ StoreDeposited(p)
Work(p)    == LoadHours(p) \/ StoreHours(p) \/ LoadEntries(p) \/ StoreEntries(p)
ClearData(p) == Clear(p) \/ ClearEntries(p) \/ ClearHours(p)

Next == \E p \in Procs : Menu(p) \/ Balance(p) \/ Work(p) \/ ClearData(p)

Spec == Init /\ [][Next]_vars

-----------------------------------------------------------------------------
(* Properties *)

\* Every variable keeps to its type; on a failed cin the amount is 0, so that
\* the menu loop that runs on by itself moves no money (workPackage.cpp:52-59).
TypeOK ==
    /\ file \in {"empty", "record"}
    /\ amount \in Int /\ hours \in Nat /\ entries \in Nat /\ ledger \in Int
    /\ at \in [Procs -> Points] /\ selection \in [Procs -> Choice]
    /\ amt \in [Procs -> Amounts \cup {0}] /\ reg \in [Procs -> Int]
    /\ stuck \in [Procs -> BOOLEAN] /\ stale \in [Procs -> BOOLEAN] /\ torn \in BOOLEAN
    /\ \A p \in Procs : stuck[p] => amt[p] = 0

\* However the processes overlap, changes may be lost but never invented: the
\* record holds no more money, hours or entries than were typed in, not even
\* after a value from before a Clear was stored again (workPackage.cpp:65-66,
\* 78, 87, 96-98).
NothingInvented ==
    /\ amount <= typed.money /\ 2 * hours <= typed.hours /\ entries <= typed.entries

\* As long as no process stored a balance over one it had not seen, the balance
\* is the sum of the changes in the order of their stores, and is not
\* overdrawn (workPackage.cpp:74-79, 87).
ExactUnlessTorn == ~torn => amount = ledger /\ amount >= 0
=============================================================================
