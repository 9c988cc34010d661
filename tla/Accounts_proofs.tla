--------------------------- MODULE Accounts_proofs ---------------------------
(***************************************************************************)
(* Theorems about the account service, with arbitrary callers and under    *)
(* the settlement consumer.                                                *)
(*                                                                         *)
(* A method maps books to books, and settle nests two changes, so the      *)
(* invariants are predicates on books, shown for one change (an entry and  *)
(* the account it is about) and carried through the methods.  The chain of *)
(* available balances needs no hypothesis.  The rest needs that nothing    *)
(* wraps: Go's addition is not checked, so a balance can turn negative by  *)
(* overflow alone.  Sound(b, A) says how far books are from it: an account *)
(* holds at most A for every entry of the ledger.                          *)
(***************************************************************************)
EXTENDS AccountCallers, Settler, Sums, SequenceTheorems

(* Wrap changes nothing that fits in an int64, and its result fits.        *)
LEMMA WrapFits == \A x \in Int64 : Wrap(x) = x
<1> SUFFICES ASSUME NEW x \in Int64 PROVE Wrap(x) = x
  OBVIOUS
<1>1. \A y, n \in Int : 0 <= y /\ y < n => y % n = y
  OBVIOUS
<1>2. /\ x + Half \in Int /\ 2 * Half \in Int
      /\ 0 <= x + Half /\ x + Half < 2 * Half
      /\ (x + Half) - Half = x
  BY AccountAssumption DEF Int64
<1>3. (x + Half) % (2 * Half) = x + Half
  BY <1>1, <1>2
<1> QED BY <1>2, <1>3 DEF Wrap

LEMMA WrapType == \A x \in Int : Wrap(x) \in Int64
<1> SUFFICES ASSUME NEW x \in Int PROVE Wrap(x) \in Int64
  OBVIOUS
<1>1. \A y, n \in Int : 0 < n => y % n \in 0 .. n - 1
  OBVIOUS
<1>2. x + Half \in Int /\ 2 * Half \in Int /\ 0 < 2 * Half
  BY AccountAssumption
<1>3. (x + Half) % (2 * Half) \in 0 .. 2 * Half - 1
  BY <1>1, <1>2
<1>4. \A z \in 0 .. 2 * Half - 1 : z - Half \in Int64
  BY AccountAssumption DEF Int64
<1> QED BY <1>3, <1>4 DEF Wrap

----------------------------------------------------------------------------
(* The methods work on books, and nest; what is said of accounts and       *)
(* ledger is said of books here.                                           *)
BooksType == [accounts : [AccountKey -> Account], ledger : Seq(LedgerEntry)]

EntriesIn(b, key) == {i \in DOMAIN b.ledger : b.ledger[i].key = key}

BalanceAfterIn(b, entries, balance) ==
  IF entries = {} THEN balance = 0
  ELSE \E last \in entries : /\ \A i \in entries : i <= last
                             /\ balance = b.ledger[last].after

ChainsIn(b) ==
  /\ \A i \in DOMAIN b.ledger :
       BalanceAfterIn(b, EntriesIn(b, b.ledger[i].key) \cap 1 .. i - 1,
                      b.ledger[i].before)
  /\ \A key \in AccountKey :
       BalanceAfterIn(b, EntriesIn(b, key), b.accounts[key].available)

FrozenIn(b) ==
  \A key \in AccountKey :
    b.accounts[key].frozen =
      SumFunction([i \in EntriesIn(b, key) |-> FrozenBy(b.ledger[i])])

LEMMA InBooks ==
  /\ Books.accounts = accounts /\ Books.ledger = ledger
  /\ ChainsIn(Books) <=> LedgerChains
  /\ FrozenIn(Books) <=> FrozenExplained
<1>1. Books.accounts = accounts /\ Books.ledger = ledger
  BY DEF Books
<1>2. \A key : EntriesIn(Books, key) = GetLedger(key)
  BY <1>1 DEF EntriesIn, GetLedger
<1>3. \A entries, balance :
        BalanceAfterIn(Books, entries, balance) <=> IsBalanceAfter(entries, balance)
  BY <1>1 DEF BalanceAfterIn, IsBalanceAfter
<1>4. ChainsIn(Books) <=> LedgerChains
  BY <1>1, <1>2, <1>3 DEF ChainsIn, LedgerChains
<1>5. FrozenIn(Books) <=> FrozenExplained
  BY <1>1, <1>2 DEF FrozenIn, FrozenExplained
<1> QED BY <1>1, <1>4, <1>5

LEMMA BecomesBooks ==
  ASSUME NEW c \in BooksType, Becomes(c)
  PROVE  Books' = c
BY DEF Books, Becomes, BooksType

(* c is b with one more entry, e, which tells of the change to its account. *)
Entered(b, c, e) ==
  /\ b \in BooksType /\ c \in BooksType /\ e \in LedgerEntry
  /\ c.ledger = Append(b.ledger, e)
  /\ \A key \in AccountKey : key # e.key => c.accounts[key] = b.accounts[key]
  /\ e.before = b.accounts[e.key].available
  /\ e.after = c.accounts[e.key].available

LEMMA EntryTypes ==
  \A e \in LedgerEntry : /\ e.key \in AccountKey /\ e.amount \in Int64
                         /\ e.type \in LedgerType
                         /\ e.before \in Int64 /\ e.after \in Int64
BY DEF LedgerEntry

LEMMA BooksTypes ==
  \A b \in BooksType :
    /\ b.ledger \in Seq(LedgerEntry) /\ b.accounts \in [AccountKey -> Account]
    /\ \A key \in AccountKey : /\ b.accounts[key] \in Account
                               /\ b.accounts[key].available \in Int64
                               /\ b.accounts[key].frozen \in Int64
    /\ Len(b.ledger) \in Nat /\ DOMAIN b.ledger = 1 .. Len(b.ledger)
    /\ \A i \in 1 .. Len(b.ledger) : b.ledger[i] \in LedgerEntry
<1> SUFFICES ASSUME NEW b \in BooksType
    PROVE /\ b.ledger \in Seq(LedgerEntry) /\ b.accounts \in [AccountKey -> Account]
          /\ \A key \in AccountKey : /\ b.accounts[key] \in Account
                                     /\ b.accounts[key].available \in Int64
                                     /\ b.accounts[key].frozen \in Int64
          /\ Len(b.ledger) \in Nat /\ DOMAIN b.ledger = 1 .. Len(b.ledger)
          /\ \A i \in 1 .. Len(b.ledger) : b.ledger[i] \in LedgerEntry
  OBVIOUS
<1>1. b.ledger \in Seq(LedgerEntry) /\ b.accounts \in [AccountKey -> Account]
  BY DEF BooksType
<1>2. \A acc \in Account : acc.available \in Int64 /\ acc.frozen \in Int64
  BY DEF Account
<1>3. \A key \in AccountKey : b.accounts[key] \in Account
  BY <1>1
<1> QED BY <1>1, <1>2, <1>3, ElementOfSeq

(* The ledger before the new entry.                                        *)
LEMMA EnteredLedger ==
  ASSUME NEW b, NEW c, NEW e, Entered(b, c, e)
  PROVE  LET n == Len(b.ledger) IN
         /\ n \in Nat /\ DOMAIN b.ledger = 1 .. n /\ DOMAIN c.ledger = 1 .. n + 1
         /\ \A i \in 1 .. n : c.ledger[i] = b.ledger[i]
         /\ c.ledger[n + 1] = e
         /\ e.key \in AccountKey
<1>1. b.ledger \in Seq(LedgerEntry) /\ e \in LedgerEntry /\ c.ledger = Append(b.ledger, e)
  BY BooksTypes DEF Entered
<1>2. e.key \in AccountKey
  BY <1>1, EntryTypes
<1> QED BY <1>1, <1>2, AppendProperties

LEMMA EnteredEntries ==
  ASSUME NEW b, NEW c, NEW e, Entered(b, c, e), NEW key
  PROVE  /\ EntriesIn(b, key) \subseteq 1 .. Len(b.ledger)
         /\ EntriesIn(c, key) = IF key = e.key
                                THEN EntriesIn(b, key) \cup {Len(b.ledger) + 1}
                                ELSE EntriesIn(b, key)
<1> DEFINE n == Len(b.ledger)
<1>1. /\ n \in Nat /\ DOMAIN b.ledger = 1 .. n /\ DOMAIN c.ledger = 1 .. n + 1
      /\ \A i \in 1 .. n : c.ledger[i] = b.ledger[i]
      /\ c.ledger[n + 1] = e
  BY EnteredLedger
<1> HIDE DEF n
<1>2. \A i : i \in EntriesIn(b, key) <=> i \in 1 .. n /\ b.ledger[i].key = key
  BY <1>1 DEF EntriesIn
<1>3. \A i : i \in EntriesIn(c, key) <=> i \in 1 .. n + 1 /\ c.ledger[i].key = key
  BY <1>1 DEF EntriesIn
<1>4. \A i : i \in EntriesIn(c, key) <=>
               i \in EntriesIn(b, key) \/ (i = n + 1 /\ e.key = key)
  BY <1>1, <1>2, <1>3
<1>5. EntriesIn(b, key) \subseteq 1 .. n
  BY <1>2
<1> QED BY <1>4, <1>5 DEF n

LEMMA ChainsEntered ==
  ASSUME NEW b, NEW c, NEW e, Entered(b, c, e), ChainsIn(b)
  PROVE  ChainsIn(c)
<1> DEFINE n == Len(b.ledger)
<1>1. /\ n \in Nat /\ DOMAIN b.ledger = 1 .. n /\ DOMAIN c.ledger = 1 .. n + 1
      /\ \A i \in 1 .. n : c.ledger[i] = b.ledger[i]
      /\ c.ledger[n + 1] = e /\ e.key \in AccountKey
  BY EnteredLedger
<1>2. \A key : /\ EntriesIn(b, key) \subseteq 1 .. n
               /\ EntriesIn(c, key) = IF key = e.key
                                      THEN EntriesIn(b, key) \cup {n + 1}
                                      ELSE EntriesIn(b, key)
  BY EnteredEntries
<1>3. /\ \A key \in AccountKey : key # e.key => c.accounts[key] = b.accounts[key]
      /\ e.before = b.accounts[e.key].available
      /\ e.after = c.accounts[e.key].available
  BY DEF Entered
<1> HIDE DEF n
<1>4. ASSUME NEW s \in SUBSET (1 .. n), NEW balance
      PROVE  BalanceAfterIn(c, s, balance) <=> BalanceAfterIn(b, s, balance)
  BY <1>1 DEF BalanceAfterIn
<1>5. ASSUME NEW i \in DOMAIN c.ledger
      PROVE  BalanceAfterIn(c, EntriesIn(c, c.ledger[i].key) \cap 1 .. i - 1,
                            c.ledger[i].before)
  <2> DEFINE key == c.ledger[i].key
             s   == EntriesIn(b, key) \cap 1 .. i - 1
  <2>1. EntriesIn(c, key) \cap 1 .. i - 1 = s
    BY <1>1, <1>2, <1>5
  <2>2. s \in SUBSET (1 .. n)
    BY <1>2
  <2>3. CASE i \in 1 .. n
    <3>1. c.ledger[i] = b.ledger[i] /\ i \in DOMAIN b.ledger
      BY <1>1, <2>3
    <3>2. BalanceAfterIn(b, s, b.ledger[i].before)
      BY <3>1 DEF ChainsIn
    <3> HIDE DEF s, key
    <3>3. BalanceAfterIn(c, s, b.ledger[i].before)
      BY <1>4, <2>2, <3>2
    <3> QED BY <2>1, <3>1, <3>3 DEF key
  <2>4. CASE i = n + 1
    <3>1. c.ledger[i] = e /\ key = e.key
      BY <1>1, <2>4
    <3>2. s = EntriesIn(b, e.key)
      BY <1>1, <1>2, <2>4, <3>1
    <3>3. BalanceAfterIn(b, EntriesIn(b, e.key), b.accounts[e.key].available)
      BY <1>1 DEF ChainsIn
    <3> HIDE DEF s, key
    <3>4. BalanceAfterIn(c, s, e.before)
      BY <1>3, <1>4, <2>2, <3>2, <3>3
    <3> QED BY <2>1, <3>1, <3>4 DEF key
  <2> QED BY <1>1, <2>3, <2>4
<1>6. ASSUME NEW key \in AccountKey
      PROVE  BalanceAfterIn(c, EntriesIn(c, key), c.accounts[key].available)
  <2>1. CASE key = e.key
    <3>1. EntriesIn(c, key) = EntriesIn(b, key) \cup {n + 1}
          /\ EntriesIn(b, key) \subseteq 1 .. n
      BY <1>2, <2>1
    <3>2. \A i \in EntriesIn(c, key) : i <= n + 1
      BY <1>1, <3>1
    <3>3. n + 1 \in EntriesIn(c, key) /\ c.accounts[key].available = c.ledger[n + 1].after
      BY <1>1, <1>3, <2>1, <3>1
    <3> QED BY <3>2, <3>3 DEF BalanceAfterIn
  <2>2. CASE key # e.key
    <3>1. EntriesIn(c, key) = EntriesIn(b, key) /\ c.accounts[key] = b.accounts[key]
          /\ EntriesIn(b, key) \in SUBSET (1 .. n)
      BY <1>2, <1>3, <2>2
    <3>2. BalanceAfterIn(b, EntriesIn(b, key), b.accounts[key].available)
      BY DEF ChainsIn
    <3> QED BY <1>4, <3>1, <3>2
  <2> QED BY <2>1, <2>2
<1> QED BY <1>5, <1>6 DEF ChainsIn

LEMMA FrozenByType == \A e \in LedgerEntry : FrozenBy(e) \in Int
BY EntryTypes DEF FrozenBy, LedgerType, Int64

LEMMA FrozenEntered ==
  ASSUME NEW b, NEW c, NEW e, Entered(b, c, e), FrozenIn(b),
         c.accounts[e.key].frozen = b.accounts[e.key].frozen + FrozenBy(e)
  PROVE  FrozenIn(c)
<1> DEFINE n == Len(b.ledger)
<1>1. /\ n \in Nat /\ DOMAIN b.ledger = 1 .. n /\ DOMAIN c.ledger = 1 .. n + 1
      /\ \A i \in 1 .. n : c.ledger[i] = b.ledger[i]
      /\ c.ledger[n + 1] = e
  BY EnteredLedger
<1>2. \A i \in 1 .. n : FrozenBy(b.ledger[i]) \in Int
  BY BooksTypes, FrozenByType DEF Entered
<1> HIDE DEF n
<1>3. FrozenBy(e) \in Int
  BY FrozenByType DEF Entered
<1> SUFFICES ASSUME NEW key \in AccountKey
             PROVE  c.accounts[key].frozen =
                      SumFunction([i \in EntriesIn(c, key) |-> FrozenBy(c.ledger[i])])
  BY DEF FrozenIn
<1> DEFINE g == [i \in EntriesIn(b, key) |-> FrozenBy(b.ledger[i])]
           f == [i \in EntriesIn(c, key) |-> FrozenBy(c.ledger[i])]
<1>4. b.accounts[key].frozen = SumFunction(g)
  BY DEF FrozenIn
<1>5. /\ EntriesIn(b, key) \subseteq 1 .. n
      /\ EntriesIn(c, key) = IF key = e.key THEN EntriesIn(b, key) \cup {n + 1}
                                            ELSE EntriesIn(b, key)
  BY EnteredEntries DEF n
<1>6. IsFiniteSet(EntriesIn(b, key))
  <2>1. 1 \in Int /\ n \in Int
    BY <1>1
  <2>2. IsFiniteSet(1 .. n)
    BY <2>1, FS_Interval, Zenon
  <2> QED BY <1>5, <2>2, FS_Subset
<1>7. CASE key = e.key
  <2>1. /\ DOMAIN f = DOMAIN g \cup {n + 1} /\ n + 1 \notin DOMAIN g
        /\ IsFiniteSet(DOMAIN g) /\ f[n + 1] = FrozenBy(e) /\ f[n + 1] \in Int
    BY <1>1, <1>3, <1>5, <1>6, <1>7
  <2>2. \A i \in DOMAIN g : f[i] = g[i] /\ g[i] \in Int
    BY <1>1, <1>2, <1>5, <1>7
  <2> HIDE DEF f, g
  <2>3. SumFunction(f) = f[n + 1] + SumFunction(g)
    BY <2>1, <2>2, TotalGrows
  <2>4. SumFunction(g) \in Int
    BY <2>1, <2>2, TotalInt
  <2> QED BY <1>3, <1>4, <1>7, <2>1, <2>3, <2>4 DEF f
<1>8. CASE key # e.key
  <2>1. f = g
    BY <1>1, <1>5, <1>8
  <2>2. c.accounts[key] = b.accounts[key]
    BY <1>8 DEF Entered
  <2> QED BY <1>4, <2>1, <2>2
<1> QED BY <1>7, <1>8

----------------------------------------------------------------------------
(* One change.                                                             *)
EntryOf(b, key, type, amount, dAvailable) ==
  [key |-> key, type |-> type, amount |-> amount,
   before |-> b.accounts[key].available,
   after |-> Wrap(b.accounts[key].available + dAvailable)]

LEMMA ChangeEnters ==
  ASSUME NEW b \in BooksType, NEW key \in AccountKey, NEW type \in LedgerType,
         NEW amount \in Int64, NEW dA \in Int, NEW dF \in Int,
         NEW c, c = Change(b, key, type, amount, dA, dF),
         NEW e, e = EntryOf(b, key, type, amount, dA)
  PROVE  /\ Entered(b, c, e)
         /\ e.key = key /\ e.type = type /\ e.amount = amount
         /\ c.accounts[key].available = Wrap(b.accounts[key].available + dA)
         /\ c.accounts[key].frozen = Wrap(b.accounts[key].frozen + dF)
<1> DEFINE acc   == b.accounts[key]
           after == [available |-> Wrap(acc.available + dA),
                     frozen    |-> Wrap(acc.frozen + dF)]
<1>1. /\ acc.available \in Int64 /\ acc.frozen \in Int64
      /\ b.accounts \in [AccountKey -> Account] /\ b.ledger \in Seq(LedgerEntry)
  BY BooksTypes
<1>2. acc.available + dA \in Int /\ acc.frozen + dF \in Int
  BY <1>1, AccountAssumption DEF Int64
<1>3. Wrap(acc.available + dA) \in Int64 /\ Wrap(acc.frozen + dF) \in Int64
  BY <1>2, WrapType
<1>4. e \in LedgerEntry
  BY <1>1, <1>3 DEF EntryOf, LedgerEntry
<1>5. /\ c.accounts = [b.accounts EXCEPT ![key] = after]
      /\ c.ledger = Append(b.ledger, e)
      /\ c = [accounts |-> c.accounts, ledger |-> c.ledger]
  BY DEF Change, addLedger, EntryOf
<1>6. after \in Account
  BY <1>3 DEF Account
<1>7. /\ c.accounts \in [AccountKey -> Account]
      /\ c.accounts[key] = after
      /\ \A k \in AccountKey : k # key => c.accounts[k] = b.accounts[k]
  <2> HIDE DEF after
  <2> QED BY <1>1, <1>5, <1>6
<1>8. c.ledger \in Seq(LedgerEntry)
  BY <1>1, <1>4, <1>5
<1>9. c \in BooksType
  <2>1. [accounts |-> c.accounts, ledger |-> c.ledger] \in BooksType
    BY <1>7, <1>8 DEF BooksType
  <2> QED BY <1>5, <2>1
<1>10. /\ e.key = key /\ e.type = type /\ e.amount = amount
       /\ e.before = acc.available /\ e.after = Wrap(acc.available + dA)
  BY DEF EntryOf
<1>11. /\ c.accounts[key].available = Wrap(acc.available + dA)
       /\ c.accounts[key].frozen = Wrap(acc.frozen + dF)
  BY <1>7
<1> HIDE DEF acc, after
<1>12. Entered(b, c, e)
  BY <1>4, <1>5, <1>7, <1>9, <1>10, <1>11 DEF Entered, acc
<1> QED BY <1>10, <1>11, <1>12 DEF acc

(* A ledger never stops to explain the available balances, whatever        *)
(* overflows.                                                              *)
LEMMA ChangeChains ==
  ASSUME NEW b \in BooksType, ChainsIn(b), NEW key \in AccountKey,
         NEW type \in LedgerType, NEW amount \in Int64, NEW dA \in Int, NEW dF \in Int
  PROVE  /\ Change(b, key, type, amount, dA, dF) \in BooksType
         /\ ChainsIn(Change(b, key, type, amount, dA, dF))
<1> DEFINE c == Change(b, key, type, amount, dA, dF)
           e == EntryOf(b, key, type, amount, dA)
<1>1. c = Change(b, key, type, amount, dA, dF) /\ e = EntryOf(b, key, type, amount, dA)
  OBVIOUS
<1> HIDE DEF c, e
<1>2. Entered(b, c, e)
  BY <1>1, ChangeEnters
<1>3. c \in BooksType /\ ChainsIn(c)
  BY <1>2, ChainsEntered DEF Entered
<1> QED BY <1>3 DEF c

(* What an account can hold at most after n entries that add at most A     *)
(* each.                                                                   *)
Cap(n, A) == n * A

(* Books without debts, in which an account holds at most A per entry.     *)
Sound(b, A) ==
  /\ b \in BooksType /\ ChainsIn(b) /\ FrozenIn(b)
  /\ \A key \in AccountKey :
       /\ b.accounts[key].available >= 0 /\ b.accounts[key].frozen >= 0
       /\ b.accounts[key].available + b.accounts[key].frozen <= Cap(Len(b.ledger), A)

LEMMA CapNext ==
  \A n, A \in Nat : Cap(n, A) \in Nat /\ Cap(n + 1, A) = Cap(n, A) + A
BY DEF Cap

LEMMA CapMonotone == \A n, m, A \in Nat : n <= m => Cap(n, A) <= Cap(m, A)
<1> SUFFICES ASSUME NEW n \in Nat, NEW m \in Nat, NEW A \in Nat, n <= m
             PROVE  Cap(n, A) <= Cap(m, A)
  OBVIOUS
<1>1. m = n + (m - n) /\ m - n \in Nat
  OBVIOUS
<1>2. \A k \in Nat : (n + k) * A = n * A + k * A /\ k * A \in Nat /\ n * A \in Nat
  OBVIOUS
<1> QED BY <1>1, <1>2 DEF Cap

LEMMA SumsBelow ==
  \A a, f, dA, dF, P, A, Q \in Int :
    /\ a + f <= P /\ dA + dF <= A /\ a + dA >= 0 /\ f + dF >= 0
    /\ Q = P + A
    => a + dA <= Q /\ f + dF <= Q /\ (a + dA) + (f + dF) <= Q
OBVIOUS

(* A change that overdraws nothing and adds at most A keeps them so, if    *)
(* the entry it writes says what it does to the frozen balance.            *)
LEMMA SoundChange ==
  ASSUME NEW A \in Nat, NEW b, Sound(b, A), Cap(Len(b.ledger) + 1, A) < Half,
         NEW key \in AccountKey, NEW type \in LedgerType, NEW amount \in Int64,
         NEW dA \in Int, NEW dF \in Int, dA + dF <= A,
         b.accounts[key].available + dA >= 0, b.accounts[key].frozen + dF >= 0,
         NEW c, c = Change(b, key, type, amount, dA, dF),
         NEW e, e = EntryOf(b, key, type, amount, dA),
         e.after = b.accounts[key].available + dA => FrozenBy(e) = dF
  PROVE  /\ Sound(c, A) /\ Entered(b, c, e)
         /\ e.key = key /\ e.type = type /\ e.amount = amount
         /\ Len(c.ledger) = Len(b.ledger) + 1
         /\ c.accounts[key].available = b.accounts[key].available + dA
         /\ c.accounts[key].frozen = b.accounts[key].frozen + dF
<1> DEFINE acc == b.accounts[key]
           n   == Len(b.ledger)
<1>1. /\ b \in BooksType /\ acc.available \in Nat /\ acc.frozen \in Nat
      /\ acc.available + acc.frozen <= Cap(n, A) /\ n \in Nat
      /\ acc.available + dA \in Nat /\ acc.frozen + dF \in Nat
  <2>1. /\ b \in BooksType /\ acc.available >= 0 /\ acc.frozen >= 0
        /\ acc.available + acc.frozen <= Cap(n, A)
    BY DEF Sound
  <2>2. acc.available \in Int64 /\ acc.frozen \in Int64 /\ n \in Nat
    BY <2>1, BooksTypes
  <2>3. acc.available \in Int /\ acc.frozen \in Int
    BY <2>2, AccountAssumption DEF Int64
  <2> QED BY SMTT(30), <2>1, <2>2, <2>3
<1>2. Cap(n + 1, A) = Cap(n, A) + A /\ Cap(n, A) \in Nat /\ Cap(n + 1, A) \in Nat
  <2>1. Cap(n + 1, A) = Cap(n, A) + A /\ Cap(n, A) \in Nat
    BY <1>1, CapNext
  <2> QED BY <2>1
<1>3. /\ Entered(b, c, e) /\ e.key = key /\ e.type = type /\ e.amount = amount
      /\ c.accounts[key].available = Wrap(acc.available + dA)
      /\ c.accounts[key].frozen = Wrap(acc.frozen + dF)
  <2>1. b \in BooksType
    BY <1>1
  <2> HIDE DEF acc, n
  <2>2. /\ Entered(b, c, e) /\ e.key = key /\ e.type = type /\ e.amount = amount
        /\ c.accounts[key].available = Wrap(b.accounts[key].available + dA)
        /\ c.accounts[key].frozen = Wrap(b.accounts[key].frozen + dF)
    BY <2>1, ChangeEnters
  <2> QED BY <2>2 DEF acc
<1>4. /\ acc.available + dA <= Cap(n + 1, A)
      /\ acc.frozen + dF <= Cap(n + 1, A)
      /\ (acc.available + dA) + (acc.frozen + dF) <= Cap(n + 1, A)
      /\ Cap(n + 1, A) < Half
  <2>1. Cap(n + 1, A) < Half
    OBVIOUS
  <2> HIDE DEF acc, n
  <2>2. \A x \in Nat : x \in Int /\ x >= 0
    OBVIOUS
  <2>3. acc.available + dA >= 0 /\ acc.frozen + dF >= 0
    BY <1>1, <2>2, Zenon
  <2>4. /\ acc.available \in Int /\ acc.frozen \in Int /\ A \in Int
        /\ Cap(n, A) \in Int /\ Cap(n + 1, A) \in Int
    BY <1>1, <1>2, <2>2, Zenon
  <2>5. /\ acc.available + dA <= Cap(n + 1, A)
        /\ acc.frozen + dF <= Cap(n + 1, A)
        /\ (acc.available + dA) + (acc.frozen + dF) <= Cap(n + 1, A)
    BY <1>1, <1>2, <2>3, <2>4, SumsBelow, ZenonT(30)
  <2> QED BY <2>1, <2>5
<1>5. acc.available + dA \in Int64 /\ acc.frozen + dF \in Int64
  <2>1. \A x, m \in Nat : x <= m /\ m < Half => x \in Int64
    BY AccountAssumption DEF Int64
  <2> HIDE DEF acc, n
  <2> QED BY <1>1, <1>2, <1>4, <2>1
<1>6. /\ c.accounts[key].available = acc.available + dA
      /\ c.accounts[key].frozen = acc.frozen + dF
  BY <1>3, <1>5, WrapFits
<1>7. c \in BooksType /\ ChainsIn(c)
  <2>1. c \in BooksType
    BY <1>3 DEF Entered
  <2>2. ChainsIn(b)
    BY DEF Sound
  <2> QED BY <1>3, <2>1, <2>2, ChainsEntered
<1>8. FrozenIn(c)
  <2>1. e.after = c.accounts[key].available
    BY <1>3 DEF Entered
  <2>2. FrozenBy(e) = dF
    BY <1>6, <2>1
  <2> QED BY <1>3, <1>6, <2>2, FrozenEntered DEF Sound
<1>9. Len(c.ledger) = n + 1
  <2>1. b.ledger \in Seq(LedgerEntry) /\ e \in LedgerEntry /\ c.ledger = Append(b.ledger, e)
    BY <1>1, <1>3, BooksTypes DEF Entered
  <2> QED BY <2>1, AppendProperties
<1>10. ASSUME NEW k \in AccountKey
       PROVE  /\ c.accounts[k].available >= 0 /\ c.accounts[k].frozen >= 0
              /\ c.accounts[k].available + c.accounts[k].frozen <= Cap(Len(c.ledger), A)
  <2>1. CASE k = key
    BY <1>1, <1>4, <1>6, <1>9, <2>1
  <2>2. CASE k # key
    <3>1. c.accounts[k] = b.accounts[k]
      BY <1>3, <2>2 DEF Entered
    <3>2. /\ b.accounts[k].available >= 0 /\ b.accounts[k].frozen >= 0
          /\ b.accounts[k].available + b.accounts[k].frozen <= Cap(n, A)
      BY DEF Sound
    <3>3. b.accounts[k].available \in Int /\ b.accounts[k].frozen \in Int
      BY <1>1, BooksTypes, AccountAssumption DEF Int64
    <3> HIDE DEF n
    <3> QED BY <1>2, <1>9, <3>1, <3>2, <3>3
  <2> QED BY <2>1, <2>2
<1>11. Sound(c, A)
  BY <1>7, <1>8, <1>10 DEF Sound
<1> QED BY <1>3, <1>6, <1>9, <1>11

----------------------------------------------------------------------------
(* The methods.                                                            *)
LEMMA RoomForAmount ==
  ASSUME NEW A \in Nat, NEW n \in Nat, Cap(n + 1, A) < Half, NEW amount \in 0 .. A
  PROVE  /\ amount \in Int64 /\ -amount \in Int /\ amount \in Int /\ amount \in Nat
         /\ amount + 0 <= A /\ 0 + amount <= A
         /\ -amount + amount <= A /\ amount + (-amount) <= A
         /\ -amount + 0 <= A /\ 0 + (-amount) <= A
<1>1. Cap(n + 1, A) = Cap(n, A) + A /\ Cap(n, A) \in Nat
  BY CapNext
<1>2. amount \in Int /\ amount >= 0 /\ amount < Half /\ amount <= A
  BY <1>1, AccountAssumption
<1> QED BY <1>2, AccountAssumption DEF Int64

LEMMA SoundBalances ==
  ASSUME NEW A, NEW b, Sound(b, A), NEW key \in AccountKey
  PROVE  /\ b.accounts[key].available \in Nat /\ b.accounts[key].frozen \in Nat
         /\ b \in BooksType /\ Len(b.ledger) \in Nat
<1>1. /\ b \in BooksType
      /\ b.accounts[key].available >= 0 /\ b.accounts[key].frozen >= 0
  BY DEF Sound
<1>2. /\ b.accounts[key].available \in Int64 /\ b.accounts[key].frozen \in Int64
      /\ Len(b.ledger) \in Nat
  BY <1>1, BooksTypes
<1> QED BY <1>1, <1>2, AccountAssumption DEF Int64

LEMMA NoOverdraft ==
  \A x, y \in Nat : /\ x + y >= 0 /\ x + 0 >= 0
                    /\ ~(x < y) => x + -y >= 0
OBVIOUS

(* The calls on one account.                                               *)
LEMMA SoundCall ==
  ASSUME NEW A \in Nat, NEW b, Sound(b, A), Cap(Len(b.ledger) + 1, A) < Half,
         NEW key \in AccountKey, NEW amount \in 0 .. A, NEW c,
         \/ c = EnsureAccount(b, key, amount)
         \/ c = Deposit(b, key, amount)
         \/ c = Withdraw(b, key, amount)
         \/ c = Freeze(b, key, amount)
         \/ c = Unfreeze(b, key, amount)
  PROVE  Sound(c, A) /\ Len(c.ledger) <= Len(b.ledger) + 1
<1> DEFINE acc == b.accounts[key]
<1>1. /\ acc.available \in Nat /\ acc.frozen \in Nat
      /\ b \in BooksType /\ Len(b.ledger) \in Nat
  BY SoundBalances
<1>2. /\ amount \in Int64 /\ -amount \in Int /\ amount \in Int /\ amount \in Nat
      /\ amount + 0 <= A /\ -amount + amount <= A /\ amount + (-amount) <= A
      /\ -amount + 0 <= A
  BY <1>1, RoomForAmount
<1>3. CASE c = b
  BY <1>1, <1>3
<1>4. ASSUME NEW type \in LedgerType, NEW dA \in Int, NEW dF \in Int, dA + dF <= A,
             acc.available + dA >= 0, acc.frozen + dF >= 0,
             c = Change(b, key, type, amount, dA, dF),
             \A e : e.type = type /\ e.amount = amount => FrozenBy(e) = dF
      PROVE  Sound(c, A) /\ Len(c.ledger) <= Len(b.ledger) + 1
  <2> DEFINE e == EntryOf(b, key, type, amount, dA)
  <2>1. e.type = type /\ e.amount = amount
    BY DEF EntryOf
  <2>2. e = EntryOf(b, key, type, amount, dA) /\ FrozenBy(e) = dF
    BY <1>4, <2>1
  <2> HIDE DEF e, acc
  <2>3. Sound(c, A) /\ Len(c.ledger) = Len(b.ledger) + 1
    BY <1>2, <1>4, <2>2, SoundChange DEF acc
  <2> QED BY <1>1, <2>3
<1>5. \A e : e.amount = amount =>
        /\ e.type = "Deposit" => FrozenBy(e) = 0
        /\ e.type = "Withdraw" => FrozenBy(e) = 0
        /\ e.type = "Freeze" => FrozenBy(e) = amount
        /\ e.type = "Unfreeze" => FrozenBy(e) = -amount
  BY DEF FrozenBy
<1>6. /\ "Deposit" \in LedgerType /\ "Withdraw" \in LedgerType
      /\ "Freeze" \in LedgerType /\ "Unfreeze" \in LedgerType
  BY DEF LedgerType
<1>7. CASE c = Change(b, key, "Deposit", amount, amount, 0)
  <2>1. acc.available + amount >= 0 /\ acc.frozen + 0 >= 0
    BY <1>1, <1>2, NoOverdraft
  <2>2. 0 \in Int
    OBVIOUS
  <2>3. \A x : x.type = "Deposit" /\ x.amount = amount => FrozenBy(x) = 0
    BY <1>5
  <2> QED BY <1>2, <1>4, <1>6, <1>7, <2>1, <2>2, <2>3
<1>8. CASE /\ ~(acc.available < amount)
           /\ \/ c = Change(b, key, "Withdraw", amount, -amount, 0)
              \/ c = Change(b, key, "Freeze", amount, -amount, amount)
  <2>1. /\ acc.available + -amount >= 0 /\ acc.frozen + amount >= 0
        /\ acc.frozen + 0 >= 0
    BY <1>1, <1>2, <1>8, NoOverdraft
  <2> QED BY <1>2, <1>4, <1>5, <1>6, <1>8, <2>1
<1>9. CASE /\ ~(acc.frozen < amount)
           /\ c = Change(b, key, "Unfreeze", amount, amount, -amount)
  <2>1. acc.available + amount >= 0 /\ acc.frozen + -amount >= 0
    BY <1>1, <1>2, <1>9, NoOverdraft
  <2> QED BY <1>2, <1>4, <1>5, <1>6, <1>9, <2>1
<1> QED BY <1>3, <1>7, <1>8, <1>9
        DEF EnsureAccount, Deposit, Withdraw, Freeze, Unfreeze

(* A trade that is covered, from books b by m to c: a payment from the     *)
(* frozen balance, entry d, and a gain, entry e.                           *)
TradeEnters(b, m, c, d, e, A, user, type, paid, cost, got, gain) ==
  /\ Sound(m, A) /\ Entered(b, m, d)
  /\ d.key = <<user, paid>> /\ d.type = type
  /\ m.accounts[d.key].available = b.accounts[d.key].available
  /\ m.accounts[d.key].frozen = b.accounts[d.key].frozen - cost
  /\ Sound(c, A) /\ Entered(m, c, e)
  /\ e.key = <<user, got>> /\ e.type = type
  /\ c.accounts[e.key].available = m.accounts[e.key].available + gain
  /\ c.accounts[e.key].frozen = m.accounts[e.key].frozen
  /\ Len(c.ledger) = Len(b.ledger) + 2

LEMMA SoundTrade ==
  ASSUME NEW A \in Nat, NEW b, Sound(b, A), Cap(Len(b.ledger) + 2, A) < Half,
         NEW type \in {"TradeBuy", "TradeSell"},
         NEW user \in Users, NEW paid \in Assets, NEW got \in Assets,
         NEW cost \in 1 .. A, NEW gain \in 1 .. A,
         Covers(b, <<user, paid>>, cost),
         NEW c, c = SettleTrade(b, user, type, paid, cost, got, gain)
  PROVE  \E m, d, e :
           TradeEnters(b, m, c, d, e, A, user, type, paid, cost, got, gain)
<1> DEFINE m == Change(b, <<user, paid>>, type, cost, 0, -cost)
           d == EntryOf(b, <<user, paid>>, type, cost, 0)
           e == EntryOf(m, <<user, got>>, type, gain, gain)
<1>0. /\ m = Change(b, <<user, paid>>, type, cost, 0, -cost)
      /\ c = Change(m, <<user, got>>, type, gain, gain, 0)
      /\ d = EntryOf(b, <<user, paid>>, type, cost, 0)
      /\ e = EntryOf(m, <<user, got>>, type, gain, gain)
  BY DEF SettleTrade
<1> HIDE DEF m, d, e
<1> USE <1>0
<1> DEFINE payer == <<user, paid>>
           payee == <<user, got>>
           n     == Len(b.ledger)
<1>1. payer \in AccountKey /\ payee \in AccountKey
  BY DEF AccountKey
<1>2. /\ b.accounts[payer].available \in Nat /\ b.accounts[payer].frozen \in Nat
      /\ b \in BooksType /\ n \in Nat
  BY <1>1, SoundBalances
<1>3. Cap(n + 1, A) < Half /\ Cap((n + 1) + 1, A) < Half
  <2>1. n + 1 \in Nat /\ (n + 1) + 1 = n + 2
    BY <1>2
  <2>2. Cap(n + 1, A) \in Nat /\ Cap((n + 1) + 1, A) = Cap(n + 1, A) + A
    BY <2>1, CapNext, Zenon
  <2>3. Cap(n + 2, A) < Half
    OBVIOUS
  <2>4. Cap((n + 1) + 1, A) < Half
    BY <2>1, <2>3
  <2>5. \A x, y, z \in Int : y = x + A /\ y < z => x < z
    OBVIOUS
  <2>6. Cap((n + 1) + 1, A) \in Int /\ Cap(n + 1, A) \in Int /\ Half \in Int
    BY <2>2, AccountAssumption
  <2> QED BY <2>2, <2>4, <2>5, <2>6
<1>4. /\ cost \in Int64 /\ -cost \in Int /\ cost \in Int
      /\ gain \in Int64 /\ gain \in Int /\ gain + 0 <= A /\ 0 + (-cost) <= A
      /\ cost \in 0 .. A /\ gain \in 0 .. A
  <2>1. cost \in 0 .. A /\ gain \in 0 .. A
    OBVIOUS
  <2> QED BY <1>2, <1>3, <2>1, RoomForAmount
<1>5. type \in LedgerType
  BY DEF LedgerType
<1>6. /\ b.accounts[payer].available + 0 >= 0 /\ b.accounts[payer].frozen + -cost >= 0
  BY <1>2, <1>4 DEF Covers
<1>7. d.after = b.accounts[payer].available + 0 => FrozenBy(d) = -cost
  <2>1. /\ d.before = b.accounts[payer].available
        /\ d.type = type /\ d.amount = cost
    BY DEF EntryOf
  <2>2. d.after = b.accounts[payer].available + 0 => d.before = d.after
    BY <1>2, <2>1
  <2>3. /\ d.type # "Freeze" /\ d.type # "Unfreeze"
        /\ d.type \in {"TradeBuy", "TradeSell"}
    BY <2>1
  <2> QED BY <2>1, <2>2, <2>3 DEF FrozenBy
<1> HIDE DEF payer, payee, n
<1>8. /\ Sound(m, A) /\ Entered(b, m, d) /\ d.key = payer /\ d.type = type
      /\ Len(m.ledger) = n + 1
      /\ m.accounts[payer].available = b.accounts[payer].available + 0
      /\ m.accounts[payer].frozen = b.accounts[payer].frozen + -cost
  <2>1. 0 \in Int
    OBVIOUS
  <2>2. /\ m = Change(b, payer, type, cost, 0, -cost)
        /\ d = EntryOf(b, payer, type, cost, 0)
        /\ Cap(Len(b.ledger) + 1, A) < Half
    BY <1>3 DEF payer, n
  <2>3. /\ Sound(m, A) /\ Entered(b, m, d) /\ d.key = payer /\ d.type = type
        /\ Len(m.ledger) = Len(b.ledger) + 1
        /\ m.accounts[payer].available = b.accounts[payer].available + 0
        /\ m.accounts[payer].frozen = b.accounts[payer].frozen + -cost
    BY <1>1, <1>4, <1>5, <1>6, <1>7, <2>1, <2>2, SoundChange
  <2> QED BY <2>3 DEF n
<1>9. m.accounts[payee].available \in Nat /\ m.accounts[payee].frozen \in Nat
  BY <1>1, <1>8, SoundBalances
<1>10. m.accounts[payee].available + gain >= 0 /\ m.accounts[payee].frozen + 0 >= 0
  BY <1>4, <1>9
<1>11. e.after = m.accounts[payee].available + gain => FrozenBy(e) = 0
  <2>1. /\ e.before = m.accounts[payee].available
        /\ e.type = type /\ e.amount = gain
    BY DEF EntryOf, payee
  <2>2. e.after = m.accounts[payee].available + gain => e.before # e.after
    BY <1>4, <1>9, <2>1
  <2>3. /\ e.type # "Freeze" /\ e.type # "Unfreeze"
    BY <2>1
  <2> QED BY <2>1, <2>2, <2>3 DEF FrozenBy
<1>12. /\ Sound(c, A) /\ Entered(m, c, e) /\ e.key = payee /\ e.type = type
       /\ Len(c.ledger) = (n + 1) + 1
       /\ c.accounts[payee].available = m.accounts[payee].available + gain
       /\ c.accounts[payee].frozen = m.accounts[payee].frozen + 0
  <2>1. 0 \in Int
    OBVIOUS
  <2>2. /\ c = Change(m, payee, type, gain, gain, 0)
        /\ e = EntryOf(m, payee, type, gain, gain)
        /\ Cap(Len(m.ledger) + 1, A) < Half
    BY <1>3, <1>8 DEF payee
  <2>3. /\ Sound(c, A) /\ Entered(m, c, e) /\ e.key = payee /\ e.type = type
        /\ Len(c.ledger) = Len(m.ledger) + 1
        /\ c.accounts[payee].available = m.accounts[payee].available + gain
        /\ c.accounts[payee].frozen = m.accounts[payee].frozen + 0
    BY <1>1, <1>4, <1>5, <1>8, <1>10, <1>11, <2>1, <2>2, SoundChange
  <2> QED BY <1>8, <2>3
<1>13. /\ m.accounts[payer].available = b.accounts[payer].available
       /\ m.accounts[payer].frozen = b.accounts[payer].frozen - cost
       /\ c.accounts[payee].frozen = m.accounts[payee].frozen
       /\ Len(c.ledger) = Len(b.ledger) + 2
  <2>1. \A x \in Int : x + 0 = x /\ (x + 1) + 1 = x + 2
    OBVIOUS
  <2>2. \A x, y \in Int : x + -y = x - y
    OBVIOUS
  <2>3. /\ b.accounts[payer].available \in Int /\ b.accounts[payer].frozen \in Int
        /\ m.accounts[payee].frozen \in Int /\ n \in Int /\ cost \in Int
    BY <1>2, <1>4, <1>9
  <2>4. /\ b.accounts[payer].available + 0 = b.accounts[payer].available
        /\ b.accounts[payer].frozen + -cost = b.accounts[payer].frozen - cost
        /\ m.accounts[payee].frozen + 0 = m.accounts[payee].frozen
        /\ (n + 1) + 1 = n + 2
    BY <2>1, <2>2, <2>3, Zenon
  <2> QED BY <1>8, <1>12, <2>4 DEF n
<1>14. /\ Sound(m, A) /\ Entered(b, m, d)
       /\ d.key = <<user, paid>> /\ d.type = type
       /\ m.accounts[d.key].available = b.accounts[d.key].available
       /\ m.accounts[d.key].frozen = b.accounts[d.key].frozen - cost
       /\ Sound(c, A) /\ Entered(m, c, e)
       /\ e.key = <<user, got>> /\ e.type = type
       /\ c.accounts[e.key].available = m.accounts[e.key].available + gain
       /\ c.accounts[e.key].frozen = m.accounts[e.key].frozen
       /\ Len(c.ledger) = Len(b.ledger) + 2
  BY <1>8, <1>12, <1>13 DEF payer, payee
<1>15. TradeEnters(b, m, c, d, e, A, user, type, paid, cost, got, gain)
  BY <1>14 DEF TradeEnters
<1> QED BY <1>15

LEMMA SoundSettle ==
  ASSUME NEW A \in Nat, NEW b, Sound(b, A), Cap(Len(b.ledger) + 2, A) < Half,
         NEW type \in {"TradeBuy", "TradeSell"},
         NEW user \in Users, NEW paid \in Assets, NEW got \in Assets,
         NEW cost \in 1 .. A, NEW gain \in 1 .. A,
         NEW c, c = SettleTrade(b, user, type, paid, cost, got, gain)
  PROVE  Sound(c, A) /\ Len(c.ledger) <= Len(b.ledger) + 2
<1>1. Len(b.ledger) \in Nat
  <2>1. b \in BooksType
    BY DEF Sound
  <2> QED BY <2>1, BooksTypes
<1>2. CASE ~Covers(b, <<user, paid>>, cost)
  <2>1. c = b
    BY <1>2 DEF SettleTrade
  <2> QED BY <1>1, <2>1
<1>3. CASE Covers(b, <<user, paid>>, cost)
  <2>1. Sound(c, A) /\ Len(c.ledger) = Len(b.ledger) + 2
    <3>1. PICK m, d, e : TradeEnters(b, m, c, d, e, A, user, type, paid, cost, got, gain)
      BY <1>3, SoundTrade
    <3> QED BY <3>1 DEF TradeEnters
  <2> QED BY <1>1, <2>1
<1> QED BY <1>2, <1>3

LEMMA SettleChains ==
  ASSUME NEW b \in BooksType, ChainsIn(b), NEW type \in {"TradeBuy", "TradeSell"},
         NEW user \in Users, NEW paid \in Assets, NEW got \in Assets,
         NEW cost \in Int64, NEW gain \in Int64
  PROVE  /\ SettleTrade(b, user, type, paid, cost, got, gain) \in BooksType
         /\ ChainsIn(SettleTrade(b, user, type, paid, cost, got, gain))
<1>1. /\ <<user, paid>> \in AccountKey /\ <<user, got>> \in AccountKey
      /\ type \in LedgerType
  BY DEF AccountKey, LedgerType
<1>2. 0 \in Int /\ gain \in Int /\ -cost \in Int
  BY AccountAssumption DEF Int64
<1> DEFINE m == Change(b, <<user, paid>>, type, cost, 0, -cost)
<1>3. m \in BooksType /\ ChainsIn(m)
  BY <1>1, <1>2, ChangeChains
<1> HIDE DEF m
<1>4. /\ Change(m, <<user, got>>, type, gain, gain, 0) \in BooksType
      /\ ChainsIn(Change(m, <<user, got>>, type, gain, gain, 0))
  BY <1>1, <1>2, <1>3, ChangeChains
<1> QED BY <1>4 DEF SettleTrade, m

LEMMA CallChains ==
  ASSUME NEW b \in BooksType, ChainsIn(b), NEW key \in AccountKey,
         NEW amount \in Int64, NEW c,
         \/ c = EnsureAccount(b, key, amount)
         \/ c = Deposit(b, key, amount)
         \/ c = Withdraw(b, key, amount)
         \/ c = Freeze(b, key, amount)
         \/ c = Unfreeze(b, key, amount)
  PROVE  c \in BooksType /\ ChainsIn(c)
<1>1. 0 \in Int /\ amount \in Int /\ -amount \in Int
  BY AccountAssumption DEF Int64
<1>2. \A type \in LedgerType : \A dA, dF \in Int :
        /\ Change(b, key, type, amount, dA, dF) \in BooksType
        /\ ChainsIn(Change(b, key, type, amount, dA, dF))
  BY ChangeChains
<1>3. /\ "Deposit" \in LedgerType /\ "Withdraw" \in LedgerType
      /\ "Freeze" \in LedgerType /\ "Unfreeze" \in LedgerType
  BY DEF LedgerType
<1>4. \/ c = b
      \/ \E type \in LedgerType : \E dA, dF \in Int :
           c = Change(b, key, type, amount, dA, dF)
  BY <1>1, <1>3 DEF EnsureAccount, Deposit, Withdraw, Freeze, Unfreeze
<1> QED BY <1>2, <1>4

----------------------------------------------------------------------------
(* The service with arbitrary callers.                                     *)
LEMMA NewBooksType ==
  /\ NewBooks \in BooksType /\ NewBooks.ledger = <<>>
  /\ \A key \in AccountKey :
       NewBooks.accounts[key] = [available |-> 0, frozen |-> 0]
<1>1. 0 \in Int64
  BY AccountAssumption DEF Int64
<1>2. [available |-> 0, frozen |-> 0] \in Account
  BY <1>1 DEF Account
<1> QED BY <1>2 DEF NewBooks, BooksType

LEMMA NewBooksSound ==
  ASSUME NEW A \in Nat
  PROVE  Sound(NewBooks, A)
<1>1. /\ NewBooks \in BooksType /\ NewBooks.ledger = <<>>
      /\ \A key \in AccountKey :
           /\ NewBooks.accounts[key].available = 0
           /\ NewBooks.accounts[key].frozen = 0
  BY NewBooksType
<1>2. \A key : EntriesIn(NewBooks, key) = {}
  BY <1>1 DEF EntriesIn
<1>3. ChainsIn(NewBooks)
  BY <1>1, <1>2 DEF ChainsIn, BalanceAfterIn
<1>4. FrozenIn(NewBooks)
  <2> SUFFICES ASSUME NEW key \in AccountKey
      PROVE NewBooks.accounts[key].frozen =
              SumFunction([i \in EntriesIn(NewBooks, key) |->
                             FrozenBy(NewBooks.ledger[i])])
    BY DEF FrozenIn
  <2> DEFINE f == [i \in EntriesIn(NewBooks, key) |-> FrozenBy(NewBooks.ledger[i])]
  <2>1. DOMAIN f = {}
    BY <1>2
  <2> HIDE DEF f
  <2>2. SumFunction(f) = 0
    BY <2>1, TotalEmpty
  <2> QED BY <1>1, <2>2 DEF f
<1>5. Len(NewBooks.ledger) = 0 /\ Cap(0, A) = 0
  BY <1>1 DEF Cap
<1> QED BY <1>1, <1>3, <1>4, <1>5 DEF Sound

LEMMA CallerBooks ==
  ASSUME NEW A, Sound(Books, A)
  PROVE  BalancesNonNegative /\ LedgerExplains
BY InBooks DEF Sound, BalancesNonNegative, LedgerExplains

CallersInv(A) == Sound(Books, A) /\ Len(ledger) <= MaxEntries + 1

LEMMA CallersStart ==
  ASSUME NEW A \in Nat, CallerInit
  PROVE  CallersInv(A)
<1>1. Books = NewBooks
  BY DEF CallerInit, Books, NewBooks
<1>2. Len(ledger) = 0
  BY NewBooksType DEF CallerInit
<1> QED BY <1>1, <1>2, NewBooksSound, CallerAssumption DEF CallersInv

LEMMA CallersStep ==
  ASSUME NEW A \in Nat, \A x \in Amounts : x <= A, Cap(MaxEntries + 1, A) < Half,
         CallersInv(A), CallerNext
  PROVE  CallersInv(A)'
<1>1. /\ Sound(Books, A) /\ Books \in BooksType /\ Books.ledger = ledger
      /\ Len(ledger) \in Nat /\ Len(ledger) < MaxEntries /\ MaxEntries \in Nat
  <2>1. Sound(Books, A) /\ Books \in BooksType /\ Books.ledger = ledger
    BY InBooks DEF CallersInv, Sound
  <2> QED BY <2>1, BooksTypes, CallerAssumption DEF CallerNext
<1>2. Cap(Len(ledger) + 1, A) < Half /\ Cap(Len(ledger) + 2, A) < Half
  <2>1. /\ Len(ledger) + 1 \in Nat /\ Len(ledger) + 2 \in Nat /\ MaxEntries + 1 \in Nat
        /\ Len(ledger) + 1 <= MaxEntries + 1 /\ Len(ledger) + 2 <= MaxEntries + 1
    BY <1>1
  <2>2. /\ Cap(Len(ledger) + 1, A) <= Cap(MaxEntries + 1, A)
        /\ Cap(Len(ledger) + 2, A) <= Cap(MaxEntries + 1, A)
        /\ Cap(Len(ledger) + 1, A) \in Nat /\ Cap(Len(ledger) + 2, A) \in Nat
        /\ Cap(MaxEntries + 1, A) \in Nat
    BY <2>1, CapMonotone, CapNext, Zenon DEF Cap
  <2> QED BY <2>2, AccountAssumption
<1>3. \A x \in Amounts : x \in 1 .. A
  BY CallerAssumption, AccountAssumption
<1>4. ASSUME NEW c, Becomes(c), Sound(c, A), Len(c.ledger) <= Len(ledger) + 2
      PROVE  CallersInv(A)'
  <2>1. c \in BooksType /\ Books' = c /\ ledger' = c.ledger
    BY <1>4, BecomesBooks DEF Sound, Becomes
  <2>2. Len(c.ledger) \in Nat
    BY <2>1, BooksTypes
  <2>3. Len(ledger') <= MaxEntries + 1
    BY <1>1, <1>4, <2>1, <2>2
  <2> QED BY <1>4, <2>1, <2>3 DEF CallersInv
<1>5. ASSUME NEW key \in AccountKey, NEW amount \in Amounts, CallOnAccount(key, amount)
      PROVE  CallersInv(A)'
  <2>1. PICK c : /\ Becomes(c)
                 /\ \/ c = EnsureAccount(Books, key, amount)
                    \/ c = Deposit(Books, key, amount)
                    \/ c = Withdraw(Books, key, amount)
                    \/ c = Freeze(Books, key, amount)
                    \/ c = Unfreeze(Books, key, amount)
    BY <1>5 DEF CallOnAccount
  <2>2. amount \in 0 .. A
    BY <1>3
  <2>3. Sound(c, A) /\ Len(c.ledger) <= Len(Books.ledger) + 1
    BY <1>1, <1>2, <2>1, <2>2, SoundCall
  <2>4. Len(c.ledger) \in Nat
    BY <2>3, BooksTypes DEF Sound
  <2>5. Len(c.ledger) <= Len(ledger) + 2
    BY <1>1, <2>3, <2>4
  <2> QED BY <1>4, <2>1, <2>3, <2>5
<1>6. ASSUME NEW user \in Users, NEW base \in Assets, NEW quote \in Assets,
             NEW n \in Amounts, NEW m \in Amounts, CallSettle(user, base, n, quote, m)
      PROVE  CallersInv(A)'
  <2>1. PICK c : /\ Becomes(c)
                 /\ \/ c = SettleTrade(Books, user, "TradeBuy", quote, m, base, n)
                    \/ c = SettleTrade(Books, user, "TradeSell", base, n, quote, m)
    BY <1>6 DEF CallSettle, SettleBuy, SettleSell
  <2>2. n \in 1 .. A /\ m \in 1 .. A
    BY <1>3
  <2>3. Cap(Len(Books.ledger) + 2, A) < Half
    BY <1>1, <1>2
  <2>4. Sound(c, A) /\ Len(c.ledger) <= Len(Books.ledger) + 2
    <3>1. CASE c = SettleTrade(Books, user, "TradeBuy", quote, m, base, n)
      BY <1>1, <2>2, <2>3, <3>1, SoundSettle
    <3>2. CASE c = SettleTrade(Books, user, "TradeSell", base, n, quote, m)
      BY <1>1, <2>2, <2>3, <3>2, SoundSettle
    <3> QED BY <2>1, <3>1, <3>2
  <2> QED BY <1>1, <1>4, <2>1, <2>4
<1> QED BY <1>5, <1>6 DEF CallerNext

(* All that callers can credit fits in an int64: MaxEntries calls, each of *)
(* at most A, a settlement counting twice.                                 *)
NothingWraps ==
  \E A \in Nat : /\ \A x \in Amounts : x <= A
                 /\ (MaxEntries + 1) * A < Half

LEMMA CallersSound ==
  ASSUME NEW A \in Nat, \A x \in Amounts : x <= A, Cap(MaxEntries + 1, A) < Half
  PROVE  CallerSpec => [](BalancesNonNegative /\ LedgerExplains)
<1>1. CallerInit => CallersInv(A)
  BY CallersStart
<1>2. CallersInv(A) /\ [CallerNext]_accountVars => CallersInv(A)'
  <2>1. CASE CallerNext
    BY <2>1, CallersStep
  <2>2. CASE UNCHANGED accountVars
    BY <2>2 DEF CallersInv, accountVars, Books
  <2> QED BY <2>1, <2>2
<1>3. CallersInv(A) => BalancesNonNegative /\ LedgerExplains
  BY CallerBooks DEF CallersInv
<1> QED BY <1>1, <1>2, <1>3, PTL DEF CallerSpec

(* While nothing wraps, no sequence of calls makes an available or a       *)
(* frozen balance negative: what is set aside or paid is never spent twice *)
(* (the guards of Withdraw, Freeze, Unfreeze, SettleBuy, SettleSell).      *)
THEOREM NobodySpendsTwice == NothingWraps => (CallerSpec => []BalancesNonNegative)
<1> SUFFICES ASSUME NothingWraps PROVE CallerSpec => []BalancesNonNegative
  OBVIOUS
<1>1. PICK A \in Nat : (\A x \in Amounts : x <= A) /\ Cap(MaxEntries + 1, A) < Half
  BY DEF NothingWraps, Cap
<1>2. CallerSpec => [](BalancesNonNegative /\ LedgerExplains)
  BY <1>1, CallersSound
<1> QED BY <1>2, PTL

(* While nothing wraps, both balances of every account can be rebuilt from *)
(* the entries GetLedger returns for it, whatever the sequence of calls.   *)
THEOREM LedgerTellsBalances == NothingWraps => (CallerSpec => []LedgerExplains)
<1> SUFFICES ASSUME NothingWraps PROVE CallerSpec => []LedgerExplains
  OBVIOUS
<1>1. PICK A \in Nat : (\A x \in Amounts : x <= A) /\ Cap(MaxEntries + 1, A) < Half
  BY DEF NothingWraps, Cap
<1>2. CallerSpec => [](BalancesNonNegative /\ LedgerExplains)
  BY <1>1, CallersSound
<1> QED BY <1>2, PTL

(* The chain of available balances is never broken, even when a balance    *)
(* wraps around: the entry is written from the balances of that very call. *)
THEOREM ChainNeverBreaks == CallerSpec => []LedgerChains
<1> DEFINE Inv == Books \in BooksType /\ ChainsIn(Books)
<1>1. CallerInit => Inv
  <2> SUFFICES ASSUME CallerInit PROVE Inv
    OBVIOUS
  <2>1. Books = NewBooks
    BY DEF CallerInit, Books, NewBooks
  <2>2. Sound(NewBooks, 0)
    BY NewBooksSound
  <2> QED BY <2>1, <2>2 DEF Sound
<1>2. Inv /\ [CallerNext]_accountVars => Inv'
  <2> SUFFICES ASSUME Inv, [CallerNext]_accountVars PROVE Inv'
    OBVIOUS
  <2>1. ASSUME NEW c, Becomes(c), c \in BooksType, ChainsIn(c) PROVE Inv'
    BY <2>1, BecomesBooks
  <2>2. \A x \in Amounts : x \in Int64
    BY CallerAssumption, AccountAssumption DEF Int64
  <2>3. ASSUME NEW key \in AccountKey, NEW amount \in Amounts, CallOnAccount(key, amount)
        PROVE  Inv'
    <3>1. PICK c : /\ Becomes(c)
                   /\ \/ c = EnsureAccount(Books, key, amount)
                      \/ c = Deposit(Books, key, amount)
                      \/ c = Withdraw(Books, key, amount)
                      \/ c = Freeze(Books, key, amount)
                      \/ c = Unfreeze(Books, key, amount)
      BY <2>3 DEF CallOnAccount
    <3>2. c \in BooksType /\ ChainsIn(c)
      BY <2>2, <3>1, CallChains
    <3> QED BY <2>1, <3>1, <3>2
  <2>4. ASSUME NEW user \in Users, NEW base \in Assets, NEW quote \in Assets,
               NEW n \in Amounts, NEW m \in Amounts, CallSettle(user, base, n, quote, m)
        PROVE  Inv'
    <3>1. PICK c : /\ Becomes(c)
                   /\ \/ c = SettleTrade(Books, user, "TradeBuy", quote, m, base, n)
                      \/ c = SettleTrade(Books, user, "TradeSell", base, n, quote, m)
      BY <2>4 DEF CallSettle, SettleBuy, SettleSell
    <3>2. n \in Int64 /\ m \in Int64
      BY <2>2
    <3>3. c \in BooksType /\ ChainsIn(c)
      BY <3>1, <3>2, SettleChains
    <3> QED BY <2>1, <3>1, <3>3
  <2>5. CASE UNCHANGED accountVars
    BY <2>5 DEF accountVars, Books
  <2> QED BY <2>3, <2>4, <2>5 DEF CallerNext
<1>3. Inv => LedgerChains
  BY InBooks
<1> QED BY <1>1, <1>2, <1>3, PTL DEF CallerSpec

----------------------------------------------------------------------------
(* The settlement consumer.  What the accounts of an asset hold beyond     *)
(* what was deposited.                                                     *)
TotalIn(b, asset) ==
  SumFunction([u \in Users |-> b.accounts[<<u, asset>>].available
                               + b.accounts[<<u, asset>>].frozen])

DepositsIn(b, asset) ==
  {i \in DOMAIN b.ledger : /\ b.ledger[i].type = "Deposit"
                           /\ b.ledger[i].key[2] = asset}

DepositedIn(b, asset) ==
  SumFunction([i \in DepositsIn(b, asset) |-> b.ledger[i].amount])

Excess(b, asset) == TotalIn(b, asset) - DepositedIn(b, asset)

LEMMA InTotals ==
  \A asset : /\ TotalIn(Books, asset) = TotalOf(asset)
             /\ DepositedIn(Books, asset) = DepositedOf(asset)
<1> SUFFICES ASSUME NEW asset
             PROVE  /\ TotalIn(Books, asset) = TotalOf(asset)
                    /\ DepositedIn(Books, asset) = DepositedOf(asset)
  OBVIOUS
<1>1. Books.accounts = accounts /\ Books.ledger = ledger
  BY InBooks
<1>2. TotalIn(Books, asset) = TotalOf(asset)
  BY <1>1 DEF TotalIn, TotalOf
<1>3. DepositedIn(Books, asset) = DepositedOf(asset)
  BY <1>1 DEF DepositedIn, DepositsIn, DepositedOf
<1> QED BY <1>2, <1>3

LEMMA AccountInts ==
  ASSUME NEW b \in BooksType, NEW key \in AccountKey
  PROVE  /\ b.accounts[key].available \in Int /\ b.accounts[key].frozen \in Int
         /\ b.accounts[key].available + b.accounts[key].frozen \in Int
<1>1. b.accounts[key].available \in Int64 /\ b.accounts[key].frozen \in Int64
  BY BooksTypes
<1>2. \A x \in Int64 : x \in Int
  BY AccountAssumption DEF Int64
<1> QED BY <1>1, <1>2

LEMMA TotalInInt ==
  ASSUME NEW b \in BooksType, NEW asset \in Assets
  PROVE  TotalIn(b, asset) \in Int
<1> DEFINE f == [u \in Users |-> b.accounts[<<u, asset>>].available
                                 + b.accounts[<<u, asset>>].frozen]
<1>1. \A u \in Users : <<u, asset>> \in AccountKey
  BY DEF AccountKey
<1>2. DOMAIN f = Users /\ \A u \in Users : f[u] \in Int
  BY <1>1, AccountInts
<1> HIDE DEF f
<1>3. SumFunction(f) \in Int
  BY <1>2, TotalInt, SettlerAssumption
<1> QED BY <1>3 DEF TotalIn, f

LEMMA EnteredTotal ==
  ASSUME NEW b, NEW c, NEW e, Entered(b, c, e), NEW asset \in Assets, NEW d \in Int,
         c.accounts[e.key].available + c.accounts[e.key].frozen =
           b.accounts[e.key].available + b.accounts[e.key].frozen + d
  PROVE  TotalIn(c, asset) = TotalIn(b, asset) + (IF e.key[2] = asset THEN d ELSE 0)
<1> DEFINE f == [u \in Users |-> c.accounts[<<u, asset>>].available
                                 + c.accounts[<<u, asset>>].frozen]
           g == [u \in Users |-> b.accounts[<<u, asset>>].available
                                 + b.accounts[<<u, asset>>].frozen]
<1>1. b \in BooksType /\ c \in BooksType /\ e.key \in AccountKey
  BY EnteredLedger DEF Entered
<1>2. \A u \in Users : <<u, asset>> \in AccountKey
  BY DEF AccountKey
<1>3. /\ DOMAIN f = Users /\ DOMAIN g = Users
      /\ \A u \in Users : f[u] \in Int /\ g[u] \in Int
  BY <1>1, <1>2, AccountInts
<1>4. \A u \in Users : <<u, asset>> # e.key => f[u] = g[u]
  BY <1>2 DEF Entered
<1>5. TotalIn(b, asset) \in Int
  BY <1>1, TotalInInt
<1>6. CASE e.key[2] = asset
  <2>1. PICK u \in Users : e.key = <<u, asset>>
    BY <1>1, <1>6 DEF AccountKey
  <2>2. \A w \in Users \ {u} : f[w] = g[w]
    BY <1>4, <2>1
  <2>3. f[u] = g[u] + d
    BY <2>1
  <2> HIDE DEF f, g
  <2>4. SumFunction(f) = SumFunction(g) + (f[u] - g[u])
    BY SMTT(30), <1>3, <2>2, TotalChanges, SettlerAssumption
  <2>5. f[u] - g[u] = d
    BY <1>3, <2>3
  <2> QED BY <1>6, <2>4, <2>5 DEF TotalIn, f, g
<1>7. CASE e.key[2] # asset
  <2>1. \A u \in Users : f[u] = g[u]
    BY <1>4, <1>7
  <2> HIDE DEF f, g
  <2>2. SumFunction(f) = SumFunction(g)
    BY <1>3, <2>1, TotalSame, SettlerAssumption
  <2>3. TotalIn(c, asset) = TotalIn(b, asset)
    BY <2>2 DEF TotalIn, f, g
  <2> QED BY <1>5, <1>7, <2>3
<1> QED BY <1>6, <1>7

LEMMA DepositedInInt ==
  ASSUME NEW b \in BooksType, NEW asset
  PROVE  IsFiniteSet(DepositsIn(b, asset)) /\ DepositedIn(b, asset) \in Int
<1>1. /\ DOMAIN b.ledger = 1 .. Len(b.ledger) /\ Len(b.ledger) \in Nat
      /\ \A i \in 1 .. Len(b.ledger) : b.ledger[i] \in LedgerEntry
  BY BooksTypes
<1>2. \A i \in 1 .. Len(b.ledger) : b.ledger[i].amount \in Int
  BY <1>1, EntryTypes, AccountAssumption DEF Int64
<1>3. 1 \in Int /\ Len(b.ledger) \in Int
  BY <1>1
<1>4. IsFiniteSet(1 .. Len(b.ledger))
  BY <1>3, FS_Interval, Zenon
<1>5. DepositsIn(b, asset) \subseteq 1 .. Len(b.ledger)
  BY <1>1 DEF DepositsIn
<1>6. IsFiniteSet(DepositsIn(b, asset))
  BY <1>4, <1>5, FS_Subset
<1> DEFINE f == [i \in DepositsIn(b, asset) |-> b.ledger[i].amount]
<1>7. DOMAIN f = DepositsIn(b, asset) /\ \A i \in DOMAIN f : f[i] \in Int
  BY <1>2, <1>5
<1> HIDE DEF f
<1>8. SumFunction(f) \in Int
  BY <1>6, <1>7, TotalInt
<1> QED BY <1>6, <1>8 DEF DepositedIn, f

LEMMA EnteredDeposits ==
  ASSUME NEW b, NEW c, NEW e, Entered(b, c, e), NEW asset
  PROVE  DepositedIn(c, asset) =
           DepositedIn(b, asset)
           + (IF e.type = "Deposit" /\ e.key[2] = asset THEN e.amount ELSE 0)
<1> DEFINE n == Len(b.ledger)
           f == [i \in DepositsIn(c, asset) |-> c.ledger[i].amount]
           g == [i \in DepositsIn(b, asset) |-> b.ledger[i].amount]
           D == e.type = "Deposit" /\ e.key[2] = asset
<1>1. /\ n \in Nat /\ DOMAIN b.ledger = 1 .. n /\ DOMAIN c.ledger = 1 .. n + 1
      /\ \A i \in 1 .. n : c.ledger[i] = b.ledger[i]
      /\ c.ledger[n + 1] = e
  BY EnteredLedger
<1>2. b \in BooksType /\ e.amount \in Int
  <2>1. b \in BooksType /\ e \in LedgerEntry
    BY DEF Entered
  <2> QED BY <2>1, EntryTypes, AccountAssumption DEF Int64
<1>3. \A i \in 1 .. n : b.ledger[i].amount \in Int
  <2>1. \A i \in 1 .. n : b.ledger[i] \in LedgerEntry
    BY <1>2, BooksTypes
  <2> QED BY <2>1, EntryTypes, AccountAssumption DEF Int64
<1>4. IsFiniteSet(DepositsIn(b, asset)) /\ DepositedIn(b, asset) \in Int
  BY <1>2, DepositedInInt
<1> HIDE DEF n
<1>5. \A i : i \in DepositsIn(b, asset) <=>
             i \in 1 .. n /\ b.ledger[i].type = "Deposit" /\ b.ledger[i].key[2] = asset
  BY <1>1 DEF DepositsIn
<1>6. \A i : i \in DepositsIn(c, asset) <=>
             i \in DepositsIn(b, asset) \/ (i = n + 1 /\ D)
  <2>1. \A i : i \in DepositsIn(c, asset) <=>
               i \in 1 .. n + 1 /\ c.ledger[i].type = "Deposit" /\ c.ledger[i].key[2] = asset
    BY <1>1 DEF DepositsIn
  <2> QED BY <1>1, <1>5, <2>1
<1>7. \A i \in DepositsIn(b, asset) : f[i] = g[i] /\ g[i] \in Int
  BY <1>1, <1>3, <1>5, <1>6
<1>8. CASE D
  <2>1. /\ DOMAIN f = DOMAIN g \cup {n + 1} /\ n + 1 \notin DOMAIN g
        /\ DOMAIN g = DepositsIn(b, asset)
    BY <1>1, <1>5, <1>6, <1>8
  <2>2. f[n + 1] = e.amount
    BY <1>1, <1>6, <1>8
  <2> HIDE DEF f, g
  <2>3. SumFunction(f) = f[n + 1] + SumFunction(g)
    BY <1>2, <1>4, <1>7, <2>1, <2>2, TotalGrows
  <2>4. DepositedIn(c, asset) = e.amount + DepositedIn(b, asset)
    BY <2>2, <2>3 DEF DepositedIn, f, g
  <2> QED BY <1>2, <1>4, <1>8, <2>4
<1>9. CASE ~D
  <2>1. DepositsIn(c, asset) = DepositsIn(b, asset)
    BY <1>6, <1>9
  <2>2. f = g
    BY <1>7, <2>1
  <2>3. DepositedIn(c, asset) = DepositedIn(b, asset)
    BY <2>2 DEF DepositedIn
  <2> QED BY <1>4, <1>9, <2>3
<1> QED BY <1>8, <1>9

(* A deposit leaves the excess as it was, any other entry adds to it what  *)
(* it adds to the account.                                                 *)
LEMMA EnteredExcess ==
  ASSUME NEW b, NEW c, NEW e, Entered(b, c, e), NEW asset \in Assets, NEW d \in Int,
         c.accounts[e.key].available + c.accounts[e.key].frozen =
           b.accounts[e.key].available + b.accounts[e.key].frozen + d,
         NEW x \in Int, x = IF e.type = "Deposit" THEN d - e.amount ELSE d
  PROVE  /\ Excess(b, asset) \in Int
         /\ Excess(c, asset) = Excess(b, asset) + (IF e.key[2] = asset THEN x ELSE 0)
<1>1. b \in BooksType /\ e.amount \in Int
  <2>1. b \in BooksType /\ e \in LedgerEntry
    BY DEF Entered
  <2> QED BY <2>1, EntryTypes, AccountAssumption DEF Int64
<1>2. TotalIn(b, asset) \in Int /\ DepositedIn(b, asset) \in Int
  BY <1>1, TotalInInt, DepositedInInt
<1>3. TotalIn(c, asset) = TotalIn(b, asset) + (IF e.key[2] = asset THEN d ELSE 0)
  BY EnteredTotal
<1>4. DepositedIn(c, asset) =
        DepositedIn(b, asset)
        + (IF e.type = "Deposit" /\ e.key[2] = asset THEN e.amount ELSE 0)
  BY EnteredDeposits
<1>5. CASE e.key[2] = asset /\ e.type = "Deposit"
  BY <1>1, <1>2, <1>3, <1>4, <1>5 DEF Excess
<1>6. CASE e.key[2] = asset /\ e.type # "Deposit"
  BY <1>1, <1>2, <1>3, <1>4, <1>6 DEF Excess
<1>7. CASE e.key[2] # asset
  BY <1>1, <1>2, <1>3, <1>4, <1>7 DEF Excess
<1> QED BY <1>5, <1>6, <1>7

(* Two calls that write one entry and leave the excess as it was.          *)
LEMMA DepositEffect ==
  ASSUME NEW A \in Nat, NEW b, Sound(b, A), Cap(Len(b.ledger) + 1, A) < Half,
         NEW key \in AccountKey, NEW amount \in 0 .. A,
         NEW c, c = Change(b, key, "Deposit", amount, amount, 0)
  PROVE  /\ Sound(c, A) /\ Len(c.ledger) = Len(b.ledger) + 1
         /\ \A asset \in Assets : Excess(c, asset) = Excess(b, asset)
         /\ \A k \in AccountKey : c.accounts[k].frozen = b.accounts[k].frozen
<1>1. /\ b.accounts[key].available \in Nat /\ b.accounts[key].frozen \in Nat
      /\ b \in BooksType /\ Len(b.ledger) \in Nat
  BY SoundBalances
<1>2. /\ amount \in Int64 /\ amount \in Int /\ amount \in Nat /\ amount + 0 <= A
      /\ 0 \in Int /\ "Deposit" \in LedgerType
  BY <1>1, RoomForAmount DEF LedgerType
<1>3. b.accounts[key].available + amount >= 0 /\ b.accounts[key].frozen + 0 >= 0
  BY <1>1, <1>2, NoOverdraft
<1> DEFINE e == EntryOf(b, key, "Deposit", amount, amount)
<1>4. e = EntryOf(b, key, "Deposit", amount, amount) /\ FrozenBy(e) = 0
  BY DEF EntryOf, FrozenBy
<1> HIDE DEF e
<1>5. /\ Sound(c, A) /\ Entered(b, c, e)
      /\ e.key = key /\ e.type = "Deposit" /\ e.amount = amount
      /\ Len(c.ledger) = Len(b.ledger) + 1
      /\ c.accounts[key].available = b.accounts[key].available + amount
      /\ c.accounts[key].frozen = b.accounts[key].frozen + 0
  BY <1>1, <1>2, <1>3, <1>4, SoundChange
<1>6. ASSUME NEW asset \in Assets PROVE Excess(c, asset) = Excess(b, asset)
  <2>1. \A x, y, z \in Int : (x + z) + (y + 0) = x + y + z
    OBVIOUS
  <2>2. /\ b.accounts[key].available \in Int /\ b.accounts[key].frozen \in Int
        /\ amount - amount = 0
    BY <1>1, <1>2
  <2>3. c.accounts[key].available + c.accounts[key].frozen
          = b.accounts[key].available + b.accounts[key].frozen + amount
    <3>1. (b.accounts[key].available + amount) + (b.accounts[key].frozen + 0)
            = b.accounts[key].available + b.accounts[key].frozen + amount
      BY <1>2, <2>1, <2>2, ZenonT(30)
    <3> QED BY <1>5, <3>1
  <2>4. 0 = IF e.type = "Deposit" THEN amount - e.amount ELSE amount
    BY <1>5, <2>2
  <2>5. /\ Excess(b, asset) \in Int
        /\ Excess(c, asset) = Excess(b, asset) + (IF e.key[2] = asset THEN 0 ELSE 0)
    BY <1>2, <1>5, <2>3, <2>4, EnteredExcess
  <2> QED BY <2>5
<1>7. ASSUME NEW k \in AccountKey PROVE c.accounts[k].frozen = b.accounts[k].frozen
  BY <1>1, <1>5 DEF Entered
<1> QED BY <1>5, <1>6, <1>7

LEMMA FreezeEffect ==
  ASSUME NEW A \in Nat, NEW b, Sound(b, A), Cap(Len(b.ledger) + 1, A) < Half,
         NEW key \in AccountKey, NEW amount \in 0 .. A, NEW c, c = Freeze(b, key, amount)
  PROVE  /\ Sound(c, A) /\ Len(c.ledger) <= Len(b.ledger) + 1
         /\ \A asset \in Assets : Excess(c, asset) = Excess(b, asset)
<1>1. /\ b.accounts[key].available \in Nat /\ b.accounts[key].frozen \in Nat
      /\ b \in BooksType /\ Len(b.ledger) \in Nat
  BY SoundBalances
<1>2. /\ amount \in Int64 /\ amount \in Int /\ amount \in Nat /\ -amount \in Int
      /\ -amount + amount <= A /\ 0 \in Int /\ "Freeze" \in LedgerType
  BY <1>1, RoomForAmount DEF LedgerType
<1>3. CASE b.accounts[key].available < amount
  <2>1. c = b
    BY <1>3 DEF Freeze
  <2> QED BY <1>1, <2>1
<1>4. CASE ~(b.accounts[key].available < amount)
  <2>1. c = Change(b, key, "Freeze", amount, -amount, amount)
    BY <1>4 DEF Freeze
  <2>2. b.accounts[key].available + -amount >= 0 /\ b.accounts[key].frozen + amount >= 0
    BY <1>1, <1>2, <1>4, NoOverdraft
  <2> DEFINE e == EntryOf(b, key, "Freeze", amount, -amount)
  <2>3. e = EntryOf(b, key, "Freeze", amount, -amount) /\ FrozenBy(e) = amount
    BY DEF EntryOf, FrozenBy
  <2> HIDE DEF e
  <2>4. /\ Sound(c, A) /\ Entered(b, c, e)
        /\ e.key = key /\ e.type = "Freeze" /\ e.amount = amount
        /\ Len(c.ledger) = Len(b.ledger) + 1
        /\ c.accounts[key].available = b.accounts[key].available + -amount
        /\ c.accounts[key].frozen = b.accounts[key].frozen + amount
    BY <1>1, <1>2, <2>1, <2>2, <2>3, SoundChange
  <2>5. ASSUME NEW asset \in Assets PROVE Excess(c, asset) = Excess(b, asset)
    <3>1. \A x, y, z \in Int : (x + -z) + (y + z) = x + y + 0
      OBVIOUS
    <3>2. b.accounts[key].available \in Int /\ b.accounts[key].frozen \in Int
      BY <1>1
    <3>3. c.accounts[key].available + c.accounts[key].frozen
            = b.accounts[key].available + b.accounts[key].frozen + 0
      BY SMTT(30), <1>2, <2>4, <3>1, <3>2
    <3>4. 0 = IF e.type = "Deposit" THEN 0 - e.amount ELSE 0
      BY <2>4
    <3>5. /\ Excess(b, asset) \in Int
          /\ Excess(c, asset) = Excess(b, asset) + (IF e.key[2] = asset THEN 0 ELSE 0)
      BY <1>2, <2>4, <3>3, <3>4, EnteredExcess
    <3> QED BY <3>5
  <2> QED BY <1>1, <2>4, <2>5
<1> QED BY <1>3, <1>4

LEMMA EnsureEffect ==
  ASSUME NEW A \in Nat, NEW b, Sound(b, A), Cap(Len(b.ledger) + 1, A) < Half,
         NEW key \in AccountKey, NEW amount \in 0 .. A,
         NEW c, c = EnsureAccount(b, key, amount)
  PROVE  /\ Sound(c, A) /\ Len(c.ledger) <= Len(b.ledger) + 1
         /\ \A asset \in Assets : Excess(c, asset) = Excess(b, asset)
         /\ \A k \in AccountKey : c.accounts[k].frozen = b.accounts[k].frozen
<1>1. b \in BooksType /\ Len(b.ledger) \in Nat
  BY SoundBalances
<1>2. CASE c = b
  BY <1>1, <1>2
<1>3. CASE c = Change(b, key, "Deposit", amount, amount, 0)
  <2>1. /\ Sound(c, A) /\ Len(c.ledger) = Len(b.ledger) + 1
        /\ \A asset \in Assets : Excess(c, asset) = Excess(b, asset)
        /\ \A k \in AccountKey : c.accounts[k].frozen = b.accounts[k].frozen
    BY <1>3, DepositEffect
  <2> QED BY <1>1, <2>1
<1> QED BY <1>2, <1>3 DEF EnsureAccount

(* A covered settlement moves cost out of one asset and gain into another, *)
(* and raises no frozen balance.                                           *)
Moves(b, c, paid, cost, got, gain) ==
  /\ \A asset \in Assets :
       /\ Excess(b, asset) \in Int
       /\ Excess(c, asset) = Excess(b, asset)
                             + (IF got = asset THEN gain ELSE 0)
                             - (IF paid = asset THEN cost ELSE 0)
  /\ \A k \in AccountKey : c.accounts[k].frozen <= b.accounts[k].frozen

LEMMA SettleEffect ==
  ASSUME NEW A \in Nat, NEW b, Sound(b, A), Cap(Len(b.ledger) + 2, A) < Half,
         NEW type \in {"TradeBuy", "TradeSell"},
         NEW user \in Users, NEW paid \in Assets, NEW got \in Assets,
         NEW cost \in 1 .. A, NEW gain \in 1 .. A,
         Covers(b, <<user, paid>>, cost),
         NEW c, c = SettleTrade(b, user, type, paid, cost, got, gain)
  PROVE  /\ Sound(c, A) /\ Len(c.ledger) = Len(b.ledger) + 2
         /\ Moves(b, c, paid, cost, got, gain)
<1>0. PICK m, d, e : TradeEnters(b, m, c, d, e, A, user, type, paid, cost, got, gain)
  BY SoundTrade
<1>1. /\ Sound(m, A) /\ Entered(b, m, d)
      /\ d.key = <<user, paid>> /\ d.type = type
      /\ m.accounts[d.key].available = b.accounts[d.key].available
      /\ m.accounts[d.key].frozen = b.accounts[d.key].frozen - cost
      /\ Sound(c, A) /\ Entered(m, c, e)
      /\ e.key = <<user, got>> /\ e.type = type
      /\ c.accounts[e.key].available = m.accounts[e.key].available + gain
      /\ c.accounts[e.key].frozen = m.accounts[e.key].frozen
      /\ Len(c.ledger) = Len(b.ledger) + 2
  BY <1>0 DEF TradeEnters
<1>2. /\ <<user, paid>> \in AccountKey /\ <<user, got>> \in AccountKey
      /\ b \in BooksType /\ m \in BooksType
  BY <1>1 DEF AccountKey, Sound
<1>3. cost \in Int /\ gain \in Int /\ -cost \in Int /\ cost >= 0
  OBVIOUS
<1>4. /\ m.accounts[d.key].available + m.accounts[d.key].frozen
           = b.accounts[d.key].available + b.accounts[d.key].frozen + -cost
      /\ c.accounts[e.key].available + c.accounts[e.key].frozen
           = m.accounts[e.key].available + m.accounts[e.key].frozen + gain
  <2>1. /\ b.accounts[d.key].available \in Int /\ b.accounts[d.key].frozen \in Int
        /\ m.accounts[e.key].available \in Int /\ m.accounts[e.key].frozen \in Int
    BY <1>1, <1>2, AccountInts
  <2> DEFINE x == b.accounts[d.key].available
             y == b.accounts[d.key].frozen
             v == m.accounts[e.key].available
             w == m.accounts[e.key].frozen
  <2>2. x \in Int /\ y \in Int /\ v \in Int /\ w \in Int
    BY <2>1
  <2> HIDE DEF x, y, v, w
  <2>3. x + (y - cost) = x + y + -cost /\ (v + gain) + w = v + w + gain
    BY <1>3, <2>2
  <2> QED BY <1>1, <2>3 DEF x, y, v, w
<1>5. ASSUME NEW asset \in Assets
      PROVE  /\ Excess(b, asset) \in Int
             /\ Excess(c, asset) = Excess(b, asset)
                                   + (IF got = asset THEN gain ELSE 0)
                                   - (IF paid = asset THEN cost ELSE 0)
  <2>1. /\ -cost = IF d.type = "Deposit" THEN -cost - d.amount ELSE -cost
        /\ gain = IF e.type = "Deposit" THEN gain - e.amount ELSE gain
    BY <1>1
  <2>2. /\ Excess(b, asset) \in Int
        /\ Excess(m, asset) = Excess(b, asset)
                              + (IF d.key[2] = asset THEN -cost ELSE 0)
    <3> DEFINE less == -cost
    <3>1. /\ less \in Int /\ less = IF d.type = "Deposit" THEN less - d.amount ELSE less
          /\ m.accounts[d.key].available + m.accounts[d.key].frozen
               = b.accounts[d.key].available + b.accounts[d.key].frozen + less
          /\ Entered(b, m, d)
      BY <1>1, <1>3, <1>4, <2>1
    <3> HIDE DEF less
    <3>2. /\ Excess(b, asset) \in Int
          /\ Excess(m, asset) = Excess(b, asset)
                                + (IF d.key[2] = asset THEN less ELSE 0)
      BY <3>1, EnteredExcess
    <3> QED BY <3>2 DEF less
  <2>3. Excess(c, asset) = Excess(m, asset)
                           + (IF e.key[2] = asset THEN gain ELSE 0)
    BY SMTT(30), <1>1, <1>3, <1>4, <2>1, EnteredExcess
  <2>4. d.key[2] = paid /\ e.key[2] = got
    BY <1>1
  <2> QED BY <1>3, <2>2, <2>3, <2>4
<1>6. ASSUME NEW k \in AccountKey
      PROVE  c.accounts[k].frozen <= b.accounts[k].frozen
  <2>1. c.accounts[k].frozen = m.accounts[k].frozen
    BY <1>1 DEF Entered
  <2>2. \/ m.accounts[k].frozen = b.accounts[k].frozen
        \/ m.accounts[k].frozen = b.accounts[k].frozen - cost
    BY <1>1 DEF Entered
  <2>3. b.accounts[k].frozen \in Int
    BY <1>2, AccountInts
  <2> QED BY <1>3, <2>1, <2>2, <2>3
<1> QED BY <1>1, <1>5, <1>6 DEF Moves

(* What the parameters must allow for: A bounds whatever one entry can     *)
(* credit, and the entries of the seeds and of MaxTrades settlements fit.  *)
Fits(A) ==
  /\ {BaseSeed, BaseFrozen, QuoteSeed, QuoteFrozen} \subseteq 0 .. A
  /\ \A t \in TradeMessages : /\ t.quantity * 10 <= A
                              /\ (t.price * t.quantity) * 10 <= A
  /\ Cap(4 + 6 * MaxTrades, A) < Half

LEMMA RoomFor ==
  ASSUME NEW A \in Nat, Fits(A), NEW n \in Nat, n <= 4 + 6 * MaxTrades
  PROVE  Cap(n, A) < Half
<1>1. 4 + 6 * MaxTrades \in Nat
  BY SettlerAssumption
<1>2. Cap(n, A) <= Cap(4 + 6 * MaxTrades, A)
  BY <1>1, CapMonotone
<1>3. Cap(n, A) \in Nat /\ Cap(4 + 6 * MaxTrades, A) \in Nat
  BY <1>1, CapNext
<1>4. Cap(4 + 6 * MaxTrades, A) < Half
  BY DEF Fits
<1> QED BY <1>2, <1>3, <1>4, AccountAssumption

LEMMA MessageTypes ==
  \A t \in TradeMessages :
    /\ t.symbol \in Seq(Assets) /\ t.buyUser \in Users /\ t.sellUser \in Users
    /\ t.price \in Nat \ {0} /\ t.quantity \in Nat \ {0}
    /\ t.quantity \in Int64
<1>1. \A t \in [symbol : Seq(Assets), buyUser : Users, sellUser : Users,
                price : 1 .. Half - 1, quantity : 1 .. Half - 1] :
        /\ t.symbol \in Seq(Assets) /\ t.buyUser \in Users /\ t.sellUser \in Users
        /\ t.price \in 1 .. Half - 1 /\ t.quantity \in 1 .. Half - 1
  OBVIOUS
<1>2. \A x \in 1 .. Half - 1 : x \in Nat \ {0} /\ x \in Int64
  BY AccountAssumption DEF Int64
<1> QED BY <1>1, <1>2, SettlerAssumption

(* Then no product overflows.                                              *)
LEMMA CostsFit ==
  ASSUME NEW A \in Nat, Fits(A), NEW t \in TradeMessages,
         NEW cost, cost = Wrap(t.price * t.quantity)
  PROVE  /\ t.quantity \in 1 .. A /\ Wrap(t.quantity * 10) \in 1 .. A
         /\ cost \in 1 .. A /\ Wrap(cost * 10) \in 1 .. A
<1> DEFINE q == t.quantity
           p == t.price * q
<1>1. \A x, y \in Nat \ {0} : x * y \in Nat \ {0}
  OBVIOUS
<1>2. q \in Nat \ {0} /\ p \in Nat \ {0}
  BY <1>1, MessageTypes
<1>3. q * 10 <= A /\ p * 10 <= A
  BY DEF Fits
<1>4. A < Half
  <2>1. 1 <= 4 + 6 * MaxTrades
    BY SettlerAssumption
  <2>2. Cap(1, A) < Half
    BY <2>1, RoomFor
  <2> QED BY <2>2 DEF Cap
<1>5. cost = Wrap(p)
  OBVIOUS
<1> HIDE DEF q, p
<1>6. /\ q \in 1 .. A /\ p \in 1 .. A /\ q * 10 \in 1 .. A /\ p * 10 \in 1 .. A
  BY <1>2, <1>3
<1>7. \A x \in 1 .. A : x \in Int64
  BY <1>4, AccountAssumption DEF Int64
<1>8. Wrap(q * 10) = q * 10 /\ Wrap(p) = p /\ Wrap(p * 10) = p * 10
  BY <1>6, <1>7, WrapFits
<1> QED BY <1>5, <1>6, <1>8 DEF q

LEMMA SeedTypes == SeededBooks \in BooksType /\ ChainsIn(SeededBooks)
<1> DEFINE d1 == Deposit(NewBooks, <<Alice, Base>>, BaseSeed)
           d2 == Deposit(d1, <<Bob, Quote>>, QuoteSeed)
           f1 == Freeze(d2, <<Alice, Base>>, BaseFrozen)
           f2 == Freeze(f1, <<Bob, Quote>>, QuoteFrozen)
<1>1. <<Alice, Base>> \in AccountKey /\ <<Bob, Quote>> \in AccountKey
  BY SettlerAssumption DEF AccountKey
<1>2. /\ BaseSeed \in Int64 /\ BaseFrozen \in Int64
      /\ QuoteSeed \in Int64 /\ QuoteFrozen \in Int64
  BY SettlerAssumption, AccountAssumption DEF Int64
<1>3. NewBooks \in BooksType /\ ChainsIn(NewBooks)
  <2>1. Sound(NewBooks, 0)
    BY NewBooksSound
  <2> QED BY <2>1 DEF Sound
<1>4. d1 \in BooksType /\ ChainsIn(d1)
  BY <1>1, <1>2, <1>3, CallChains
<1> HIDE DEF d1
<1>5. d2 \in BooksType /\ ChainsIn(d2)
  BY <1>1, <1>2, <1>4, CallChains
<1> HIDE DEF d2
<1>6. f1 \in BooksType /\ ChainsIn(f1)
  BY <1>1, <1>2, <1>5, CallChains
<1> HIDE DEF f1
<1>7. f2 \in BooksType /\ ChainsIn(f2)
  BY <1>1, <1>2, <1>6, CallChains
<1> QED BY <1>7 DEF SeededBooks, d1, d2, f1

(* Books after at most n entries of main.go.                               *)
Seeded(b, n, A) ==
  /\ Sound(b, A) /\ Len(b.ledger) <= n
  /\ \A asset \in Assets : Excess(b, asset) = 0

LEMMA NothingSeeded ==
  ASSUME NEW A \in Nat
  PROVE  Seeded(NewBooks, 0, A)
<1>1. /\ Sound(NewBooks, A) /\ Len(NewBooks.ledger) = 0
      /\ \A asset \in Assets : Excess(NewBooks, asset) = 0
  <2>1. /\ NewBooks.ledger = <<>>
        /\ \A key \in AccountKey :
             NewBooks.accounts[key] = [available |-> 0, frozen |-> 0]
    BY NewBooksType
  <2>2. ASSUME NEW asset \in Assets PROVE Excess(NewBooks, asset) = 0
    <3> DEFINE f == [u \in Users |-> NewBooks.accounts[<<u, asset>>].available
                                     + NewBooks.accounts[<<u, asset>>].frozen]
               g == [i \in DepositsIn(NewBooks, asset) |-> NewBooks.ledger[i].amount]
    <3>1. \A u \in Users : <<u, asset>> \in AccountKey
      BY DEF AccountKey
    <3>2. DOMAIN f = Users /\ \A u \in Users : f[u] = 0
      BY <2>1, <3>1
    <3>3. DOMAIN g = {}
      BY <2>1 DEF DepositsIn
    <3> HIDE DEF f, g
    <3>4. SumFunction(f) = 0 /\ SumFunction(g) = 0
      BY <3>2, <3>3, TotalZero, TotalEmpty, SettlerAssumption
    <3>5. TotalIn(NewBooks, asset) = 0 /\ DepositedIn(NewBooks, asset) = 0
      BY <3>4 DEF TotalIn, DepositedIn, f, g
    <3> QED BY <3>5 DEF Excess
  <2> QED BY <2>1, <2>2, NewBooksSound
<1> QED BY <1>1 DEF Seeded

LEMMA SeedStep ==
  ASSUME NEW A \in Nat, Fits(A), NEW n \in 0 .. 3, NEW b, Seeded(b, n, A),
         NEW key \in AccountKey, NEW amount \in 0 .. A, NEW c,
         c = Deposit(b, key, amount) \/ c = Freeze(b, key, amount)
  PROVE  Seeded(c, n + 1, A)
<1>1. /\ Sound(b, A) /\ Len(b.ledger) <= n
      /\ \A asset \in Assets : Excess(b, asset) = 0
  BY DEF Seeded
<1>2. Len(b.ledger) \in Nat
  <2>1. b \in BooksType
    BY <1>1 DEF Sound
  <2> QED BY <2>1, BooksTypes
<1>3. Len(b.ledger) + 1 \in Nat /\ Len(b.ledger) + 1 <= 4 + 6 * MaxTrades
  BY SMTT(30), <1>1, <1>2, SettlerAssumption
<1>4. Cap(Len(b.ledger) + 1, A) < Half
  BY <1>3, RoomFor
<1>5. /\ Sound(c, A) /\ Len(c.ledger) <= Len(b.ledger) + 1
      /\ \A asset \in Assets : Excess(c, asset) = Excess(b, asset)
  <2>1. CASE c = Deposit(b, key, amount)
    <3>1. c = Change(b, key, "Deposit", amount, amount, 0)
      BY <2>1 DEF Deposit
    <3>2. /\ Sound(c, A) /\ Len(c.ledger) = Len(b.ledger) + 1
          /\ \A asset \in Assets : Excess(c, asset) = Excess(b, asset)
      BY <1>1, <1>4, <3>1, DepositEffect
    <3> QED BY <1>2, <3>2
  <2>2. CASE c = Freeze(b, key, amount)
    BY <1>1, <1>4, <2>2, FreezeEffect
  <2> QED BY <2>1, <2>2
<1>6. Len(c.ledger) \in Nat
  <2>1. c \in BooksType
    BY <1>5 DEF Sound
  <2> QED BY <2>1, BooksTypes
<1>7. Len(c.ledger) <= n + 1
  BY <1>1, <1>2, <1>5, <1>6
<1>8. \A asset \in Assets : Excess(c, asset) = 0
  BY <1>1, <1>5
<1> QED BY <1>5, <1>7, <1>8 DEF Seeded

LEMMA SeedEffect ==
  ASSUME NEW A \in Nat, Fits(A)
  PROVE  Seeded(SeededBooks, 4, A)
<1> DEFINE alice == <<Alice, Base>>
           bob == <<Bob, Quote>>
           d1 == Deposit(NewBooks, alice, BaseSeed)
           d2 == Deposit(d1, bob, QuoteSeed)
           f1 == Freeze(d2, alice, BaseFrozen)
<1>1. alice \in AccountKey /\ bob \in AccountKey
  BY SettlerAssumption DEF AccountKey
<1>2. /\ BaseSeed \in 0 .. A /\ BaseFrozen \in 0 .. A
      /\ QuoteSeed \in 0 .. A /\ QuoteFrozen \in 0 .. A
  BY DEF Fits
<1>3. SeededBooks = Freeze(f1, bob, QuoteFrozen)
  BY DEF SeededBooks
<1>4. /\ d1 = Deposit(NewBooks, alice, BaseSeed) /\ d2 = Deposit(d1, bob, QuoteSeed)
      /\ f1 = Freeze(d2, alice, BaseFrozen)
  OBVIOUS
<1> HIDE DEF alice, bob, d1, d2, f1
<1>5. \A n \in 0 .. 3 : \A key \in AccountKey : \A amount \in 0 .. A : \A b, c :
        Seeded(b, n, A) /\ (c = Deposit(b, key, amount) \/ c = Freeze(b, key, amount))
        => Seeded(c, n + 1, A)
  BY SeedStep
<1>6. /\ 0 \in 0 .. 3 /\ 1 \in 0 .. 3 /\ 2 \in 0 .. 3 /\ 3 \in 0 .. 3
      /\ 0 + 1 = 1 /\ 1 + 1 = 2 /\ 2 + 1 = 3 /\ 3 + 1 = 4
  OBVIOUS
<1>7. Seeded(d1, 1, A)
  BY <1>1, <1>2, <1>4, <1>5, <1>6, NothingSeeded
<1>8. Seeded(d2, 2, A)
  BY <1>1, <1>2, <1>4, <1>5, <1>6, <1>7
<1>9. Seeded(f1, 3, A)
  BY <1>1, <1>2, <1>4, <1>5, <1>6, <1>8
<1> QED BY <1>1, <1>2, <1>3, <1>5, <1>6, <1>9

----------------------------------------------------------------------------
(* The reader: while settle runs it has a trade with two assets, and it    *)
(* has fetched a message for every outcome, all partitions together.       *)
Fetched == SumFunction(position)

ReaderInv ==
  /\ TypeOK
  /\ ChainsIn(Books)
  /\ Held <= MaxTrades
  /\ pc # "read" => trade \in TradeMessages /\ Len(trade.symbol) = 2
  /\ Len(outcomes) + (IF pc = "read" THEN 0 ELSE 1) <= Fetched

(* Counts by partition: their sum, and what one message more makes of it.  *)
LEMMA CountsSum ==
  ASSUME NEW f \in [Partitions -> Nat]
  PROVE  SumFunction(f) \in Nat
<1>1. DOMAIN f = Partitions /\ IsFiniteSet(Partitions) /\ \A p \in Partitions : f[p] \in Nat
  BY SettlerAssumption
<1> QED BY <1>1, SumNat DEF SumFunction

LEMMA CountGrows ==
  ASSUME NEW f \in [Partitions -> Nat], NEW g \in [Partitions -> Nat],
         NEW p \in Partitions, g[p] = f[p] + 1,
         \A q \in Partitions \ {p} : g[q] = f[q]
  PROVE  SumFunction(g) = SumFunction(f) + 1
<1>1. DOMAIN f = Partitions /\ DOMAIN g = Partitions
  OBVIOUS
<1>2. IsFiniteSet(Partitions)
  BY SettlerAssumption
<1>3. \A q \in Partitions : g[q] \in Int /\ f[q] \in Int
  OBVIOUS
<1>4. SumFunctionOnSet(f, Partitions) \in Int
  BY <1>2, <1>3, SumInt
<1>5. SumFunctionOnSet(g, Partitions) = SumFunctionOnSet(f, Partitions) + (g[p] - f[p])
  BY <1>2, <1>3, SumChange
<1>6. SumFunctionOnSet(g, Partitions) = SumFunctionOnSet(f, Partitions) + 1
  BY <1>4, <1>5
<1> QED BY <1>1, <1>6 DEF SumFunction

Lengths == [p \in Partitions |-> Len(topic[p])]

LEMMA ReaderCounts ==
  ASSUME TypeOK
  PROVE  /\ Lengths \in [Partitions -> Nat] /\ position \in [Partitions -> Nat]
         /\ Held = SumFunction(Lengths)
         /\ Held \in Nat /\ Fetched \in Nat /\ Fetched <= Held
<1>1. /\ topic \in [Partitions -> Seq(TradeMessages)] /\ position \in [Partitions -> Nat]
      /\ \A p \in Partitions : position[p] <= Len(topic[p])
  <2>1. /\ {position, committed} \subseteq [Partitions -> Nat]
        /\ topic \in [Partitions -> Seq(TradeMessages)]
        /\ \A p \in Partitions :
             committed[p] <= position[p] /\ position[p] <= Len(topic[p])
    BY DEF TypeOK
  <2> QED BY <2>1
<1>2. Lengths \in [Partitions -> Nat]
  <2>1. \A p \in Partitions : Len(topic[p]) \in Nat
    BY <1>1
  <2> QED BY <2>1 DEF Lengths
<1>3. Held = SumFunction(Lengths)
  BY DEF Held, Lengths
<1>4. \A p \in Partitions : Lengths[p] = Len(topic[p])
  BY DEF Lengths
<1>5. SumFunctionOnSet(position, Partitions) <= SumFunctionOnSet(Lengths, Partitions)
  <2>1. /\ IsFiniteSet(Partitions) /\ Partitions \in SUBSET Partitions
        /\ \A p \in Partitions : /\ Lengths[p] \in Nat /\ position[p] \in Nat
                                 /\ position[p] <= Lengths[p]
    BY <1>1, <1>2, <1>4, SettlerAssumption
  <2> QED BY <2>1, SumMonotone
<1>6. DOMAIN Lengths = Partitions /\ DOMAIN position = Partitions
  BY <1>1, <1>2
<1>7. Fetched <= Held
  BY <1>3, <1>5, <1>6 DEF SumFunction, Fetched
<1> QED BY <1>1, <1>2, <1>3, <1>7, CountsSum DEF Fetched

LEMMA BooksTyped == AccountsTypeOK <=> Books \in BooksType
<1>1. Books = [accounts |-> accounts, ledger |-> ledger]
  BY DEF Books
<1> QED BY <1>1 DEF AccountsTypeOK, BooksType

LEMMA TradeParts ==
  ASSUME ReaderInv, pc # "read"
  PROVE  /\ trade \in TradeMessages
         /\ trade.buyUser \in Users /\ trade.sellUser \in Users
         /\ baseAsset \in Assets /\ quoteAsset \in Assets
         /\ <<trade.buyUser, quoteAsset>> \in AccountKey
         /\ <<trade.sellUser, baseAsset>> \in AccountKey
         /\ trade.quantity \in Int64 /\ quoteCost \in Int64
         /\ Wrap(quoteCost * 10) \in Int64 /\ Wrap(trade.quantity * 10) \in Int64
<1>1. trade \in TradeMessages /\ Len(trade.symbol) = 2
  BY DEF ReaderInv
<1>2. /\ trade.symbol \in Seq(Assets)
      /\ trade.buyUser \in Users /\ trade.sellUser \in Users
      /\ trade.price \in Nat \ {0} /\ trade.quantity \in Nat \ {0}
      /\ trade.quantity \in Int64
  BY <1>1, MessageTypes
<1>3. baseAsset \in Assets /\ quoteAsset \in Assets
  BY <1>1, <1>2, ElementOfSeq DEF baseAsset, quoteAsset
<1>4. quoteCost \in Int64
  <2>1. \A x, y \in Nat \ {0} : x * y \in Int
    OBVIOUS
  <2> QED BY <1>2, <2>1, WrapType DEF quoteCost
<1>5. Wrap(quoteCost * 10) \in Int64 /\ Wrap(trade.quantity * 10) \in Int64
  <2>1. \A x \in Int64 : x * 10 \in Int
    BY AccountAssumption DEF Int64
  <2> QED BY <1>2, <1>4, <2>1, WrapType
<1> QED BY <1>1, <1>2, <1>3, <1>4, <1>5 DEF AccountKey

LEMMA ReaderStart == Init => ReaderInv
<1> SUFFICES ASSUME Init PROVE ReaderInv
  OBVIOUS
<1>1. Books = SeededBooks
  <2>1. SeededBooks \in BooksType
    BY SeedTypes
  <2> QED BY <2>1 DEF Init, Books, BooksType
<1>2. AccountsTypeOK /\ ChainsIn(Books)
  BY <1>1, SeedTypes, BooksTyped
<1>3. /\ position = [p \in Partitions |-> 0] /\ committed = [p \in Partitions |-> 0]
      /\ topic = [p \in Partitions |-> <<>>] /\ Len(outcomes) = 0
  BY DEF Init
<1>4. MaxTrades \in Nat /\ MaxFailures \in Nat /\ MaxRestarts \in Nat
  BY SettlerAssumption
<1>5. topic \in [Partitions -> Seq(TradeMessages)]
      /\ outcomes \in Seq([trade : TradeMessages, result : {"none", "buyerOnly", "both"}])
  BY DEF Init
<1>6. TypeOK
  <2>1. {position, committed} \subseteq [Partitions -> Nat]
    BY <1>3
  <2>2. \A p \in Partitions : committed[p] <= position[p] /\ position[p] <= Len(topic[p])
    BY <1>3
  <2> QED BY <1>2, <1>4, <1>5, <2>1, <2>2 DEF Init, TypeOK, Steps
<1>7. Held = 0
  <2>1. \A p \in Partitions : Lengths[p] = 0
    BY <1>3 DEF Lengths
  <2>2. DOMAIN Lengths = Partitions
    BY DEF Lengths
  <2>3. SumFunction(Lengths) = 0
    BY <2>1, <2>2, TotalZero, SettlerAssumption
  <2> QED BY <2>3, <1>6, ReaderCounts
<1>8. Fetched \in Nat
  BY <1>6, ReaderCounts
<1> QED BY <1>2, <1>3, <1>4, <1>6, <1>7, <1>8 DEF ReaderInv, Init

LEMMA BecomesTyped ==
  ASSUME NEW c \in BooksType, ChainsIn(c), Becomes(c)
  PROVE  AccountsTypeOK' /\ ChainsIn(Books)'
<1>1. Books' = c
  BY BecomesBooks
<1>2. accounts' = c.accounts /\ ledger' = c.ledger
  BY DEF Becomes
<1> QED BY <1>1, <1>2, BooksTypes DEF AccountsTypeOK

Outcome == [trade : TradeMessages, result : {"none", "buyerOnly", "both"}]

LEMMA ReaderStep == ReaderInv /\ [Next]_settlerVars => ReaderInv'
<1> SUFFICES ASSUME ReaderInv, [Next]_settlerVars PROVE ReaderInv'
  OBVIOUS
<1>1. /\ TypeOK /\ AccountsTypeOK /\ ChainsIn(Books) /\ Books \in BooksType
      /\ topic \in [Partitions -> Seq(TradeMessages)] /\ outcomes \in Seq(Outcome)
      /\ Held <= MaxTrades /\ MaxTrades \in Nat
      /\ {position, committed} \subseteq [Partitions -> Nat]
      /\ \A p \in Partitions :
           committed[p] <= position[p] /\ position[p] <= Len(topic[p])
      /\ pc \in Steps /\ trade \in TradeMessages \cup {<<>>}
      /\ failures \in 0 .. MaxFailures /\ restarts \in 0 .. MaxRestarts
      /\ pc # "read" => trade \in TradeMessages /\ Len(trade.symbol) = 2
      /\ Len(outcomes) + (IF pc = "read" THEN 0 ELSE 1) <= Fetched
      /\ Len(outcomes) \in Nat
  BY BooksTyped, SettlerAssumption DEF ReaderInv, TypeOK, Outcome
<1>3. /\ Lengths \in [Partitions -> Nat] /\ Held = SumFunction(Lengths)
      /\ Held \in Nat /\ Fetched \in Nat
  BY <1>1, ReaderCounts
<1>4. ASSUME UNCHANGED <<topic, readerVars>>
      PROVE  Held' = Held /\ Fetched' = Fetched
  BY <1>4 DEF Held, Fetched, readerVars
<1>5. ASSUME NEW p \in Partitions, Fetch(p), UNCHANGED topic,
             Commit(p) \/ UNCHANGED committed
      PROVE  /\ {position', committed'} \subseteq [Partitions -> Nat]
             /\ \A q \in Partitions :
                  committed'[q] <= position'[q] /\ position'[q] <= Len(topic'[q])
             /\ Held' = Held /\ Fetched' = Fetched + 1
             /\ position[p] + 1 \in 1 .. Len(topic[p])
  <2>1. /\ position \in [Partitions -> Nat] /\ committed \in [Partitions -> Nat]
        /\ position[p] < Len(topic[p])
        /\ position' = [position EXCEPT ![p] = @ + 1]
        /\ \/ committed' = [committed EXCEPT ![p] = position[p] + 1]
           \/ committed' = committed
    BY <1>1, <1>5 DEF Fetch, Commit
  <2>2. {position', committed'} \subseteq [Partitions -> Nat]
    BY <2>1
  <2>3. ASSUME NEW q \in Partitions
        PROVE  committed'[q] <= position'[q] /\ position'[q] <= Len(topic'[q])
    <3>1. /\ topic' = topic /\ Len(topic[q]) \in Nat
          /\ committed[q] <= position[q] /\ position[q] <= Len(topic[q])
      BY <1>1, <1>5
    <3> QED BY <2>1, <3>1
  <2>4. SumFunction(position') = SumFunction(position) + 1
    <3>1. /\ position' \in [Partitions -> Nat] /\ position'[p] = position[p] + 1
          /\ \A q \in Partitions \ {p} : position'[q] = position[q]
      BY <2>1
    <3> QED BY <2>1, <3>1, CountGrows
  <2>5. position[p] + 1 \in 1 .. Len(topic[p])
    <3>1. Len(topic[p]) \in Nat
      BY <1>1
    <3> QED BY <2>1, <3>1
  <2>6. Held' = Held /\ Fetched' = Fetched + 1
    BY <1>5, <2>4 DEF Held, Fetched
  <2> QED BY <2>2, <2>3, <2>5, <2>6
<1>2. ASSUME UNCHANGED <<accounts, ledger>>
      PROVE  AccountsTypeOK' /\ ChainsIn(Books)'
  BY <1>1, <1>2 DEF AccountsTypeOK, Books
<1>6. ASSUME NEW p \in Partitions, NEW t \in TradeMessages, Publish(p, t) PROVE ReaderInv'
  <2>1. /\ topic' = [topic EXCEPT ![p] = Append(@, t)] /\ Held < MaxTrades
        /\ UNCHANGED <<accounts, ledger, position, committed, pc, trade, outcomes,
                       failures, restarts>>
    BY <1>6 DEF Publish, readerVars
  <2>2. topic[p] \in Seq(TradeMessages)
    BY <1>1
  <2>3. Append(topic[p], t) \in Seq(TradeMessages) /\ Len(Append(topic[p], t)) = Len(topic[p]) + 1
    BY <2>2, AppendProperties
  <2>4. topic' \in [Partitions -> Seq(TradeMessages)]
    BY <1>1, <2>1, <2>3
  <2>5. ASSUME NEW q \in Partitions
        PROVE  /\ Len(topic'[q]) = IF q = p THEN Lengths[p] + 1 ELSE Lengths[q]
               /\ committed[q] <= position[q] /\ position[q] <= Len(topic'[q])
    <3>1. /\ Lengths[q] = Len(topic[q]) /\ Lengths[q] \in Nat
          /\ committed[q] <= position[q] /\ position[q] <= Len(topic[q])
          /\ position[q] \in Nat
      BY <1>1, <1>3 DEF Lengths
    <3> QED BY <1>1, <2>1, <2>3, <3>1
  <2>6. Lengths' = [Lengths EXCEPT ![p] = @ + 1]
    BY <2>5 DEF Lengths
  <2>7. Held' = Held + 1 /\ Fetched' = Fetched
    <3>1. /\ Lengths' \in [Partitions -> Nat] /\ Lengths'[p] = Lengths[p] + 1
          /\ \A q \in Partitions \ {p} : Lengths'[q] = Lengths[q]
      BY <1>3, <2>6
    <3>2. SumFunction(Lengths') = SumFunction(Lengths) + 1
      BY <1>3, <3>1, CountGrows
    <3>3. Held' = SumFunction(Lengths')
      BY DEF Held, Lengths
    <3> QED BY <1>3, <2>1, <3>2, <3>3 DEF Fetched
  <2>8. AccountsTypeOK' /\ ChainsIn(Books)'
    BY <1>2, <2>1
  <2>9. TypeOK'
    BY <1>1, <2>1, <2>4, <2>5, <2>8 DEF TypeOK, Outcome
  <2>10. Held' <= MaxTrades
    BY <1>1, <1>3, <2>1, <2>7
  <2> QED BY <1>1, <2>1, <2>7, <2>8, <2>9, <2>10 DEF ReaderInv
<1>7. ASSUME NEW p \in Partitions, Read(p) PROVE ReaderInv'
  <2>1. AccountsTypeOK' /\ ChainsIn(Books)'
    BY <1>2, <1>7 DEF Read
  <2>2. /\ Fetch(p) /\ Commit(p) /\ trade' = topic[p][position[p] + 1]
        /\ pc' = IF Len(trade'.symbol) = 2 THEN "ensureBuyer" ELSE "read"
        /\ UNCHANGED <<topic, outcomes, failures, restarts>> /\ pc = "read"
    BY <1>7 DEF Read, Fetch
  <2>3. /\ {position', committed'} \subseteq [Partitions -> Nat]
        /\ \A q \in Partitions :
             committed'[q] <= position'[q] /\ position'[q] <= Len(topic'[q])
        /\ Held' = Held /\ Fetched' = Fetched + 1
        /\ position[p] + 1 \in 1 .. Len(topic[p])
    BY <1>5, <2>2
  <2>4. trade' \in TradeMessages
    <3>1. topic[p] \in Seq(TradeMessages)
      BY <1>1
    <3> QED BY <2>2, <2>3, <3>1, ElementOfSeq
  <2>5. Len(outcomes') + (IF pc' = "read" THEN 0 ELSE 1) <= Fetched'
    BY <1>1, <1>3, <2>2, <2>3
  <2>6. pc' \in Steps
    BY <2>2 DEF Steps
  <2>7. TypeOK'
    BY <1>1, <2>1, <2>2, <2>3, <2>4, <2>6 DEF TypeOK, Outcome
  <2>8. pc' # "read" => Len(trade'.symbol) = 2
    BY <2>2
  <2> QED BY <1>1, <2>1, <2>3, <2>4, <2>5, <2>7, <2>8 DEF ReaderInv
<1>8. ASSUME NEW p \in Partitions, ReadFails(p) PROVE ReaderInv'
  <2>1. AccountsTypeOK' /\ ChainsIn(Books)'
    BY <1>2, <1>8 DEF ReadFails
  <2>2. /\ Fetch(p) /\ (Commit(p) \/ UNCHANGED committed)
        /\ failures' = failures + 1 /\ failures < MaxFailures
        /\ UNCHANGED <<topic, pc, trade, outcomes, restarts>> /\ pc = "read"
    BY <1>8 DEF ReadFails, Fetch
  <2>3. /\ {position', committed'} \subseteq [Partitions -> Nat]
        /\ \A q \in Partitions :
             committed'[q] <= position'[q] /\ position'[q] <= Len(topic'[q])
        /\ Held' = Held /\ Fetched' = Fetched + 1
    BY <1>5, <2>2
  <2>4. failures' \in 0 .. MaxFailures
    <3>1. failures \in 0 .. MaxFailures /\ MaxFailures \in Nat
      BY <1>1, SettlerAssumption
    <3>2. failures' = failures + 1 /\ failures < MaxFailures
      BY <2>2
    <3> QED BY <3>1, <3>2
  <2>5. TypeOK'
    BY <1>1, <2>1, <2>2, <2>3, <2>4 DEF TypeOK, Outcome
  <2>6. Len(outcomes') + (IF pc' = "read" THEN 0 ELSE 1) <= Fetched'
    BY <1>1, <1>3, <2>2, <2>3
  <2> QED BY <1>1, <2>1, <2>2, <2>3, <2>5, <2>6 DEF ReaderInv
<1>9. ASSUME NEW c \in BooksType, ChainsIn(c), Becomes(c), pc # "read",
             pc' \in Steps \ {"read"},
             UNCHANGED <<topic, readerVars, trade, outcomes, failures, restarts>>
      PROVE  ReaderInv'
  <2>1. AccountsTypeOK' /\ ChainsIn(Books)'
    BY <1>9, BecomesTyped
  <2>2. TypeOK'
    BY <1>1, <1>9, <2>1 DEF TypeOK, Outcome, readerVars
  <2> QED BY <1>1, <1>9, <1>4, <2>1, <2>2 DEF ReaderInv
<1>10. ASSUME NEW c \in BooksType, ChainsIn(c), Becomes(c), pc # "read",
             NEW result \in {"none", "buyerOnly", "both"}, Returns(result),
             UNCHANGED <<topic, readerVars, trade, failures, restarts>>
      PROVE  ReaderInv'
  <2>1. AccountsTypeOK' /\ ChainsIn(Books)'
    BY <1>10, BecomesTyped
  <2>2. [trade |-> trade, result |-> result] \in Outcome
    BY <1>1, <1>10 DEF Outcome
  <2>3. outcomes' \in Seq(Outcome) /\ Len(outcomes') = Len(outcomes) + 1 /\ pc' = "read"
    BY <1>1, <1>10, <2>2, AppendProperties DEF Returns
  <2>4. TypeOK'
    BY <1>1, <1>10, <2>1, <2>3 DEF TypeOK, Outcome, readerVars, Steps
  <2>5. Held' = Held /\ Fetched' = Fetched
    BY <1>10, <1>4
  <2>6. Len(outcomes') + (IF pc' = "read" THEN 0 ELSE 1) <= Fetched'
    BY <1>1, <1>10, <1>3, <2>3, <2>5
  <2> QED BY <1>1, <2>1, <2>3, <2>4, <2>5, <2>6 DEF ReaderInv
<1>11. ASSUME EnsureBuyer PROVE ReaderInv'
  <2>1. pc # "read"
    BY <1>11 DEF EnsureBuyer
  <2> DEFINE c == EnsureAccount(Books, <<trade.buyUser, quoteAsset>>, Wrap(quoteCost * 10))
  <2>2. c = EnsureAccount(Books, <<trade.buyUser, quoteAsset>>, Wrap(quoteCost * 10))
    OBVIOUS
  <2>3. /\ Becomes(c) /\ pc' \in Steps \ {"read"}
        /\ UNCHANGED <<topic, readerVars, trade, outcomes, failures, restarts>>
    BY <1>11 DEF EnsureBuyer, Steps
  <2> HIDE DEF c
  <2>4. c \in BooksType /\ ChainsIn(c)
    BY <1>1, <2>1, <2>2, TradeParts, CallChains
  <2> QED BY <1>9, <2>1, <2>3, <2>4
<1>12. ASSUME EnsureSeller PROVE ReaderInv'
  <2>1. pc # "read"
    BY <1>12 DEF EnsureSeller
  <2> DEFINE c == EnsureAccount(Books, <<trade.sellUser, baseAsset>>, Wrap(trade.quantity * 10))
  <2>2. c = EnsureAccount(Books, <<trade.sellUser, baseAsset>>, Wrap(trade.quantity * 10))
    OBVIOUS
  <2>3. /\ Becomes(c) /\ pc' \in Steps \ {"read"}
        /\ UNCHANGED <<topic, readerVars, trade, outcomes, failures, restarts>>
    BY <1>12 DEF EnsureSeller, Steps
  <2> HIDE DEF c
  <2>4. c \in BooksType /\ ChainsIn(c)
    BY <1>1, <2>1, <2>2, TradeParts, CallChains
  <2> QED BY <1>9, <2>1, <2>3, <2>4
<1>13. ASSUME SettleBuyer PROVE ReaderInv'
  <2>1. pc # "read"
    BY <1>13 DEF SettleBuyer
  <2> DEFINE c == SettleBuy(Books, trade.buyUser, quoteAsset, quoteCost, baseAsset, trade.quantity)
  <2>2. c \in BooksType /\ ChainsIn(c)
    BY <1>1, <2>1, TradeParts, SettleChains DEF SettleBuy
  <2>3. /\ Becomes(c)
        /\ \/ pc' = "settleSell" /\ UNCHANGED outcomes
           \/ Returns("none")
        /\ UNCHANGED <<topic, readerVars, trade, failures, restarts>>
    BY <1>13 DEF SettleBuyer
  <2> HIDE DEF c
  <2>4. CASE pc' = "settleSell" /\ UNCHANGED outcomes
    <3>1. pc' \in Steps \ {"read"}
      BY <2>4 DEF Steps
    <3> QED BY <1>9, <2>1, <2>2, <2>3, <2>4, <3>1
  <2>5. CASE Returns("none")
    BY <1>10, <2>1, <2>2, <2>3, <2>5
  <2> QED BY <2>3, <2>4, <2>5
<1>14. ASSUME SettleSeller PROVE ReaderInv'
  <2>1. pc # "read"
    BY <1>14 DEF SettleSeller
  <2> DEFINE c == SettleSell(Books, trade.sellUser, baseAsset, trade.quantity, quoteAsset, quoteCost)
  <2>2. c \in BooksType /\ ChainsIn(c)
    BY <1>1, <2>1, TradeParts, SettleChains DEF SettleSell
  <2>3. /\ Becomes(c) /\ (Returns("both") \/ Returns("buyerOnly"))
        /\ UNCHANGED <<topic, readerVars, trade, failures, restarts>>
    BY <1>14 DEF SettleSeller
  <2> HIDE DEF c
  <2> QED BY <1>10, <2>1, <2>2, <2>3
<1>15. ASSUME Restart PROVE ReaderInv'
  <2>1. AccountsTypeOK' /\ ChainsIn(Books)'
    BY <1>15, SeedTypes, BecomesTyped DEF Restart
  <2>2. /\ pc' = "read" /\ outcomes' = <<>> /\ position' = committed
        /\ restarts' = restarts + 1 /\ restarts < MaxRestarts
        /\ UNCHANGED <<topic, committed, trade, failures>>
    BY <1>15 DEF Restart
  <2>3. restarts' \in 0 .. MaxRestarts
    BY <1>1, <2>2, SettlerAssumption
  <2>4. /\ {position', committed'} \subseteq [Partitions -> Nat]
        /\ outcomes' \in Seq(Outcome) /\ Len(outcomes') = 0
    BY <1>1, <2>2
  <2>5. \A p \in Partitions :
          committed'[p] <= position'[p] /\ position'[p] <= Len(topic'[p])
    <3> SUFFICES ASSUME NEW p \in Partitions
                 PROVE  committed'[p] <= position'[p] /\ position'[p] <= Len(topic'[p])
      OBVIOUS
    <3>1. /\ committed[p] \in Nat /\ position[p] \in Nat /\ Len(topic[p]) \in Nat
          /\ committed[p] <= position[p] /\ position[p] <= Len(topic[p])
      BY <1>1
    <3> QED BY <2>2, <3>1
  <2>6. TypeOK'
    BY <1>1, <2>1, <2>2, <2>3, <2>4, <2>5 DEF TypeOK, Outcome, Steps
  <2>7. Held' = Held
    BY <2>2 DEF Held
  <2>8. Fetched' \in Nat
    BY <2>4, CountsSum DEF Fetched
  <2> QED BY <1>1, <2>1, <2>2, <2>4, <2>6, <2>7, <2>8 DEF ReaderInv
<1>16. CASE UNCHANGED settlerVars
  <2>1. AccountsTypeOK' /\ ChainsIn(Books)'
    BY <1>2, <1>16 DEF settlerVars
  <2>2. Held' = Held /\ Fetched' = Fetched
    BY <1>16, <1>4 DEF settlerVars
  <2> QED BY <1>1, <1>16, <2>1, <2>2 DEF ReaderInv, TypeOK, Outcome, settlerVars, readerVars
<1> QED BY <1>6, <1>7, <1>8, <1>11, <1>12, <1>13, <1>14, <1>15, <1>16 DEF Next, Settle

(* Books and offsets of the consumer are well formed, and its ledger       *)
(* explains the available balances, whatever overflows.                    *)
THEOREM SettlerTyped == Spec => [](TypeOK /\ LedgerChains)
<1>1. ReaderInv => TypeOK /\ LedgerChains
  BY InBooks DEF ReaderInv
<1> QED BY <1>1, ReaderStart, ReaderStep, PTL DEF Spec

----------------------------------------------------------------------------
(* The money: at most four entries of main.go and six per settlement, and  *)
(* an excess that is what half-settled trades account for, with the trade  *)
(* of which only the buyer's half is settled so far.                       *)
Written ==
  CASE pc = "ensureSeller" -> 1
    [] pc = "settleBuy"    -> 2
    [] pc = "settleSell"   -> 4
    [] OTHER -> 0

Gained(s, asset) ==
  SumFunction([i \in DOMAIN s |-> HalfSettled(asset, s[i])])

Halfway == [trade |-> trade, result |-> "buyerOnly"]

ExcessExplained ==
  \A asset \in Assets :
    Excess(Books, asset) =
      Gained(outcomes, asset)
      + (IF pc = "settleSell" THEN HalfSettled(asset, Halfway) ELSE 0)

MoneyInv(A) ==
  /\ ReaderInv
  /\ Sound(Books, A)
  /\ Len(ledger) <= 4 + 6 * Len(outcomes) + Written
  /\ ExcessExplained

LEMMA HalfSettledInt ==
  \A x \in Outcome : \A asset : HalfSettled(asset, x) \in Int
<1> SUFFICES ASSUME NEW x \in Outcome, NEW asset PROVE HalfSettled(asset, x) \in Int
  OBVIOUS
<1>1. x.trade \in TradeMessages
  BY DEF Outcome
<1>2. x.trade.quantity \in Int /\ x.trade.price \in Nat \ {0} /\ x.trade.quantity \in Nat \ {0}
  BY <1>1, MessageTypes
<1> DEFINE p == x.trade.price * x.trade.quantity
<1>3. \A y, z \in Nat \ {0} : y * z \in Int
  OBVIOUS
<1>4. p \in Int
  BY <1>2, <1>3
<1> HIDE DEF p
<1>5. Wrap(p) \in Int
  <2>1. Wrap(p) \in Int64
    BY <1>4, WrapType
  <2> QED BY <2>1, AccountAssumption DEF Int64
<1>6. Wrap(x.trade.price * x.trade.quantity) \in Int
  BY <1>5 DEF p
<1> QED BY <1>2, <1>6 DEF HalfSettled

LEMMA GainedTypes ==
  ASSUME NEW s \in Seq(Outcome), NEW asset
  PROVE  IsFiniteSet(DOMAIN s) /\ Gained(s, asset) \in Int
<1> DEFINE f == [i \in DOMAIN s |-> HalfSettled(asset, s[i])]
<1>1. DOMAIN s = 1 .. Len(s) /\ Len(s) \in Nat
  OBVIOUS
<1>2. 1 \in Int /\ Len(s) \in Int
  BY <1>1
<1>3. IsFiniteSet(DOMAIN s)
  BY <1>1, <1>2, FS_Interval, Zenon
<1>4. DOMAIN f = DOMAIN s /\ \A i \in DOMAIN f : f[i] \in Int
  BY <1>1, HalfSettledInt, ElementOfSeq
<1> HIDE DEF f
<1>5. SumFunction(f) \in Int
  BY <1>3, <1>4, TotalInt
<1> QED BY <1>3, <1>5 DEF Gained, f

LEMMA GainedGrows ==
  ASSUME NEW s \in Seq(Outcome), NEW o \in Outcome, NEW asset
  PROVE  Gained(Append(s, o), asset) = Gained(s, asset) + HalfSettled(asset, o)
<1> DEFINE r == Append(s, o)
           n == Len(s)
           f == [i \in DOMAIN r |-> HalfSettled(asset, r[i])]
           g == [i \in DOMAIN s |-> HalfSettled(asset, s[i])]
<1>1. /\ n \in Nat /\ DOMAIN s = 1 .. n /\ DOMAIN r = 1 .. n + 1
      /\ \A i \in 1 .. n : r[i] = s[i]
      /\ r[n + 1] = o
  BY AppendProperties
<1>2. IsFiniteSet(DOMAIN s) /\ Gained(s, asset) \in Int
  BY GainedTypes
<1>3. HalfSettled(asset, o) \in Int
  BY HalfSettledInt
<1> HIDE DEF r, n
<1>4. /\ DOMAIN g = DOMAIN s /\ DOMAIN f = DOMAIN g \cup {n + 1} /\ n + 1 \notin DOMAIN g
      /\ f[n + 1] = HalfSettled(asset, o)
  BY <1>1
<1>5. \A i \in DOMAIN g : f[i] = g[i] /\ g[i] \in Int
  <2>1. \A i \in 1 .. n : s[i] \in Outcome
    BY <1>1, ElementOfSeq DEF n
  <2> QED BY <1>1, <2>1, HalfSettledInt
<1> HIDE DEF f, g
<1>6. SumFunction(f) = f[n + 1] + SumFunction(g)
  BY <1>2, <1>3, <1>4, <1>5, TotalGrows
<1>7. Gained(r, asset) = HalfSettled(asset, o) + Gained(s, asset)
  BY <1>4, <1>6 DEF Gained, f, g
<1> QED BY <1>2, <1>3, <1>7 DEF r

LEMMA MoneyStart ==
  ASSUME NEW A \in Nat, Fits(A), Init
  PROVE  MoneyInv(A)
<1>1. Books = SeededBooks
  <2>1. SeededBooks \in BooksType
    BY SeedTypes
  <2> QED BY <2>1 DEF Init, Books, BooksType
<1>2. Sound(Books, A) /\ Len(ledger) <= 4 /\ \A asset \in Assets : Excess(Books, asset) = 0
  <2>1. Books.ledger = ledger
    BY InBooks
  <2> QED BY <1>1, <2>1, SeedEffect DEF Seeded
<1>3. outcomes = <<>> /\ Len(outcomes) = 0 /\ pc = "read"
  BY DEF Init
<1>4. Len(ledger) <= 4 + 6 * Len(outcomes) + Written
  <2>1. Len(ledger) \in Nat /\ Written = 0
    BY <1>2, <1>3, InBooks, BooksTypes DEF Sound, Written
  <2> QED BY <1>2, <1>3, <2>1
<1>5. \A asset : Gained(outcomes, asset) = 0
  <2> SUFFICES ASSUME NEW asset PROVE Gained(outcomes, asset) = 0
    OBVIOUS
  <2> DEFINE f == [i \in DOMAIN outcomes |-> HalfSettled(asset, outcomes[i])]
  <2>1. DOMAIN f = {}
    BY <1>3
  <2> HIDE DEF f
  <2>2. SumFunction(f) = 0
    BY <2>1, TotalEmpty
  <2> QED BY <2>2 DEF Gained, f
<1>6. ExcessExplained
  BY <1>2, <1>3, <1>5 DEF ExcessExplained
<1> QED BY <1>2, <1>4, <1>6, ReaderStart DEF MoneyInv

(* While settle runs there is room for two more entries, and its amounts   *)
(* are positive and within bounds.                                         *)
LEMMA RoomToSettle ==
  ASSUME NEW A \in Nat, Fits(A), MoneyInv(A), pc # "read"
  PROVE  /\ Cap(Len(ledger) + 1, A) < Half /\ Cap(Len(ledger) + 2, A) < Half
         /\ trade.quantity \in 1 .. A /\ quoteCost \in 1 .. A
         /\ Wrap(trade.quantity * 10) \in 0 .. A /\ Wrap(quoteCost * 10) \in 0 .. A
<1>1. /\ trade \in TradeMessages /\ Held <= MaxTrades
      /\ Len(outcomes) + 1 <= Fetched /\ Fetched <= Held
      /\ Len(outcomes) \in Nat /\ Held \in Nat /\ Fetched \in Nat /\ MaxTrades \in Nat
  <2>1. TypeOK /\ ReaderInv
    BY DEF MoneyInv, ReaderInv
  <2>2. outcomes \in Seq(Outcome)
    BY <2>1 DEF TypeOK, Outcome
  <2>3. Len(outcomes) \in Nat /\ MaxTrades \in Nat
    BY <2>2, SettlerAssumption
  <2>4. trade \in TradeMessages /\ Held <= MaxTrades /\ Len(outcomes) + 1 <= Fetched
    BY <2>1 DEF ReaderInv
  <2> QED BY <2>1, <2>3, <2>4, ReaderCounts
<1>2. Len(ledger) \in Nat
  BY DEF MoneyInv, ReaderInv, TypeOK, AccountsTypeOK
<1>3. Written \in 0 .. 4
  BY DEF Written
<1>4. Len(ledger) <= 4 + 6 * Len(outcomes) + Written
  BY DEF MoneyInv
<1>5. /\ Len(ledger) + 1 \in Nat /\ Len(ledger) + 1 <= 4 + 6 * MaxTrades
      /\ Len(ledger) + 2 \in Nat /\ Len(ledger) + 2 <= 4 + 6 * MaxTrades
  BY <1>1, <1>2, <1>3, <1>4
<1>6. Cap(Len(ledger) + 1, A) < Half /\ Cap(Len(ledger) + 2, A) < Half
  BY <1>5, RoomFor
<1>7. /\ trade.quantity \in 1 .. A /\ Wrap(trade.quantity * 10) \in 1 .. A
      /\ quoteCost \in 1 .. A /\ Wrap(quoteCost * 10) \in 1 .. A
  BY <1>1, CostsFit DEF quoteCost
<1>8. \A x \in 1 .. A : x \in 0 .. A
  OBVIOUS
<1> QED BY <1>6, <1>7, <1>8

FrozenNotRaised ==
  \A key \in AccountKey : accounts'[key].frozen <= accounts[key].frozen

LEMMA MoneyKept ==
  ASSUME NEW A \in Nat, MoneyInv(A), ReaderInv', UNCHANGED <<accounts, ledger, outcomes>>,
         Written' = Written, pc' = "settleSell" <=> pc = "settleSell",
         pc = "settleSell" => trade' = trade
  PROVE  MoneyInv(A)' /\ FrozenNotRaised
<1>1. Books' = Books
  BY DEF Books
<1>2. Sound(Books, A)'
  BY <1>1 DEF MoneyInv
<1>3. (Len(ledger) <= 4 + 6 * Len(outcomes) + Written)'
  BY DEF MoneyInv
<1>4. ExcessExplained'
  BY <1>1 DEF MoneyInv, ExcessExplained, Halfway
<1>5. FrozenNotRaised
  <2>1. \A key \in AccountKey : accounts[key].frozen \in Int
    BY AccountInts, InBooks DEF MoneyInv, Sound
  <2> QED BY <2>1 DEF FrozenNotRaised
<1> QED BY <1>2, <1>3, <1>4, <1>5 DEF MoneyInv

LEMMA MoneyChanged ==
  ASSUME NEW A \in Nat, NEW c, Sound(c, A), Becomes(c), ReaderInv',
         Len(c.ledger) <= 4 + 6 * Len(outcomes') + Written',
         \A asset \in Assets :
           Excess(c, asset) =
             Gained(outcomes', asset)
             + (IF pc' = "settleSell" THEN HalfSettled(asset, Halfway') ELSE 0)
  PROVE  MoneyInv(A)'
<1>1. Books' = c /\ ledger' = c.ledger
  BY BecomesBooks DEF Sound, Becomes
<1>2. Sound(Books, A)'
  BY <1>1
<1>3. (Len(ledger) <= 4 + 6 * Len(outcomes) + Written)'
  BY <1>1
<1>4. ExcessExplained'
  BY <1>1 DEF ExcessExplained
<1> QED BY <1>2, <1>3, <1>4 DEF MoneyInv

LEMMA MoneyEnsured ==
  ASSUME NEW A \in Nat, Fits(A), MoneyInv(A), ReaderInv',
         NEW key \in AccountKey, NEW amount \in 0 .. A, NEW c,
         c = EnsureAccount(Books, key, amount), Becomes(c),
         \/ pc = "ensureBuyer" /\ pc' = "ensureSeller"
         \/ pc = "ensureSeller" /\ pc' = "settleBuy",
         UNCHANGED <<trade, outcomes>>
  PROVE  MoneyInv(A)' /\ FrozenNotRaised
<1>1. /\ Sound(Books, A) /\ Books.ledger = ledger /\ Books.accounts = accounts
      /\ Books \in BooksType /\ Len(ledger) \in Nat
  BY InBooks, BooksTypes DEF MoneyInv, Sound
<1>2. Cap(Len(ledger) + 1, A) < Half
  BY RoomToSettle
<1>3. /\ Sound(c, A) /\ Len(c.ledger) <= Len(ledger) + 1
      /\ \A asset \in Assets : Excess(c, asset) = Excess(Books, asset)
      /\ \A k \in AccountKey : c.accounts[k].frozen = accounts[k].frozen
  BY <1>1, <1>2, EnsureEffect
<1>4. Len(c.ledger) \in Nat /\ Len(outcomes) \in Nat
  <2>1. c \in BooksType
    BY <1>3 DEF Sound
  <2> QED BY SMTT(30), <2>1, BooksTypes DEF MoneyInv, ReaderInv, TypeOK
<1>5. Written \in Nat /\ Written' = Written + 1
  BY DEF Written
<1>6. Len(c.ledger) <= 4 + 6 * Len(outcomes') + Written'
  BY <1>1, <1>3, <1>4, <1>5 DEF MoneyInv
<1>7. \A asset \in Assets :
        Excess(c, asset) =
          Gained(outcomes', asset)
          + (IF pc' = "settleSell" THEN HalfSettled(asset, Halfway') ELSE 0)
  BY <1>3 DEF MoneyInv, ExcessExplained
<1>8. MoneyInv(A)'
  BY <1>3, <1>6, <1>7, MoneyChanged
<1>9. FrozenNotRaised
  <2>1. \A key_1 \in AccountKey : accounts[key_1].frozen \in Int
    BY <1>1, AccountInts
  <2> QED BY <1>3, <2>1 DEF FrozenNotRaised, Becomes
<1> QED BY <1>8, <1>9

(* An error of SettleBuy or SettleSell leaves the books as they were.      *)
LEMMA MoneyReturned ==
  ASSUME NEW A \in Nat, MoneyInv(A), ReaderInv', Becomes(Books), pc # "read",
         NEW result \in {"none", "buyerOnly", "both"}, Returns(result),
         result = (IF pc = "settleSell" THEN "buyerOnly" ELSE "none")
  PROVE  MoneyInv(A)' /\ FrozenNotRaised
<1> DEFINE o == [trade |-> trade, result |-> result]
<1>1. /\ Sound(Books, A) /\ Books.ledger = ledger /\ Books.accounts = accounts
      /\ Books \in BooksType /\ Len(ledger) \in Nat
  BY InBooks, BooksTypes DEF MoneyInv, Sound
<1>2. outcomes \in Seq(Outcome) /\ trade \in TradeMessages
  BY DEF MoneyInv, ReaderInv, TypeOK, Outcome
<1>3. o \in Outcome /\ outcomes' = Append(outcomes, o) /\ pc' = "read"
  BY <1>2 DEF Outcome, Returns
<1>4. Len(outcomes') = Len(outcomes) + 1 /\ Len(outcomes) \in Nat
  BY <1>2, <1>3, AppendProperties
<1>5. Written \in 0 .. 4 /\ Written' = 0
  BY <1>3 DEF Written
<1>6. Len(Books.ledger) <= 4 + 6 * Len(outcomes') + Written'
  BY <1>1, <1>4, <1>5 DEF MoneyInv
<1>7. ASSUME NEW asset \in Assets
      PROVE  Excess(Books, asset) =
               Gained(outcomes', asset)
               + (IF pc' = "settleSell" THEN HalfSettled(asset, Halfway') ELSE 0)
  <2>1. Gained(outcomes', asset) = Gained(outcomes, asset) + HalfSettled(asset, o)
    BY <1>2, <1>3, GainedGrows
  <2>2. Gained(outcomes, asset) \in Int /\ HalfSettled(asset, o) \in Int
    BY <1>2, <1>3, GainedTypes, HalfSettledInt
  <2>3. HalfSettled(asset, o) = IF pc = "settleSell" THEN HalfSettled(asset, Halfway) ELSE 0
    BY DEF HalfSettled, Halfway
  <2>4. Excess(Books, asset) =
          Gained(outcomes, asset)
          + (IF pc = "settleSell" THEN HalfSettled(asset, Halfway) ELSE 0)
    BY DEF MoneyInv, ExcessExplained
  <2> HIDE DEF o
  <2> QED BY <1>3, <2>1, <2>2, <2>3, <2>4
<1>8. MoneyInv(A)'
  BY <1>1, <1>6, <1>7, MoneyChanged
<1>9. FrozenNotRaised
  <2>1. \A key \in AccountKey : accounts[key].frozen \in Int
    BY <1>1, AccountInts
  <2> QED BY <1>1, <2>1 DEF FrozenNotRaised, Becomes
<1> QED BY <1>8, <1>9

(* What the buyer's half adds to the total of an asset.                    *)
LEMMA HalfwayIs ==
  \A asset : HalfSettled(asset, Halfway) =
               (IF baseAsset = asset THEN trade.quantity ELSE 0)
               - (IF quoteAsset = asset THEN quoteCost ELSE 0)
BY DEF HalfSettled, Halfway, baseAsset, quoteAsset, quoteCost

LEMMA MoneyBuyer ==
  ASSUME NEW A \in Nat, Fits(A), MoneyInv(A), ReaderInv', SettleBuyer
  PROVE  MoneyInv(A)' /\ FrozenNotRaised
<1> DEFINE c == SettleTrade(Books, trade.buyUser, "TradeBuy", quoteAsset, quoteCost,
                            baseAsset, trade.quantity)
<1>1. /\ Sound(Books, A) /\ Books.ledger = ledger /\ Books.accounts = accounts
      /\ Books \in BooksType /\ Len(ledger) \in Nat
  BY InBooks, BooksTypes DEF MoneyInv, Sound
<1>2. pc = "settleBuy" /\ Becomes(c) /\ UNCHANGED trade
  BY DEF SettleBuyer, SettleBuy
<1>3. /\ Cap(Len(ledger) + 2, A) < Half
      /\ trade.quantity \in 1 .. A /\ quoteCost \in 1 .. A
  BY <1>2, RoomToSettle
<1>4. /\ trade.buyUser \in Users /\ baseAsset \in Assets /\ quoteAsset \in Assets
  BY <1>2, TradeParts DEF MoneyInv
<1>5. CASE ~Covers(Books, <<trade.buyUser, quoteAsset>>, quoteCost)
  <2>1. c = Books
    BY <1>5 DEF SettleTrade
  <2>2. Becomes(Books) /\ Returns("none")
    BY <1>2, <1>5, <2>1 DEF SettleBuyer
  <2> QED BY <1>2, <2>2, MoneyReturned
<1>6. CASE Covers(Books, <<trade.buyUser, quoteAsset>>, quoteCost)
  <2>1. pc' = "settleSell" /\ UNCHANGED outcomes
    BY <1>6 DEF SettleBuyer
  <2>2. c = SettleTrade(Books, trade.buyUser, "TradeBuy", quoteAsset, quoteCost,
                        baseAsset, trade.quantity)
    OBVIOUS
  <2> HIDE DEF c
  <2>3. "TradeBuy" \in {"TradeBuy", "TradeSell"}
    OBVIOUS
  <2>4. /\ Sound(c, A) /\ Len(c.ledger) = Len(ledger) + 2
        /\ \A asset \in Assets :
             /\ Excess(Books, asset) \in Int
             /\ Excess(c, asset) = Excess(Books, asset)
                                   + (IF baseAsset = asset THEN trade.quantity ELSE 0)
                                   - (IF quoteAsset = asset THEN quoteCost ELSE 0)
        /\ \A k \in AccountKey : c.accounts[k].frozen <= accounts[k].frozen
    <3>1. /\ Sound(c, A) /\ Len(c.ledger) = Len(Books.ledger) + 2
          /\ Moves(Books, c, quoteAsset, quoteCost, baseAsset, trade.quantity)
      BY <1>1, <1>3, <1>4, <1>6, <2>2, <2>3, SettleEffect
    <3> QED BY <1>1, <3>1 DEF Moves
  <2>5. Len(outcomes) \in Nat /\ Written = 2 /\ Written' = 4
    BY <1>2, <2>1 DEF MoneyInv, ReaderInv, TypeOK, Written
  <2>6. Len(c.ledger) <= 4 + 6 * Len(outcomes') + Written'
    BY <1>1, <2>1, <2>4, <2>5 DEF MoneyInv
  <2>7. ASSUME NEW asset \in Assets
        PROVE  Excess(c, asset) =
                 Gained(outcomes', asset)
                 + (IF pc' = "settleSell" THEN HalfSettled(asset, Halfway') ELSE 0)
    <3>1. Excess(Books, asset) = Gained(outcomes, asset) + 0
      BY <1>2 DEF MoneyInv, ExcessExplained
    <3>2. Gained(outcomes, asset) \in Int
      BY GainedTypes DEF MoneyInv, ReaderInv, TypeOK, Outcome
    <3>3. Halfway' = Halfway
      BY <1>2 DEF Halfway
    <3> DEFINE plus == IF baseAsset = asset THEN trade.quantity ELSE 0
               minus == IF quoteAsset = asset THEN quoteCost ELSE 0
    <3>4. plus \in Int /\ minus \in Int
      BY <1>3
    <3>5. HalfSettled(asset, Halfway) = plus - minus
      BY HalfwayIs
    <3>6. Excess(c, asset) = Excess(Books, asset) + plus - minus
      BY <2>4
    <3> HIDE DEF plus, minus
    <3> QED BY <2>1, <3>1, <3>2, <3>3, <3>4, <3>5, <3>6
  <2>8. MoneyInv(A)'
    BY <1>2, <2>4, <2>6, <2>7, MoneyChanged
  <2>9. FrozenNotRaised
    BY <1>2, <2>4 DEF FrozenNotRaised, Becomes
  <2> QED BY <2>8, <2>9
<1> QED BY <1>5, <1>6

LEMMA MoneySeller ==
  ASSUME NEW A \in Nat, Fits(A), MoneyInv(A), ReaderInv', SettleSeller
  PROVE  MoneyInv(A)' /\ FrozenNotRaised
<1> DEFINE c == SettleTrade(Books, trade.sellUser, "TradeSell", baseAsset, trade.quantity,
                            quoteAsset, quoteCost)
<1>1. /\ Sound(Books, A) /\ Books.ledger = ledger /\ Books.accounts = accounts
      /\ Books \in BooksType /\ Len(ledger) \in Nat
  BY InBooks, BooksTypes DEF MoneyInv, Sound
<1>2. pc = "settleSell" /\ Becomes(c) /\ UNCHANGED trade
  BY DEF SettleSeller, SettleSell
<1>3. /\ Cap(Len(ledger) + 2, A) < Half
      /\ trade.quantity \in 1 .. A /\ quoteCost \in 1 .. A
  BY <1>2, RoomToSettle
<1>4. /\ trade.sellUser \in Users /\ baseAsset \in Assets /\ quoteAsset \in Assets
  BY <1>2, TradeParts DEF MoneyInv
<1>5. CASE ~Covers(Books, <<trade.sellUser, baseAsset>>, trade.quantity)
  <2>1. c = Books
    BY <1>5 DEF SettleTrade
  <2>2. Becomes(Books) /\ Returns("buyerOnly")
    BY <1>2, <1>5, <2>1 DEF SettleSeller
  <2> QED BY <1>2, <2>2, MoneyReturned
<1>6. CASE Covers(Books, <<trade.sellUser, baseAsset>>, trade.quantity)
  <2> DEFINE o == [trade |-> trade, result |-> "both"]
  <2>1. /\ outcomes \in Seq(Outcome) /\ o \in Outcome
        /\ outcomes' = Append(outcomes, o) /\ pc' = "read"
    BY <1>2, <1>6 DEF SettleSeller, Returns, MoneyInv, ReaderInv, TypeOK, Outcome
  <2>2. c = SettleTrade(Books, trade.sellUser, "TradeSell", baseAsset, trade.quantity,
                        quoteAsset, quoteCost)
    OBVIOUS
  <2> HIDE DEF c
  <2>3. "TradeSell" \in {"TradeBuy", "TradeSell"}
    OBVIOUS
  <2>4. /\ Sound(c, A) /\ Len(c.ledger) = Len(ledger) + 2
        /\ \A asset \in Assets :
             /\ Excess(Books, asset) \in Int
             /\ Excess(c, asset) = Excess(Books, asset)
                                   + (IF quoteAsset = asset THEN quoteCost ELSE 0)
                                   - (IF baseAsset = asset THEN trade.quantity ELSE 0)
        /\ \A k \in AccountKey : c.accounts[k].frozen <= accounts[k].frozen
    <3>1. /\ Sound(c, A) /\ Len(c.ledger) = Len(Books.ledger) + 2
          /\ Moves(Books, c, baseAsset, trade.quantity, quoteAsset, quoteCost)
      BY <1>1, <1>3, <1>4, <1>6, <2>2, <2>3, SettleEffect
    <3> QED BY <1>1, <3>1 DEF Moves
  <2>5. /\ Len(outcomes) \in Nat /\ Len(outcomes') = Len(outcomes) + 1
        /\ Written = 4 /\ Written' = 0
    BY <1>2, <2>1, AppendProperties DEF Written
  <2>6. Len(c.ledger) <= 4 + 6 * Len(outcomes') + Written'
    BY <1>1, <2>4, <2>5 DEF MoneyInv
  <2>7. ASSUME NEW asset \in Assets
        PROVE  Excess(c, asset) =
                 Gained(outcomes', asset)
                 + (IF pc' = "settleSell" THEN HalfSettled(asset, Halfway') ELSE 0)
    <3>1. Excess(Books, asset) = Gained(outcomes, asset) + HalfSettled(asset, Halfway)
      BY <1>2 DEF MoneyInv, ExcessExplained
    <3>2. Gained(outcomes, asset) \in Int
      BY <2>1, GainedTypes
    <3>3. HalfSettled(asset, o) = 0
      BY DEF HalfSettled
    <3>4. Gained(outcomes', asset) = Gained(outcomes, asset) + HalfSettled(asset, o)
      BY <2>1, GainedGrows
    <3> HIDE DEF o
    <3> DEFINE plus == IF baseAsset = asset THEN trade.quantity ELSE 0
               minus == IF quoteAsset = asset THEN quoteCost ELSE 0
    <3>5. plus \in Int /\ minus \in Int
      BY <1>3
    <3>6. HalfSettled(asset, Halfway) = plus - minus
      BY HalfwayIs
    <3>7. Excess(c, asset) = Excess(Books, asset) + minus - plus
      BY <2>4
    <3> HIDE DEF plus, minus
    <3>8. Excess(c, asset) = Gained(outcomes, asset)
      BY <3>1, <3>2, <3>5, <3>6, <3>7
    <3> QED BY <2>1, <3>2, <3>3, <3>4, <3>8
  <2>8. MoneyInv(A)'
    BY <1>2, <2>4, <2>6, <2>7, MoneyChanged
  <2>9. FrozenNotRaised
    BY <1>2, <2>4 DEF FrozenNotRaised, Becomes
  <2> QED BY <2>8, <2>9
<1> QED BY <1>5, <1>6

LEMMA MoneyRestarted ==
  ASSUME NEW A \in Nat, Fits(A), ReaderInv', Restart
  PROVE  MoneyInv(A)'
<1>1. /\ Sound(SeededBooks, A) /\ Len(SeededBooks.ledger) <= 4
      /\ \A asset \in Assets : Excess(SeededBooks, asset) = 0
  BY SeedEffect DEF Seeded
<1>2. Becomes(SeededBooks) /\ outcomes' = <<>> /\ pc' = "read"
  BY DEF Restart
<1>3. Len(outcomes') = 0 /\ Written' = 0
  BY <1>2 DEF Written
<1>4. Len(SeededBooks.ledger) \in Nat
  <2>1. SeededBooks \in BooksType
    BY SeedTypes
  <2> QED BY <2>1, BooksTypes
<1>5. Len(SeededBooks.ledger) <= 4 + 6 * Len(outcomes') + Written'
  BY <1>1, <1>3, <1>4
<1>6. ASSUME NEW asset PROVE Gained(outcomes', asset) = 0
  <2> DEFINE s == outcomes'
             f == [i \in DOMAIN s |-> HalfSettled(asset, s[i])]
  <2>1. DOMAIN f = {}
    BY <1>2
  <2> HIDE DEF f
  <2>2. SumFunction(f) = 0
    BY <2>1, TotalEmpty
  <2> QED BY <2>2 DEF Gained, f
<1>7. \A asset \in Assets :
        Excess(SeededBooks, asset) =
          Gained(outcomes', asset)
          + (IF pc' = "settleSell" THEN HalfSettled(asset, Halfway') ELSE 0)
  BY <1>1, <1>2, <1>6
<1> QED BY <1>1, <1>2, <1>5, <1>7, MoneyChanged

LEMMA MoneyStep ==
  ASSUME NEW A \in Nat, Fits(A), MoneyInv(A), [Next]_settlerVars
  PROVE  MoneyInv(A)' /\ (Restart \/ FrozenNotRaised)
<1>1. ReaderInv /\ ReaderInv'
  BY ReaderStep DEF MoneyInv
<1>2. ASSUME NEW p \in Partitions, NEW t \in TradeMessages, Publish(p, t)
      PROVE  MoneyInv(A)' /\ FrozenNotRaised
  <2>1. UNCHANGED <<accounts, ledger, outcomes, pc, trade>>
    BY <1>2 DEF Publish
  <2>2. Written' = Written
    BY <2>1 DEF Written
  <2> QED BY <1>1, <2>1, <2>2, MoneyKept
<1>3. ASSUME NEW p \in Partitions, Read(p) PROVE MoneyInv(A)' /\ FrozenNotRaised
  <2>1. UNCHANGED <<accounts, ledger, outcomes>> /\ pc = "read"
        /\ pc' \in {"read", "ensureBuyer"}
    BY <1>3 DEF Read, Fetch
  <2>2. Written' = Written
    BY <2>1 DEF Written
  <2> QED BY <1>1, <2>1, <2>2, MoneyKept
<1>4. ASSUME NEW p \in Partitions, ReadFails(p) PROVE MoneyInv(A)' /\ FrozenNotRaised
  <2>1. UNCHANGED <<accounts, ledger, outcomes, pc, trade>>
    BY <1>4 DEF ReadFails
  <2>2. Written' = Written
    BY <2>1 DEF Written
  <2> QED BY <1>1, <2>1, <2>2, MoneyKept
<1>5. CASE EnsureBuyer
  <2> DEFINE key == <<trade.buyUser, quoteAsset>>
             amount == Wrap(quoteCost * 10)
             c == EnsureAccount(Books, key, amount)
  <2>1. /\ pc = "ensureBuyer" /\ pc' = "ensureSeller" /\ Becomes(c)
        /\ c = EnsureAccount(Books, key, amount) /\ UNCHANGED <<trade, outcomes>>
    BY <1>5 DEF EnsureBuyer
  <2>2. key \in AccountKey /\ amount \in 0 .. A
    BY <1>1, <2>1, TradeParts, RoomToSettle
  <2> HIDE DEF key, amount, c
  <2> QED BY <1>1, <2>1, <2>2, MoneyEnsured
<1>6. CASE EnsureSeller
  <2> DEFINE key == <<trade.sellUser, baseAsset>>
             amount == Wrap(trade.quantity * 10)
             c == EnsureAccount(Books, key, amount)
  <2>1. /\ pc = "ensureSeller" /\ pc' = "settleBuy" /\ Becomes(c)
        /\ c = EnsureAccount(Books, key, amount) /\ UNCHANGED <<trade, outcomes>>
    BY <1>6 DEF EnsureSeller
  <2>2. key \in AccountKey /\ amount \in 0 .. A
    BY <1>1, <2>1, TradeParts, RoomToSettle
  <2> HIDE DEF key, amount, c
  <2> QED BY <1>1, <2>1, <2>2, MoneyEnsured
<1>7. CASE SettleBuyer
  BY <1>1, <1>7, MoneyBuyer
<1>8. CASE SettleSeller
  BY <1>1, <1>8, MoneySeller
<1>9. CASE Restart
  BY <1>1, <1>9, MoneyRestarted
<1>10. CASE UNCHANGED settlerVars
  <2>1. UNCHANGED <<accounts, ledger, outcomes, pc, trade>>
    BY <1>10 DEF settlerVars
  <2>2. Written' = Written
    BY <2>1 DEF Written
  <2> QED BY <1>1, <2>1, <2>2, MoneyKept
<1> QED BY <1>2, <1>3, <1>4, <1>5, <1>6, <1>7, <1>8, <1>9, <1>10 DEF Next, Settle

LEMMA MoneyExplained ==
  ASSUME NEW A, MoneyInv(A)
  PROVE  TotalsExplained /\ BalancesNonNegative /\ LedgerExplains
<1>1. TypeOK /\ Sound(Books, A) /\ outcomes \in Seq(Outcome) /\ Books \in BooksType
  BY DEF MoneyInv, ReaderInv, TypeOK, Sound, Outcome
<1>2. ASSUME pc = "read", NEW asset \in Assets
      PROVE  TotalOf(asset) = DepositedOf(asset) + Gained(outcomes, asset)
  <2>1. Excess(Books, asset) = Gained(outcomes, asset) + 0
    BY <1>2 DEF MoneyInv, ExcessExplained
  <2>2. /\ TotalIn(Books, asset) \in Int /\ DepositedIn(Books, asset) \in Int
        /\ Gained(outcomes, asset) \in Int
    BY <1>1, TotalInInt, DepositedInInt, GainedTypes
  <2>3. TotalIn(Books, asset) = DepositedIn(Books, asset) + Gained(outcomes, asset)
    BY <2>1, <2>2 DEF Excess
  <2> QED BY <2>3, InTotals
<1>3. TotalsExplained
  BY <1>1, <1>2 DEF TotalsExplained, Gained
<1> QED BY <1>1, <1>3, CallerBooks

(* The seeds and ten times the value of a trade fit in an int64, 4 + 6 *   *)
(* MaxTrades times over: an entry for each.                                *)
SettlementFits ==
  \E A \in Nat :
    /\ {BaseSeed, BaseFrozen, QuoteSeed, QuoteFrozen} \subseteq 0 .. A
    /\ \A t \in TradeMessages : /\ t.quantity * 10 <= A
                                /\ (t.price * t.quantity) * 10 <= A
    /\ (4 + 6 * MaxTrades) * A < Half

LEMMA FitsSome == SettlementFits => \E A \in Nat : Fits(A)
BY DEF SettlementFits, Fits, Cap

LEMMA MoneyAlways ==
  ASSUME NEW A \in Nat, Fits(A)
  PROVE  /\ Spec => [](TotalsExplained /\ BalancesNonNegative /\ LedgerExplains)
         /\ Spec => FrozenOnlyShrinks
<1>1. Init => MoneyInv(A)
  BY MoneyStart
<1>2. MoneyInv(A) /\ [Next]_settlerVars => MoneyInv(A)'
  BY MoneyStep
<1>3. MoneyInv(A) => TotalsExplained /\ BalancesNonNegative /\ LedgerExplains
  BY MoneyExplained
<1>4. MoneyInv(A) /\ [Next]_settlerVars
      => [\/ Restart
          \/ \A key \in AccountKey : accounts'[key].frozen <= accounts[key].frozen
         ]_settlerVars
  BY MoneyStep DEF FrozenNotRaised
<1> QED BY <1>1, <1>2, <1>3, <1>4, PTL DEF Spec, FrozenOnlyShrinks

(* Between two trades the total of every asset is what was deposited, but  *)
(* for the trades of which only the buyer's half was settled: an error of  *)
(* SettleSell after SettleBuy is the one way the consumer creates or       *)
(* destroys money.                                                         *)
THEOREM HalvesExplainTotals == SettlementFits => (Spec => []TotalsExplained)
<1> SUFFICES ASSUME SettlementFits PROVE Spec => []TotalsExplained
  OBVIOUS
<1>1. PICK A \in Nat : Fits(A)
  BY FitsSome
<1>2. Spec => [](TotalsExplained /\ BalancesNonNegative /\ LedgerExplains)
  BY <1>1, MoneyAlways
<1> QED BY <1>2, PTL

(* Settlement never sets money aside: but for a restart, which seeds the   *)
(* accounts anew, a frozen balance only shrinks.                           *)
THEOREM NothingFrozenAnew == SettlementFits => (Spec => FrozenOnlyShrinks)
<1> SUFFICES ASSUME SettlementFits PROVE Spec => FrozenOnlyShrinks
  OBVIOUS
<1>1. PICK A \in Nat : Fits(A)
  BY FitsSome
<1> QED BY <1>1, MoneyAlways

(* What holds of the service with arbitrary callers holds under the        *)
(* consumer, with its retries, half-settled trades and restarts.           *)
THEOREM ConsumerKeepsBooks ==
  SettlementFits => (Spec => [](BalancesNonNegative /\ LedgerExplains))
<1> SUFFICES ASSUME SettlementFits
             PROVE  Spec => [](BalancesNonNegative /\ LedgerExplains)
  OBVIOUS
<1>1. PICK A \in Nat : Fits(A)
  BY FitsSome
<1>2. Spec => [](TotalsExplained /\ BalancesNonNegative /\ LedgerExplains)
  BY <1>1, MoneyAlways
<1> QED BY <1>2, PTL
==============================================================================
