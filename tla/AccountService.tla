--------------------------- MODULE AccountService ---------------------------
(***************************************************************************)
(* The account service (AccountService/service/account_service.go):        *)
(* available and frozen balance of every user in every asset, and the      *)
(* ledger of all changes.                                                  *)
(*                                                                         *)
(* Every method holds the service's mutex from its first to its last line, *)
(* so a call is one step.  A method is written as an operator from the     *)
(* books (accounts and ledger) before it to the books after it; a call     *)
(* that returns an error leaves them as they were.  Accounts are created   *)
(* on first use with zero balances, so an account that does not exist yet  *)
(* is a zero account here.                                                 *)
(*                                                                         *)
(* Operators with an underscore in their name are deliberate errors, used  *)
(* only to see that a property is able to fail.                            *)
(***************************************************************************)
EXTENDS Integers, Sequences, Functions

CONSTANTS
  Users, Assets,
  Half   (* int64 holds -Half .. Half - 1; Half = 2^63 in the code         *)

ASSUME AccountAssumption == Half \in Nat \ {0}

VARIABLES
  accounts,   (* accounts[<<u, a>>]: the Account struct of user and asset  *)
  ledger      (* the ledger slice; the seqID of an entry is its position   *)

accountVars == <<accounts, ledger>>

AccountKey == Users \X Assets

Int64 == -Half .. Half - 1

(* Go's wrap-around of a result that does not fit in int64.                *)
Wrap(x) == ((x + Half) % (2 * Half)) - Half

Account == [available : Int64, frozen : Int64]

LedgerType == {"Deposit", "Withdraw", "Freeze", "Unfreeze",
               "TradeBuy", "TradeSell"}

LedgerEntry == [key : AccountKey, type : LedgerType, amount : Int64,
                before : Int64, after : Int64]

Books == [accounts |-> accounts, ledger |-> ledger]

----------------------------------------------------------------------------
(* The methods, from books b to books.                                     *)

addLedger_Swapped(b, key, type, amount, before, after) ==
  Append(b.ledger, [key |-> key, type |-> type, amount |-> amount,
                    before |-> after, after |-> before])

addLedger(b, key, type, amount, before, after) ==
  Append(b.ledger, [key |-> key, type |-> type, amount |-> amount,
                    before |-> before, after |-> after])

(* Change account key by the two differences and write the ledger entry.   *)
Change(b, key, type, amount, dAvailable, dFrozen) ==
  LET acc   == b.accounts[key]
      after == [available |-> Wrap(acc.available + dAvailable),
                frozen    |-> Wrap(acc.frozen + dFrozen)]
  IN  [accounts |-> [b.accounts EXCEPT ![key] = after],
       ledger   |-> addLedger(b, key, type, amount,
                              acc.available, after.available)]

EnsureAccount_Frozen(b, key, minAmount) ==
  IF b.accounts[key] = [available |-> 0, frozen |-> 0]
  THEN Change(b, key, "Deposit", minAmount, 0, minAmount)
  ELSE b

EnsureAccount(b, key, minAmount) ==
  IF b.accounts[key] = [available |-> 0, frozen |-> 0]
  THEN Change(b, key, "Deposit", minAmount, minAmount, 0)
  ELSE b

Deposit(b, key, amount) == Change(b, key, "Deposit", amount, amount, 0)

Withdraw_Total(b, key, amount) ==
  IF b.accounts[key].available + b.accounts[key].frozen < amount THEN b
  ELSE Change(b, key, "Withdraw", amount, -amount, 0)

Withdraw(b, key, amount) ==
  IF b.accounts[key].available < amount THEN b
  ELSE Change(b, key, "Withdraw", amount, -amount, 0)

Freeze(b, key, amount) ==
  IF b.accounts[key].available < amount THEN b
  ELSE Change(b, key, "Freeze", amount, -amount, amount)

Unfreeze(b, key, amount) ==
  IF b.accounts[key].frozen < amount THEN b
  ELSE Change(b, key, "Unfreeze", amount, amount, -amount)

(* SettleBuy and SettleSell return an error, and change nothing, when the  *)
(* frozen balance that pays does not cover what is paid.                   *)
Covers(b, key, amount) == ~(b.accounts[key].frozen < amount)

(* Both: cost leaves the frozen balance of the asset that pays, then gain  *)
(* is added to the available balance of the asset received.  The first     *)
(* entry has Before = After, the available balance it does not touch.      *)
SettleTrade(b, user, type, paid, cost, got, gain) ==
  IF ~Covers(b, <<user, paid>>, cost) THEN b
  ELSE Change(Change(b, <<user, paid>>, type, cost, 0, -cost),
              <<user, got>>, type, gain, gain, 0)

SettleBuy(b, user, quote, quoteCost, base, baseAmount) ==
  SettleTrade(b, user, "TradeBuy", quote, quoteCost, base, baseAmount)

SettleSell(b, user, base, baseAmount, quote, quoteGain) ==
  SettleTrade(b, user, "TradeSell", base, baseAmount, quote, quoteGain)

(* What GetLedger returns: the entries of the account in the order they    *)
(* were written, given by their seqIDs.                                    *)
GetLedger(key) == {i \in DOMAIN ledger : ledger[i].key = key}

(* New: no account and no ledger entry yet.                                *)
NewBooks ==
  [accounts |-> [key \in AccountKey |-> [available |-> 0, frozen |-> 0]],
   ledger   |-> <<>>]

(* The service's state becomes b.                                          *)
Becomes(b) ==
  /\ accounts' = b.accounts
  /\ ledger' = b.ledger

----------------------------------------------------------------------------
(* Properties.                                                             *)

(* Types: balances are int64 and every ledger entry is well formed.        *)
AccountsTypeOK ==
  /\ accounts \in [AccountKey -> Account]
  /\ ledger \in Seq(LedgerEntry)

(* No balance goes negative: neither what is available nor what is frozen  *)
(* is ever spent twice.                                                    *)
BalancesNonNegative ==
  \A key \in AccountKey : /\ accounts[key].available >= 0
                          /\ accounts[key].frozen >= 0

(* balance is the available balance after the given entries of an account. *)
IsBalanceAfter(entries, balance) ==
  IF entries = {} THEN balance = 0
  ELSE \E last \in entries : /\ \A i \in entries : i <= last
                             /\ balance = ledger[last].after

(* The ledger explains the available balances: the entries of an account   *)
(* form a chain from zero (each starts where the one before ended) that    *)
(* ends in its balance.                                                    *)
LedgerChains ==
  /\ \A i \in DOMAIN ledger :
       IsBalanceAfter(GetLedger(ledger[i].key) \cap 1 .. i - 1, ledger[i].before)
  /\ \A key \in AccountKey :
       IsBalanceAfter(GetLedger(key), accounts[key].available)

(* What an entry says about the frozen balance.  A trade entry that leaves *)
(* the available balance as it was is a payment from the frozen one.       *)
FrozenBy(e) ==
  CASE e.type = "Freeze"   -> e.amount
    [] e.type = "Unfreeze" -> -e.amount
    [] e.type \in {"TradeBuy", "TradeSell"} /\ e.before = e.after -> -e.amount
    [] OTHER -> 0

(* It explains the frozen balances too, although no entry records them.    *)
FrozenExplained ==
  \A key \in AccountKey :
    accounts[key].frozen =
      SumFunction([i \in GetLedger(key) |-> FrozenBy(ledger[i])])

(* An auditor can rebuild every account, the available balance and the     *)
(* frozen one, from what GetLedger returns for it.                         *)
LedgerExplains == LedgerChains /\ FrozenExplained

=============================================================================
