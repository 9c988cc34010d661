--------------------------- MODULE AccountCallers ---------------------------
(***************************************************************************)
(* The account service with arbitrary callers: any sequence of its methods *)
(* with any of the given amounts.  The mutex makes each call one step, so  *)
(* concurrent callers produce these sequences and no others.               *)
(***************************************************************************)
EXTENDS AccountService

CONSTANTS
  Amounts,     (* amounts callers pass; never zero or negative             *)
  MaxEntries   (* bound: calls are made while the ledger is shorter        *)

ASSUME CallerAssumption ==
  /\ Amounts \subseteq 1 .. Half - 1
  /\ MaxEntries \in Nat

CallerInit ==
  /\ accounts = NewBooks.accounts
  /\ ledger = NewBooks.ledger

CallOnAccount(key, amount) ==
  \/ Becomes(EnsureAccount(Books, key, amount))
  \/ Becomes(Deposit(Books, key, amount))
  \/ Becomes(Withdraw(Books, key, amount))
  \/ Becomes(Freeze(Books, key, amount))
  \/ Becomes(Unfreeze(Books, key, amount))

CallSettle(user, base, baseAmount, quote, quoteAmount) ==
  \/ Becomes(SettleBuy(Books, user, quote, quoteAmount, base, baseAmount))
  \/ Becomes(SettleSell(Books, user, base, baseAmount, quote, quoteAmount))

CallerNext ==
  /\ Len(ledger) < MaxEntries
  /\ \/ \E key \in AccountKey, amount \in Amounts : CallOnAccount(key, amount)
     \/ \E user \in Users, base, quote \in Assets, n, m \in Amounts :
          CallSettle(user, base, n, quote, m)

CallerSpec == CallerInit /\ [][CallerNext]_accountVars

=============================================================================
