----------------------------- MODULE Settlement -----------------------------
(***************************************************************************)
(* The vault contract (SettlementContract/contracts/Settlement.sol) and    *)
(* the ERC-20 tokens it holds.  A transaction is atomic: it is one step,   *)
(* and one that reverts changes nothing.  The tokens are OpenZeppelin's;   *)
(* of them only transfers matter here.  safeTransferFrom succeeds if the   *)
(* sender holds the amount, for the callers approve it first               *)
(* (scripts/setup-demo.ts).  uint256 sums cannot overflow, being bounded   *)
(* by the token's supply.                                                  *)
(***************************************************************************)
EXTENDS Integers, Sequences, SequencesExt

CONSTANTS
  Addresses,      (* the users' addresses                                  *)
  Tokens,
  Operators,      (* addresses that may be made operator                   *)
  FirstOperator,
  Minted          (* what each address holds of each token to begin with   *)

ASSUME SettlementAssumption ==
  /\ IsFiniteSet(Addresses)   (* an address has 160 bits *)
  /\ FirstOperator \in Operators
  /\ Minted \in [Addresses -> [Tokens -> Nat]]

VARIABLES
  balances,       (* the contract's mapping: user -> token -> amount       *)
  operator,
  holdings,       (* tokens that users hold outside the contract           *)
  custody         (* tokens that the contract holds                        *)

contractVars == <<balances, operator, holdings, custody>>

(* One element of the argument of settle.                                  *)
SettlementEntry ==
  [from : Addresses, to : Addresses, token : Tokens, amount : Nat]

ContractTypeOK ==
  /\ balances \in [Addresses -> [Tokens -> Nat]]
  /\ operator \in Operators
  /\ holdings \in [Addresses -> [Tokens -> Nat]]
  /\ custody \in [Tokens -> Nat]

ContractInit ==
  /\ balances = [u \in Addresses |-> [t \in Tokens |-> 0]]
  /\ operator = FirstOperator
  /\ holdings = Minted
  /\ custody = [t \in Tokens |-> 0]

(* deposit: amount of token t goes from u to the contract.                 *)
Deposit(u, t, amount) ==
  /\ amount # 0
  /\ holdings[u][t] >= amount
  /\ holdings' = [holdings EXCEPT ![u][t] = @ - amount]
  /\ custody' = [custody EXCEPT ![t] = @ + amount]
  /\ balances' = [balances EXCEPT ![u][t] = @ + amount]
  /\ UNCHANGED operator

Withdraw(u, t, amount) ==
  /\ amount # 0
  /\ balances[u][t] >= amount
  /\ balances' = [balances EXCEPT ![u][t] = @ - amount]
  /\ custody' = [custody EXCEPT ![t] = @ - amount]
  /\ holdings' = [holdings EXCEPT ![u][t] = @ + amount]
  /\ UNCHANGED operator

(* Deliberate error: the payee's balance is read before the payer's is     *)
(* written.                                                                *)
Pay_ReadFirst(result, s) ==
  IF s.amount # 0 /\ result.balances[s.from][s.token] >= s.amount
  THEN [result EXCEPT
          !.balances[s.from][s.token] = @ - s.amount,
          !.balances[s.to][s.token] = result.balances[s.to][s.token] + s.amount]
  ELSE [result EXCEPT !.ok = FALSE]

(* The loop body of settle on the balances so far: what an earlier entry   *)
(* credits is there for a later one.                                       *)
Pay(result, s) ==
  IF s.amount # 0 /\ result.balances[s.from][s.token] >= s.amount
  THEN LET paid == [result.balances EXCEPT ![s.from][s.token] = @ - s.amount]
       IN  [result EXCEPT
              !.balances = [paid EXCEPT ![s.to][s.token] = @ + s.amount]]
  ELSE [result EXCEPT !.ok = FALSE]

(* The loop.                                                               *)
PayAll(result, entries) == FoldLeft(Pay, result, entries)

(* Deliberate errors: a failing entry does not revert the others; anybody  *)
(* may call.                                                               *)
Settle_KeepsPart(caller, b, entries) ==
  LET result == PayAll([ok |-> TRUE, balances |-> b], entries)
  IN  IF caller = operator
      THEN result
      ELSE [ok |-> FALSE, balances |-> b]

Settle_AnyCaller(caller, b, entries) ==
  LET result == PayAll([ok |-> TRUE, balances |-> b], entries)
  IN  IF result.ok
      THEN result
      ELSE [ok |-> FALSE, balances |-> b]

(* What settle, called by an address, does to the balances b: all entries, *)
(* or none if it reverts.                                                  *)
Settle(caller, b, entries) ==
  LET result == PayAll([ok |-> TRUE, balances |-> b], entries)
  IN  IF caller = operator /\ result.ok
      THEN result
      ELSE [ok |-> FALSE, balances |-> b]

(* The owner hands the role to another address.                            *)
SetOperator(newOperator) ==
  /\ operator' = newOperator
  /\ UNCHANGED <<balances, holdings, custody>>
=============================================================================
