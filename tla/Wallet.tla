------------------------------- MODULE Wallet -------------------------------
(***************************************************************************)
(* Wallets (store/sqlite_wallet.go behind core/ledger and                  *)
(* wallet_handlers.go): accounts in cents, opened on first use, and        *)
(* transfers between them.  Nothing in the program pays money in; the      *)
(* balances a run starts with were migrated.                               *)
(***************************************************************************)
EXTENDS Requests, Sequences, FiniteSetsExt

CONSTANTS Amounts,    \* cents a transfer may move
          Deposits    \* balances there may be at the start

ASSUME WalletConstants == Amounts \subseteq Nat \ {0} /\ Deposits \subseteq Nat

VARIABLES
    balance,      \* wallet_accounts: user -> cents, for the users who have one
    transfers,    \* wallet_transfers
    deposits      \* history: the balances at the start

walletVars == <<balance, transfers, deposits>>

WalletInit ==
    /\ \E owners \in SUBSET Users : deposits \in [owners -> Deposits]
    /\ balance = deposits
    /\ transfers = <<>>

\* INSERT OR IGNORE INTO wallet_accounts.
Opened(accounts, users) ==
    [u \in DOMAIN accounts \cup users |-> IF u \in DOMAIN accounts THEN accounts[u] ELSE 0]

\* GetWallet, which opens the account it reads.
GetWallet(u) ==
    /\ u \notin DOMAIN balance
    /\ OneStatement
    /\ balance' = Opened(balance, {u})
    /\ UNCHANGED <<transfers, deposits>>

\* Mutant: the recipient's account is left to be opened by its owner.
AccountsOfSender(from, to) == Opened(balance, {from})

\* The accounts SendMoney's UPDATEs find.
AccountsOf(from, to) == Opened(balance, {from, to})

\* SendMoney: the INSERTs make the transaction the only writer before it reads
\* the balance; ErrInsufficientFund rolls it back with nothing done.
SendMoney(p, from, to) == \E n \in Amounts :
    /\ from # to
    /\ AccountsOf(from, to)[from] >= n
    /\ BeginWrite(p, [op |-> "send", stage |-> "written", from |-> from, to |-> to, amount |-> n])
    /\ UNCHANGED walletVars

\* UPDATE wallet_accounts SET balance_cents = balance_cents + n WHERE user_id.
Credited(accounts, u, n) ==
    [v \in DOMAIN accounts |-> IF v = u THEN accounts[v] + n ELSE accounts[v]]

\* Debit, credit, the transfer's row and COMMIT.
CommitTransfer(p) ==
    LET r == req[p]
        debited == Credited(AccountsOf(r.from, r.to), r.from, 0 - r.amount)
    IN  /\ Commit(p, "send")
        /\ balance' = Credited(debited, r.to, r.amount)
        /\ transfers' = Append(transfers, [from |-> r.from, to |-> r.to, amount |-> r.amount])
        /\ UNCHANGED deposits

WalletStep(p) ==
    \/ \E u \in Users : GetWallet(u)
    \/ \E from, to \in Users : SendMoney(p, from, to)
    \/ CommitTransfer(p)

WalletOK == DOMAIN balance \subseteq Users /\ DOMAIN deposits \subseteq DOMAIN balance

\* What a user has according to the transfers.
Due(u) ==
    LET Moved(S) == MapThenSumSet(LAMBDA i : transfers[i].amount, S)
    IN  (IF u \in DOMAIN deposits THEN deposits[u] ELSE 0)
            + Moved({i \in DOMAIN transfers : transfers[i].to = u})
            - Moved({i \in DOMAIN transfers : transfers[i].from = u})

\* No money is lost, made or overdrawn: every balance is what the user started
\* with and the transfers have moved, whichever transfers run at once or fail.
BooksBalance ==
    /\ \A u \in DOMAIN balance : balance[u] >= 0 /\ balance[u] = Due(u)
    /\ \A u \in Users \ DOMAIN balance : Due(u) = 0
=============================================================================
