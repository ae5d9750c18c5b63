------------------------------- MODULE Ledger -------------------------------
(***************************************************************************)
(* ledger (src/ledger/ledger.go) over the accounts table it creates in    *)
(* New: id TEXT PRIMARY KEY, balance BIGINT CHECK (balance >= 0), and the  *)
(* procedure transfer_money.  Clients are goroutines sharing one *sql.DB.  *)
(*                                                                         *)
(* CreateAccount, Deposit, Withdraw and GetBalance are single statements   *)
(* in autocommit: each is one step, and an UPDATE waits while another      *)
(* transaction holds the row lock.  Transfer is a transaction: BeginTx,    *)
(* SELECT ... ORDER BY id FOR UPDATE (one step per row it locks, in id     *)
(* order), the row count check, CALL transfer_money, Commit; every error   *)
(* returns through the deferred Rollback.  Writes of a transaction are     *)
(* seen by others only at Commit.  Account ids are numbers, ordered as the *)
(* TEXT ids are by ORDER BY id.                                            *)
(***************************************************************************)
EXTENDS Integers, Sequences, FiniteSets, Functions, TLC

SX == INSTANCE SequencesExt

CONSTANTS
    Clients,     \* goroutines calling the ledger
    Accounts,    \* account ids
    InitBal,     \* InitBal[a]: the balance of an existing account; -1: none
    Requests,    \* Requests[c]: the calls c may make
    Calls,       \* calls per client
    NoClient

ASSUME Accounts \subseteq Nat

VARIABLES
    exists,    \* the rows of accounts
    balance,   \* committed balance of each row
    lock,      \* lock[a]: the transaction holding a's row lock, or NoClient
    pc,        \* pc[c]: "idle", or where c's Transfer is
    req,       \* req[c]: the call c is making
    rows,      \* rows[c]: the rows c's SELECT FOR UPDATE returns, id order
    calls,     \* calls[c]: calls c has made
    net        \* initial money plus committed deposits minus withdrawals

vars == <<exists, balance, lock, pc, req, rows, calls, net>>

Sum(f, S) == FoldFunctionOnSet(+, 0, f, S)

TypeOK ==
    /\ exists \subseteq Accounts
    /\ balance \in [Accounts -> Int]
    /\ lock \in [Accounts -> Clients \cup {NoClient}]
    /\ pc \in [Clients -> {"idle", "select", "count", "exec", "commit"}]
    /\ rows \in [Clients -> Seq(Accounts)]
    /\ calls \in [Clients -> 0..Calls]

Init ==
    /\ exists = {a \in Accounts : InitBal[a] >= 0}
    /\ balance = [a \in Accounts |-> IF InitBal[a] >= 0 THEN InitBal[a] ELSE 0]
    /\ lock = [a \in Accounts |-> NoClient]
    /\ pc = [c \in Clients |-> "idle"]
    /\ req = [c \in Clients |-> CHOOSE r \in Requests[c] : TRUE]
    /\ rows = [c \in Clients |-> <<>>]
    /\ calls = [c \in Clients |-> 0]
    /\ net = Sum(balance, exists)

\* A row an autocommit UPDATE may write: it is not locked by a transaction.
Free(a) == lock[a] = NoClient

Begin(c, r) ==
    /\ pc[c] = "idle" /\ calls[c] < Calls
    /\ calls' = [calls EXCEPT ![c] = @ + 1]
    /\ req' = [req EXCEPT ![c] = r]

-----------------------------------------------------------------------------
(* The autocommit calls; each returns to "idle".                           *)

\* CreateAccount: INSERT; a duplicate id violates the primary key.
CreateAccount(c, r) ==
    /\ r.kind = "create" /\ Begin(c, r)
    /\ exists' = exists \cup {r.from}
    /\ UNCHANGED <<balance, lock, pc, rows, net>>

\* Deposit: validateAmount, then UPDATE balance = balance + amount; no row,
\* no change ("account does not exist").
Deposit(c, r) ==
    /\ r.kind = "deposit" /\ Begin(c, r)
    /\ IF r.amount >= 0 /\ r.from \in exists
         THEN /\ Free(r.from)
              /\ balance' = [balance EXCEPT ![r.from] = @ + r.amount]
              /\ net' = net + r.amount
         ELSE UNCHANGED <<balance, net>>
    /\ UNCHANGED <<exists, lock, pc, rows>>

\* Withdraw: validateAmount, then UPDATE balance = balance - amount, which
\* the CHECK constraint rejects when the balance would drop below 0
\* (handleWithdrawError: ErrNoMoney).
Withdraw(c, r) ==
    /\ r.kind = "withdraw" /\ Begin(c, r)
    /\ IF r.amount >= 0 /\ r.from \in exists
         THEN /\ Free(r.from)
              /\ IF balance[r.from] >= r.amount
                   THEN /\ balance' = [balance EXCEPT ![r.from] = @ - r.amount]
                        /\ net' = net - r.amount
                   ELSE UNCHANGED <<balance, net>>
         ELSE UNCHANGED <<balance, net>>
    /\ UNCHANGED <<exists, lock, pc, rows>>

\* GetBalance: a plain SELECT of the committed balance.
GetBalance(c, r) ==
    /\ r.kind = "balance" /\ Begin(c, r)
    /\ UNCHANGED <<exists, balance, lock, pc, rows, net>>

-----------------------------------------------------------------------------
(* Transfer.                                                               *)

Goto(c, l) == pc' = [pc EXCEPT ![c] = l]

\* The transaction ends: its row locks are released.
EndTx(c) ==
    /\ lock' = [a \in Accounts |-> IF lock[a] = c THEN NoClient ELSE lock[a]]
    /\ Goto(c, "idle")
    /\ rows' = [rows EXCEPT ![c] = <<>>]

\* Mutant: the error path returns without the deferred tx.Rollback.
RollbackMissing(c) == Goto(c, "idle") /\ UNCHANGED <<lock, rows>>

\* An error returns through the deferred tx.Rollback: the writes and the
\* locks of the transaction go.
Rollback(c) == EndTx(c)

\* Mutant: the SELECT has no ORDER BY and returns the rows as named.
SelectRowsAsNamed(r) == SelectSeq(<<r.from, r.to>>, LAMBDA a : a \in exists)

\* The rows SELECT ... WHERE id IN (from, to) ORDER BY id returns: the
\* existing ones, in id order (so only one when from = to).
SelectRows(r) == SortSeq(SX!SetToSeq({r.from, r.to} \cap exists), <)

\* validateAmount and BeginTx; the SELECT's snapshot fixes its rows.
TransferBegin(c, r) ==
    /\ r.kind = "transfer" /\ Begin(c, r)
    /\ IF r.amount >= 0
         THEN Goto(c, "select") /\ rows' = [rows EXCEPT ![c] = SelectRows(r)]
         ELSE UNCHANGED <<pc, rows>>
    /\ UNCHANGED <<exists, balance, lock, net>>

\* FOR UPDATE locks the rows in the order it returns them, one by one,
\* waiting while another transaction holds the next one.
Locked(c) == Cardinality({i \in 1..Len(rows[c]) : lock[rows[c][i]] = c})
NextRow(c) == rows[c][Locked(c) + 1]

SelectForUpdate(c) ==
    /\ pc[c] = "select"
    /\ IF Locked(c) = Len(rows[c])
         THEN Goto(c, "count") /\ UNCHANGED lock
         ELSE /\ Free(NextRow(c))
              /\ lock' = [lock EXCEPT ![NextRow(c)] = c]
              /\ UNCHANGED pc
    /\ UNCHANGED <<exists, balance, req, rows, calls, net>>

\* checkAccountsExist: fewer than 2 rows is an error (so is from = to).
CheckAccountsExist(c) ==
    /\ pc[c] = "count"
    /\ IF Len(rows[c]) < 2 THEN Rollback(c) ELSE Goto(c, "exec") /\ UNCHANGED <<lock, rows>>
    /\ UNCHANGED <<exists, balance, req, calls, net>>

\* executeTransfer: CALL transfer_money; its first UPDATE fails the CHECK
\* constraint when from has less than amount (ErrNoMoney).
ExecuteTransfer(c) ==
    /\ pc[c] = "exec"
    /\ IF balance[req[c].from] >= req[c].amount
         THEN Goto(c, "commit") /\ UNCHANGED <<lock, rows>>
         ELSE Rollback(c)
    /\ UNCHANGED <<exists, balance, req, calls, net>>

\* Mutant: transfer_money without its second UPDATE.
TransferMoneyDebitOnly(c) == [balance EXCEPT ![req[c].from] = @ - req[c].amount]

\* The balances the transaction wrote: from less amount, to plus amount.
TransferMoney(c) ==
    [balance EXCEPT ![req[c].from] = @ - req[c].amount,
                    ![req[c].to] = @ + req[c].amount]

\* tx.Commit: the writes become visible; then the deferred Rollback finds
\* nothing to undo and the locks are released.
Commit(c) ==
    /\ pc[c] = "commit"
    /\ balance' = TransferMoney(c)
    /\ EndTx(c)
    /\ UNCHANGED <<exists, req, calls, net>>

-----------------------------------------------------------------------------
Terminated ==
    /\ \A c \in Clients : pc[c] = "idle" /\ calls[c] = Calls
    /\ UNCHANGED vars

Start(c) ==
    \E r \in Requests[c] :
        \/ CreateAccount(c, r) \/ Deposit(c, r) \/ Withdraw(c, r)
        \/ GetBalance(c, r) \/ TransferBegin(c, r)

TxStep(c) ==
    SelectForUpdate(c) \/ CheckAccountsExist(c) \/ ExecuteTransfer(c) \/ Commit(c)

Next ==
    \/ \E c \in Clients : Start(c) \/ TxStep(c)
    \/ Terminated

\* Calling is the client's choice; a transaction runs to its end, and a
\* waiter for a row lock gets it once it is free (Postgres queues lock
\* waiters), so its steps are strongly fair.
Fairness == \A c \in Clients : SF_vars(TxStep(c))

Spec == Init /\ [][Next]_vars /\ Fairness
-----------------------------------------------------------------------------
\* c waits in SELECT FOR UPDATE for a row that d's transaction holds.
WaitsFor(c, d) ==
    pc[c] = "select" /\ Locked(c) < Len(rows[c]) /\ lock[NextRow(c)] = d

\* Locking the rows in id order means no two Transfers ever wait for each
\* other (Postgres would abort one of them with a deadlock error).
NoLockCycle == \A c, d \in Clients : ~(WaitsFor(c, d) /\ WaitsFor(d, c))

\* Money is neither made nor lost: the committed balances of the accounts
\* add up to the initial money plus the deposits less the withdrawals,
\* whatever Transfers commit or roll back in between, and none is negative.
MoneyConserved ==
    /\ Sum(balance, exists) = net
    /\ \A a \in exists : balance[a] >= 0

\* Every call returns: a Transfer waiting for row locks gets them.
EveryCallReturns == \A c \in Clients : pc[c] # "idle" ~> pc[c] = "idle"
====
