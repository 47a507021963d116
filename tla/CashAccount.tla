---------------------------- MODULE CashAccount ----------------------------
(***************************************************************************)
(* What the paper broker promises about money: an account that is only     *)
(* changed by posting rows, each row carrying the balance it leaves, and   *)
(* never overdrawn.  Rows are posted in batches, one batch per             *)
(* transaction, and are never changed afterwards.                          *)
(***************************************************************************)
EXTENDS Integers, Sequences

CONSTANT Opening

VARIABLES balance,  \* what the account holds
          journal   \* rows [amount, balance, ...], the opening row first

vars == <<balance, journal>>

Chained(rows, first) ==
    \A k \in first..Len(rows) :
        /\ rows[k].balance = rows[k - 1].balance + rows[k].amount
        /\ rows[k].balance >= 0

(* Any account that has been kept properly since its opening row. *)
AccountInit ==
    /\ Len(journal) > 0
    /\ journal[1].amount = Opening /\ journal[1].balance = Opening
    /\ Chained(journal, 2)
    /\ balance = journal[Len(journal)].balance

(* rows continues the journal it extends. *)
Continues(rows) ==
    /\ Len(rows) > Len(journal)
    /\ SubSeq(rows, 1, Len(journal)) = journal
    /\ Chained(rows, Len(journal) + 1)

Post ==
    /\ Continues(journal')
    /\ balance' = journal'[Len(journal')].balance

AccountSpec == AccountInit /\ [][Post]_vars
=============================================================================
