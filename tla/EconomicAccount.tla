--------------------------- MODULE EconomicAccount ---------------------------
(***************************************************************************)
(* What the economic-v1 ledger promises of an account, whatever lots,      *)
(* refund plans and debts it keeps underneath.  An account has one signed  *)
(* balance; earnings raise it and reversals may drive it below zero.  A    *)
(* payout puts aside at most a positive balance that exists when it is     *)
(* requested, keeps that amount, and is paid once or returned once.        *)
(* Recovering a debt only moves money inside the account.                  *)
(***************************************************************************)
EXTENDS Integers

CONSTANTS Accounts, Payouts, PayoutOwner

VARIABLES
    balance,    \* per account: money neither put aside, paid nor taken back
    hold        \* per payout: its phase and its amount

Phases == {"none", "held", "paid", "returned"}

Init ==
    /\ balance = [a \in Accounts |-> 0]
    /\ hold = [p \in Payouts |-> [phase |-> "none", amount |-> 0]]

\* A capture is booked, for every account that has a share in it.
Earn ==
    /\ \A a \in Accounts : balance'[a] >= balance[a]
    /\ UNCHANGED hold

\* A refund is settled.
Reverse ==
    /\ \A a \in Accounts : balance'[a] <= balance[a]
    /\ UNCHANGED hold

OthersKeepBalance(a) == \A b \in Accounts \ {a} : balance'[b] = balance[b]

Hold(p, amount) ==
    LET a == PayoutOwner[p] IN
    /\ hold[p].phase = "none"
    /\ amount > 0
    /\ amount <= balance[a]
    /\ balance'[a] = balance[a] - amount
    /\ OthersKeepBalance(a)
    /\ hold' = [hold EXCEPT ![p] = [phase |-> "held", amount |-> amount]]

Return(p) ==
    LET a == PayoutOwner[p] IN
    /\ hold[p].phase = "held"
    /\ balance'[a] = balance[a] + hold[p].amount
    /\ OthersKeepBalance(a)
    /\ hold' = [hold EXCEPT ![p].phase = "returned"]

Pay(p) ==
    /\ hold[p].phase = "held"
    /\ hold' = [hold EXCEPT ![p].phase = "paid"]
    /\ UNCHANGED balance

Next ==
    /\ balance' \in [Accounts -> Int]
    /\ \/ Earn
       \/ Reverse
       \/ \E p \in Payouts :
             \/ Hold(p, hold'[p].amount)
             \/ Return(p)
             \/ Pay(p)

Spec == Init /\ [][Next]_<<balance, hold>>
=============================================================================
