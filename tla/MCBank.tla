------------------------------- MODULE MCBank -------------------------------
(* The two ways in which bank transfers reach the program: orders paid to   *)
(* the school's account, with their receipts, and top-ups through PayOS.    *)
(* They share nothing; focus says which takes the steps of a behaviour.     *)
EXTENDS BankReceipts, GdsTopup, TLC

CONSTANTS o1, o2, x1, x2, p1, p2, i1, i2, k1, k2

VARIABLE focus

moneyInVars == <<focus, allBankVars, vars>>

Alike == Permutations({p1, p2}) \cup Permutations({i1, i2}) \cup Permutations({x1, x2})
         \cup Permutations({k1, k2})

\* The second order is there for its receipts: it stays open and unpaid.
SecondOrderWaits ==
    /\ bankRequest'[o2] \in {"none", "PENDING"} /\ bankAttempt'[o2] # "gateway"
    /\ o2 \notin windowOver' /\ generations'[o2] = <<>>

\* A second statement or a second image, not both.
OneOfTwo == Cardinality({x \in Transactions : statement'[x].recorded})
            + Cardinality({i \in Images : claim'[i] # NoClaim}) <= 3

MoneyInInit == focus \in {"bank", "topup"} /\ ReceiptsInit /\ Init

MoneyInNext ==
    /\ UNCHANGED focus
    /\ \/ focus = "bank" /\ ReceiptsNext /\ SecondOrderWaits /\ OneOfTwo /\ UNCHANGED vars
       \/ focus = "topup" /\ Next /\ UNCHANGED allBankVars

MoneyInSpec == MoneyInInit /\ [][MoneyInNext]_moneyInVars
=============================================================================
