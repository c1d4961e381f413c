------------------------------- MODULE MCLive -------------------------------
(* What must happen in the end: each component by itself, on its smallest   *)
(* instance.  focus says which one takes the steps of a behaviour.          *)
EXTENDS Naturals, Sequences, TLC

CONSTANTS h1, h2, u, a, p1, p2, t1, x1, c1, None

VARIABLES
    focus,
    wallet, credited, gdsOrder, paidBy, attempted, hold, settings, withdrawal, periodDue,
    refunded, ledger, projection

walletVars == <<wallet, credited, gdsOrder, paidBy, attempted, hold, settings, withdrawal,
                periodDue, refunded, ledger, projection>>

VARIABLES
    topup, expired, inbox, journal, closed, transfer, accepted, cancel, hook, worker

topupVars == <<topup, expired, inbox, journal, closed, transfer, accepted, cancel, hook, worker>>

MCPeriods == <<p1, p2>>

Wallet == INSTANCE GdsWallet WITH
    Owner <- u, Admins <- {u, a}, Topups <- {}, TopupAmount <- <<>>, Orders <- {}, Payable <- <<>>,
    Withdrawals <- {}, Limits <- {1}, Periods <- MCPeriods,
    Share <- (p1 :> 2) @@ (p2 :> 1), orderStatus <- gdsOrder, due <- periodDue

Topup == INSTANCE GdsTopup WITH
    Topups <- {t1}, Transfers <- {x1}, Cancels <- {c1}, Hooks <- {h1}, Workers <- {h1, h2},
    MaxAttempts <- 2

Init ==
    /\ focus \in {"wallet", "topup"}
    /\ Wallet!Init /\ Topup!Init

Next ==
    /\ UNCHANGED focus
    /\ \/ focus = "wallet" /\ Wallet!Next /\ UNCHANGED topupVars
       \/ focus = "topup" /\ Topup!Next /\ UNCHANGED walletVars

vars == <<focus, walletVars, topupVars>>

LiveSpec ==
    /\ Init /\ [][Next]_vars
    /\ Wallet!Workers /\ Topup!Deliveries /\ Topup!Polling

EarningsReachWallet == Wallet!EarningsReachWallet
TransfersAnswered == Topup!TransfersAnswered
=============================================================================
