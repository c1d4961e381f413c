------------------------------ MODULE GdsWallet ------------------------------
(***************************************************************************)
(* One GDS wallet: top-ups credited to it, orders paid from it, earnings   *)
(* projected into it and withdrawals out of it.  The balances change only  *)
(* with an entry of the journal; its triggers, those of the withdrawals    *)
(* and of the revenue effects belong to the transactions that fire them.   *)
(* Every transaction is SERIALIZABLE, hence one action.  The deployment is *)
(* the sandbox, where a payment request looks at the holds.                *)
(***************************************************************************)
EXTENDS Integers, Sequences, FiniteSetsExt

CONSTANTS
    Owner,        \* the user whose wallet it is: buyer, seller, or both
    Admins,       \* users who may act on withdrawals
    Topups,       \* top-up intents of the owner
    TopupAmount,  \* gds_internal_topups.amount_minor
    Orders,       \* orders of the owner
    Payable,      \* commerce_orders.payable_amount_minor
    Withdrawals,  \* bound: withdrawal requests
    Limits,       \* amounts between minimum_minor and maximum_minor
    Periods,      \* earning periods of the owner, in the order of their ids
    Share,        \* revenue_earning_periods.amount_minor
    None

PeriodSet == {Periods[i] : i \in 1 .. Len(Periods)}

ASSUME AmountsAssumption ==
    /\ TopupAmount \in [Topups -> Nat \ {0}]
    /\ Payable \in [Orders -> Nat \ {0}]
    /\ Limits \subseteq Nat \ {0}
    /\ Share \in [PeriodSet -> Nat]
    /\ Periods \in Seq(PeriodSet)
    /\ IsFiniteSet(Topups) /\ IsFiniteSet(Orders) /\ IsFiniteSet(Withdrawals)

Closed == {"PAID", "REJECTED", "CANCELLED", "FAILED"}
WithdrawalRow == [status : {"PENDING", "APPROVED", "PROCESSING"} \cup Closed,
                  amount : Nat, admin : Admins \cup {None}]
ProjectionRow == [applied : Int, historical : Nat, review : BOOLEAN]

ASSUME NoneAssumption == None \notin Admins \cup WithdrawalRow \cup ProjectionRow

VARIABLES
    wallet,       \* gds_internal_wallets: available, held and debt
    credited,     \* top-ups with a TOPUP_CREDIT entry
    orderStatus,  \* commerce_orders.status
    paidBy,       \* which settlement confirmed the order: "gds" or "provider"
    attempted,    \* orders with a commerce_payment_attempts row
    hold,         \* gds_internal_holds.status by order
    settings,     \* gds_withdrawal_settings, activated: revenue_activated_at is set
    withdrawal,   \* gds_withdrawals, None while unused
    due,          \* periods whose due_at has passed
    refunded,     \* the seller's part of the refunds recorded for a period's order
    ledger,       \* revenue_ledger_entries of a period: the sum of its refund entries,
                  \* the recognized one, and whether that is older than the cutoff
    projection    \* gds_revenue_projections of a period, None while it has none

vars == <<wallet, credited, orderStatus, paidBy, attempted, hold, settings, withdrawal,
          due, refunded, ledger, projection>>
orderVars == <<orderStatus, paidBy, attempted, hold>>
revenueVars == <<due, refunded, ledger, projection>>

Init ==
    /\ wallet = [available |-> 0, held |-> 0, debt |-> 0]
    /\ credited = {}
    /\ orderStatus = [o \in Orders |-> "pending_payment"]
    /\ paidBy = [o \in Orders |-> "none"]
    /\ attempted = {}
    /\ hold = [o \in Orders |-> "none"]
    /\ settings = [admission |-> FALSE, processing |-> FALSE, activated |-> FALSE]
    /\ withdrawal = [w \in Withdrawals |-> None]
    /\ due = {}
    /\ refunded = [p \in PeriodSet |-> 0]
    /\ ledger = [p \in PeriodSet |->
                   [recognized |-> FALSE, earned |-> 0, reversed |-> 0, historic |-> FALSE]]
    /\ projection = [p \in PeriodSet |-> None]

-----------------------------------------------------------------------------
(* The postings of the journal.  The table refuses a negative balance.     *)

PostTo(w, available, held) ==
    /\ w.available + available >= 0
    /\ w.held + held >= 0
    /\ wallet' = [w EXCEPT !.available = @ + available, !.held = @ + held]

Post(available, held) == PostTo(wallet, available, held)

\* creditVerifiedTopupInTransaction: one entry for a top-up, under its event key.
Credit(t) ==
    /\ t \notin credited
    /\ credited' = credited \cup {t}
    /\ Post(TopupAmount[t], 0)
    /\ UNCHANGED <<orderVars, settings, withdrawal, revenueVars>>

-----------------------------------------------------------------------------
(* Orders.  What the payment services do to them, and the wallet's part.   *)

\* Mutant: the holds are not looked at.
AcceptsProviderUnheld(o) == orderStatus[o] = "pending_payment"

\* prepare in a sandbox: no hold of any status.
AcceptsProvider(o) == orderStatus[o] = "pending_payment" /\ hold[o] = "none"

PrepareRequest(o) ==
    /\ AcceptsProvider(o)
    /\ attempted' = attempted \cup {o}
    /\ UNCHANGED <<wallet, credited, orderStatus, paidBy, hold, settings, withdrawal, revenueVars>>

ProviderConfirms(o) ==
    /\ o \in attempted /\ orderStatus[o] = "pending_payment"
    /\ orderStatus' = [orderStatus EXCEPT ![o] = "confirmed"]
    /\ paidBy' = [paidBy EXCEPT ![o] = "provider"]
    /\ UNCHANGED <<wallet, credited, attempted, hold, settings, withdrawal, revenueVars>>

\* Cancelled or expired.
CloseOrder(o) ==
    /\ orderStatus[o] = "pending_payment"
    /\ orderStatus' = [orderStatus EXCEPT ![o] = "closed"]
    /\ UNCHANGED <<wallet, credited, paidBy, attempted, hold, settings, withdrawal, revenueVars>>

Unpaid(o) == o \notin attempted /\ paidBy[o] = "none"

Reserve(o) ==
    /\ orderStatus[o] = "pending_payment" /\ Unpaid(o)
    /\ hold[o] = "none"
    /\ wallet.available >= Payable[o]
    /\ hold' = [hold EXCEPT ![o] = "RESERVED"]
    /\ Post(-Payable[o], Payable[o])
    /\ UNCHANGED <<credited, orderStatus, paidBy, attempted, settings, withdrawal, revenueVars>>

\* Only a closed order that never had a payment attempt gives the money back.
Release(o) ==
    /\ orderStatus[o] = "closed" /\ Unpaid(o)
    /\ hold[o] = "RESERVED"
    /\ hold' = [hold EXCEPT ![o] = "RELEASED"]
    /\ Post(Payable[o], -Payable[o])
    /\ UNCHANGED <<credited, orderStatus, paidBy, attempted, settings, withdrawal, revenueVars>>

\* Mutant: what was reserved before is taken from the available money once more.
CapturePostingTwice(o) == Post(-Payable[o], 0)

\* Reserve, if nothing is reserved yet, and capture.
CapturePosting(o) ==
    IF hold[o] = "RESERVED" THEN Post(0, -Payable[o]) ELSE Post(-Payable[o], 0)

\* payOrder: hold, capture, settlement, confirmation and fulfillment in one
\* transaction; when fulfillment fails nothing of it remains.
PayOrder(o) ==
    /\ orderStatus[o] = "pending_payment" /\ Unpaid(o)
    /\ hold[o] \in {"none", "RESERVED"}
    /\ CapturePosting(o)
    /\ hold' = [hold EXCEPT ![o] = "CAPTURED"]
    /\ orderStatus' = [orderStatus EXCEPT ![o] = "confirmed"]
    /\ paidBy' = [paidBy EXCEPT ![o] = "gds"]
    /\ UNCHANGED <<credited, attempted, settings, withdrawal, revenueVars>>

-----------------------------------------------------------------------------
(* Revenue.  Each period stands for one snapshot of one participant.       *)

\* updateSettings; the trigger freezes the cutoff when processing first starts.
UpdateSettings(admission, processing) ==
    /\ settings' = [admission |-> admission, processing |-> processing,
                    activated |-> settings.activated \/ processing]
    /\ UNCHANGED <<wallet, credited, orderVars, withdrawal, revenueVars>>

DuePasses(p) ==
    /\ p \notin due
    /\ due' = due \cup {p}
    /\ UNCHANGED <<wallet, credited, orderVars, settings, withdrawal, refunded, ledger, projection>>

\* Refunds of the period's order, of which the seller's part is x in all.
RefundRecorded(p, x) ==
    /\ refunded[p] < x /\ x <= Share[p]
    /\ refunded' = [refunded EXCEPT ![p] = x]
    /\ UNCHANGED <<wallet, credited, orderVars, settings, withdrawal, due, ledger, projection>>

\* Mutant: an entry is final once it is recognized.
ReconciledOnce(entry, p) ==
    IF entry.recognized THEN entry
    ELSE [recognized |-> p \in due, earned |-> IF p \in due THEN Share[p] - refunded[p] ELSE 0,
          reversed |-> refunded[p], historic |-> p \in due /\ ~settings.activated]

\* processSnapshot: the refunds are brought up to date before what is left is recognized.
Reconciled(entry, p) ==
    LET first == p \in due /\ ~entry.recognized
    IN [recognized |-> entry.recognized \/ first,
        earned |-> IF first THEN Share[p] - refunded[p] ELSE entry.earned,
        reversed |-> refunded[p],
        historic |-> entry.historic \/ (first /\ ~settings.activated)]

\* RevenueFinanceService.runBatch on one snapshot.
RecognizeRevenue(p) ==
    /\ ledger' = [ledger EXCEPT ![p] = Reconciled(@, p)]
    /\ UNCHANGED <<wallet, credited, orderVars, settings, withdrawal, due, refunded, projection>>

Net(p, book) == Share[p] - book[p].reversed

\* Mutant: the part of a reversal that is not available is forgotten.
AppliedWithoutDebt(w, delta) ==
    LET debt == IF delta > 0 THEN -Min({delta, w.debt}) ELSE 0
        cash == IF delta > 0 THEN delta + debt ELSE -Min({-delta, w.available})
    IN [w EXCEPT !.available = @ + cash, !.debt = @ + debt]

\* Mutant: a reversal is taken out of the available money whatever there is.
AppliedOverdrawn(w, delta) ==
    LET debt == IF delta > 0 THEN -Min({delta, w.debt}) ELSE 0
    IN [w EXCEPT !.available = @ + delta + debt, !.debt = @ + debt]

\* What a delta does to a wallet: income repays debt first, a reversal takes
\* what is available and leaves the rest as debt; holds are not touched.
Applied(w, delta) ==
    LET debt == IF delta > 0 THEN -Min({delta, w.debt})
                             ELSE -delta - Min({-delta, w.available})
    IN [w EXCEPT !.available = @ + delta + debt, !.debt = @ + debt]

\* syncPeriod on the tables of a transaction.
Synced(tables, p) ==
    LET book == [tables.ledger EXCEPT ![p] = Reconciled(@, p)]
        found == tables.projection[p]
        kept == IF found # None THEN found
                ELSE [applied |-> 0, historical |-> 0, review |-> book[p].historic]
        target == Net(p, book) - kept.historical
    IN IF kept.review
       THEN [tables EXCEPT !.ledger = book, !.projection[p] = kept]
       ELSE [wallet |-> Applied(tables.wallet, target - kept.applied),
             ledger |-> book,
             projection |-> [tables.projection EXCEPT ![p] = [kept EXCEPT !.applied = target]]]

Tables == [wallet |-> wallet, ledger |-> ledger, projection |-> projection]

\* runBatch of the wallet's worker on one period; every transaction holds the finance lock.
SyncPeriod(p) ==
    /\ settings.processing /\ ledger[p].recognized
    /\ LET after == Synced(Tables, p)
       IN /\ wallet' = after.wallet
          /\ ledger' = after.ledger
          /\ projection' = after.projection
    /\ UNCHANGED <<credited, orderVars, settings, withdrawal, due, refunded>>

\* syncOwner, inside the transaction of its caller: every recognized period, in their order.
SyncOwner ==
    LET after[i \in 0 .. Len(Periods)] ==
            IF i = 0 THEN Tables
            ELSE IF ledger[Periods[i]].recognized THEN Synced(after[i - 1], Periods[i])
            ELSE after[i - 1]
    IN after[Len(Periods)]

\* approveReview: what was paid to the owner before the wallet existed.
ApproveReview(a, p, paid) ==
    /\ projection[p] # None /\ projection[p].review
    /\ a # Owner
    /\ paid <= ledger[p].earned
    /\ projection' = [projection EXCEPT ![p].review = FALSE, ![p].historical = paid]
    /\ UNCHANGED <<wallet, credited, orderVars, settings, withdrawal, due, refunded, ledger>>

-----------------------------------------------------------------------------
(* Withdrawals                                                             *)

\* Mutant: the admission check is enough, refunds are not taken back first.
AfterSyncStale == Tables

\* Every decision to pay out starts from the owner's synchronised wallet.
AfterSync == SyncOwner

CreateWithdrawal(w, amount) ==
    /\ withdrawal[w] = None
    /\ settings.admission /\ settings.processing
    /\ LET after == AfterSync
       IN /\ after.wallet.debt = 0
          /\ amount \in Limits
          /\ PostTo(after.wallet, -amount, amount)
          /\ ledger' = after.ledger
          /\ projection' = after.projection
    /\ withdrawal' = [withdrawal EXCEPT ![w] =
           [status |-> "PENDING", amount |-> amount, admin |-> None]]
    /\ UNCHANGED <<credited, orderVars, settings, due, refunded>>

\* The claim of `act` on an approved request, and of confirmRecipient, which
\* approves a pending one in the same transaction.
Claim(a, w) ==
    /\ a # Owner
    /\ settings.processing
    /\ LET after == AfterSync
       IN /\ after.wallet.debt = 0
          /\ wallet' = after.wallet
          /\ ledger' = after.ledger
          /\ projection' = after.projection
    /\ withdrawal' = [withdrawal EXCEPT ![w].status = "PROCESSING", ![w].admin = a]
    /\ UNCHANGED <<credited, orderVars, settings, due, refunded>>

InStatus(w, statuses) == withdrawal[w] # None /\ withdrawal[w].status \in statuses

ConfirmRecipient(a, w) == InStatus(w, {"PENDING", "APPROVED"}) /\ Claim(a, w)

Process(a, w) == InStatus(w, {"APPROVED"}) /\ Claim(a, w)

Approve(a, w) ==
    /\ InStatus(w, {"PENDING"}) /\ a # Owner
    /\ withdrawal' = [withdrawal EXCEPT ![w].status = "APPROVED"]
    /\ UNCHANGED <<wallet, credited, orderVars, settings, revenueVars>>

\* Mutant: a failed transfer is posted like a paid one.
FinishLost(w, status) ==
    /\ withdrawal' = [withdrawal EXCEPT ![w].status = status]
    /\ Post(IF status \in {"PAID", "FAILED"} THEN 0 ELSE withdrawal[w].amount,
            -withdrawal[w].amount)
    /\ UNCHANGED <<credited, orderVars, settings, revenueVars>>

\* gds_withdrawal_event_apply on a last status: the reserved money goes back or is gone.
Finish(w, status) ==
    /\ withdrawal' = [withdrawal EXCEPT ![w].status = status]
    /\ Post(IF status = "PAID" THEN 0 ELSE withdrawal[w].amount, -withdrawal[w].amount)
    /\ UNCHANGED <<credited, orderVars, settings, revenueVars>>

Cancel(w) == InStatus(w, {"PENDING"}) /\ Finish(w, "CANCELLED")

RejectWithdrawal(a, w) ==
    InStatus(w, {"PENDING", "APPROVED"}) /\ a # Owner /\ Finish(w, "REJECTED")

\* pay and fail, by the administrator who made the claim.
Transferred(a, w, status) ==
    /\ InStatus(w, {"PROCESSING"}) /\ withdrawal[w].admin = a
    /\ settings.processing
    /\ Finish(w, status)

-----------------------------------------------------------------------------
OrderNext == \E o \in Orders :
    \/ PrepareRequest(o) \/ ProviderConfirms(o) \/ CloseOrder(o)
    \/ Reserve(o) \/ Release(o) \/ PayOrder(o)

RevenueNext ==
    \/ \E admission, processing \in BOOLEAN : UpdateSettings(admission, processing)
    \/ \E p \in PeriodSet :
        \/ DuePasses(p) \/ RecognizeRevenue(p) \/ SyncPeriod(p)
        \/ \E x \in 1 .. Share[p] : RefundRecorded(p, x)
        \/ \E a \in Admins, paid \in 0 .. Share[p] : ApproveReview(a, p, paid)

WithdrawalNext == \E w \in Withdrawals :
    \/ \E amount \in Limits : CreateWithdrawal(w, amount)
    \/ Cancel(w)
    \/ \E a \in Admins :
        \/ ConfirmRecipient(a, w) \/ Process(a, w)
        \/ Approve(a, w) \/ RejectWithdrawal(a, w)
        \/ \E status \in {"PAID", "FAILED"} : Transferred(a, w, status)

Next == (\E t \in Topups : Credit(t)) \/ OrderNext \/ RevenueNext \/ WithdrawalNext

Spec == Init /\ [][Next]_vars

\* The two timers run every minute and go over every period.
Workers == \A p \in PeriodSet :
    /\ WF_vars(RecognizeRevenue(p))
    /\ WF_vars(SyncPeriod(p))

FairSpec == Spec /\ Workers

-----------------------------------------------------------------------------
Underway(w) == InStatus(w, {"PENDING", "APPROVED", "PROCESSING"})

\* The values of the variables.
TypeOK ==
    /\ wallet \in [available : Nat, held : Nat, debt : Nat]
    /\ credited \subseteq Topups
    /\ orderStatus \in [Orders -> {"pending_payment", "confirmed", "closed"}]
    /\ paidBy \in [Orders -> {"none", "gds", "provider"}]
    /\ attempted \subseteq Orders
    /\ hold \in [Orders -> {"none", "RESERVED", "CAPTURED", "RELEASED"}]
    /\ settings \in [admission : BOOLEAN, processing : BOOLEAN, activated : BOOLEAN]
    /\ withdrawal \in [Withdrawals -> {None} \cup WithdrawalRow]
    /\ due \subseteq PeriodSet
    /\ refunded \in [PeriodSet -> Nat]
    /\ ledger \in [PeriodSet ->
           [recognized : BOOLEAN, earned : Nat, reversed : Nat, historic : BOOLEAN]]
    /\ projection \in [PeriodSet -> {None} \cup ProjectionRow]

Reserved == [o \in Orders |-> IF hold[o] = "RESERVED" THEN Payable[o] ELSE 0]
Requested == [w \in Withdrawals |-> IF Underway(w) THEN withdrawal[w].amount ELSE 0]

\* getSummary answers RECONCILIATION_REQUIRED otherwise: the held money is
\* what open holds and withdrawals under way have reserved.
HeldAccountedFor == wallet.held = SumFunction(Reserved) + SumFunction(Requested)

ToppedUp == [t \in Topups |-> IF t \in credited THEN TopupAmount[t] ELSE 0]
Earned == [p \in PeriodSet |-> IF projection[p] = None THEN 0 ELSE projection[p].applied]
Purchased == [o \in Orders |-> IF hold[o] = "CAPTURED" THEN Payable[o] ELSE 0]
PaidOut == [w \in Withdrawals |-> IF InStatus(w, {"PAID"}) THEN withdrawal[w].amount ELSE 0]

\* Nothing the wallet does creates or loses money: what it holds, less its
\* debt, is what came in by top-ups and earnings less what was spent and paid out.
MoneyConserved ==
    wallet.available + wallet.held - wallet.debt =
        SumFunction(ToppedUp) + SumFunction(Earned) - SumFunction(Purchased) - SumFunction(PaidOut)

\* An order is never paid by the wallet and offered to a provider as well, and
\* the wallet's money is taken exactly for the orders it confirmed.
OneInstrument == \A o \in Orders :
    /\ o \in attempted => hold[o] = "none"
    /\ hold[o] = "CAPTURED" <=> paidBy[o] = "gds"
    /\ paidBy[o] # "none" <=> orderStatus[o] = "confirmed"

Claimed(w) == InStatus(w, {"PROCESSING"})

\* No transfer starts before every refund of the owner's reviewed earnings is
\* taken back and the debt it may have left is repaid.
ClaimAfterRefunds == [][
    \A w \in Withdrawals : ~Claimed(w) /\ Claimed(w)' =>
        /\ wallet'.debt = 0
        /\ \A p \in PeriodSet : ledger[p].recognized =>
               /\ projection'[p] # None
               /\ projection'[p].review \/
                  projection'[p].applied = Share[p] - refunded[p] - projection'[p].historical]_vars

Projected(p) ==
    /\ projection[p] # None
    /\ projection[p].review
         \/ projection[p].applied = Share[p] - refunded[p] - projection[p].historical

\* While processing stays enabled the workers bring every due earning and every
\* refund of it to the wallet, or put it before a reviewer.
EarningsReachWallet ==
    <>[]settings.processing => <>[](\A p \in due : Projected(p))

\* The journal, the holds, the withdrawals and the balance of a wallet agree.
BooksBalance == TypeOK /\ HeldAccountedFor /\ MoneyConserved
=============================================================================
