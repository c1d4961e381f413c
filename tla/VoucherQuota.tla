---------------------------- MODULE VoucherQuota ----------------------------
(* One voucher with a limit on its uses, and what may use it: orders, which *)
(* reserve a use at checkout and take it when they are confirmed, and       *)
(* claims of the redeem endpoint, which take it at once                     *)
(* (vouchers.service.ts, commerce-order.service.ts, the payment services).  *)
(* The wallet pays no such order: it leaves the reservation as it is, and   *)
(* the trigger commerce_orders_require_lifecycle then refuses its commit.   *)
(* Checkout and redeem hold the voucher's row from their counts to their    *)
(* commit, and whoever writes a redemption needs that row: each is a step.  *)
EXTENDS Integers, FiniteSets

CONSTANTS
    Orders,       \* checkouts of one line with the voucher
    Claims,       \* <<user, redemption key>> pairs of the redeem endpoint
    Buyers, BuyerOf,
    Admins,       \* requests of administrators in flight
    Limits,       \* values of usage_limit and per_user_limit
    None

Uses == Orders \cup Claims

ASSUME UsesAssumption ==
    /\ IsFiniteSet(Orders) /\ IsFiniteSet(Claims) /\ Orders \cap Claims = {}
    /\ BuyerOf \in [Uses -> Buyers]
    /\ Limits \subseteq Nat /\ None \notin Nat

VARIABLES
    voucher,      \* its row: status, limits and redeemed_count
    highest,      \* history: the highest limits it ever had
    reservation,  \* status of the order's reservation
    lapsed,       \* reservations whose expires_at has passed
    paidBy,       \* what confirmed an order
    redemptions,  \* uses with a voucher_redemptions row
    late,         \* history: orders settled after their reservation had lapsed
    edit          \* what an administrator's request has read

vars == <<voucher, highest, reservation, lapsed, paidBy, redemptions, late, edit>>

LimitOrNone == Limits \cup {None}

Init ==
    /\ voucher \in [active : {TRUE}, limit : LimitOrNone, perUser : LimitOrNone, redeemed : {0}]
    /\ highest = [limit |-> voucher.limit, perUser |-> voucher.perUser]
    /\ reservation = [o \in Orders |-> "none"]
    /\ lapsed = {}
    /\ paidBy = [o \in Orders |-> "none"]
    /\ redemptions = {} /\ late = {}
    /\ edit = [a \in Admins |-> "idle"]

-----------------------------------------------------------------------------
(* Who may use it                                                          *)

\* Reservations that count: reserved, and not yet past their expires_at.
Held == {o \in Orders : reservation[o] = "reserved" /\ o \notin lapsed}

Counted == redemptions \cup Held
CountedOf(b) == {u \in Counted : BuyerOf[u] = b}

Below(uses, limit) == limit # None => Cardinality(uses) < limit

\* Mutant: only redemptions count.
EligibleUnreserved(u) ==
    /\ voucher.active
    /\ Below(redemptions, voucher.limit)
    /\ Below({r \in redemptions : BuyerOf[r] = BuyerOf[u]}, voucher.perUser)

\* evaluateVoucherEligibility; no use is a redemption and a reservation at once.
VoucherEligible(u) ==
    /\ voucher.active
    /\ Below(Counted, voucher.limit)
    /\ Below(CountedOf(BuyerOf[u]), voucher.perUser)

-----------------------------------------------------------------------------
(* Checkout, redemption and confirmation                                   *)

Checkout(o) ==
    /\ reservation[o] = "none" /\ paidBy[o] = "none" /\ VoucherEligible(o)
    /\ reservation' = [reservation EXCEPT ![o] = "reserved"]
    /\ UNCHANGED <<voucher, highest, lapsed, paidBy, redemptions, late, edit>>

\* Mutant: the row is written, its counter is left.
RedeemUncounted(u) == redemptions' = redemptions \cup {u} /\ UNCHANGED voucher

\* Mutant: the counter runs down, as if it were the uses that are left.
RedeemDown(u) ==
    /\ redemptions' = redemptions \cup {u}
    /\ voucher' = [voucher EXCEPT !.redeemed = @ - 1]

\* A redemption row and its count.
RedeemVoucher(u) ==
    /\ redemptions' = redemptions \cup {u}
    /\ voucher' = [voucher EXCEPT !.redeemed = @ + 1]

\* An order with nothing to pay reserves, confirms and redeems in one transaction.
CheckoutFree(o) ==
    /\ reservation[o] = "none" /\ paidBy[o] = "none" /\ VoucherEligible(o)
    /\ reservation' = [reservation EXCEPT ![o] = "consumed"]
    /\ paidBy' = [paidBy EXCEPT ![o] = "nothing"]
    /\ RedeemVoucher(o)
    /\ UNCHANGED <<highest, lapsed, late, edit>>

\* The redeem endpoint; a key that was used before is answered with its redemption.
RedeemClaim(k) ==
    /\ k \notin redemptions /\ VoucherEligible(k)
    /\ RedeemVoucher(k)
    /\ UNCHANGED <<highest, reservation, lapsed, paidBy, late, edit>>

Open(o) == reservation[o] = "reserved" /\ paidBy[o] = "none"

\* Mutant: the reservation is consumed and no redemption is written.
RedeemNothing(o) == UNCHANGED <<redemptions, voucher>>

RedeemReserved(o) == RedeemVoucher(o)

\* A webhook or the reconciliation confirms; it does not ask whether the reservation
\* has lapsed meanwhile.
GatewayConfirms(o) ==
    /\ Open(o)
    /\ reservation' = [reservation EXCEPT ![o] = "consumed"]
    /\ paidBy' = [paidBy EXCEPT ![o] = "gateway"]
    /\ RedeemReserved(o)
    /\ late' = IF o \in lapsed THEN late \cup {o} ELSE late
    /\ UNCHANGED <<highest, lapsed, edit>>

\* A bank transfer confirms only in time, and writes no redemption.
BankConfirms(o) ==
    /\ Open(o) /\ o \notin lapsed
    /\ reservation' = [reservation EXCEPT ![o] = "consumed"]
    /\ paidBy' = [paidBy EXCEPT ![o] = "bank"]
    /\ UNCHANGED <<voucher, highest, lapsed, redemptions, late, edit>>

\* Mutant: the order is closed, its reservation stays.
KeepReservation(o, status) == UNCHANGED reservation

EndReservation(o, status) == reservation' = [reservation EXCEPT ![o] = status]

\* Cancelled, or its window has closed.
CloseOrder(o, status) ==
    /\ Open(o) /\ (status = "expired" => o \in lapsed)
    /\ EndReservation(o, status)
    /\ paidBy' = [paidBy EXCEPT ![o] = "closed"]
    /\ UNCHANGED <<voucher, highest, lapsed, redemptions, late, edit>>

\* Fifteen minutes after checkout.
Lapse(o) ==
    /\ reservation[o] = "reserved" /\ o \notin lapsed
    /\ lapsed' = lapsed \cup {o}
    /\ UNCHANGED <<voucher, highest, reservation, paidBy, redemptions, late, edit>>

-----------------------------------------------------------------------------
(* updateVoucher                                                           *)

\* What it checks, it reads before its transaction.
EditReads(a) ==
    /\ edit[a] = "idle"
    /\ edit' = [edit EXCEPT ![a] = IF voucher.redeemed = 0 THEN "free" ELSE "redeemed"]
    /\ UNCHANGED <<voucher, highest, reservation, lapsed, paidBy, redemptions, late>>

Higher(m, n) == IF m = None \/ n = None THEN None ELSE IF m > n THEN m ELSE n

\* Mutant: the counter the request has read is written back with the rest.
WrittenWhole(a, row) == [row EXCEPT !.redeemed = IF edit[a] = "free" THEN 0 ELSE @]

VoucherWritten(a, row) == row

\* Economic fields only while nothing was redeemed, as read; the status always.
EditWrites(a, active, limit, perUser) ==
    /\ edit[a] # "idle"
    /\ edit[a] = "redeemed" => limit = voucher.limit /\ perUser = voucher.perUser
    /\ voucher' = VoucherWritten(a, [voucher EXCEPT !.active = active, !.limit = limit,
                                             !.perUser = perUser])
    /\ highest' = [limit |-> Higher(highest.limit, limit),
                   perUser |-> Higher(highest.perUser, perUser)]
    /\ edit' = [edit EXCEPT ![a] = "idle"]
    /\ UNCHANGED <<reservation, lapsed, paidBy, redemptions, late>>

Next ==
    \/ \E o \in Orders :
        \/ Checkout(o) \/ CheckoutFree(o) \/ Lapse(o)
        \/ GatewayConfirms(o) \/ BankConfirms(o)
        \/ \E status \in {"released", "expired"} : CloseOrder(o, status)
    \/ \E k \in Claims : RedeemClaim(k)
    \/ \E a \in Admins :
        \/ EditReads(a)
        \/ \E active \in BOOLEAN, limit, perUser \in LimitOrNone :
              EditWrites(a, active, limit, perUser)

Spec == Init /\ [][Next]_vars

-----------------------------------------------------------------------------
(* Properties                                                              *)

\* Every variable has its type, and only a reservation that lapsed is settled late.
TypeOK ==
    /\ voucher \in [active : BOOLEAN, limit : LimitOrNone, perUser : LimitOrNone, redeemed : Nat]
    /\ highest \in [limit : LimitOrNone, perUser : LimitOrNone]
    /\ reservation \in [Orders -> {"none", "reserved", "consumed", "released", "expired"}]
    /\ paidBy \in [Orders -> {"none", "nothing", "gateway", "bank", "closed"}]
    /\ redemptions \subseteq Uses
    /\ lapsed \subseteq Orders /\ late \subseteq lapsed
    /\ edit \in [Admins -> {"idle", "free", "redeemed"}]

\* What is redeemed and what is promised to open orders never exceeds the highest
\* limits the voucher had, but for orders a gateway settled after their reservation
\* had lapsed (evaluateForCommerce, redeem: the counts and the write under one lock).
PromisesFit ==
    /\ highest.limit # None => Cardinality(Counted \ late) <= highest.limit
    /\ highest.perUser # None =>
          \A b \in Buyers : Cardinality(CountedOf(b) \ late) <= highest.perUser

\* redeemed_count is the number of redemption rows, whoever edits the voucher
\* meanwhile: the check of updateVoucher may rely on it.
CountMatchesRedemptions == voucher.redeemed = Cardinality(redemptions)

\* An order and its reservation are decided together, and a redemption row is written
\* by whatever confirms it but a bank transfer (commerce_require_order_lifecycle).
ReservationsDecided == \A o \in Orders :
    /\ paidBy[o] \in {"nothing", "gateway", "bank"} <=> reservation[o] = "consumed"
    /\ paidBy[o] = "closed" <=> reservation[o] \in {"released", "expired"}
    /\ paidBy[o] \in {"nothing", "gateway"} <=> o \in redemptions

\* Orders that have had the discount, and claims.
UsedBy == {o \in Orders : paidBy[o] \in {"nothing", "gateway", "bank"}}
          \cup (Claims \cap redemptions)

BankPaid == {o \in Orders : paidBy[o] = "bank"}

\* The uses keep the limit, but for what was settled late or by a bank transfer.
UsesFit == highest.limit # None => Cardinality(UsedBy \ (late \cup BankPaid)) <= highest.limit

\* The claim for a bank transfer too: a voucher that is used up is refused
\* (vouchers.service.spec.ts:138).
QuotaHolds == highest.limit # None => Cardinality(UsedBy \ late) <= highest.limit

\* Reservations, redemptions and the counter of the voucher follow the orders, and
\* neither promises nor uses go beyond the highest limits there were, but for what was
\* settled late and for the uses of bank transfers.
VoucherConsistent ==
    /\ TypeOK /\ CountMatchesRedemptions /\ ReservationsDecided
    /\ PromisesFit /\ UsesFit
=============================================================================
