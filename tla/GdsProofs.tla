------------------------------- MODULE GdsProofs -------------------------------
(* The wallet's orders, a learner's memberships and the catalogue they are    *)
(* sold from: for any number of orders, withdrawals, earning periods, plans,  *)
(* versions and courses, any quota and durations.                             *)
(* Orders: one instrument each; the balances do not matter for it.            *)
(* Books: sums over all orders, requests, top-ups and periods, which change by *)
(* what an entry of the journal moves; syncOwner goes up the periods.         *)
(* Memberships: a term is written after it was compared with the others, and  *)
(* a use after it was compared with the pool; what makes this enough is that  *)
(* the early pool of an order without a receipt is empty, and that an order   *)
(* has no paid term before it is paid.                                        *)
(* Catalogue: the version of the active policy is the last there is, because  *)
(* nobody else makes versions meanwhile; so it is the one a checkout finds.   *)
EXTENDS GdsWallet, Memberships, MembershipCatalog, SetFacts

-----------------------------------------------------------------------------
(* Orders                                                                   *)

OrderTypeOK ==
    /\ orderStatus \in [Orders -> {"pending_payment", "confirmed", "closed"}]
    /\ paidBy \in [Orders -> {"none", "gds", "provider"}]
    /\ attempted \subseteq Orders
    /\ hold \in [Orders -> {"none", "RESERVED", "CAPTURED", "RELEASED"}]

OrderIInv == OrderTypeOK /\ OneInstrument

\* The initial states: no hold, no attempt, nothing paid.
LEMMA OrderInitInvariant == Init => OrderIInv
BY DEF Init, OrderIInv, OrderTypeOK, OneInstrument

\* Top-ups, earnings and withdrawals do not touch the orders.
LEMMA OrdersKept == OrderIInv /\ UNCHANGED orderVars => OrderIInv'
BY DEF OrderIInv, OrderTypeOK, OneInstrument, orderVars

\* Every step on an order keeps its instruments apart: each looks at the hold
\* or at the attempts before it adds the other.
LEMMA OrderStep == OrderIInv /\ OrderNext => OrderIInv'
<1> SUFFICES ASSUME OrderIInv, OrderNext PROVE OrderIInv'
    OBVIOUS
<1> PICK o \in Orders :
        \/ PrepareRequest(o) \/ ProviderConfirms(o) \/ CloseOrder(o)
        \/ Reserve(o) \/ Release(o) \/ PayOrder(o)
    BY DEF OrderNext
<1> USE DEF OrderIInv, OrderTypeOK, OneInstrument
<1>1. CASE PrepareRequest(o)
    BY <1>1 DEF PrepareRequest, AcceptsProvider
<1>2. CASE ProviderConfirms(o)
    BY <1>2 DEF ProviderConfirms
<1>3. CASE CloseOrder(o)
    BY <1>3 DEF CloseOrder
<1>4. CASE Reserve(o)
    BY <1>4 DEF Reserve, Unpaid
<1>5. CASE Release(o)
    BY <1>5 DEF Release, Unpaid
<1>6. CASE PayOrder(o)
    BY <1>6 DEF PayOrder, Unpaid
<1> QED BY <1>1, <1>2, <1>3, <1>4, <1>5, <1>6

\* The other steps are those of top-ups, earnings and withdrawals.
LEMMA WalletStep == OrderIInv /\ [Next]_vars => OrderIInv'
<1> SUFFICES ASSUME OrderIInv, [Next]_vars PROVE OrderIInv'
    OBVIOUS
<1>1. CASE OrderNext
    BY <1>1, OrderStep
<1>2. CASE \E t \in Topups : Credit(t)
    BY <1>2, OrdersKept DEF Credit
<1>3. CASE RevenueNext
    BY <1>3, OrdersKept DEF RevenueNext, UpdateSettings, DuePasses, RecognizeRevenue,
       SyncPeriod, RefundRecorded, ApproveReview
<1>4. CASE WithdrawalNext
    BY <1>4, OrdersKept DEF WithdrawalNext, CreateWithdrawal, Cancel, ConfirmRecipient,
       Process, Claim, Approve, RejectWithdrawal, Transferred, Finish
<1>5. CASE UNCHANGED vars
    BY <1>5, OrdersKept DEF vars, orderVars
<1> QED BY <1>1, <1>2, <1>3, <1>4, <1>5 DEF Next

\* The checkout of the wallet and the payment requests of a sandbox never
\* collect for the same order, and the wallet's money goes to confirmed orders only.
THEOREM OneInstrumentHolds == Spec => []OneInstrument
<1>1. OrderIInv => OneInstrument
    BY DEF OrderIInv
<1> QED BY OrderInitInvariant, WalletStep, <1>1, PTL DEF Spec

-----------------------------------------------------------------------------
(* The books                                                                *)

\* No refund gives back more of a period than the seller's part.
RefundsWithin == \A p \in PeriodSet : refunded[p] <= Share[p]

BooksIInv == BooksBalance /\ RefundsWithin

WalletRow == [available : Nat, held : Nat, debt : Nat]
LedgerRow == [recognized : BOOLEAN, earned : Nat, reversed : Nat, historic : BOOLEAN]
TablesRow == [wallet : WalletRow, ledger : [PeriodSet -> LedgerRow],
              projection : [PeriodSet -> {None} \cup ProjectionRow]]

\* There are finitely many periods, because they are the elements of a sequence.
LEMMA PeriodsFinite == IsFiniteSet(PeriodSet) /\ Len(Periods) \in Nat
<1>1. Len(Periods) \in Nat /\ Periods \in [1 .. Len(Periods) -> PeriodSet]
    BY AmountsAssumption DEF PeriodSet
<1>2. Periods \in Surjection(1 .. Len(Periods), PeriodSet)
    BY <1>1 DEF Surjection, PeriodSet
<1>3. IsFiniteSet(1 .. Len(Periods))
    BY <1>1, FS_Interval
<1>4. IsFiniteSet(PeriodSet)
    BY <1>2, <1>3, FS_Surjection
<1> QED BY <1>1, <1>4

\* What is summed are integers.
LEMMA Summands ==
    ASSUME TypeOK
    PROVE  /\ Reserved \in [Orders -> Int] /\ Purchased \in [Orders -> Int]
           /\ Requested \in [Withdrawals -> Int] /\ PaidOut \in [Withdrawals -> Int]
           /\ ToppedUp \in [Topups -> Int] /\ Earned \in [PeriodSet -> Int]
<1>1. \A o \in Orders : Payable[o] \in Int
    BY AmountsAssumption
<1>2. \A t \in Topups : TopupAmount[t] \in Int
    BY AmountsAssumption
<1>3. \A w \in Withdrawals : withdrawal[w] # None => withdrawal[w].amount \in Int
    BY DEF TypeOK, WithdrawalRow
<1>4. \A p \in PeriodSet : projection[p] # None => projection[p].applied \in Int
    BY DEF TypeOK, ProjectionRow
<1>5. Reserved \in [Orders -> Int] /\ Purchased \in [Orders -> Int]
    BY <1>1 DEF Reserved, Purchased
<1>6. Requested \in [Withdrawals -> Int] /\ PaidOut \in [Withdrawals -> Int]
    BY <1>3 DEF Requested, PaidOut, Underway, InStatus
<1>7. ToppedUp \in [Topups -> Int] /\ Earned \in [PeriodSet -> Int]
    BY <1>2, <1>4 DEF ToppedUp, Earned
<1> QED BY <1>5, <1>6, <1>7

LEMMA Totals ==
    ASSUME TypeOK
    PROVE  /\ SumFunction(Reserved) \in Int /\ SumFunction(Purchased) \in Int
           /\ SumFunction(Requested) \in Int /\ SumFunction(PaidOut) \in Int
           /\ SumFunction(ToppedUp) \in Int /\ SumFunction(Earned) \in Int
<1>1. /\ IsFiniteSet(Orders) /\ IsFiniteSet(Withdrawals) /\ IsFiniteSet(Topups)
      /\ IsFiniteSet(PeriodSet)
    BY AmountsAssumption, PeriodsFinite
<1>2. SumFunction(Reserved) \in Int /\ SumFunction(Purchased) \in Int
    BY <1>1, Summands, TotalInt
<1>3. SumFunction(Requested) \in Int /\ SumFunction(PaidOut) \in Int
    BY <1>1, Summands, TotalInt
<1>4. SumFunction(ToppedUp) \in Int /\ SumFunction(Earned) \in Int
    BY <1>1, Summands, TotalInt
<1> QED BY <1>2, <1>3, <1>4

\* An empty wallet: nothing came in and nothing is held.
LEMMA BooksInitInvariant == Init => BooksIInv
<1> SUFFICES ASSUME Init PROVE BooksIInv
    OBVIOUS
<1> USE DEF Init
<1>1. TypeOK
    BY DEF TypeOK
<1>2. /\ Reserved = [o \in Orders |-> 0] /\ Purchased = [o \in Orders |-> 0]
      /\ Requested = [w \in Withdrawals |-> 0] /\ PaidOut = [w \in Withdrawals |-> 0]
      /\ ToppedUp = [t \in Topups |-> 0] /\ Earned = [p \in PeriodSet |-> 0]
    BY DEF Reserved, Purchased, Requested, PaidOut, ToppedUp, Earned, Underway, InStatus
<1>3. /\ SumFunction(Reserved) = 0 /\ SumFunction(Purchased) = 0
      /\ SumFunction(Requested) = 0 /\ SumFunction(PaidOut) = 0
      /\ SumFunction(ToppedUp) = 0 /\ SumFunction(Earned) = 0
    <2>1. SumFunction([o \in Orders |-> 0]) = 0
        BY AmountsAssumption, TotalZero
    <2>2. SumFunction([w \in Withdrawals |-> 0]) = 0
        BY AmountsAssumption, TotalZero
    <2>3. SumFunction([t \in Topups |-> 0]) = 0
        BY AmountsAssumption, TotalZero
    <2>4. SumFunction([p \in PeriodSet |-> 0]) = 0
        BY PeriodsFinite, TotalZero
    <2> QED BY <1>2, <2>1, <2>2, <2>3, <2>4
<1>4. HeldAccountedFor /\ MoneyConserved
    BY <1>3 DEF HeldAccountedFor, MoneyConserved
<1>5. RefundsWithin
    BY AmountsAssumption DEF RefundsWithin
<1> QED BY <1>1, <1>4, <1>5 DEF BooksIInv, BooksBalance

\* What an entry of the journal does to the balances.
LEMMA Posted ==
    ASSUME NEW w \in WalletRow, NEW available \in Int, NEW held \in Int, PostTo(w, available, held)
    PROVE  /\ wallet' \in WalletRow
           /\ wallet'.available = w.available + available
           /\ wallet'.held = w.held + held /\ wallet'.debt = w.debt
<1>1. PICK x, y : x = w.available + available /\ y = w.held + held
    OBVIOUS
<1>2. w.available \in Nat /\ w.held \in Nat /\ w.debt \in Nat
    BY DEF WalletRow
<1>3. x \in Nat /\ y \in Nat
    BY <1>1, <1>2 DEF PostTo
<1>4. wallet' = [w EXCEPT !.available = x, !.held = y]
    BY <1>1 DEF PostTo
<1> QED BY <1>1, <1>3, <1>4 DEF WalletRow

\* A top-up is credited once.
LEMMA CreditStep ==
    ASSUME BooksIInv, NEW t \in Topups, Credit(t)
    PROVE  BooksIInv'
<1> USE DEF BooksIInv, BooksBalance
<1>1. TopupAmount[t] \in Nat /\ ToppedUp[t] = 0
    BY AmountsAssumption DEF Credit, ToppedUp
<1>2. wallet \in WalletRow
    BY DEF TypeOK, WalletRow
<1>8. /\ wallet' \in WalletRow /\ wallet'.available = wallet.available + TopupAmount[t]
      /\ wallet'.held = wallet.held + 0 /\ wallet'.debt = wallet.debt
    BY <1>1, <1>2, Posted DEF Credit, Post
<1>3. /\ UNCHANGED <<orderStatus, paidBy, attempted, hold, settings, withdrawal>>
      /\ UNCHANGED <<due, refunded, ledger, projection>>
    BY DEF Credit, orderVars, revenueVars
<1>4. TypeOK' /\ RefundsWithin'
    <2>3. credited' \subseteq Topups
        BY DEF Credit, TypeOK
    <2> QED BY <1>3, <1>8, <2>3 DEF TypeOK, RefundsWithin, WalletRow
<1>5. ToppedUp' = [ToppedUp EXCEPT ![t] = TopupAmount[t]]
    BY DEF Credit, ToppedUp
<1>6. SumFunction(ToppedUp)' = SumFunction(ToppedUp) - ToppedUp[t] + TopupAmount[t]
    <2>1. /\ IsFiniteSet(Topups) /\ ToppedUp \in [Topups -> Int]
          /\ TopupAmount[t] \in Int
        BY <1>1, Summands, AmountsAssumption
    <2>2. SumFunction([ToppedUp EXCEPT ![t] = TopupAmount[t]]) =
              SumFunction(ToppedUp) - ToppedUp[t] + TopupAmount[t]
        BY <2>1, TotalChange
    <2> QED BY <1>5, <2>2
<1>7. /\ Reserved' = Reserved /\ Purchased' = Purchased
      /\ Requested' = Requested /\ PaidOut' = PaidOut /\ Earned' = Earned
    BY <1>3 DEF Reserved, Purchased, Requested, PaidOut, Earned, Underway, InStatus
<1>10. HeldAccountedFor'
    BY <1>2, <1>7, <1>8, Totals DEF HeldAccountedFor, WalletRow
<1>11. MoneyConserved'
    BY <1>1, <1>2, <1>6, <1>7, <1>8, Totals DEF MoneyConserved, WalletRow
<1> QED BY <1>4, <1>10, <1>11

\* An entry that moves money of one order between the balances.
LEMMA OrderBooks ==
    ASSUME BooksIInv, NEW o \in Orders, NEW available \in Int, NEW held \in Int, Post(available, held),
           NEW status \in {"RESERVED", "CAPTURED", "RELEASED"},
           hold' = [hold EXCEPT ![o] = status],
           held = (IF status = "RESERVED" THEN Payable[o] ELSE 0) - Reserved[o],
           available + held = Purchased[o] - (IF status = "CAPTURED" THEN Payable[o] ELSE 0),
           UNCHANGED <<credited, withdrawal, revenueVars, settings, attempted>>,
           orderStatus' \in [Orders -> {"pending_payment", "confirmed", "closed"}],
           paidBy' \in [Orders -> {"none", "gds", "provider"}]
    PROVE  BooksIInv'
<1> USE DEF BooksIInv, BooksBalance
<1>1. /\ IsFiniteSet(Orders) /\ Payable[o] \in Int
      /\ Reserved \in [Orders -> Int] /\ Purchased \in [Orders -> Int]
    BY Summands, AmountsAssumption
<1>2. wallet \in WalletRow
    BY DEF TypeOK, WalletRow
<1>3. /\ wallet' \in WalletRow /\ wallet'.available = wallet.available + available
      /\ wallet'.held = wallet.held + held /\ wallet'.debt = wallet.debt
    BY <1>2, Posted DEF Post
<1>4. TypeOK' /\ RefundsWithin'
    <2>1. hold' \in [Orders -> {"none", "RESERVED", "CAPTURED", "RELEASED"}]
        BY DEF TypeOK
    <2> QED BY <1>3, <2>1 DEF TypeOK, RefundsWithin, WalletRow, revenueVars
<1>5. PICK x \in Int, y \in Int :
          /\ x = (IF status = "RESERVED" THEN Payable[o] ELSE 0)
          /\ y = (IF status = "CAPTURED" THEN Payable[o] ELSE 0)
    BY <1>1
<1>6. Reserved' = [Reserved EXCEPT ![o] = x] /\ Purchased' = [Purchased EXCEPT ![o] = y]
    <2>1. hold \in [Orders -> {"none", "RESERVED", "CAPTURED", "RELEASED"}]
        BY DEF TypeOK
    <2> QED BY <1>5, <2>1 DEF Reserved, Purchased
<1>7. /\ SumFunction([Reserved EXCEPT ![o] = x]) = SumFunction(Reserved) - Reserved[o] + x
      /\ SumFunction([Purchased EXCEPT ![o] = y]) = SumFunction(Purchased) - Purchased[o] + y
    <2>1. SumFunction([Reserved EXCEPT ![o] = x]) = SumFunction(Reserved) - Reserved[o] + x
        BY <1>1, TotalChange
    <2>2. SumFunction([Purchased EXCEPT ![o] = y]) = SumFunction(Purchased) - Purchased[o] + y
        BY <1>1, TotalChange
    <2> QED BY <2>1, <2>2
<1>8. /\ Requested' = Requested /\ PaidOut' = PaidOut /\ Earned' = Earned /\ ToppedUp' = ToppedUp
    BY DEF Requested, PaidOut, Earned, ToppedUp, Underway, InStatus, revenueVars
<1>9. Reserved[o] \in Int /\ Purchased[o] \in Int
    BY <1>1
<1>10. HeldAccountedFor'
    <2>1. SumFunction(Reserved') = SumFunction(Reserved) - Reserved[o] + x
        BY <1>6, <1>7
    <2> QED BY <1>2, <1>3, <1>5, <1>8, <1>9, <2>1, Totals DEF HeldAccountedFor, WalletRow
<1>11. MoneyConserved'
    <2>1. SumFunction(Purchased') = SumFunction(Purchased) - Purchased[o] + y
        BY <1>6, <1>7
    <2>2. available + held = Purchased[o] - y
        BY <1>5
    <2> QED BY <1>2, <1>3, <1>8, <1>9, <2>1, <2>2, Totals DEF MoneyConserved, WalletRow
<1> QED BY <1>4, <1>10, <1>11

\* A step that leaves the balances and what they are compared with alone.
LEMMA BooksUntouched ==
    ASSUME BooksIInv, TypeOK', UNCHANGED <<wallet, credited, hold, withdrawal>>,
           \A p \in PeriodSet : refunded'[p] <= Share[p],
           Earned' = Earned
    PROVE  BooksIInv'
<1> USE DEF BooksIInv, BooksBalance
<1>1. /\ Reserved' = Reserved /\ Purchased' = Purchased
      /\ Requested' = Requested /\ PaidOut' = PaidOut /\ ToppedUp' = ToppedUp
    BY DEF Reserved, Purchased, Requested, PaidOut, ToppedUp, Underway, InStatus
<1>2. HeldAccountedFor'
    BY <1>1 DEF HeldAccountedFor
<1>3. MoneyConserved'
    BY <1>1 DEF MoneyConserved
<1> QED BY <1>2, <1>3 DEF RefundsWithin

LEMMA OrderBooksStep ==
    ASSUME BooksIInv, OrderNext
    PROVE  BooksIInv'
<1>0. TypeOK /\ RefundsWithin
    BY DEF BooksIInv, BooksBalance
<1>1. PICK o \in Orders : \/ PrepareRequest(o) \/ ProviderConfirms(o) \/ CloseOrder(o)
                          \/ Reserve(o) \/ Release(o) \/ PayOrder(o)
    BY DEF OrderNext
<1>2. Payable[o] \in Int
    BY AmountsAssumption
<1>3. CASE PrepareRequest(o) \/ ProviderConfirms(o) \/ CloseOrder(o)
    <2>1. UNCHANGED <<wallet, credited, hold, settings, withdrawal, revenueVars>>
        BY <1>3 DEF PrepareRequest, ProviderConfirms, CloseOrder
    <2>2. /\ orderStatus' \in [Orders -> {"pending_payment", "confirmed", "closed"}]
          /\ paidBy' \in [Orders -> {"none", "gds", "provider"}] /\ attempted' \subseteq Orders
        BY <1>0, <1>3 DEF PrepareRequest, ProviderConfirms, CloseOrder, TypeOK
    <2>3. TypeOK'
        BY <1>0, <2>1, <2>2 DEF TypeOK, revenueVars
    <2>4. Earned' = Earned /\ refunded' = refunded
        BY <2>1 DEF Earned, revenueVars
    <2> QED BY <1>0, <2>1, <2>3, <2>4, BooksUntouched DEF RefundsWithin
<1>4. CASE Reserve(o)
    <2>1. Reserved[o] = 0 /\ Purchased[o] = 0
        BY <1>4 DEF Reserve, Reserved, Purchased
    <2>2. -Payable[o] \in Int
        BY <1>2
    <2>3. /\ Payable[o] = (IF "RESERVED" = "RESERVED" THEN Payable[o] ELSE 0) - Reserved[o]
          /\ -Payable[o] + Payable[o] = Purchased[o] - (IF "RESERVED" = "CAPTURED" THEN Payable[o] ELSE 0)
        BY <1>2, <2>1
    <2>4. /\ Post(-Payable[o], Payable[o]) /\ hold' = [hold EXCEPT ![o] = "RESERVED"]
          /\ UNCHANGED <<credited, withdrawal, revenueVars, settings, attempted>>
          /\ orderStatus' \in [Orders -> {"pending_payment", "confirmed", "closed"}]
          /\ paidBy' \in [Orders -> {"none", "gds", "provider"}]
        BY <1>0, <1>4 DEF Reserve, TypeOK
    <2> QED BY <1>2, <2>2, <2>3, <2>4, OrderBooks
<1>5. CASE Release(o)
    <2>1. Reserved[o] = Payable[o] /\ Purchased[o] = 0
        BY <1>5 DEF Release, Reserved, Purchased
    <2>2. -Payable[o] \in Int
        BY <1>2
    <2>3. /\ -Payable[o] = (IF "RELEASED" = "RESERVED" THEN Payable[o] ELSE 0) - Reserved[o]
          /\ Payable[o] + -Payable[o] = Purchased[o] - (IF "RELEASED" = "CAPTURED" THEN Payable[o] ELSE 0)
        BY <1>2, <2>1
    <2>4. /\ Post(Payable[o], -Payable[o]) /\ hold' = [hold EXCEPT ![o] = "RELEASED"]
          /\ UNCHANGED <<credited, withdrawal, revenueVars, settings, attempted>>
          /\ orderStatus' \in [Orders -> {"pending_payment", "confirmed", "closed"}]
          /\ paidBy' \in [Orders -> {"none", "gds", "provider"}]
        BY <1>0, <1>5 DEF Release, TypeOK
    <2> QED BY <1>2, <2>2, <2>3, <2>4, OrderBooks
<1>6. CASE PayOrder(o)
    <2>1. /\ hold' = [hold EXCEPT ![o] = "CAPTURED"]
          /\ UNCHANGED <<credited, withdrawal, revenueVars, settings, attempted>>
          /\ orderStatus' \in [Orders -> {"pending_payment", "confirmed", "closed"}]
          /\ paidBy' \in [Orders -> {"none", "gds", "provider"}]
        BY <1>0, <1>6 DEF PayOrder, TypeOK
    <2>2. Purchased[o] = 0 /\ -Payable[o] \in Int
        BY <1>2, <1>6 DEF PayOrder, Purchased
    <2>3. CASE hold[o] = "RESERVED"
        <3>1. Reserved[o] = Payable[o] /\ Post(0, -Payable[o])
            BY <1>6, <2>3 DEF PayOrder, CapturePosting, Reserved
        <3>2. PICK available \in Int, held \in Int : available = 0 /\ held = -Payable[o]
            BY <1>2, <2>2
        <3>3. Post(available, held)
            BY <3>1, <3>2
        <3>4. /\ held = (IF "CAPTURED" = "RESERVED" THEN Payable[o] ELSE 0) - Reserved[o]
              /\ available + held = Purchased[o] - (IF "CAPTURED" = "CAPTURED" THEN Payable[o] ELSE 0)
            BY <1>2, <2>2, <3>1, <3>2
        <3> QED BY <2>1, <3>3, <3>4, OrderBooks
    <2>4. CASE hold[o] # "RESERVED"
        <3>1. Reserved[o] = 0 /\ Post(-Payable[o], 0)
            BY <1>6, <2>4 DEF PayOrder, CapturePosting, Reserved
        <3>2. PICK available \in Int, held \in Int : available = -Payable[o] /\ held = 0
            BY <1>2, <2>2
        <3>3. Post(available, held)
            BY <3>1, <3>2
        <3>4. /\ held = (IF "CAPTURED" = "RESERVED" THEN Payable[o] ELSE 0) - Reserved[o]
              /\ available + held = Purchased[o] - (IF "CAPTURED" = "CAPTURED" THEN Payable[o] ELSE 0)
            BY <1>2, <2>2, <3>1, <3>2
        <3> QED BY <2>1, <3>3, <3>4, OrderBooks
    <2> QED BY <2>3, <2>4
<1> QED BY <1>1, <1>3, <1>4, <1>5, <1>6

\* The lesser of two numbers.
LEMMA MinOfTwo == \A a, b \in Int : Min({a, b}) = IF a <= b THEN a ELSE b
<1>1. SUFFICES ASSUME NEW a \in Int, NEW b \in Int PROVE Min({a, b}) = IF a <= b THEN a ELSE b
    OBVIOUS
<1>2. \E x \in {a, b} : \A y \in {a, b} : x <= y
    <2>1. a <= b \/ b <= a
        OBVIOUS
    <2> QED BY <2>1
<1>3. Min({a, b}) \in {a, b} /\ \A y \in {a, b} : Min({a, b}) <= y
    BY <1>2 DEF Min
<1> QED BY <1>3

\* A delta moves what is available, less the debt, by itself.
LEMMA AppliedMoves ==
    ASSUME NEW w \in WalletRow, NEW delta \in Int
    PROVE  /\ Applied(w, delta) \in WalletRow /\ Applied(w, delta).held = w.held
           /\ Applied(w, delta).available - Applied(w, delta).debt = w.available - w.debt + delta
<1>1. w.available \in Nat /\ w.debt \in Nat /\ w.held \in Nat
    BY DEF WalletRow
<1>2. PICK debt : debt = IF delta > 0 THEN -Min({delta, w.debt}) ELSE -delta - Min({-delta, w.available})
    OBVIOUS
<1>3. /\ debt \in Int /\ w.available + delta + debt >= 0 /\ w.debt + debt >= 0
    <2>1. CASE delta > 0
        <3>1. Min({delta, w.debt}) = IF delta <= w.debt THEN delta ELSE w.debt
            BY <1>1, MinOfTwo
        <3> QED BY <1>1, <1>2, <2>1, <3>1
    <2>2. CASE ~(delta > 0)
        <3>1. -delta \in Int /\ w.available \in Int
            BY <1>1
        <3>2. Min({-delta, w.available}) = IF -delta <= w.available THEN -delta ELSE w.available
            BY <3>1, MinOfTwo
        <3> QED BY <1>1, <1>2, <2>2, <3>2
    <2> QED BY <2>1, <2>2
<1>4. PICK x \in Nat, y \in Nat : x = w.available + delta + debt /\ y = w.debt + debt
    BY <1>1, <1>3
<1>5. Applied(w, delta) = [w EXCEPT !.available = x, !.debt = y]
    BY <1>2, <1>4 DEF Applied
<1>6. /\ Applied(w, delta) \in WalletRow /\ Applied(w, delta).held = w.held
      /\ Applied(w, delta).available = x /\ Applied(w, delta).debt = y
    BY <1>5 DEF WalletRow
<1> QED BY <1>1, <1>3, <1>4, <1>6

\* What a table of projections says was earned, and what its row of a period should say.
EarnedBy(rows) == [p \in PeriodSet |-> IF rows[p] = None THEN 0 ELSE rows[p].applied]

Settled(rows, p) ==
    /\ rows[p] # None
    /\ rows[p].review \/ rows[p].applied = Share[p] - refunded[p] - rows[p].historical

\* What a wallet has beyond what was earned.
Beyond(tables) ==
    tables.wallet.available - tables.wallet.debt - SumFunction(EarnedBy(tables.projection))

LEMMA EarnedByInt ==
    ASSUME NEW rows \in [PeriodSet -> {None} \cup ProjectionRow]
    PROVE  EarnedBy(rows) \in [PeriodSet -> Int] /\ SumFunction(EarnedBy(rows)) \in Int
<1>1. EarnedBy(rows) \in [PeriodSet -> Int]
    BY DEF EarnedBy, ProjectionRow
<1> QED BY <1>1, PeriodsFinite, TotalInt

\* A row of the ledger, brought up to date.
LEMMA ReconciledRow ==
    ASSUME TypeOK, RefundsWithin, NEW entry \in LedgerRow, NEW p \in PeriodSet
    PROVE  /\ Reconciled(entry, p) \in LedgerRow /\ Reconciled(entry, p).reversed = refunded[p]
           /\ entry.recognized => Reconciled(entry, p).recognized
<1>1. Share[p] \in Nat /\ refunded[p] \in Nat /\ Share[p] - refunded[p] \in Nat
    BY AmountsAssumption DEF TypeOK, RefundsWithin
<1>2. settings.activated \in BOOLEAN
    BY DEF TypeOK
<1> QED BY <1>1, <1>2 DEF Reconciled, LedgerRow

\* Bringing one period up to date pays its owner what the projection gains.
LEMMA SyncedStep ==
    ASSUME TypeOK, RefundsWithin, NEW t \in TablesRow, NEW p \in PeriodSet
    PROVE  /\ Synced(t, p) \in TablesRow /\ Synced(t, p).wallet.held = t.wallet.held
           /\ Beyond(Synced(t, p)) = Beyond(t)
           /\ Settled(Synced(t, p).projection, p)
           /\ \A q \in PeriodSet \ {p} : Synced(t, p).projection[q] = t.projection[q]
<1>1. /\ t.wallet \in WalletRow /\ t.ledger \in [PeriodSet -> LedgerRow]
      /\ t.projection \in [PeriodSet -> {None} \cup ProjectionRow]
    BY DEF TablesRow
<1>2. PICK entry : entry = Reconciled(t.ledger[p], p)
    OBVIOUS
<1>3. entry \in LedgerRow /\ entry.reversed = refunded[p]
    BY <1>1, <1>2, ReconciledRow
<1>4. PICK book : book = [t.ledger EXCEPT ![p] = Reconciled(@, p)]
    OBVIOUS
<1>5. book \in [PeriodSet -> LedgerRow] /\ book[p] = entry
    BY <1>1, <1>2, <1>3, <1>4
<1>6. PICK found : found = t.projection[p]
    OBVIOUS
<1>7. PICK kept : kept = IF found # None THEN found
                         ELSE [applied |-> 0, historical |-> 0, review |-> book[p].historic]
    OBVIOUS
<1>8. kept \in ProjectionRow
    <2>1. CASE found # None
        BY <1>1, <1>6, <1>7, <2>1
    <2>2. CASE found = None
        <3>1. book[p].historic \in BOOLEAN
            BY <1>3, <1>5 DEF LedgerRow
        <3> QED BY <1>7, <2>2, <3>1 DEF ProjectionRow
    <2> QED BY <2>1, <2>2
<1>9. EarnedBy(t.projection)[p] = kept.applied
    <2>1. EarnedBy(t.projection)[p] = IF found = None THEN 0 ELSE found.applied
        BY <1>6 DEF EarnedBy
    <2> QED BY <1>7, <2>1
<1>10. PICK target : target = Net(p, book) - kept.historical
    OBVIOUS
<1>11. target \in Int /\ target = Share[p] - refunded[p] - kept.historical
    <2>1. Share[p] \in Nat /\ refunded[p] \in Nat /\ kept.historical \in Nat
        BY <1>8, AmountsAssumption DEF ProjectionRow, TypeOK
    <2> QED BY <1>3, <1>5, <1>10, <2>1 DEF Net
<1>12. Synced(t, p) = IF kept.review
                      THEN [t EXCEPT !.ledger = book, !.projection[p] = kept]
                      ELSE [wallet |-> Applied(t.wallet, target - kept.applied), ledger |-> book,
                            projection |-> [t.projection EXCEPT ![p] = [kept EXCEPT !.applied = target]]]
    BY <1>4, <1>6, <1>7, <1>10 DEF Synced
<1>13. PICK row, w :
           /\ row = IF kept.review THEN kept ELSE [kept EXCEPT !.applied = target]
           /\ w = IF kept.review THEN t.wallet ELSE Applied(t.wallet, target - kept.applied)
    OBVIOUS
<1>14. PICK rows : rows = [t.projection EXCEPT ![p] = row]
    OBVIOUS
<1>16. row \in ProjectionRow /\ row.review = kept.review /\ row.historical = kept.historical
    BY <1>8, <1>11, <1>13 DEF ProjectionRow
<1>17. kept.applied \in Int
    BY <1>8 DEF ProjectionRow
<1>18. /\ w \in WalletRow /\ w.held = t.wallet.held
       /\ w.available - w.debt = t.wallet.available - t.wallet.debt + row.applied - kept.applied
    <2>0. t.wallet.available \in Nat /\ t.wallet.debt \in Nat
        BY <1>1 DEF WalletRow
    <2>1. CASE kept.review
        BY <1>1, <1>13, <1>17, <2>0, <2>1
    <2>2. CASE ~kept.review
        <3>1. target - kept.applied \in Int
            BY <1>11, <1>17
        <3>2. /\ w \in WalletRow /\ w.held = t.wallet.held
              /\ w.available - w.debt = t.wallet.available - t.wallet.debt + (target - kept.applied)
            BY <1>1, <1>13, <2>2, <3>1, AppliedMoves
        <3>3. row.applied = target
            BY <1>8, <1>13, <2>2 DEF ProjectionRow
        <3> QED BY <1>11, <1>17, <2>0, <3>2, <3>3
    <2> QED BY <2>1, <2>2
<1>19. rows \in [PeriodSet -> {None} \cup ProjectionRow] /\ rows[p] = row
    BY <1>1, <1>14, <1>16
<1>20. row # None
    BY <1>16, NoneAssumption
<1>21. SumFunction(EarnedBy(rows)) = SumFunction(EarnedBy(t.projection)) - kept.applied + row.applied
    <2>1. EarnedBy(rows) = [EarnedBy(t.projection) EXCEPT ![p] = row.applied]
        BY <1>1, <1>14, <1>20 DEF EarnedBy
    <2>2. row.applied \in Int
        BY <1>16 DEF ProjectionRow
    <2>3. EarnedBy(t.projection) \in [PeriodSet -> Int]
        BY <1>1, EarnedByInt
    <2>4. SumFunction([EarnedBy(t.projection) EXCEPT ![p] = row.applied]) =
              SumFunction(EarnedBy(t.projection)) - EarnedBy(t.projection)[p] + row.applied
        BY <2>2, <2>3, PeriodsFinite, TotalChange
    <2> QED BY <1>9, <2>1, <2>4
<1>22. /\ Synced(t, p) \in TablesRow
       /\ Synced(t, p).wallet = w /\ Synced(t, p).projection = rows
    <2>1. CASE kept.review
        <3>1. rows = [t.projection EXCEPT ![p] = kept] /\ w = t.wallet
            BY <1>13, <1>14, <2>1
        <3>2. Synced(t, p) = [t EXCEPT !.ledger = book, !.projection = rows]
            BY <1>12, <2>1, <3>1
        <3> QED BY <1>5, <1>19, <3>1, <3>2 DEF TablesRow
    <2>2. CASE ~kept.review
        <3>1. Synced(t, p) = [wallet |-> w, ledger |-> book, projection |-> rows]
            BY <1>12, <1>13, <1>14, <2>2
        <3> QED BY <1>5, <1>18, <1>19, <3>1 DEF TablesRow
    <2> QED BY <2>1, <2>2
<1>23. Beyond(Synced(t, p)) = Beyond(t)
    <2>1. /\ SumFunction(EarnedBy(t.projection)) \in Int /\ row.applied \in Int
          /\ t.wallet.available \in Nat /\ t.wallet.debt \in Nat
          /\ w.available \in Nat /\ w.debt \in Nat
        BY <1>1, <1>16, <1>18, EarnedByInt DEF ProjectionRow, WalletRow
    <2>2. Beyond(Synced(t, p)) = w.available - w.debt - SumFunction(EarnedBy(rows))
        BY <1>22 DEF Beyond
    <2> QED BY <1>17, <1>18, <1>21, <2>1, <2>2 DEF Beyond
<1>24. Settled(Synced(t, p).projection, p)
    <2>1. ~kept.review => row.applied = target
        BY <1>8, <1>13 DEF ProjectionRow
    <2> QED BY <1>11, <1>22, <1>16, <1>19, <1>20, <2>1 DEF Settled
<1>25. \A q \in PeriodSet \ {p} : Synced(t, p).projection[q] = t.projection[q]
    BY <1>14, <1>22
<1> QED BY <1>18, <1>22, <1>23, <1>24, <1>25

\* What syncOwner has after its first i periods, in terms of what it has before the last.
Stage(f, i) ==
    IF i = 0 THEN Tables
    ELSE IF ledger[Periods[i]].recognized THEN Synced(f[i - 1], Periods[i])
    ELSE f[i - 1]

SyncsUpTo(f, n) == f = [i \in 0 .. n |-> Stage(f, i)]

\* There is such a function, by going up from no period.
LEMMA SyncsExist == \E f : SyncsUpTo(f, Len(Periods))
<1> DEFINE G == {m \in 0 .. Len(Periods) : \E f : SyncsUpTo(f, m)}
<1>1. Len(Periods) \in Nat
    BY PeriodsFinite
<1>2. 0 \in G
    <2>1. PICK f : f = [i \in 0 .. 0 |-> Tables]
        OBVIOUS
    <2>2. \A i \in 0 .. 0 : Stage(f, i) = Tables
        BY DEF Stage
    <2>3. SyncsUpTo(f, 0)
        BY <2>1, <2>2 DEF SyncsUpTo
    <2> QED BY <1>1, <2>3
<1>3. ASSUME NEW m \in G, m < Len(Periods) PROVE m + 1 \in G
    <2>1. PICK f : SyncsUpTo(f, m)
        OBVIOUS
    <2>2. PICK g : g = [i \in 0 .. m + 1 |-> IF i <= m THEN f[i] ELSE Stage(f, m + 1)]
        OBVIOUS
    <2>3. m \in Nat
        BY <1>1
    <2>4. ASSUME NEW i \in 0 .. m + 1 PROVE g[i] = Stage(g, i)
        <3>1. CASE i <= m
            <4>1. g[i] = f[i] /\ f[i] = Stage(f, i)
                BY <2>1, <2>2, <2>3, <3>1 DEF SyncsUpTo
            <4>2. i # 0 => g[i - 1] = f[i - 1]
                BY <2>2, <2>3, <3>1
            <4> QED BY <4>1, <4>2 DEF Stage
        <3>2. CASE ~(i <= m)
            <4>1. i = m + 1 /\ i # 0 /\ i - 1 = m
                BY <2>3, <3>2
            <4>2. g[i] = Stage(f, i) /\ g[i - 1] = f[i - 1]
                BY <2>2, <2>3, <4>1
            <4> QED BY <4>1, <4>2 DEF Stage
        <3> QED BY <3>1, <3>2
    <2>5. SyncsUpTo(g, m + 1)
        <3>1. DOMAIN g = 0 .. m + 1 /\ g = [i \in 0 .. m + 1 |-> g[i]]
            BY <2>2
        <3> QED BY <2>4, <3>1 DEF SyncsUpTo
    <2> QED BY <1>1, <1>3, <2>3, <2>5
<1>4. Len(Periods) \in G
    <2> HIDE DEF G
    <2>1. G \in SUBSET (0 .. Len(Periods))
        BY DEF G
    <2> QED BY <1>1, <1>2, <1>3, <2>1, Climbed
<1> QED BY <1>4

LEMMA SyncChosen == \E f : SyncsUpTo(f, Len(Periods)) /\ SyncOwner = f[Len(Periods)]
<1>1. SyncOwner = (CHOOSE f : SyncsUpTo(f, Len(Periods)))[Len(Periods)]
    BY DEF SyncOwner, SyncsUpTo, Stage
<1>2. PICK f : f = CHOOSE g : SyncsUpTo(g, Len(Periods))
    OBVIOUS
<1>3. SyncsUpTo(f, Len(Periods))
    BY <1>2, SyncsExist
<1> QED BY <1>1, <1>2, <1>3

\* It neither makes nor loses money, and what is recognized is settled.
LEMMA OwnerSynced ==
    ASSUME TypeOK, RefundsWithin
    PROVE  /\ SyncOwner \in TablesRow /\ SyncOwner.wallet.held = wallet.held
           /\ Beyond(SyncOwner) = Beyond(Tables)
           /\ \A p \in PeriodSet : ledger[p].recognized => Settled(SyncOwner.projection, p)
<1> DEFINE Sound(t, i) ==
        /\ t \in TablesRow /\ t.wallet.held = wallet.held /\ Beyond(t) = Beyond(Tables)
        /\ \A j \in 1 .. i : ledger[Periods[j]].recognized => Settled(t.projection, Periods[j])
<1>1. Len(Periods) \in Nat /\ \A i \in 1 .. Len(Periods) : Periods[i] \in PeriodSet
    BY PeriodsFinite DEF PeriodSet
<1>2. PICK f : SyncsUpTo(f, Len(Periods)) /\ SyncOwner = f[Len(Periods)]
    BY SyncChosen
<1>3. \A i \in 0 .. Len(Periods) : f[i] = Stage(f, i)
    <2>1. f = [i \in 0 .. Len(Periods) |-> Stage(f, i)]
        BY <1>2 DEF SyncsUpTo
    <2> HIDE DEF Stage
    <2> QED BY <2>1
<1> DEFINE G == {i \in 0 .. Len(Periods) : Sound(f[i], i)}
<1>4. 0 \in G
    <2>1. f[0] = Tables
        BY <1>1, <1>3 DEF Stage
    <2>2. Tables \in TablesRow /\ Tables.wallet = wallet
        BY DEF Tables, TablesRow, TypeOK, WalletRow, LedgerRow
    <2> QED BY <1>1, <2>1, <2>2
<1>5. ASSUME NEW i \in G, i < Len(Periods) PROVE i + 1 \in G
    <2>1. i \in Nat /\ i + 1 \in 1 .. Len(Periods) /\ (i + 1) - 1 = i
        BY <1>1, <1>5
    <2>2. PICK p \in PeriodSet : p = Periods[i + 1]
        BY <1>1, <2>1
    <2>3. f[i + 1] = IF ledger[p].recognized THEN Synced(f[i], p) ELSE f[i]
        <3>1. f[i + 1] = Stage(f, i + 1)
            BY <1>3, <2>1
        <3> QED BY <2>1, <2>2, <3>1 DEF Stage
    <2>4. Sound(f[i], i)
        BY <1>5
    <2>5. \A j \in 1 .. i + 1 : j \in 1 .. i \/ Periods[j] = p
        BY <2>1, <2>2
    <2>6. \A j \in 1 .. i : Periods[j] \in PeriodSet
        BY <1>1, <2>1
    <2>7. CASE ledger[p].recognized
        <3>1. PICK t, u : t = f[i] /\ u = f[i + 1]
            OBVIOUS
        <3>2. u = Synced(t, p) /\ Sound(t, i)
            BY <2>3, <2>4, <2>7, <3>1
        <3>3. t \in TablesRow
            BY <3>2
        <3>4. /\ u \in TablesRow /\ u.wallet.held = t.wallet.held /\ Beyond(u) = Beyond(t)
              /\ Settled(u.projection, p)
              /\ \A q \in PeriodSet \ {p} : u.projection[q] = t.projection[q]
            BY <3>2, <3>3, SyncedStep
        <3>5. ASSUME NEW q \in PeriodSet, Settled(t.projection, q) PROVE Settled(u.projection, q)
            BY <3>4, <3>5 DEF Settled
        <3>6. \A j \in 1 .. i + 1 : ledger[Periods[j]].recognized => Settled(u.projection, Periods[j])
            BY <2>5, <2>6, <3>2, <3>4, <3>5
        <3>7. Sound(u, i + 1)
            BY <3>2, <3>4, <3>6
        <3> QED BY <2>1, <3>1, <3>7
    <2>8. CASE ~ledger[p].recognized
        <3>1. f[i + 1] = f[i]
            BY <2>3, <2>8
        <3>2. \A j \in 1 .. i + 1 : ledger[Periods[j]].recognized => Settled(f[i].projection, Periods[j])
            BY <2>4, <2>5, <2>8
        <3>3. Sound(f[i + 1], i + 1)
            BY <2>4, <3>1, <3>2
        <3> QED BY <2>1, <3>3
    <2> QED BY <2>7, <2>8
<1>6. Len(Periods) \in G
    <2> HIDE DEF G
    <2>1. G \in SUBSET (0 .. Len(Periods))
        BY DEF G
    <2> QED BY <1>1, <1>4, <1>5, <2>1, Climbed
<1>7. Sound(SyncOwner, Len(Periods))
    BY <1>2, <1>6
<1>8. \A p \in PeriodSet : \E j \in 1 .. Len(Periods) : Periods[j] = p
    BY DEF PeriodSet
<1> QED BY <1>7, <1>8

\* Money that is requested or paid out, from tables brought up to date.
LEMMA TablesBooks ==
    ASSUME BooksIInv, TypeOK', NEW t \in TablesRow, NEW requested \in Int, NEW paid \in Int,
           t.wallet.held = wallet.held, Beyond(t) = Beyond(Tables), projection' = t.projection,
           SumFunction(Requested') = SumFunction(Requested) + requested,
           SumFunction(PaidOut') = SumFunction(PaidOut) + paid,
           wallet'.held = t.wallet.held + requested,
           wallet'.available + requested = t.wallet.available - paid,
           wallet'.debt = t.wallet.debt,
           UNCHANGED <<credited, hold, refunded>>
    PROVE  BooksIInv'
<1> USE DEF BooksIInv, BooksBalance
<1>1. Reserved' = Reserved /\ Purchased' = Purchased /\ ToppedUp' = ToppedUp
    BY DEF Reserved, Purchased, ToppedUp
<1>2. Earned' = EarnedBy(t.projection) /\ Earned = EarnedBy(Tables.projection)
    BY DEF Earned, EarnedBy, Tables
<1>3. /\ wallet.available \in Nat /\ wallet.held \in Nat /\ wallet.debt \in Nat
      /\ wallet'.available \in Nat /\ wallet'.held \in Nat /\ wallet'.debt \in Nat
      /\ t.wallet.available \in Nat /\ t.wallet.debt \in Nat
    BY DEF TypeOK, TablesRow, WalletRow
<1>4. SumFunction(EarnedBy(t.projection)) \in Int
    <2>1. t.projection \in [PeriodSet -> {None} \cup ProjectionRow]
        BY DEF TablesRow
    <2> QED BY <2>1, EarnedByInt
<1>5. t.wallet.available - t.wallet.debt - SumFunction(EarnedBy(t.projection)) =
          wallet.available - wallet.debt - SumFunction(Earned)
    BY <1>2 DEF Beyond, Tables
<1>6. HeldAccountedFor'
    BY <1>1, <1>3, Totals DEF HeldAccountedFor
<1>7. MoneyConserved'
    <2>1. SumFunction(Earned') = SumFunction(EarnedBy(t.projection))
        BY <1>2
    <2>2. wallet'.available + wallet'.held - wallet'.debt =
              (t.wallet.available - t.wallet.debt) + wallet.held - paid
        BY <1>3
    <2>3. t.wallet.available - t.wallet.debt =
              wallet.available - wallet.debt + SumFunction(Earned') - SumFunction(Earned)
        BY <1>3, <1>4, <1>5, <2>1, Totals
    <2>4. wallet.available + wallet.held - wallet.debt =
              SumFunction(ToppedUp) + SumFunction(Earned) - SumFunction(Purchased) - SumFunction(PaidOut)
        BY DEF MoneyConserved
    <2>5. SumFunction(Earned') \in Int
        BY <1>4, <2>1
    <2>6. wallet'.available + wallet'.held - wallet'.debt =
              SumFunction(ToppedUp) + SumFunction(Earned') - SumFunction(Purchased)
                - (SumFunction(PaidOut) + paid)
        <3>1. PICK in \in Int, gain \in Int, before \in Int, spent \in Int, out \in Int :
                  /\ in = SumFunction(ToppedUp) /\ gain = SumFunction(Earned')
                  /\ before = SumFunction(Earned) /\ spent = SumFunction(Purchased)
                  /\ out = SumFunction(PaidOut)
            BY <2>5, Totals
        <3>2. PICK x \in Int, h \in Int, y \in Int :
                  /\ x = t.wallet.available - t.wallet.debt /\ h = wallet.held
                  /\ y = wallet.available - wallet.debt
            BY <1>3
        <3>3. x = y + gain - before
            BY <2>3, <3>1, <3>2
        <3>4. y + h = in + before - spent - out
            BY <1>3, <2>4, <3>1, <3>2
        <3>5. x + h - paid = in + gain - spent - (out + paid)
            BY <3>3, <3>4
        <3> QED BY <2>2, <3>1, <3>2, <3>5
    <2> QED BY <1>1, <2>6 DEF MoneyConserved
<1>8. RefundsWithin'
    BY DEF RefundsWithin
<1> QED BY <1>6, <1>7, <1>8

LEMMA RevenueBooksStep ==
    ASSUME BooksIInv, RevenueNext
    PROVE  BooksIInv'
<1>0. TypeOK /\ RefundsWithin
    BY DEF BooksIInv, BooksBalance
<1>1. ASSUME NEW admission \in BOOLEAN, NEW processing \in BOOLEAN, UpdateSettings(admission, processing)
      PROVE  BooksIInv'
    <2>1. UNCHANGED <<wallet, credited, hold, withdrawal, refunded>> /\ Earned' = Earned
        BY <1>1 DEF UpdateSettings, orderVars, revenueVars, Earned
    <2>2. settings' \in [admission : BOOLEAN, processing : BOOLEAN, activated : BOOLEAN]
        <3>1. settings.activated \in BOOLEAN
            BY <1>0 DEF TypeOK
        <3>2. (settings.activated \/ processing) \in BOOLEAN
            BY <3>1
        <3> QED BY <1>1, <3>2 DEF UpdateSettings
    <2>3. TypeOK'
        BY <1>0, <1>1, <2>2 DEF TypeOK, UpdateSettings, orderVars, revenueVars
    <2> QED BY <1>0, <2>1, <2>3, BooksUntouched DEF RefundsWithin
<1>2. ASSUME NEW p \in PeriodSet, DuePasses(p) PROVE BooksIInv'
    <2>1. UNCHANGED <<wallet, credited, hold, withdrawal, refunded>> /\ Earned' = Earned
        BY <1>2 DEF DuePasses, orderVars, Earned
    <2>2. TypeOK'
        BY <1>0, <1>2 DEF TypeOK, DuePasses, orderVars
    <2> QED BY <1>0, <2>1, <2>2, BooksUntouched DEF RefundsWithin
<1>3. ASSUME NEW p \in PeriodSet, NEW x \in 1 .. Share[p], RefundRecorded(p, x) PROVE BooksIInv'
    <2>1. x \in Nat /\ refunded \in [PeriodSet -> Nat]
        BY <1>0, AmountsAssumption DEF TypeOK
    <2>2. UNCHANGED <<wallet, credited, hold, withdrawal>> /\ Earned' = Earned
        BY <1>3 DEF RefundRecorded, orderVars, Earned
    <2>3. refunded' = [refunded EXCEPT ![p] = x] /\ x <= Share[p]
        BY <1>3 DEF RefundRecorded
    <2>4. refunded' \in [PeriodSet -> Nat] /\ \A q \in PeriodSet : refunded'[q] <= Share[q]
        BY <1>0, <2>1, <2>3 DEF RefundsWithin
    <2>5. TypeOK'
        BY <1>0, <1>3, <2>4 DEF TypeOK, RefundRecorded, orderVars
    <2> QED BY <2>2, <2>4, <2>5, BooksUntouched
<1>4. ASSUME NEW p \in PeriodSet, RecognizeRevenue(p) PROVE BooksIInv'
    <2>1. UNCHANGED <<wallet, credited, hold, withdrawal, refunded>> /\ Earned' = Earned
        BY <1>4 DEF RecognizeRevenue, orderVars, Earned
    <2>2. ledger' \in [PeriodSet -> LedgerRow]
        <3>1. ledger \in [PeriodSet -> LedgerRow]
            BY <1>0 DEF TypeOK, LedgerRow
        <3>2. Reconciled(ledger[p], p) \in LedgerRow
            BY <1>0, <3>1, ReconciledRow
        <3>3. ledger' = [ledger EXCEPT ![p] = Reconciled(ledger[p], p)]
            BY <1>4 DEF RecognizeRevenue
        <3> QED BY <3>1, <3>2, <3>3
    <2>3. TypeOK'
        BY <1>0, <1>4, <2>2 DEF TypeOK, LedgerRow, RecognizeRevenue, orderVars
    <2> QED BY <1>0, <2>1, <2>3, BooksUntouched DEF RefundsWithin
<1>5. ASSUME NEW p \in PeriodSet, SyncPeriod(p) PROVE BooksIInv'
    <2>1. Tables \in TablesRow /\ Tables.wallet = wallet
        BY <1>0 DEF Tables, TablesRow, TypeOK, WalletRow, LedgerRow
    <2>2. PICK t : t = Synced(Tables, p)
        OBVIOUS
    <2>3. /\ t \in TablesRow /\ t.wallet.held = wallet.held /\ Beyond(t) = Beyond(Tables)
        BY <1>0, <2>1, <2>2, SyncedStep
    <2>4. /\ wallet' = t.wallet /\ ledger' = t.ledger /\ projection' = t.projection
          /\ UNCHANGED <<credited, orderVars, settings, withdrawal, due, refunded>>
        BY <1>5, <2>2 DEF SyncPeriod
    <2>5. TypeOK'
        BY <1>0, <2>3, <2>4 DEF TypeOK, TablesRow, WalletRow, LedgerRow, orderVars
    <2>6. Requested' = Requested /\ PaidOut' = PaidOut
        BY <2>4 DEF Requested, PaidOut, Underway, InStatus
    <2>7. /\ SumFunction(Requested') = SumFunction(Requested) + 0
          /\ SumFunction(PaidOut') = SumFunction(PaidOut) + 0
        BY <1>0, <2>6, Totals
    <2>8. /\ wallet'.held = t.wallet.held + 0 /\ wallet'.available + 0 = t.wallet.available - 0
          /\ wallet'.debt = t.wallet.debt
        BY <2>3, <2>4 DEF TablesRow, WalletRow
    <2>9. UNCHANGED <<credited, hold, refunded>>
        BY <2>4 DEF orderVars
    <2>10. PICK zero \in Int : zero = 0
        OBVIOUS
    <2>11. /\ SumFunction(Requested') = SumFunction(Requested) + zero
           /\ SumFunction(PaidOut') = SumFunction(PaidOut) + zero
           /\ wallet'.held = t.wallet.held + zero /\ wallet'.available + zero = t.wallet.available - zero
        BY <2>7, <2>8, <2>10
    <2> QED BY <2>3, <2>4, <2>5, <2>8, <2>9, <2>11, TablesBooks
<1>6. ASSUME NEW p \in PeriodSet, NEW a \in Admins, NEW paid \in 0 .. Share[p], ApproveReview(a, p, paid)
      PROVE  BooksIInv'
    <2>1. paid \in Nat
        BY AmountsAssumption
    <2>2. PICK row : row = [projection[p] EXCEPT !.review = FALSE, !.historical = paid]
        OBVIOUS
    <2>3. projection[p] \in ProjectionRow
        BY <1>0, <1>6 DEF ApproveReview, TypeOK
    <2>4. row \in ProjectionRow /\ row.applied = projection[p].applied
        BY <2>1, <2>2, <2>3 DEF ProjectionRow
    <2>5. projection' = [projection EXCEPT ![p] = row]
        BY <1>6, <2>2 DEF ApproveReview
    <2>6. row # None /\ projection[p] # None
        BY <2>3, <2>4, NoneAssumption
    <2>7. projection' \in [PeriodSet -> {None} \cup ProjectionRow] /\ Earned' = Earned
        BY <1>0, <2>4, <2>5, <2>6 DEF TypeOK, Earned
    <2>8. UNCHANGED <<wallet, credited, hold, withdrawal, refunded>>
        BY <1>6 DEF ApproveReview, orderVars
    <2>9. TypeOK'
        BY <1>0, <1>6, <2>7 DEF TypeOK, ApproveReview, orderVars
    <2> QED BY <1>0, <2>7, <2>8, <2>9, BooksUntouched DEF RefundsWithin
<1>7. RevenueNext
    OBVIOUS
<1> QED BY <1>1, <1>2, <1>3, <1>4, <1>5, <1>6, <1>7 DEF RevenueNext

UnderwayStatuses == {"PENDING", "APPROVED", "PROCESSING"}

\* A withdrawal that changes, changes what is requested and what is paid out.
LEMMA WithdrawalTotals ==
    ASSUME TypeOK, NEW w \in Withdrawals, NEW row \in WithdrawalRow,
           withdrawal' = [withdrawal EXCEPT ![w] = row]
    PROVE  /\ withdrawal' \in [Withdrawals -> {None} \cup WithdrawalRow]
           /\ SumFunction(Requested') = SumFunction(Requested) - Requested[w]
                  + (IF row.status \in UnderwayStatuses THEN row.amount ELSE 0)
           /\ SumFunction(PaidOut') = SumFunction(PaidOut) - PaidOut[w]
                  + (IF row.status = "PAID" THEN row.amount ELSE 0)
<1>1. withdrawal \in [Withdrawals -> {None} \cup WithdrawalRow]
    BY DEF TypeOK
<1>2. row # None /\ row.amount \in Int
    BY NoneAssumption DEF WithdrawalRow
<1>3. PICK x \in Int, y \in Int :
          /\ x = IF row.status \in UnderwayStatuses THEN row.amount ELSE 0
          /\ y = IF row.status = "PAID" THEN row.amount ELSE 0
    BY <1>2
<1>4. Requested' = [Requested EXCEPT ![w] = x]
    BY <1>1, <1>2, <1>3 DEF Requested, Underway, InStatus, UnderwayStatuses
<1>5. PaidOut' = [PaidOut EXCEPT ![w] = y]
    BY <1>1, <1>2, <1>3 DEF PaidOut, InStatus
<1>6. /\ IsFiniteSet(Withdrawals)
      /\ Requested \in [Withdrawals -> Int] /\ PaidOut \in [Withdrawals -> Int]
    BY Summands, AmountsAssumption
<1>7. /\ SumFunction([Requested EXCEPT ![w] = x]) = SumFunction(Requested) - Requested[w] + x
      /\ SumFunction([PaidOut EXCEPT ![w] = y]) = SumFunction(PaidOut) - PaidOut[w] + y
    BY <1>6, TotalChange
<1> QED BY <1>1, <1>3, <1>4, <1>5, <1>7

\* A withdrawal in a status is a row with it.
LEMMA StatusRow ==
    ASSUME TypeOK, NEW w \in Withdrawals, NEW statuses, InStatus(w, statuses)
    PROVE  withdrawal[w] \in WithdrawalRow /\ withdrawal[w].status \in statuses
BY DEF TypeOK, InStatus

\* The claim takes the owner's wallet up to date and leaves the request reserved.
LEMMA ClaimBooks ==
    ASSUME BooksIInv, NEW a \in Admins, NEW w \in Withdrawals,
           InStatus(w, {"PENDING", "APPROVED"}), Claim(a, w)
    PROVE  BooksIInv'
<1>0. TypeOK /\ RefundsWithin
    BY DEF BooksIInv, BooksBalance
<1>1. withdrawal[w] \in WithdrawalRow /\ withdrawal[w].status \in {"PENDING", "APPROVED"}
    BY <1>0, StatusRow
<1>2. PICK row : row = [withdrawal[w] EXCEPT !.status = "PROCESSING", !.admin = a]
    OBVIOUS
<1>3. /\ row \in WithdrawalRow /\ row.status = "PROCESSING" /\ row.amount = withdrawal[w].amount
    BY <1>1, <1>2 DEF WithdrawalRow
<1>4. withdrawal' = [withdrawal EXCEPT ![w] = row]
    BY <1>2 DEF Claim
<1>5. PICK t : t = SyncOwner
    OBVIOUS
<1>6. t \in TablesRow /\ t.wallet.held = wallet.held /\ Beyond(t) = Beyond(Tables)
    BY <1>0, <1>5, OwnerSynced
<1>7. /\ wallet' = t.wallet /\ ledger' = t.ledger /\ projection' = t.projection
      /\ UNCHANGED <<credited, orderVars, settings, due, refunded>>
    BY <1>5 DEF Claim, AfterSync
<1>8. row.amount \in Int
    BY <1>3 DEF WithdrawalRow
<1>9. Requested[w] = row.amount /\ PaidOut[w] = 0
    BY <1>1, <1>3, NoneAssumption DEF Requested, PaidOut, Underway, InStatus
<1>10. /\ withdrawal' \in [Withdrawals -> {None} \cup WithdrawalRow]
       /\ SumFunction(Requested') = SumFunction(Requested) - row.amount + row.amount
       /\ SumFunction(PaidOut') = SumFunction(PaidOut) - 0 + 0
    BY <1>0, <1>3, <1>4, <1>9, WithdrawalTotals DEF UnderwayStatuses
<1>11. TypeOK'
    BY <1>0, <1>6, <1>7, <1>10 DEF TypeOK, TablesRow, WalletRow, LedgerRow, orderVars
<1>12. PICK zero \in Int : zero = 0
    OBVIOUS
<1>13. /\ SumFunction(Requested') = SumFunction(Requested) + zero
       /\ SumFunction(PaidOut') = SumFunction(PaidOut) + zero
    BY <1>0, <1>8, <1>10, <1>12, Totals
<1>14. /\ wallet'.held = t.wallet.held + zero /\ wallet'.available + zero = t.wallet.available - zero
       /\ wallet'.debt = t.wallet.debt
    BY <1>6, <1>7, <1>12 DEF TablesRow, WalletRow
<1>15. UNCHANGED <<credited, hold, refunded>>
    BY <1>7 DEF orderVars
<1> QED BY <1>6, <1>7, <1>11, <1>13, <1>14, <1>15, TablesBooks

\* The last status of a withdrawal that is under way.
LEMMA FinishBooks ==
    ASSUME BooksIInv, NEW w \in Withdrawals, InStatus(w, UnderwayStatuses),
           NEW status \in Closed, Finish(w, status)
    PROVE  BooksIInv'
<1>0. TypeOK /\ RefundsWithin
    BY DEF BooksIInv, BooksBalance
<1>1. withdrawal[w] \in WithdrawalRow /\ withdrawal[w].status \in UnderwayStatuses
    BY <1>0, StatusRow
<1>2. PICK row : row = [withdrawal[w] EXCEPT !.status = status]
    OBVIOUS
<1>3. row \in WithdrawalRow /\ row.status = status /\ row.amount = withdrawal[w].amount
    BY <1>1, <1>2 DEF WithdrawalRow
<1>4. withdrawal' = [withdrawal EXCEPT ![w] = row]
    BY <1>2 DEF Finish
<1>5. PICK amount \in Int : amount = row.amount
    BY <1>3 DEF WithdrawalRow
<1>6. Requested[w] = amount /\ PaidOut[w] = 0
    BY <1>1, <1>3, <1>5, NoneAssumption DEF Requested, PaidOut, Underway, InStatus, UnderwayStatuses
<1>7. PICK paid \in Int, requested \in Int :
          paid = (IF status = "PAID" THEN amount ELSE 0) /\ requested = 0 - amount
    BY <1>5
<1>8. row.status \notin UnderwayStatuses
    BY <1>3 DEF Closed, UnderwayStatuses
<1>9. /\ withdrawal' \in [Withdrawals -> {None} \cup WithdrawalRow]
      /\ SumFunction(Requested') = SumFunction(Requested) - amount + 0
      /\ SumFunction(PaidOut') = SumFunction(PaidOut) - 0 + paid
    BY <1>0, <1>3, <1>4, <1>5, <1>6, <1>7, <1>8, WithdrawalTotals
<1>10. /\ SumFunction(Requested') = SumFunction(Requested) + requested
       /\ SumFunction(PaidOut') = SumFunction(PaidOut) + paid
    BY <1>0, <1>7, <1>9, Totals
<1>11. PICK back \in Int, gone \in Int :
           back = (IF status = "PAID" THEN 0 ELSE amount) /\ gone = -amount /\ Post(back, gone)
    BY <1>3, <1>5 DEF Finish
<1>12. wallet \in WalletRow
    BY <1>0 DEF TypeOK, WalletRow
<1>13. /\ wallet' \in WalletRow /\ wallet'.available = wallet.available + back
       /\ wallet'.held = wallet.held + gone /\ wallet'.debt = wallet.debt
    BY <1>11, <1>12, Posted DEF Post
<1>14. Tables \in TablesRow /\ Tables.wallet = wallet /\ Tables.projection = projection
    BY <1>0 DEF Tables, TablesRow, TypeOK, WalletRow, LedgerRow
<1>15. wallet.available \in Int /\ wallet.held \in Int
    BY <1>12 DEF WalletRow
<1>16. wallet'.held = wallet.held + requested /\ wallet'.available + requested = wallet.available - paid
    BY <1>7, <1>11, <1>13, <1>15
<1>17. UNCHANGED <<credited, orderVars, settings, revenueVars>>
    BY DEF Finish
<1>18. TypeOK'
    BY <1>0, <1>9, <1>13, <1>17 DEF TypeOK, WalletRow, orderVars, revenueVars
<1>19. UNCHANGED <<credited, hold, refunded>> /\ projection' = projection
    BY <1>17 DEF orderVars, revenueVars
<1>20. PICK t : t = Tables
    OBVIOUS
<1> QED BY <1>10, <1>13, <1>14, <1>16, <1>18, <1>19, <1>20, TablesBooks

\* A request reserves its amount in the wallet brought up to date.
LEMMA CreateBooks ==
    ASSUME BooksIInv, NEW w \in Withdrawals, NEW amount \in Limits, CreateWithdrawal(w, amount)
    PROVE  BooksIInv'
<1>0. TypeOK /\ RefundsWithin
    BY DEF BooksIInv, BooksBalance
<1>1. amount \in Nat
    BY AmountsAssumption
<1>2. PICK row : row = [status |-> "PENDING", amount |-> amount, admin |-> None]
    OBVIOUS
<1>3. row \in WithdrawalRow /\ row.status = "PENDING" /\ row.amount = amount
    BY <1>1, <1>2 DEF WithdrawalRow
<1>4. withdrawal' = [withdrawal EXCEPT ![w] = row] /\ withdrawal[w] = None
    BY <1>2 DEF CreateWithdrawal
<1>5. PICK t : t = SyncOwner
    OBVIOUS
<1>6. t \in TablesRow /\ t.wallet.held = wallet.held /\ Beyond(t) = Beyond(Tables)
    BY <1>0, <1>5, OwnerSynced
<1>7. PICK requested \in Int, taken \in Int, zero \in Int :
          requested = amount /\ taken = -amount /\ zero = 0
    BY <1>1
<1>8. /\ PostTo(t.wallet, taken, requested) /\ ledger' = t.ledger /\ projection' = t.projection
      /\ UNCHANGED <<credited, orderVars, settings, due, refunded>>
    BY <1>5, <1>7 DEF CreateWithdrawal, AfterSync
<1>9. t.wallet \in WalletRow
    BY <1>6 DEF TablesRow
<1>10. /\ wallet' \in WalletRow /\ wallet'.available = t.wallet.available + taken
       /\ wallet'.held = t.wallet.held + requested /\ wallet'.debt = t.wallet.debt
    BY <1>8, <1>9, Posted
<1>11. Requested[w] = 0 /\ PaidOut[w] = 0
    BY <1>4 DEF Requested, PaidOut, Underway, InStatus
<1>12. /\ withdrawal' \in [Withdrawals -> {None} \cup WithdrawalRow]
       /\ SumFunction(Requested') = SumFunction(Requested) - 0 + amount
       /\ SumFunction(PaidOut') = SumFunction(PaidOut) - 0 + 0
    BY <1>0, <1>3, <1>4, <1>11, WithdrawalTotals DEF UnderwayStatuses
<1>13. /\ SumFunction(Requested') = SumFunction(Requested) + requested
       /\ SumFunction(PaidOut') = SumFunction(PaidOut) + zero
    BY <1>0, <1>1, <1>7, <1>12, Totals
<1>14. t.wallet.available \in Int
    BY <1>9 DEF WalletRow
<1>15. wallet'.available + requested = t.wallet.available - zero
    BY <1>1, <1>7, <1>10, <1>14
<1>16. TypeOK'
    BY <1>0, <1>6, <1>8, <1>10, <1>12 DEF TypeOK, TablesRow, WalletRow, LedgerRow, orderVars
<1>17. UNCHANGED <<credited, hold, refunded>>
    BY <1>8 DEF orderVars
<1> QED BY <1>6, <1>8, <1>10, <1>13, <1>15, <1>16, <1>17, TablesBooks

LEMMA ApproveBooks ==
    ASSUME BooksIInv, NEW a \in Admins, NEW w \in Withdrawals, Approve(a, w)
    PROVE  BooksIInv'
<1>0. TypeOK /\ RefundsWithin
    BY DEF BooksIInv, BooksBalance
<1>1. withdrawal[w] \in WithdrawalRow /\ withdrawal[w].status \in {"PENDING"}
    BY <1>0, StatusRow DEF Approve
<1>2. PICK row : row = [withdrawal[w] EXCEPT !.status = "APPROVED"]
    OBVIOUS
<1>3. row \in WithdrawalRow /\ row.status = "APPROVED" /\ row.amount = withdrawal[w].amount
    BY <1>1, <1>2 DEF WithdrawalRow
<1>4. withdrawal' = [withdrawal EXCEPT ![w] = row]
    BY <1>2 DEF Approve
<1>5. row.amount \in Int
    BY <1>3 DEF WithdrawalRow
<1>6. Requested[w] = row.amount /\ PaidOut[w] = 0
    BY <1>1, <1>3, NoneAssumption DEF Requested, PaidOut, Underway, InStatus
<1>7. /\ withdrawal' \in [Withdrawals -> {None} \cup WithdrawalRow]
      /\ SumFunction(Requested') = SumFunction(Requested) - row.amount + row.amount
      /\ SumFunction(PaidOut') = SumFunction(PaidOut) - 0 + 0
    BY <1>0, <1>3, <1>4, <1>6, WithdrawalTotals DEF UnderwayStatuses
<1>8. UNCHANGED <<wallet, credited, orderVars, settings, revenueVars>>
    BY DEF Approve
<1>9. PICK zero \in Int : zero = 0
    OBVIOUS
<1>10. /\ SumFunction(Requested') = SumFunction(Requested) + zero
       /\ SumFunction(PaidOut') = SumFunction(PaidOut) + zero
    BY <1>0, <1>5, <1>7, <1>9, Totals
<1>11. TypeOK'
    BY <1>0, <1>7, <1>8 DEF TypeOK, orderVars, revenueVars
<1>12. Tables \in TablesRow /\ Tables.wallet = wallet /\ Tables.projection = projection
    BY <1>0 DEF Tables, TablesRow, TypeOK, WalletRow, LedgerRow
<1>13. /\ wallet'.held = wallet.held + zero /\ wallet'.available + zero = wallet.available - zero
       /\ wallet'.debt = wallet.debt
    BY <1>0, <1>8, <1>9 DEF TypeOK
<1>14. UNCHANGED <<credited, hold, refunded>> /\ projection' = projection
    BY <1>8 DEF orderVars, revenueVars
<1>15. PICK t : t = Tables
    OBVIOUS
<1> QED BY <1>10, <1>11, <1>12, <1>13, <1>14, <1>15, TablesBooks

LEMMA WithdrawalBooksStep ==
    ASSUME BooksIInv, WithdrawalNext
    PROVE  BooksIInv'
<1>0. PICK w \in Withdrawals :
          \/ \E amount \in Limits : CreateWithdrawal(w, amount)
          \/ Cancel(w)
          \/ \E a \in Admins :
              \/ ConfirmRecipient(a, w) \/ Process(a, w)
              \/ Approve(a, w) \/ RejectWithdrawal(a, w)
              \/ \E status \in {"PAID", "FAILED"} : Transferred(a, w, status)
    BY DEF WithdrawalNext
<1>1. CASE \E amount \in Limits : CreateWithdrawal(w, amount)
    BY <1>1, CreateBooks
<1>2. CASE Cancel(w)
    <2>1. InStatus(w, UnderwayStatuses) /\ Finish(w, "CANCELLED") /\ "CANCELLED" \in Closed
        BY <1>2 DEF Cancel, InStatus, UnderwayStatuses, Closed
    <2> QED BY <2>1, FinishBooks
<1>3. ASSUME NEW a \in Admins, ConfirmRecipient(a, w) \/ Process(a, w) PROVE BooksIInv'
    <2>1. InStatus(w, {"PENDING", "APPROVED"}) /\ Claim(a, w)
        BY <1>3 DEF ConfirmRecipient, Process, InStatus
    <2> QED BY <2>1, ClaimBooks
<1>4. ASSUME NEW a \in Admins, Approve(a, w) PROVE BooksIInv'
    BY <1>4, ApproveBooks
<1>5. ASSUME NEW a \in Admins, RejectWithdrawal(a, w) PROVE BooksIInv'
    <2>1. InStatus(w, UnderwayStatuses) /\ Finish(w, "REJECTED") /\ "REJECTED" \in Closed
        BY <1>5 DEF RejectWithdrawal, InStatus, UnderwayStatuses, Closed
    <2> QED BY <2>1, FinishBooks
<1>6. ASSUME NEW a \in Admins, NEW status \in {"PAID", "FAILED"}, Transferred(a, w, status)
      PROVE  BooksIInv'
    <2>1. InStatus(w, UnderwayStatuses) /\ Finish(w, status) /\ status \in Closed
        BY <1>6 DEF Transferred, InStatus, UnderwayStatuses, Closed
    <2> QED BY <2>1, FinishBooks
<1> QED BY <1>0, <1>1, <1>2, <1>3, <1>4, <1>5, <1>6

LEMMA BooksStep == BooksIInv /\ [Next]_vars => BooksIInv'
<1> SUFFICES ASSUME BooksIInv, [Next]_vars PROVE BooksIInv'
    OBVIOUS
<1>1. CASE \E t \in Topups : Credit(t)
    BY <1>1, CreditStep
<1>2. CASE OrderNext
    BY <1>2, OrderBooksStep
<1>3. CASE RevenueNext
    BY <1>3, RevenueBooksStep
<1>4. CASE WithdrawalNext
    BY <1>4, WithdrawalBooksStep
<1>5. CASE UNCHANGED vars
    <2>1. TypeOK /\ RefundsWithin
        BY DEF BooksIInv, BooksBalance
    <2>2. UNCHANGED <<wallet, credited, hold, withdrawal, refunded>> /\ Earned' = Earned
        BY <1>5 DEF vars, Earned
    <2>3. TypeOK'
        BY <1>5, <2>1 DEF TypeOK, vars
    <2> QED BY <2>1, <2>2, <2>3, BooksUntouched DEF RefundsWithin
<1> QED BY <1>1, <1>2, <1>3, <1>4, <1>5 DEF Next

\* Whatever top-ups, orders, earnings, refunds and withdrawals there are, the wallet holds what it
\* reserved, and what it has is what came in less what went out.
THEOREM BooksBalanceHolds == Spec => []BooksBalance
<1>1. BooksIInv => BooksBalance
    BY DEF BooksIInv
<1> QED BY BooksInitInvariant, BooksStep, <1>1, PTL DEF Spec

\* Only the claim moves a withdrawal to PROCESSING.
LEMMA ClaimedByClaim ==
    ASSUME BooksIInv, [Next]_vars, NEW w \in Withdrawals, ~Claimed(w), Claimed(w)'
    PROVE  \E a \in Admins, v \in Withdrawals : Claim(a, v)
<1>0. TypeOK
    BY DEF BooksIInv, BooksBalance
<1>1. withdrawal'[w] # withdrawal[w] /\ withdrawal'[w] # None /\ withdrawal'[w].status = "PROCESSING"
    BY DEF Claimed, InStatus
<1>2. WithdrawalNext
    <2>1. CASE \E t \in Topups : Credit(t)
        BY <1>1, <2>1 DEF Credit
    <2>2. CASE OrderNext
        BY <1>1, <2>2 DEF OrderNext, PrepareRequest, ProviderConfirms, CloseOrder, Reserve, Release, PayOrder
    <2>3. CASE RevenueNext
        BY <1>1, <2>3 DEF RevenueNext, UpdateSettings, DuePasses, RecognizeRevenue, SyncPeriod,
                          RefundRecorded, ApproveReview
    <2>4. CASE UNCHANGED vars
        BY <1>1, <2>4 DEF vars
    <2> QED BY <2>1, <2>2, <2>3, <2>4 DEF Next
<1>3. PICK v \in Withdrawals :
          \/ \E amount \in Limits : CreateWithdrawal(v, amount)
          \/ Cancel(v)
          \/ \E a \in Admins :
              \/ ConfirmRecipient(a, v) \/ Process(a, v)
              \/ Approve(a, v) \/ RejectWithdrawal(a, v)
              \/ \E status \in {"PAID", "FAILED"} : Transferred(a, v, status)
    BY <1>2 DEF WithdrawalNext
<1>4. ASSUME NEW amount \in Limits, CreateWithdrawal(v, amount) PROVE FALSE
    BY <1>0, <1>1, <1>4 DEF CreateWithdrawal, TypeOK
<1>5. ASSUME NEW status \in Closed, InStatus(v, UnderwayStatuses), Finish(v, status) PROVE FALSE
    <2>1. withdrawal' = [withdrawal EXCEPT ![v].status = status]
        BY <1>5 DEF Finish
    <2>2. withdrawal[v] \in WithdrawalRow /\ status # "PROCESSING"
        BY <1>0, <1>5, StatusRow DEF Closed
    <2>3. w = v
        BY <1>0, <1>1, <2>1 DEF TypeOK
    <2>4. withdrawal'[v] = [withdrawal[v] EXCEPT !.status = status]
        BY <1>0, <2>1 DEF TypeOK
    <2>5. withdrawal'[v].status = status
        BY <2>2, <2>4 DEF WithdrawalRow
    <2> QED BY <1>1, <2>2, <2>3, <2>5
<1>6. ASSUME NEW a \in Admins, Approve(a, v) PROVE FALSE
    <2>1. withdrawal' = [withdrawal EXCEPT ![v].status = "APPROVED"]
        BY <1>6 DEF Approve
    <2>2. withdrawal[v] \in WithdrawalRow
        BY <1>0, <1>6, StatusRow DEF Approve
    <2>3. w = v
        BY <1>0, <1>1, <2>1 DEF TypeOK
    <2>4. withdrawal'[v] = [withdrawal[v] EXCEPT !.status = "APPROVED"]
        BY <1>0, <2>1 DEF TypeOK
    <2>5. withdrawal'[v].status = "APPROVED"
        BY <2>2, <2>4 DEF WithdrawalRow
    <2> QED BY <1>1, <2>3, <2>5
<1>7. ~Cancel(v)
    BY <1>5 DEF Cancel, InStatus, UnderwayStatuses, Closed
<1>8. \A a \in Admins : ~RejectWithdrawal(a, v)
    BY <1>5 DEF RejectWithdrawal, InStatus, UnderwayStatuses, Closed
<1>9. \A a \in Admins, status \in {"PAID", "FAILED"} : ~Transferred(a, v, status)
    BY <1>5 DEF Transferred, InStatus, UnderwayStatuses, Closed
<1> QED BY <1>3, <1>4, <1>6, <1>7, <1>8, <1>9 DEF ConfirmRecipient, Process

LEMMA ClaimAfterRefundsStep ==
    ASSUME BooksIInv, [Next]_vars, NEW w \in Withdrawals, ~Claimed(w), Claimed(w)'
    PROVE  /\ wallet'.debt = 0
           /\ \A p \in PeriodSet : ledger[p].recognized =>
                  /\ projection'[p] # None
                  /\ projection'[p].review \/
                     projection'[p].applied = Share[p] - refunded[p] - projection'[p].historical
<1>1. PICK a \in Admins, v \in Withdrawals : Claim(a, v)
    BY ClaimedByClaim
<1>2. TypeOK /\ RefundsWithin
    BY DEF BooksIInv, BooksBalance
<1>3. wallet'.debt = 0 /\ projection' = SyncOwner.projection
    BY <1>1 DEF Claim, AfterSync
<1>4. \A p \in PeriodSet : ledger[p].recognized => Settled(SyncOwner.projection, p)
    BY <1>2, OwnerSynced
<1> QED BY <1>3, <1>4 DEF Settled

\* No transfer starts before every refund of the owner's reviewed earnings is taken back and the
\* debt it may have left is repaid, for any periods and any refunds meanwhile.
THEOREM ClaimAfterRefundsHolds == Spec => ClaimAfterRefunds
<1>1. BooksIInv /\ [Next]_vars =>
          [\A w \in Withdrawals : ~Claimed(w) /\ Claimed(w)' =>
              /\ wallet'.debt = 0
              /\ \A p \in PeriodSet : ledger[p].recognized =>
                     /\ projection'[p] # None
                     /\ projection'[p].review \/
                        projection'[p].applied = Share[p] - refunded[p] - projection'[p].historical]_vars
    BY ClaimAfterRefundsStep
<1> QED BY BooksInitInvariant, BooksStep, <1>1, PTL DEF Spec, ClaimAfterRefunds

-----------------------------------------------------------------------------
(* Memberships: the inductive invariant                                     *)

\* Dates are numbers, and usage is counted per grant and window.
MemberTypes ==
    /\ intent \in [MemberOrders ->
           [status : {"none", "pending", "confirmed", "closed"}, offer : Offers \cup {<<>>},
            action : {"none", "purchase", "renew", "upgrade", "downgrade"},
            starts : Nat, ends : Nat, grace : Nat \cup {NoMonth}]]
    /\ selling \in [Plans -> Nat]
    /\ \A p \in Plans : <<p, selling[p]>> \in Offers
    /\ term \in [MemberOrders -> [Kinds -> {"none", "active", "cancelled"}]]
    /\ open \in [MemberOrders -> SUBSET (Kinds \X {"course", "service", "grace"})]
    /\ used \in [MemberOrders -> [Kinds -> [Windows -> Nat]]]
    /\ reset \in {"membership_term", "calendar_month"}

\* What an order has to be before it has a term: bought, and paid for the paid one.
\* Only grants of a receipt that was accepted have used anything of the early pool.
TermFollowsOrder == \A o \in MemberOrders :
    /\ intent[o].status = "none" => term[o] = [k \in Kinds |-> "none"]
    /\ term[o]["paid"] # "none" => intent[o].status = "confirmed"
    /\ term[o]["early"] = "none" => \A w \in Windows : used[o]["early"][w] = 0

MemberIInv == MemberTypes /\ TermFollowsOrder /\ MembershipsConsistent

\* Who holds the course, the service or grace for it.
LEMMA GrantsAreOfKind ==
    ASSUME NEW o \in MemberOrders, NEW k \in Kinds
    PROVE  /\ Grants(o, k) \subseteq Kinds \X {"course", "service", "grace"}
           /\ \A g \in Grants(o, k) : g[1] = k
BY DEF Grants

\* Two terms that meet do so whichever is named first.
LEMMA MeetsBoth ==
    ASSUME NEW a, NEW b PROVE Meets(a, b) <=> Meets(b, a)
BY DEF Meets

\* The learner has bought nothing yet.
LEMMA MemberInitInvariant == MemberInit => MemberIInv
<1> SUFFICES ASSUME MemberInit PROVE MemberIInv
    OBVIOUS
<1> USE MembershipAssumption DEF MemberInit, NoIntent, Kinds, Windows
<1>1. MemberTypes
    BY DEF MemberTypes
<1>2. TermFollowsOrder
    BY DEF TermFollowsOrder
<1>3. MembershipsConsistent
    BY DEF MembershipsConsistent, MemberTypeOK, TermsNeverOverlap, Terms, PoolKept, AccessHasTerm
<1> QED BY <1>1, <1>2, <1>3 DEF MemberIInv

\* A term that runs is the only one that has started and not ended, so it is the
\* current one, and what follows it starts in a month of the calendar.
LEMMA StartIsMonth ==
    ASSUME MemberIInv, NEW action PROVE StartOf(action) \in Nat
<1> USE DEF MemberIInv, MembershipsConsistent
<1>1. month \in Nat
    BY MembershipAssumption DEF MemberTypeOK
<1>2. ASSUME Running PROVE Ends(Current) \in Nat
    <2> PICK t \in Started : Ends(t) > month
        BY <1>2 DEF Running
    <2>1. \A u \in Terms : Starts(u) \in Nat /\ Ends(u) \in Nat
        BY DEF Terms, Starts, Ends, MemberTypes
    <2>2. ASSUME NEW u \in Started, Ends(u) > month PROVE u = t
        BY <1>1, <2>1, <2>2 DEF Started, TermsNeverOverlap, Meets
    <2>3. \A u \in Started : Ends(u) <= Ends(t)
        BY <1>1, <2>1, <2>2 DEF Started
    <2>4. Current \in Started
        BY <2>3 DEF Current
    <2> QED
        BY <2>1, <2>4 DEF Started
<1> QED BY <1>1, <1>2 DEF StartOf

\* A checkout names a version that is sold and a term of some months.
LEMMA CheckoutStep ==
    ASSUME MemberIInv, NEW o \in MemberOrders, NEW p \in Plans, NEW d \in Durations,
           NEW c \in {"upgrade", "downgrade"}, NEW b \in BOOLEAN, Checkout(o, p, d, c, b)
    PROVE  MemberIInv'
<1> DEFINE start == StartOf(ActionFor(p, c))
           new == [status |-> "pending", offer |-> <<p, selling[p]>>, action |-> ActionFor(p, c),
                   starts |-> start, ends |-> start + d, grace |-> GraceFrom(<<p, selling[p]>>, b)]
<1>1. /\ intent[o].status = "none" /\ intent' = [intent EXCEPT ![o] = new]
      /\ UNCHANGED <<month, reset, selling, term, open, used>>
    BY DEF Checkout
<1>2. start \in Nat /\ d \in Nat \ {0}
    BY StartIsMonth, MembershipAssumption
<1>3. ActionFor(p, c) \in {"none", "purchase", "renew", "upgrade", "downgrade"}
    BY DEF ActionFor
<1>4. GraceFrom(<<p, selling[p]>>, b) \in Nat \cup {NoMonth}
    <2>1. Running => Ends(Current) \in Nat
        <3>1. Running => StartOf("renew") = Ends(Current)
            BY DEF StartOf
        <3> QED BY <3>1, StartIsMonth
    <2> QED BY <2>1 DEF GraceFrom
<1>5. <<p, selling[p]>> \in Offers
    BY DEF MemberIInv, MemberTypes
<1> HIDE DEF start
<1>6. /\ new \in [status : {"none", "pending", "confirmed", "closed"}, offer : Offers \cup {<<>>},
            action : {"none", "purchase", "renew", "upgrade", "downgrade"},
            starts : Nat, ends : Nat, grace : Nat \cup {NoMonth}]
      /\ new.starts < new.ends /\ new.status = "pending"
    BY <1>2, <1>3, <1>4, <1>5
<1> HIDE DEF new
<1>7. intent'[o] = new /\ \A x \in MemberOrders : x # o => intent'[x] = intent[x]
    BY <1>1 DEF MemberIInv, MemberTypes
<1>8. term[o] = [k \in Kinds |-> "none"]
    BY <1>1 DEF MemberIInv, TermFollowsOrder
<1>9. MemberTypes'
    BY <1>1, <1>6 DEF MemberIInv, MemberTypes, Windows
<1>10. TermFollowsOrder'
    BY <1>1, <1>6, <1>7, <1>8 DEF MemberIInv, TermFollowsOrder, Kinds, Windows
<1>11. MemberTypeOK'
    BY <1>1, <1>6, <1>7 DEF MemberIInv, MembershipsConsistent, MemberTypeOK
<1>12. TermsNeverOverlap'
    <2>1. Terms' = Terms /\ \A t \in Terms : t[1] # o /\ t[1] \in MemberOrders
        BY <1>1, <1>8 DEF Terms
    <2>2. \A t \in Terms : Starts(t)' = Starts(t) /\ Ends(t)' = Ends(t)
        BY <2>1, <1>7 DEF Starts, Ends
    <2> QED
        BY <2>1, <2>2 DEF MemberIInv, MembershipsConsistent, TermsNeverOverlap, Meets
<1>13. PoolKept' /\ AccessHasTerm'
    BY <1>1 DEF MemberIInv, MembershipsConsistent, PoolKept, AccessHasTerm, Windows
<1> QED
    BY <1>9, <1>10, <1>11, <1>12, <1>13 DEF MemberIInv, MembershipsConsistent

\* Payment or the end of the order moves no term.
LEMMA DecidedStep ==
    ASSUME MemberIInv, NEW o \in MemberOrders, NEW status \in {"confirmed", "closed"},
           OrderDecided(o, status)
    PROVE  MemberIInv'
<1>1. /\ intent[o].status = "pending" /\ intent' = [intent EXCEPT ![o].status = status]
      /\ UNCHANGED <<month, reset, selling, term, open, used>>
    BY DEF OrderDecided
<1>2. MemberTypes'
    BY <1>1 DEF MemberIInv, MemberTypes, Windows
<1>3. /\ \A x \in MemberOrders :
             intent'[x].starts = intent[x].starts /\ intent'[x].ends = intent[x].ends
      /\ \A x \in MemberOrders : x # o => intent'[x] = intent[x]
      /\ intent'[o].status = status
    BY <1>1 DEF MemberIInv, MemberTypes
<1>4. TermFollowsOrder'
    BY <1>1, <1>3 DEF MemberIInv, TermFollowsOrder, Windows
<1>5. MemberTypeOK'
    BY <1>1, <1>3 DEF MemberIInv, MembershipsConsistent, MemberTypeOK
<1>6. TermsNeverOverlap'
    BY <1>1, <1>3 DEF MemberIInv, MembershipsConsistent, TermsNeverOverlap, Meets, Starts, Ends,
       Terms
<1>7. PoolKept' /\ AccessHasTerm'
    BY <1>1 DEF MemberIInv, MembershipsConsistent, PoolKept, AccessHasTerm, Windows
<1> QED
    BY <1>2, <1>4, <1>5, <1>6, <1>7 DEF MemberIInv, MembershipsConsistent

\* A term that is written was compared with all the others the learner has, and those
\* that end are none of its concern.
LEMMA TermsStayApart ==
    ASSUME MemberIInv, NEW o \in MemberOrders, NEW k \in Kinds, NEW rest \in SUBSET Terms,
           FreeOf(o, rest), UNCHANGED intent, Terms' \subseteq rest \cup {<<o, k>>}
    PROVE  TermsNeverOverlap'
<1>1. \A t \in rest : ~Meets(t, <<o, k>>) /\ ~Meets(<<o, k>>, t)
    BY MeetsBoth DEF FreeOf, Meets, Starts, Ends
<1>2. \A a, b : Meets(a, b)' <=> Meets(a, b)
    BY DEF Meets, Starts, Ends
<1> QED
    BY <1>1, <1>2 DEF MemberIInv, MembershipsConsistent, TermsNeverOverlap

\* The paid term takes the place of the one a receipt had opened.
LEMMA FulfillStep == ASSUME MemberIInv, NEW o \in MemberOrders, Fulfill(o) PROVE MemberIInv'
<1> DEFINE early == IF term[o]["early"] = "active" THEN "cancelled" ELSE term[o]["early"]
<1>1. /\ intent[o].status = "confirmed" /\ term[o]["paid"] = "none"
      /\ FreeOf(o, Terms \ {<<o, "early">>})
      /\ open' = [open EXCEPT ![o] = Grants(o, "paid")]
      /\ UNCHANGED <<month, reset, selling, intent, used>>
    BY DEF Fulfill
<1>2. /\ term' \in [MemberOrders -> [Kinds -> {"none", "active", "cancelled"}]]
      /\ term'[o]["early"] = early /\ term'[o]["paid"] = "active"
      /\ \A x \in MemberOrders : x # o => term'[x] = term[x]
    BY DEF Fulfill, MemberIInv, MemberTypes, Kinds
<1>3. early # "active" /\ (early = "none" <=> term[o]["early"] = "none")
    OBVIOUS
<1> HIDE DEF early
<1>4. MemberTypes'
    BY <1>1, <1>2, GrantsAreOfKind DEF MemberIInv, MemberTypes, Windows, Kinds
<1>5. TermFollowsOrder'
    BY <1>1, <1>2, <1>3 DEF MemberIInv, TermFollowsOrder, Windows
<1>6. MemberTypeOK'
    <2>1. \A x \in MemberOrders, k \in Kinds : term'[x][k] \in {"none", "active", "cancelled"}
        BY <1>2
    <2> QED
        BY <1>1, <2>1 DEF MemberIInv, MembershipsConsistent, MemberTypeOK
<1>7. TermsNeverOverlap'
    <2>1. Terms' \subseteq (Terms \ {<<o, "early">>}) \cup {<<o, "paid">>}
        BY <1>2, <1>3 DEF Terms, Kinds
    <2>2. "paid" \in Kinds /\ Terms \ {<<o, "early">>} \in SUBSET Terms
        BY DEF Kinds
    <2> QED
        BY <1>1, <2>1, <2>2, TermsStayApart
<1>8. PoolKept'
    BY <1>1 DEF MemberIInv, MembershipsConsistent, PoolKept, Windows
<1>9. AccessHasTerm'
    <2>1. open'[o] = Grants(o, "paid") /\ \A x \in MemberOrders : x # o => open'[x] = open[x]
        BY <1>1 DEF MemberIInv, MemberTypes
    <2>2. \A g \in Grants(o, "paid") : g[1] = "paid"
        BY GrantsAreOfKind DEF Kinds
    <2> QED
        BY <1>2, <1>3, <2>1, <2>2 DEF MemberIInv, MembershipsConsistent, AccessHasTerm
<1> QED
    BY <1>4, <1>5, <1>6, <1>7, <1>8, <1>9 DEF MemberIInv, MembershipsConsistent

\* Early access is opened beside no other term, and before the order is paid.
LEMMA ReceiptOpensStep ==
    ASSUME MemberIInv, NEW o \in MemberOrders, ReceiptOpens(o) PROVE MemberIInv'
<1>1. /\ intent[o].status = "pending" /\ FreeOf(o, Terms)
      /\ open' = [open EXCEPT ![o] = @ \cup Grants(o, "early")]
      /\ UNCHANGED <<month, reset, selling, intent, used>>
    BY DEF ReceiptOpens
<1>2. /\ term' \in [MemberOrders -> [Kinds -> {"none", "active", "cancelled"}]]
      /\ term'[o]["early"] = "active" /\ term'[o]["paid"] = term[o]["paid"]
      /\ \A x \in MemberOrders : x # o => term'[x] = term[x]
    BY DEF ReceiptOpens, MemberIInv, MemberTypes, Kinds
<1>3. term[o]["paid"] = "none"
    BY <1>1 DEF MemberIInv, TermFollowsOrder
<1>4. MemberTypes'
    BY <1>1, <1>2, GrantsAreOfKind DEF MemberIInv, MemberTypes, Windows, Kinds
<1>5. TermFollowsOrder'
    BY <1>1, <1>2, <1>3 DEF MemberIInv, TermFollowsOrder, Windows
<1>6. MemberTypeOK'
    <2>1. \A x \in MemberOrders, k \in Kinds : term'[x][k] \in {"none", "active", "cancelled"}
        BY <1>2
    <2> QED
        BY <1>1, <2>1 DEF MemberIInv, MembershipsConsistent, MemberTypeOK
<1>7. TermsNeverOverlap'
    <2>1. Terms' \subseteq Terms \cup {<<o, "early">>}
        BY <1>2 DEF Terms, Kinds
    <2>2. "early" \in Kinds
        BY DEF Kinds
    <2> QED
        BY <1>1, <2>1, <2>2, TermsStayApart
<1>8. PoolKept'
    BY <1>1 DEF MemberIInv, MembershipsConsistent, PoolKept, Windows
<1>9. AccessHasTerm'
    <2>1. /\ open'[o] = open[o] \cup Grants(o, "early")
          /\ \A x \in MemberOrders : x # o => open'[x] = open[x]
        BY <1>1 DEF MemberIInv, MemberTypes
    <2>2. \A g \in Grants(o, "early") : g[1] = "early"
        BY GrantsAreOfKind DEF Kinds
    <2>3. \A g \in open[o] : term[o][g[1]] = "active" /\ g[1] \in Kinds
        BY DEF MemberIInv, MembershipsConsistent, AccessHasTerm, MemberTypes
    <2> QED
        BY <1>2, <1>3, <2>1, <2>2, <2>3 DEF MemberIInv, MembershipsConsistent, AccessHasTerm, Kinds
<1> QED
    BY <1>4, <1>5, <1>6, <1>7, <1>8, <1>9 DEF MemberIInv, MembershipsConsistent

\* A term that is cancelled takes its own grants with it and leaves the others.
LEMMA TermEnds ==
    ASSUME MemberIInv, NEW o \in MemberOrders, NEW k \in Kinds, term[o][k] = "active",
           term' = [term EXCEPT ![o][k] = "cancelled"],
           open' = [open EXCEPT ![o] = @ \ GrantsOf(o, k)],
           UNCHANGED <<month, reset, selling, intent, used>>
    PROVE  MemberIInv'
<1>1. /\ term' \in [MemberOrders -> [Kinds -> {"none", "active", "cancelled"}]]
      /\ term'[o][k] = "cancelled" /\ \A j \in Kinds : j # k => term'[o][j] = term[o][j]
      /\ \A x \in MemberOrders : x # o => term'[x] = term[x]
    BY DEF MemberIInv, MemberTypes
<1>2. /\ open'[o] = {g \in open[o] : g[1] # k}
      /\ \A x \in MemberOrders : x # o => open'[x] = open[x]
    BY DEF MemberIInv, MemberTypes, GrantsOf
<1>3. MemberTypes'
    <2>1. open' \in [MemberOrders -> SUBSET (Kinds \X {"course", "service", "grace"})]
        BY <1>2 DEF MemberIInv, MemberTypes
    <2> QED
        BY <1>1, <2>1 DEF MemberIInv, MemberTypes, Windows
<1>4. TermFollowsOrder'
    BY <1>1 DEF MemberIInv, TermFollowsOrder, Windows, Kinds
<1>5. MemberTypeOK'
    BY <1>1 DEF MemberIInv, MembershipsConsistent, MemberTypeOK, MemberTypes
<1>6. TermsNeverOverlap'
    <2>1. Terms' \subseteq Terms
        BY <1>1 DEF Terms
    <2>2. \A a, b : Meets(a, b)' <=> Meets(a, b)
        BY DEF Meets, Starts, Ends
    <2> QED
        BY <2>1, <2>2 DEF MemberIInv, MembershipsConsistent, TermsNeverOverlap
<1>7. PoolKept'
    BY DEF MemberIInv, MembershipsConsistent, PoolKept, Windows
<1>8. AccessHasTerm'
    <2>1. \A x \in MemberOrders : \A g \in open[x] : term[x][g[1]] = "active" /\ g[1] \in Kinds
        BY DEF MemberIInv, MembershipsConsistent, AccessHasTerm, MemberTypes
    <2> QED
        BY <1>1, <1>2, <2>1 DEF MemberIInv, MembershipsConsistent, AccessHasTerm, Kinds
<1> QED
    BY <1>3, <1>4, <1>5, <1>6, <1>7, <1>8 DEF MemberIInv, MembershipsConsistent

\* An administrator takes the course from the learner, and no term with it.
LEMMA EmergencyStep == ASSUME MemberIInv, EmergencyRevoke PROVE MemberIInv'
<1>1. /\ \A o \in MemberOrders : open'[o] \subseteq open[o]
      /\ open' \in [MemberOrders -> SUBSET (Kinds \X {"course", "service", "grace"})]
      /\ UNCHANGED <<month, reset, selling, intent, term, used>>
    BY DEF EmergencyRevoke, MemberIInv, MemberTypes
<1> QED
    BY <1>1 DEF MemberIInv, MemberTypes, TermFollowsOrder, MembershipsConsistent, MemberTypeOK,
       TermsNeverOverlap, Terms, Meets, Starts, Ends, PoolKept, AccessHasTerm, Windows

\* A use is counted in the window of its grant, and the pool it is compared with is the
\* whole pool of the order line: nothing was used early where no receipt was accepted.
LEMMA ConsumeStep ==
    ASSUME MemberIInv, NEW t \in MemberOrders \X Kinds, Consume(t) PROVE MemberIInv'
<1> PICK o \in MemberOrders, k \in Kinds : t = <<o, k>>
    OBVIOUS
<1>1. /\ <<o, k>> \in ActiveGrants /\ Spent(o, k) < Quota
      /\ used' = [used EXCEPT ![o][k][Window(o)] = @ + 1]
      /\ UNCHANGED <<month, reset, selling, intent, term, open>>
    BY DEF Consume, Usable
<1>2. /\ <<k, "service">> \in open[o] /\ term[o][k] = "active"
      /\ intent[o].starts \in Nat /\ intent[o].starts <= month
    BY <1>1 DEF ActiveGrants, Starts, MemberIInv, MembershipsConsistent, AccessHasTerm, MemberTypes
<1>3. Window(o) \in Windows
    BY <1>2, MembershipAssumption DEF Window, Windows, MemberIInv, MembershipsConsistent,
       MemberTypeOK
<1> DEFINE v == Window(o)
<1>4. /\ used' \in [MemberOrders -> [Kinds -> [Windows -> Nat]]]
      /\ used'[o][k][v] = used[o][k][v] + 1
      /\ \A w \in Windows : w # v => used'[o][k][w] = used[o][k][w]
      /\ \A j \in Kinds : j # k => used'[o][j] = used[o][j]
      /\ \A x \in MemberOrders : x # o => used'[x] = used[x]
    BY <1>1, <1>3 DEF MemberIInv, MemberTypes
<1>5. used[o]["early"][v] + used[o]["paid"][v] < Quota
    <2>1. used[o]["early"][v] \in Nat /\ used[o]["paid"][v] \in Nat
        BY <1>3 DEF MemberIInv, MemberTypes, Kinds
    <2>2. CASE term[o]["early"] = "none"
        <3>1. k = "paid" /\ used[o]["early"][v] = 0
            BY <1>2, <1>3, <2>2 DEF MemberIInv, TermFollowsOrder, Kinds
        <3> QED
            BY <1>1, <2>1, <2>2, <3>1 DEF Spent
    <2>3. CASE term[o]["early"] # "none"
        BY <1>1, <2>3 DEF Spent
    <2> QED BY <2>2, <2>3
<1> HIDE DEF v
<1>6. PoolKept'
    <2> SUFFICES ASSUME NEW x \in MemberOrders, NEW w \in Windows
                 PROVE  used'[x]["early"][w] + used'[x]["paid"][w] <= Quota
        BY DEF PoolKept, Windows
    <2>1. /\ used[x]["early"][w] \in Nat /\ used[x]["paid"][w] \in Nat
          /\ used[x]["early"][w] + used[x]["paid"][w] <= Quota
        BY DEF MemberIInv, MembershipsConsistent, PoolKept, MemberTypes, Kinds
    <2>2. CASE x = o /\ w = v
        <3>1. used'[o]["early"][v] + used'[o]["paid"][v]
                  = used[o]["early"][v] + used[o]["paid"][v] + 1
            BY <1>4, <2>1, <2>2 DEF Kinds
        <3> QED BY <1>5, <2>1, <2>2, <3>1, MembershipAssumption
    <2>3. CASE x # o \/ w # v
        BY <1>4, <2>1, <2>3 DEF Kinds
    <2> QED BY <2>2, <2>3
<1>7. MemberTypes'
    BY <1>1, <1>4 DEF MemberIInv, MemberTypes, Windows
<1>8. TermFollowsOrder'
    <2>1. term[o]["early"] = "none" => k # "early"
        BY <1>2
    <2> QED
        BY <1>1, <1>4, <2>1 DEF MemberIInv, TermFollowsOrder, Windows, Kinds
<1> QED
    BY <1>1, <1>6, <1>7, <1>8 DEF MemberIInv, MembershipsConsistent, MemberTypeOK,
       TermsNeverOverlap, Terms, Meets, Starts, Ends, AccessHasTerm

\* The clock and the catalogue move nothing of the learner.
LEMMA MemberOutsideStep ==
    ASSUME MemberIInv, MonthPasses \/ \E p \in Plans : NewVersion(p) PROVE MemberIInv'
<1>1. UNCHANGED <<reset, intent, term, open, used>>
    BY DEF MonthPasses, NewVersion
<1>2. /\ selling' \in [Plans -> Nat] /\ \A p \in Plans : <<p, selling'[p]>> \in Offers
      /\ month' \in 0 .. Horizon
    <2>1. CASE MonthPasses
        BY <2>1, MembershipAssumption DEF MonthPasses, MemberIInv, MemberTypes,
           MembershipsConsistent, MemberTypeOK
    <2>2. ASSUME NEW q \in Plans, NewVersion(q)
          PROVE  /\ selling' \in [Plans -> Nat] /\ \A p \in Plans : <<p, selling'[p]>> \in Offers
                 /\ month' = month
        <3>1. /\ <<q, selling[q] + 1>> \in Offers
              /\ selling' = [selling EXCEPT ![q] = selling[q] + 1]
              /\ selling \in [Plans -> Nat] /\ \A p \in Plans : <<p, selling[p]>> \in Offers
            BY <2>2 DEF NewVersion, MemberIInv, MemberTypes
        <3>2. selling' \in [Plans -> Nat] /\ selling'[q] = selling[q] + 1
              /\ \A p \in Plans : p # q => selling'[p] = selling[p]
            BY <3>1
        <3> QED
            BY <2>2, <3>1, <3>2 DEF NewVersion
    <2> QED
        BY <2>1, <2>2 DEF MemberIInv, MembershipsConsistent, MemberTypeOK
<1>3. MemberTypes'
    BY <1>1, <1>2 DEF MemberIInv, MemberTypes, Windows
<1> QED
    BY <1>1, <1>2, <1>3 DEF MemberIInv, TermFollowsOrder, MembershipsConsistent, MemberTypeOK,
       TermsNeverOverlap, Terms, Meets, Starts, Ends, PoolKept, AccessHasTerm, Windows

\* Every step keeps the invariant.
LEMMA MemberStep == MemberIInv /\ [MemberNext]_memberVars => MemberIInv'
<1> SUFFICES ASSUME MemberIInv, [MemberNext]_memberVars PROVE MemberIInv'
    OBVIOUS
<1>1. CASE MonthPasses \/ \E p \in Plans : NewVersion(p)
    BY <1>1, MemberOutsideStep
<1>2. CASE EmergencyRevoke
    BY <1>2, EmergencyStep
<1>3. CASE \E t \in MemberOrders \X Kinds : Consume(t)
    BY <1>3, ConsumeStep
<1>4. ASSUME NEW o \in MemberOrders, Fulfill(o) PROVE MemberIInv'
    BY <1>4, FulfillStep
<1>5. ASSUME NEW o \in MemberOrders, ReceiptOpens(o) PROVE MemberIInv'
    BY <1>5, ReceiptOpensStep
<1>6. ASSUME NEW o \in MemberOrders, ReceiptRevoked(o) PROVE MemberIInv'
    BY <1>6, TermEnds DEF ReceiptRevoked, Kinds
<1>7. ASSUME NEW o \in MemberOrders, TermRefunded(o) PROVE MemberIInv'
    BY <1>7, TermEnds DEF TermRefunded, Kinds
<1>8. ASSUME NEW o \in MemberOrders, NEW status \in {"confirmed", "closed"}, OrderDecided(o, status)
      PROVE  MemberIInv'
    BY <1>8, DecidedStep
<1>9. ASSUME NEW o \in MemberOrders, NEW p \in Plans, NEW d \in Durations,
             NEW c \in {"upgrade", "downgrade"}, NEW b \in BOOLEAN, Checkout(o, p, d, c, b)
      PROVE  MemberIInv'
    BY <1>9, CheckoutStep
<1>10. CASE UNCHANGED memberVars
    BY <1>10 DEF memberVars, MemberIInv, MemberTypes, TermFollowsOrder, MembershipsConsistent,
       MemberTypeOK, TermsNeverOverlap, Terms, Meets, Starts, Ends, PoolKept, AccessHasTerm, Windows
<1> QED
    BY <1>1, <1>2, <1>3, <1>4, <1>5, <1>6, <1>7, <1>8, <1>9, <1>10 DEF MemberNext

\* A learner has one membership at a time, its quota is spent once however the access to it
\* was opened, and grants end with their terms: for any plans, orders, durations and
\* quota (fulfillMembership, createGeneration, retireEffects, consume).
THEOREM MembershipsConsistentHolds == MemberSpec => []MembershipsConsistent
<1>1. MemberIInv => MembershipsConsistent
    BY DEF MemberIInv
<1> QED BY MemberInitInvariant, MemberStep, <1>1, PTL DEF MemberSpec

-----------------------------------------------------------------------------
(* The catalogue: the inductive invariant                                   *)

VersionRecord ==
    [status : {"draft", "published", "archived"}, courses : SUBSET Courses,
     policy : Policies \cup {NoPolicy}]

PolicyRecord ==
    [status : {"none", "scheduled", "active"}, source : Nat, activated : Nat,
     rules : SUBSET Courses, due : BOOLEAN, immediate : BOOLEAN]

Catalogues == [vs : Seq(VersionRecord), ps : [Policies -> PolicyRecord], ok : SUBSET Courses]

AtMostOne(ps, status) ==
    \A p, q \in Policies : ps[p].status = status /\ ps[q].status = status => p = q

\* The version of the active policy is the last one there is: while a policy manages
\* the plan nobody else makes versions.  Unless it was archived by hand it is on sale.
LastIsManaged(vs, ps, archived) ==
    \A p \in Policies : ps[p].status = "active" =>
        /\ Len(vs) > 0 /\ ps[p].activated = Len(vs) /\ vs[Len(vs)].policy = p
        /\ archived \/ vs[Len(vs)].status = "published"

\* What the operations of the policies keep.
Coherent(cat, archived) ==
    /\ cat \in Catalogues
    /\ AtMostOne(cat.ps, "active") /\ AtMostOne(cat.ps, "scheduled")
    /\ LastIsManaged(cat.vs, cat.ps, archived)

CatalogIInv ==
    /\ byHand \in BOOLEAN
    /\ joined \subseteq Courses /\ listed \subseteq Courses
    /\ Coherent(Catalogue(Eligible(joined, listed)), byHand)
    /\ sale = "unpermitted" => byHand

\* The version that is sold is the greatest of those that are published.
LEMMA LatestIsPublished ==
    ASSUME NEW vs \in Seq(VersionRecord), PublishedIn(vs) # {}
    PROVE  LatestIn(vs) \in PublishedIn(vs) /\ \A m \in PublishedIn(vs) : m <= LatestIn(vs)
<1>1. PublishedIn(vs) \in SUBSET Nat /\ PublishedIn(vs) \subseteq 1 .. Len(vs) /\ Len(vs) \in Nat
    BY DEF PublishedIn
<1>2. IsFiniteSet(1 .. Len(vs))
    BY <1>1, FS_Interval
<1>3. IsFiniteSet(PublishedIn(vs))
    BY <1>1, <1>2, FS_Subset, Zenon
<1> QED BY <1>1, <1>3, Greatest DEF LatestIn

\* With at most one policy in force there is an id for another one.
LEMMA IdLeft ==
    ASSUME NEW ps \in [Policies -> PolicyRecord], AtMostOne(ps, "active"),
           \A p \in Policies : ps[p].status # "scheduled"
    PROVE  NewId(ps) \in Policies /\ ps[NewId(ps)].status = "none"
<1>1. PICK a \in Policies, b \in Policies : a # b
    <2> SUFFICES ASSUME \A a, b \in Policies : a = b PROVE FALSE
        OBVIOUS
    <2>1. CASE Policies = {}
        BY <2>1, CatalogAssumption, FS_EmptySet
    <2>2. CASE \E a : Policies = {a}
        BY <2>2, CatalogAssumption, FS_Singleton
    <2> QED BY <2>1, <2>2
<1>2. ps[a].status = "none" \/ ps[b].status = "none"
    BY <1>1 DEF AtMostOne, PolicyRecord
<1> QED BY <1>1, <1>2 DEF NewId, Unused, InState

-----------------------------------------------------------------------------
(* Policies on a catalogue                                                  *)

\* A policy is rebuilt while it is active, or activated while it is scheduled: its new
\* version is the last one, on sale, and no other policy is active.
LEMMA ActivateCoherent ==
    ASSUME NEW cat, NEW archived \in BOOLEAN, Coherent(cat, archived),
           NEW p \in Policies, NEW selected \in SUBSET Courses, NEW rebuilt \in BOOLEAN,
           cat.ps[p].status = IF rebuilt THEN "active" ELSE "scheduled"
    PROVE  LET new == Activate(cat, p, selected, rebuilt)
           IN  /\ Coherent(new, archived) /\ new.ok = cat.ok
               /\ planOpen => new.ps[p].status = "active"
<1> DEFINE vs == Append(cat.vs, [status |-> "published", courses |-> selected, policy |-> p])
           others == IF rebuilt THEN {} ELSE InState(cat.ps, "active")
           ps == [q \in Policies |->
                  IF q = p THEN [cat.ps[p] EXCEPT !.status = "active", !.activated = Len(vs)]
                  ELSE IF q \in others THEN NoneYet
                  ELSE cat.ps[q]]
           new == Activate(cat, p, selected, rebuilt)
<1>1. /\ cat.vs \in Seq(VersionRecord) /\ cat.ps \in [Policies -> PolicyRecord]
      /\ cat.ok \in SUBSET Courses /\ cat = [vs |-> cat.vs, ps |-> cat.ps, ok |-> cat.ok]
      /\ AtMostOne(cat.ps, "active") /\ AtMostOne(cat.ps, "scheduled")
      /\ LastIsManaged(cat.vs, cat.ps, archived)
    BY DEF Coherent, Catalogues
<1>2. NoneYet \in PolicyRecord /\ NoneYet.status = "none"
    BY DEF NoneYet, PolicyRecord
<1>3. CASE ~planOpen
    <2> DEFINE gone == [cat.ps EXCEPT ![p] = NoneYet]
    <2>1. new = [vs |-> cat.vs, ps |-> gone, ok |-> cat.ok]
        BY <1>1, <1>3 DEF Activate
    <2>2. /\ gone \in [Policies -> PolicyRecord] /\ gone[p].status = "none"
          /\ \A q \in Policies : q # p => gone[q] = cat.ps[q]
        BY <1>1, <1>2
    <2> HIDE DEF gone
    <2>3. /\ AtMostOne(gone, "active") /\ AtMostOne(gone, "scheduled")
          /\ LastIsManaged(cat.vs, gone, archived)
        BY <1>1, <2>2 DEF AtMostOne, LastIsManaged
    <2> QED
        BY <1>1, <1>3, <2>1, <2>2, <2>3 DEF Coherent, Catalogues
<1>4. CASE planOpen
    <2>1. new = [vs |-> vs, ps |-> ps, ok |-> cat.ok]
        BY <1>1, <1>4 DEF Activate
    <2>2. [status |-> "published", courses |-> selected, policy |-> p] \in VersionRecord
        BY DEF VersionRecord
    <2>3. /\ vs \in Seq(VersionRecord) /\ Len(vs) = Len(cat.vs) + 1 /\ Len(cat.vs) \in Nat
          /\ vs[Len(vs)] = [status |-> "published", courses |-> selected, policy |-> p]
        BY <1>1, <2>2
    <2> HIDE DEF vs
    <2>4. [cat.ps[p] EXCEPT !.status = "active", !.activated = Len(vs)] \in PolicyRecord
        <3>1. cat.ps[p] \in PolicyRecord /\ Len(vs) \in Nat
            BY <1>1, <2>3
        <3>2. ASSUME NEW r \in PolicyRecord, NEW n \in Nat
              PROVE  [r EXCEPT !.status = "active", !.activated = n] \in PolicyRecord
            BY DEF PolicyRecord
        <3> QED BY <3>1, <3>2, Zenon
    <2>5. /\ ps \in [Policies -> PolicyRecord]
          /\ ps[p].status = "active" /\ ps[p].activated = Len(vs)
          /\ \A q \in Policies : q # p => ps[q] = IF q \in others THEN NoneYet ELSE cat.ps[q]
        <3>1. ps[p] = [cat.ps[p] EXCEPT !.status = "active", !.activated = Len(vs)]
            OBVIOUS
        <3>2. ps[p].status = "active" /\ ps[p].activated = Len(vs)
            BY <1>1, <3>1 DEF PolicyRecord
        <3> QED
            BY <1>1, <1>2, <2>4, <3>2
    <2> HIDE DEF ps
    <2>6. \A q \in Policies : q # p => ps[q].status # "active"
        BY <1>1, <1>2, <2>5 DEF AtMostOne, InState
    <2>7. AtMostOne(ps, "active") /\ AtMostOne(ps, "scheduled")
        BY <1>1, <1>2, <2>5, <2>6 DEF AtMostOne
    <2>8. LastIsManaged(vs, ps, archived)
        BY <2>3, <2>5, <2>6 DEF LastIsManaged
    <2> QED
        BY <1>1, <2>1, <2>3, <2>5, <2>7, <2>8 DEF Coherent, Catalogues
<1> QED BY <1>3, <1>4

\* A new policy waits beside the active one.
LEMMA ScheduledCoherent ==
    ASSUME NEW cat, NEW archived \in BOOLEAN, Coherent(cat, archived),
           \A p \in Policies : cat.ps[p].status # "scheduled",
           NEW rules \in SUBSET Courses, NEW source \in Nat, NEW immediate \in BOOLEAN
    PROVE  LET made == Scheduled(cat, rules, source, immediate)
               new == NewId(cat.ps)
           IN  /\ Coherent(made, archived) /\ made.ok = cat.ok
               /\ new \in Policies /\ made.ps[new].status = "scheduled"
               /\ Selection(made, new) \in SUBSET Courses
<1> DEFINE new == NewId(cat.ps)
           rec == [NoneYet EXCEPT !.status = "scheduled", !.source = source, !.rules = rules,
                                  !.due = immediate, !.immediate = immediate]
           ps == [cat.ps EXCEPT ![new] = rec]
           made == Scheduled(cat, rules, source, immediate)
<1>1. /\ cat.vs \in Seq(VersionRecord) /\ cat.ps \in [Policies -> PolicyRecord]
      /\ cat.ok \in SUBSET Courses /\ cat = [vs |-> cat.vs, ps |-> cat.ps, ok |-> cat.ok]
      /\ AtMostOne(cat.ps, "active") /\ AtMostOne(cat.ps, "scheduled")
      /\ LastIsManaged(cat.vs, cat.ps, archived)
    BY DEF Coherent, Catalogues
<1>2. new \in Policies /\ cat.ps[new].status = "none"
    BY <1>1, IdLeft
<1>3. made = [vs |-> cat.vs, ps |-> ps, ok |-> cat.ok]
    BY <1>1 DEF Scheduled
<1>4. rec \in PolicyRecord /\ rec.status = "scheduled"
    BY DEF NoneYet, PolicyRecord
<1> HIDE DEF new, rec
<1>5. /\ ps \in [Policies -> PolicyRecord] /\ ps[new] = rec
      /\ \A q \in Policies : q # new => ps[q] = cat.ps[q]
    BY <1>1, <1>2, <1>4
<1> HIDE DEF ps
<1>6. AtMostOne(ps, "active") /\ AtMostOne(ps, "scheduled") /\ LastIsManaged(cat.vs, ps, archived)
    BY <1>1, <1>4, <1>5 DEF AtMostOne, LastIsManaged
<1>7. Selection(made, new) \in SUBSET Courses
    BY <1>1, <1>3 DEF Selection
<1> QED
    BY <1>1, <1>2, <1>3, <1>4, <1>5, <1>6, <1>7 DEF Coherent, Catalogues, new

\* refreshActive keeps the catalogue coherent, with the one active policy rebuilt, and its
\* successor made.
LEMMA RefreshedCoherent ==
    ASSUME NEW cat, NEW archived \in BOOLEAN, Coherent(cat, archived), NEW forced \in BOOLEAN
    PROVE  LET new == Refreshed(cat, forced)
           IN  Coherent(new, archived) /\ new.ok = cat.ok
<1> DEFINE new == Refreshed(cat, forced)
           p == CHOOSE q \in Policies : cat.ps[q].status = "active"
           rebuilt == Rebuilt(cat, p)
<1> SUFFICES ASSUME planOpen, InState(cat.ps, "active") # {}
             PROVE  Coherent(new, archived) /\ new.ok = cat.ok
    BY DEF Refreshed
<1>1. p \in Policies /\ cat.ps[p].status = "active"
    BY DEF InState
<1>2. new = IF forced THEN rebuilt ELSE Renewed(rebuilt, p)
    BY DEF Refreshed
<1> HIDE DEF p, new
<1>3. Coherent(rebuilt, archived) /\ rebuilt.ok = cat.ok /\ rebuilt.ps[p].status = "active"
    <2>1. cat.ok \in SUBSET Courses
        BY DEF Coherent, Catalogues
    <2>2. Included(cat, p) \cap cat.ok \in SUBSET Courses
        BY <2>1
    <2>3. LET made == Activate(cat, p, Included(cat, p) \cap cat.ok, TRUE)
          IN  /\ Coherent(made, archived) /\ made.ok = cat.ok
              /\ planOpen => made.ps[p].status = "active"
        BY <1>1, <2>2, ActivateCoherent
    <2> QED
        BY <1>1, <2>3 DEF Rebuilt
<1> HIDE DEF rebuilt
<1>4. ASSUME ~(\/ Selection(rebuilt, p) = Included(rebuilt, p)
               \/ InState(rebuilt.ps, "scheduled") # {})
      PROVE  Coherent(Renewed(rebuilt, p), archived) /\ Renewed(rebuilt, p).ok = cat.ok
    <2> DEFINE rules == rebuilt.ps[p].rules
               source == SourceOf(rebuilt, p)
               immediate == rebuilt.ps[p].immediate
               id == NewId(rebuilt.ps)
               made == Scheduled(rebuilt, rules, source, immediate)
               selected == Selection(made, id)
    <2>1. rebuilt.ps[p] \in PolicyRecord
        BY <1>1, <1>3 DEF Coherent, Catalogues
    <2>2. rules \in SUBSET Courses /\ source \in Nat /\ immediate \in BOOLEAN
        BY <2>1 DEF PolicyRecord, SourceOf
    <2>3. \A q \in Policies : rebuilt.ps[q].status # "scheduled"
        BY <1>4 DEF InState
    <2> HIDE DEF rules, source, immediate
    <2>4. /\ Coherent(made, archived) /\ made.ok = rebuilt.ok
          /\ id \in Policies /\ made.ps[id].status = "scheduled" /\ selected \in SUBSET Courses
        BY <1>3, <2>2, <2>3, ScheduledCoherent
    <2>5. Renewed(rebuilt, p) = IF immediate THEN Activate(made, id, selected, FALSE) ELSE made
        BY <1>4 DEF Renewed, rules, source, immediate
    <2> HIDE DEF made, id, selected
    <2>6. /\ Coherent(Activate(made, id, selected, FALSE), archived)
          /\ Activate(made, id, selected, FALSE).ok = made.ok
        BY <2>4, ActivateCoherent
    <2> QED
        BY <1>3, <2>2, <2>4, <2>5, <2>6
<1>5. ASSUME Selection(rebuilt, p) = Included(rebuilt, p) \/ InState(rebuilt.ps, "scheduled") # {}
      PROVE  Renewed(rebuilt, p) = rebuilt
    BY <1>5 DEF Renewed
<1> QED
    BY <1>2, <1>3, <1>4, <1>5

\* The notice of a waiting policy is over: it takes the place of the active one.
LEMMA DueCoherent ==
    ASSUME NEW cat, NEW archived \in BOOLEAN, Coherent(cat, archived)
    PROVE  Coherent(DueActivated(cat), archived) /\ DueActivated(cat).ok = cat.ok
<1> DEFINE ready == {p \in Policies : cat.ps[p].status = "scheduled" /\ cat.ps[p].due}
           p == CHOOSE q \in ready : TRUE
           selected == Selection(cat, p)
<1> SUFFICES ASSUME ready # {}
             PROVE  Coherent(DueActivated(cat), archived) /\ DueActivated(cat).ok = cat.ok
    BY DEF DueActivated
<1>1. p \in Policies /\ cat.ps[p].status = "scheduled"
    OBVIOUS
<1>2. DueActivated(cat) = Activate(cat, p, selected, FALSE)
    BY DEF DueActivated
<1>3. selected \in SUBSET Courses
    BY DEF Selection, Coherent, Catalogues
<1> HIDE DEF p, selected
<1>4. /\ Coherent(Activate(cat, p, selected, FALSE), archived)
      /\ Activate(cat, p, selected, FALSE).ok = cat.ok
    BY <1>1, <1>3, ActivateCoherent
<1> QED BY <1>2, <1>4

\* What a transaction makes of the catalogue for other participants or listings.
LEMMA CatalogueOf ==
    ASSUME CatalogIInv, NEW ok \in SUBSET Courses
    PROVE  Coherent(Catalogue(ok), byHand) /\ Catalogue(ok).ok = ok
BY DEF CatalogIInv, Coherent, Catalogues, Catalogue

\* It is written back as a whole.
LEMMA BecomesCoherent ==
    ASSUME CatalogIInv, NEW cat, Coherent(cat, byHand), Becomes(cat), UNCHANGED byHand,
           joined' \subseteq Courses, listed' \subseteq Courses, sale' = "unpermitted" => byHand
    PROVE  CatalogIInv'
<1>1. /\ cat.vs = versions' /\ cat.ps = policy'
      /\ Eligible(joined', listed') \in SUBSET Courses
    BY DEF Becomes, Eligible
<1> QED
    BY <1>1 DEF CatalogIInv, Coherent, Catalogues, Catalogue, AtMostOne, LastIsManaged

-----------------------------------------------------------------------------
(* The operations                                                           *)

\* A new plan has neither versions nor policies.
LEMMA CatalogInitInvariant == CatalogInit => CatalogIInv
<1> SUFFICES ASSUME CatalogInit PROVE CatalogIInv
    OBVIOUS
<1>1. /\ versions = <<>> /\ byHand = FALSE /\ sale = "permitted" /\ joined \subseteq Courses
      /\ listed = Courses /\ policy = [p \in Policies |-> NoneYet]
    BY DEF CatalogInit
<1>2. versions \in Seq(VersionRecord)
    BY <1>1
<1>3. policy \in [Policies -> PolicyRecord] /\ \A p \in Policies : policy[p].status = "none"
    BY <1>1 DEF NoneYet, PolicyRecord
<1> QED
    BY <1>1, <1>2, <1>3 DEF CatalogIInv, Coherent, Catalogues, Catalogue, Eligible, AtMostOne,
       LastIsManaged

\* What the invariant says of the variables.
LEMMA CatalogFacts ==
    ASSUME CatalogIInv
    PROVE  /\ versions \in Seq(VersionRecord) /\ Len(versions) \in Nat
           /\ \A n \in Numbers : versions[n] \in VersionRecord
           /\ policy \in [Policies -> PolicyRecord]
           /\ AtMostOne(policy, "active") /\ AtMostOne(policy, "scheduled")
           /\ LastIsManaged(versions, policy, byHand)
BY DEF CatalogIInv, Coherent, Catalogues, Catalogue, Numbers

\* An administrator makes versions while no policy manages the plan.
LEMMA VersionsByHand ==
    ASSUME CatalogIInv, ~Managed, versions' \in Seq(VersionRecord),
           UNCHANGED <<policy, joined, listed, sale, byHand>>
    PROVE  CatalogIInv'
<1>1. \A p \in Policies : policy[p].status # "active"
    BY DEF Managed, InState
<1> QED
    BY <1>1 DEF CatalogIInv, Coherent, Catalogues, Catalogue, AtMostOne, LastIsManaged, Eligible

\* One of several changes a version of the plan in its place.
LEMMA VersionKept ==
    ASSUME CatalogIInv, NEW n \in Numbers, NEW v \in VersionRecord
    PROVE  [versions EXCEPT ![n] = v] \in Seq(VersionRecord)
BY CatalogFacts DEF Numbers

\* A version is created, edited or published.
LEMMA AdminStep ==
    ASSUME CatalogIInv,
           \/ CreateVersion
           \/ \E n \in Numbers : PublishVersion(n)
           \/ \E n \in Numbers, c \in Courses : ConfigureIncludedCourse(n, c)
    PROVE  CatalogIInv'
<1>1. CASE CreateVersion
    <2>1. [status |-> "draft", courses |-> {}, policy |-> NoPolicy] \in VersionRecord
        BY DEF VersionRecord
    <2>2. versions' \in Seq(VersionRecord)
        BY <1>1, <2>1, CatalogFacts DEF CreateVersion
    <2> QED BY <1>1, <2>2, VersionsByHand DEF CreateVersion
<1>2. ASSUME NEW n \in Numbers, PublishVersion(n) PROVE CatalogIInv'
    <2>1. [versions[n] EXCEPT !.status = "published"] \in VersionRecord
        BY CatalogFacts DEF VersionRecord
    <2>2. versions' = [versions EXCEPT ![n] = [versions[n] EXCEPT !.status = "published"]]
        BY <1>2 DEF PublishVersion
    <2> QED BY <1>2, <2>1, <2>2, VersionKept, VersionsByHand DEF PublishVersion
<1>3. ASSUME NEW n \in Numbers, NEW c \in Courses, ConfigureIncludedCourse(n, c)
      PROVE  CatalogIInv'
    <2> DEFINE v == [versions[n] EXCEPT !.courses = versions[n].courses \cup {c}]
    <2>1. v \in VersionRecord
        BY CatalogFacts DEF VersionRecord
    <2>2. versions' = [versions EXCEPT ![n] = v]
        BY <1>3 DEF ConfigureIncludedCourse
    <2> HIDE DEF v
    <2>3. versions' \in Seq(VersionRecord)
        BY <2>1, <2>2, VersionKept
    <2>4. ~Managed /\ UNCHANGED <<policy, joined, listed, sale, byHand>>
        BY <1>3 DEF ConfigureIncludedCourse
    <2> QED BY <2>3, <2>4, VersionsByHand
<1> QED BY <1>1, <1>2, <1>3

\* Archiving the version of a policy is remembered.
LEMMA ArchiveStep ==
    ASSUME CatalogIInv, NEW n \in Numbers, ArchiveVersion(n) PROVE CatalogIInv'
<1> DEFINE v == [versions[n] EXCEPT !.status = "archived"]
<1>1. /\ versions' = [versions EXCEPT ![n] = v] /\ byHand' = (byHand \/ Managed)
      /\ UNCHANGED <<policy, joined, listed, sale>>
    BY DEF ArchiveVersion
<1>2. v \in VersionRecord /\ v.policy = versions[n].policy
    BY CatalogFacts DEF VersionRecord
<1> HIDE DEF v
<1>3. versions' \in Seq(VersionRecord) /\ Len(versions') = Len(versions)
    BY <1>1, <1>2, VersionKept, CatalogFacts DEF Numbers
<1>4. \A m \in Numbers : versions'[m].policy = versions[m].policy
    BY <1>1, <1>2, CatalogFacts DEF Numbers
<1>5. LastIsManaged(versions', policy, byHand')
    <2> SUFFICES ASSUME NEW p \in Policies, policy[p].status = "active"
                 PROVE  /\ Len(versions') > 0 /\ policy[p].activated = Len(versions')
                        /\ versions'[Len(versions')].policy = p /\ byHand'
        BY DEF LastIsManaged
    <2>1. Managed
        BY DEF Managed, InState
    <2>2. /\ Len(versions) > 0 /\ policy[p].activated = Len(versions)
          /\ versions[Len(versions)].policy = p
        BY CatalogFacts DEF LastIsManaged
    <2>3. byHand'
        BY <1>1, <2>1, Zenon
    <2>4. Len(versions) \in Numbers
        BY <2>2, CatalogFacts DEF Numbers
    <2>5. versions'[Len(versions')].policy = p
        BY <1>3, <1>4, <2>2, <2>4
    <2> QED
        BY <1>3, <2>2, <2>3, <2>5
<1>6. byHand' \in BOOLEAN /\ (sale' = "unpermitted" => byHand')
    BY <1>1 DEF CatalogIInv
<1> QED
    BY <1>1, <1>3, <1>5, <1>6, CatalogFacts DEF CatalogIInv, Coherent, Catalogues, Catalogue,
       Eligible

\* A policy that waits is cancelled, or its notice ends.
LEMMA WaitingStep ==
    ASSUME CatalogIInv, NEW p \in Policies, CancelPolicy(p) \/ NoticeEnds(p) PROVE CatalogIInv'
<1>1. /\ policy[p].status = "scheduled" /\ UNCHANGED <<versions, joined, listed, sale, byHand>>
      /\ \/ policy' = [policy EXCEPT ![p] = NoneYet]
         \/ policy' = [policy EXCEPT ![p] = [policy[p] EXCEPT !.due = TRUE]]
    BY DEF CancelPolicy, NoticeEnds
<1>2. /\ NoneYet \in PolicyRecord /\ NoneYet.status = "none"
      /\ [policy[p] EXCEPT !.due = TRUE] \in PolicyRecord
      /\ [policy[p] EXCEPT !.due = TRUE].status = "scheduled"
    BY <1>1, CatalogFacts DEF NoneYet, PolicyRecord
<1>3. /\ policy' \in [Policies -> PolicyRecord] /\ policy'[p].status # "active"
      /\ \A q \in Policies : q # p => policy'[q] = policy[q]
    BY <1>1, <1>2, CatalogFacts
<1>4. AtMostOne(policy', "active") /\ AtMostOne(policy', "scheduled")
    BY <1>1, <1>3, CatalogFacts DEF AtMostOne
<1>5. LastIsManaged(versions', policy', byHand')
    BY <1>1, <1>3, CatalogFacts DEF LastIsManaged
<1> QED
    BY <1>1, <1>3, <1>4, <1>5 DEF CatalogIInv, Coherent, Catalogues, Catalogue, Eligible

\* A new policy waits, or is active at once.
LEMMA ScheduleStep ==
    ASSUME CatalogIInv, NEW rules \in SUBSET Courses, NEW immediate \in BOOLEAN,
           SchedulePolicy(rules, immediate)
    PROVE  CatalogIInv'
<1> DEFINE cat == Catalogue(Eligible(joined, listed))
           new == NewId(policy)
           source == LatestIn(versions)
           made == Scheduled(cat, rules, source, immediate)
           next == IF immediate THEN Activate(made, new, Selection(made, new), FALSE) ELSE made
<1>1. /\ PublishedIn(versions) # {} /\ InState(policy, "scheduled") = {} /\ Becomes(next)
      /\ UNCHANGED <<planOpen, joined, listed, sale, byHand>>
    BY DEF SchedulePolicy
<1>2. Coherent(cat, byHand) /\ cat.ps = policy
    BY DEF CatalogIInv, Catalogue
<1>3. source \in Nat
    BY <1>1, CatalogFacts, LatestIsPublished DEF PublishedIn
<1>4. \A p \in Policies : cat.ps[p].status # "scheduled"
    BY <1>1, <1>2 DEF InState
<1>5. byHand \in BOOLEAN
    BY DEF CatalogIInv
<1> HIDE DEF cat, source
<1>6. /\ Coherent(made, byHand) /\ made.ok = cat.ok
      /\ new \in Policies /\ made.ps[new].status = "scheduled"
      /\ Selection(made, new) \in SUBSET Courses
    BY <1>2, <1>3, <1>4, <1>5, ScheduledCoherent
<1> HIDE DEF made, new
<1>7. Coherent(Activate(made, new, Selection(made, new), FALSE), byHand)
    BY <1>5, <1>6, ActivateCoherent
<1>8. Coherent(next, byHand)
    BY <1>6, <1>7
<1> HIDE DEF next
<1>9. joined' \subseteq Courses /\ listed' \subseteq Courses /\ (sale' = "unpermitted" => byHand)
    BY <1>1 DEF CatalogIInv
<1> QED BY <1>1, <1>8, <1>9, BecomesCoherent

\* What checkout and the reconciliation of due policies find is coherent, too.
LEMMA SynchronizedCoherent ==
    ASSUME CatalogIInv
    PROVE  Coherent(Synchronized, byHand) /\ Synchronized.ok = Eligible(joined, listed)
<1> DEFINE cat == Catalogue(Eligible(joined, listed))
<1>1. Coherent(cat, byHand) /\ cat.ok = Eligible(joined, listed) /\ byHand \in BOOLEAN
    BY DEF CatalogIInv, Catalogue
<1> HIDE DEF cat
<1>2. Coherent(DueActivated(cat), byHand) /\ DueActivated(cat).ok = cat.ok
    BY <1>1, DueCoherent
<1>3. /\ Coherent(Refreshed(DueActivated(cat), FALSE), byHand)
      /\ Refreshed(DueActivated(cat), FALSE).ok = DueActivated(cat).ok
    BY <1>1, <1>2, RefreshedCoherent
<1> QED BY <1>1, <1>2, <1>3 DEF Synchronized, cat

\* Due policies take effect between checkouts.
LEMMA ReconcileStep == ASSUME CatalogIInv, ReconcileDue PROVE CatalogIInv'
<1>1. joined' \subseteq Courses /\ listed' \subseteq Courses /\ (sale' = "unpermitted" => byHand)
    BY DEF CatalogIInv, ReconcileDue
<1> QED BY <1>1, SynchronizedCoherent, BecomesCoherent DEF ReconcileDue

\* A seller joins, or leaves and takes the course along.
LEMMA SellerStep ==
    ASSUME CatalogIInv, NEW c \in Courses, Accept(c) \/ Leave(c) PROVE CatalogIInv'
<1> PICK js \in {joined \cup {c}, joined \ {c}}, forced \in BOOLEAN :
        /\ joined' = js /\ UNCHANGED <<planOpen, listed, sale, byHand>>
        /\ Becomes(Refreshed(Catalogue(Eligible(js, listed)), forced))
    BY DEF Accept, Leave
<1>1. Eligible(js, listed) \in SUBSET Courses /\ js \subseteq Courses /\ byHand \in BOOLEAN
    BY DEF Eligible, CatalogIInv
<1> DEFINE cat == Catalogue(Eligible(js, listed))
<1>2. Coherent(cat, byHand)
    BY <1>1, CatalogueOf
<1> HIDE DEF cat
<1>3. Coherent(Refreshed(cat, forced), byHand)
    BY <1>1, <1>2, RefreshedCoherent
<1>4. joined' \subseteq Courses /\ listed' \subseteq Courses /\ (sale' = "unpermitted" => byHand)
    BY <1>1 DEF CatalogIInv
<1> QED BY <1>3, <1>4, BecomesCoherent DEF cat

\* A course comes or goes without the catalogue: the next transaction sees it.
LEMMA ListedStep == ASSUME CatalogIInv, NEW c \in Courses, CourseListed(c) PROVE CatalogIInv'
<1>1. listed' \subseteq Courses /\ UNCHANGED <<planOpen, versions, policy, joined, sale, byHand>>
    BY DEF CourseListed, CatalogIInv
<1> QED
    BY <1>1 DEF CatalogIInv, Coherent, Catalogues, Catalogue, Eligible, AtMostOne, LastIsManaged

\* What is sold is the last version, if a policy is active and nobody archived it; and that one
\* has been compared with the courses that may be sold.
LEMMA SellStep ==
    ASSUME CatalogIInv, NEW wholeFee \in BOOLEAN, Sell(wholeFee) PROVE CatalogIInv'
<1> DEFINE cat == Synchronized
           n == LatestIn(cat.vs)
<1>1. /\ PublishedIn(cat.vs) # {} /\ Captures(cat, n, wholeFee) /\ Becomes(cat)
      /\ sale' = IF /\ InState(cat.ps, "active") # {}
                    /\ ~(cat.vs[n].courses \subseteq joined \cap listed)
                 THEN "unpermitted" ELSE "permitted"
      /\ UNCHANGED <<planOpen, joined, listed, byHand>>
    BY DEF Sell
<1>2. Coherent(cat, byHand) /\ cat.ok = joined \cap listed
    BY SynchronizedCoherent DEF Eligible
<1> HIDE DEF cat
<1>3. ASSUME sale' = "unpermitted", ~byHand PROVE FALSE
    <2>1. PICK p \in Policies : cat.ps[p].status = "active"
        BY <1>1, <1>3 DEF InState
    <2>2. ~(cat.vs[n].courses \subseteq joined \cap listed)
        BY <1>1, <1>3
    <2>3. /\ cat.vs \in Seq(VersionRecord) /\ Len(cat.vs) > 0
          /\ cat.vs[Len(cat.vs)].policy = p /\ cat.vs[Len(cat.vs)].status = "published"
        BY <1>2, <1>3, <2>1 DEF Coherent, Catalogues, LastIsManaged
    <2>4. n \in PublishedIn(cat.vs) /\ \A m \in PublishedIn(cat.vs) : m <= n
        BY <1>1, <2>3, LatestIsPublished
    <2>5. n = Len(cat.vs)
        BY <2>3, <2>4 DEF PublishedIn
    <2>6. cat.vs[n].policy # NoPolicy
        BY <2>3, <2>5, CatalogAssumption
    <2> QED
        BY <1>1, <1>2, <2>2, <2>6 DEF Captures
<1>4. joined' \subseteq Courses /\ listed' \subseteq Courses
    BY <1>1 DEF CatalogIInv
<1> QED BY <1>1, <1>2, <1>3, <1>4, BecomesCoherent

\* Every step keeps the invariant.
LEMMA CatalogStep == CatalogIInv /\ [CatalogNext]_catalogVars => CatalogIInv'
<1> SUFFICES ASSUME CatalogIInv, [CatalogNext]_catalogVars PROVE CatalogIInv'
    OBVIOUS
<1>1. CASE \/ CreateVersion
           \/ \E n \in Numbers : PublishVersion(n)
           \/ \E n \in Numbers, c \in Courses : ConfigureIncludedCourse(n, c)
    BY <1>1, AdminStep
<1>2. CASE \E n \in Numbers : ArchiveVersion(n)
    BY <1>2, ArchiveStep
<1>3. CASE ReconcileDue
    BY <1>3, ReconcileStep
<1>4. CASE \E wholeFee \in BOOLEAN : Sell(wholeFee)
    BY <1>4, SellStep
<1>5. CASE \E c \in Courses : Accept(c) \/ Leave(c) \/ CourseListed(c)
    BY <1>5, SellerStep, ListedStep
<1>6. CASE \E p \in Policies : CancelPolicy(p) \/ NoticeEnds(p)
    BY <1>6, WaitingStep
<1>7. CASE \E rules \in SUBSET Courses, immediate \in BOOLEAN : SchedulePolicy(rules, immediate)
    BY <1>7, ScheduleStep
<1>8. CASE ArchivePlan \/ UNCHANGED catalogVars
    BY <1>8 DEF ArchivePlan, catalogVars, CatalogIInv, Coherent, Catalogues, Catalogue, Eligible,
       AtMostOne, LastIsManaged
<1> QED BY <1>1, <1>2, <1>3, <1>4, <1>5, <1>6, <1>7, <1>8 DEF CatalogNext

\* While a policy manages the plan, no course is sold without its seller or that is
\* taken down, unless an administrator archived the version of the policy; one
\* policy is active and one waits at most: for any courses and ids, any number
\* of versions (synchronizeCheckout, refreshActive, captureOrder).
THEOREM CatalogConsistentHolds == CatalogSpec => []CatalogConsistent
<1>1. ASSUME CatalogIInv PROVE CatalogConsistent
    <2>1. CatalogTypeOK
        BY <1>1, CatalogFacts DEF CatalogTypeOK, VersionRecord, PolicyRecord, CatalogIInv
    <2>2. ASSUME NEW status, AtMostOne(policy, status)
          PROVE  Cardinality(InState(policy, status)) <= 1
        <3>1. InState(policy, status) = {} \/ \E p : InState(policy, status) = {p}
            BY <2>2 DEF InState, AtMostOne
        <3>2. CASE InState(policy, status) = {}
            BY <3>2, FS_EmptySet
        <3>3. ASSUME NEW p, InState(policy, status) = {p}
              PROVE  Cardinality(InState(policy, status)) <= 1
            <4>1. Cardinality({p}) = 1
                BY FS_Singleton
            <4> QED BY <3>3, <4>1
        <3> QED BY <3>1, <3>2, <3>3
    <2>3. \A p \in InState(policy, "active") :
              policy[p].activated \in Numbers /\ versions[policy[p].activated].policy = p
        BY <1>1, CatalogFacts DEF LastIsManaged, InState, Numbers
    <2> QED
        BY <1>1, <2>1, <2>2, <2>3, CatalogFacts DEF CatalogConsistent, CatalogIInv
<1> QED BY CatalogInitInvariant, CatalogStep, <1>1, PTL DEF CatalogSpec

================================================================================
