---------------------------- MODULE CommerceProofs ----------------------------
(* What a buyer is charged, for any number of orders, claims, carts,        *)
(* buyers, administrators, limits and prices.  A voucher row's own limits   *)
(* never exceed the highest ones it had: with this fact the properties of   *)
(* VoucherQuota are inductive, and an order that had the discount has its   *)
(* redemption unless a bank transfer paid it.  A course order rests on      *)
(* what its form shows of a course that may since have changed.  What is    *)
(* back of an order, and what a learner has of points, are sums: a step     *)
(* changes one term of each.                                                *)
EXTENDS VoucherQuota, CourseSales, Benefits, PaymentRefunds, SetFacts

-----------------------------------------------------------------------------
(* Vouchers: the inductive invariant                                        *)

\* A limit is not above the highest one there was.
AtMost(limit, top) == top # None => limit # None /\ limit <= top

LimitsBelowHighest ==
    AtMost(voucher.limit, highest.limit) /\ AtMost(voucher.perUser, highest.perUser)

QuotaIInv ==
    /\ TypeOK /\ CountMatchesRedemptions /\ ReservationsDecided /\ PromisesFit
    /\ LimitsBelowHighest

-----------------------------------------------------------------------------
(* Limits and sets of uses                                                  *)

\* The limits are numbers, or there is none.
LEMMA LimitFacts == \A n \in LimitOrNone : n = None \/ (n \in Nat /\ n # None)
BY UsesAssumption DEF LimitOrNone

\* The higher of two limits is one of them; none is the highest.
LEMMA HigherFacts ==
    \A m, n \in LimitOrNone :
        /\ Higher(m, n) \in LimitOrNone
        /\ Higher(m, n) # None =>
              /\ m # None /\ n # None
              /\ Higher(m, n) \in Nat /\ m <= Higher(m, n) /\ n <= Higher(m, n)
BY LimitFacts DEF Higher, LimitOrNone

\* There are finitely many uses, so every set of them can be counted.
LEMMA UsesFinite ==
    /\ IsFiniteSet(Uses)
    /\ \A S \in SUBSET Uses : IsFiniteSet(S) /\ Cardinality(S) \in Nat
<1>1. IsFiniteSet(Uses)
    BY UsesAssumption, FS_Union DEF Uses
<1>2. ASSUME NEW S \in SUBSET Uses PROVE IsFiniteSet(S) /\ Cardinality(S) \in Nat
    BY <1>1, FS_Subset, FS_CardinalityType
<1> QED BY <1>1, <1>2

\* Fewer uses still fit a limit.
LEMMA FitsLess ==
    ASSUME NEW S \in SUBSET Uses, NEW T \in SUBSET S, NEW n \in Nat, Cardinality(S) <= n
    PROVE  Cardinality(T) <= n
<1>1. IsFiniteSet(S) /\ Cardinality(S) \in Nat /\ Cardinality(T) \in Nat
    BY UsesFinite
<1>2. Cardinality(T) <= Cardinality(S)
    BY <1>1, FS_Subset
<1> QED BY <1>1, <1>2

\* Below a limit there is room for one use more.
LEMMA FitsOneMore ==
    ASSUME NEW S \in SUBSET Uses, NEW u \in Uses, NEW T \in SUBSET (S \cup {u}),
           NEW n \in Nat, Cardinality(S) < n
    PROVE  Cardinality(T) <= n
<1>1. IsFiniteSet(S) /\ Cardinality(S) \in Nat
    BY UsesFinite
<1>2. Cardinality(S \cup {u}) <= n
    BY <1>1, FS_AddElement
<1>3. S \cup {u} \in SUBSET Uses
    OBVIOUS
<1> QED BY <1>2, <1>3, FitsLess

\* What is counted is a set of uses.
LEMMA CountedFacts ==
    ASSUME TypeOK
    PROVE  /\ Counted \in SUBSET Uses /\ redemptions \in SUBSET Uses
           /\ \A b \in Buyers : CountedOf(b) \in SUBSET Counted
BY DEF TypeOK, Counted, CountedOf, Held, Uses

\* A redemption that was not there is counted once.
LEMMA RedeemCounts ==
    ASSUME TypeOK, CountMatchesRedemptions, NEW u \in Uses, u \notin redemptions,
           RedeemVoucher(u)
    PROVE  /\ CountMatchesRedemptions' /\ redemptions' = redemptions \cup {u}
           /\ redemptions' \subseteq Uses
           /\ voucher' \in [active : BOOLEAN, limit : LimitOrNone, perUser : LimitOrNone,
                            redeemed : Nat]
           /\ voucher'.limit = voucher.limit /\ voucher'.perUser = voucher.perUser
<1> USE DEF TypeOK, RedeemVoucher
<1>1. IsFiniteSet(redemptions) /\ Cardinality(redemptions) \in Nat
    BY UsesFinite
<1>2. Cardinality(redemptions') = Cardinality(redemptions) + 1
    BY <1>1, FS_AddElement
<1>3. /\ voucher'.redeemed = voucher.redeemed + 1
      /\ voucher'.limit = voucher.limit /\ voucher'.perUser = voucher.perUser
      /\ voucher' \in [active : BOOLEAN, limit : LimitOrNone, perUser : LimitOrNone,
                       redeemed : Nat]
    OBVIOUS
<1> QED BY <1>2, <1>3 DEF CountMatchesRedemptions

-----------------------------------------------------------------------------
(* Steps                                                                    *)

\* What is eligible leaves room for one use more.
LEMMA EligibleFits ==
    ASSUME TypeOK, LimitsBelowHighest, NEW u \in Uses, VoucherEligible(u)
    PROVE  /\ highest.limit # None =>
                highest.limit \in Nat /\ Cardinality(Counted) < highest.limit
           /\ highest.perUser # None =>
                highest.perUser \in Nat /\ Cardinality(CountedOf(BuyerOf[u])) < highest.perUser
<1>1. /\ voucher.limit \in LimitOrNone /\ highest.limit \in LimitOrNone
      /\ voucher.perUser \in LimitOrNone /\ highest.perUser \in LimitOrNone
    BY DEF TypeOK
<1>2. Cardinality(Counted) \in Nat /\ Cardinality(CountedOf(BuyerOf[u])) \in Nat
    <2>1. BuyerOf[u] \in Buyers
        BY UsesAssumption
    <2> QED BY <2>1, CountedFacts, UsesFinite
<1> QED BY <1>1, <1>2, LimitFacts DEF VoucherEligible, Below, LimitsBelowHighest, AtMost

\* One more use that was eligible is still within the limits.
LEMMA OneMoreFits ==
    ASSUME TypeOK, LimitsBelowHighest, PromisesFit, NEW u \in Uses, VoucherEligible(u),
           Counted' \subseteq Counted \cup {u}, UNCHANGED <<highest, late>>
    PROVE  PromisesFit'
<1>1. ASSUME highest.limit # None PROVE Cardinality((Counted \ late)') <= highest.limit
    <2>1. (Counted \ late)' \in SUBSET (Counted \cup {u})
        OBVIOUS
    <2> QED BY <1>1, <2>1, EligibleFits, CountedFacts, FitsOneMore
<1>2. ASSUME highest.perUser # None, NEW b \in Buyers
      PROVE  Cardinality((CountedOf(b) \ late)') <= highest.perUser
    <2>1. CASE BuyerOf[u] = b
        <3>1. (CountedOf(b) \ late)' \in SUBSET (CountedOf(b) \cup {u})
            BY DEF CountedOf
        <3> QED BY <1>2, <2>1, <3>1, EligibleFits, CountedFacts, FitsOneMore
    <2>2. CASE BuyerOf[u] # b
        <3>1. (CountedOf(b) \ late)' \in SUBSET (CountedOf(b) \ late)
            BY <2>2 DEF CountedOf
        <3>2. CountedOf(b) \ late \in SUBSET Uses
            BY CountedFacts
        <3> QED BY <1>2, <3>1, <3>2, EligibleFits, FitsLess DEF PromisesFit
    <2> QED BY <2>1, <2>2
<1> QED BY <1>1, <1>2 DEF PromisesFit

\* Without a new use the limits are kept.
LEMMA NoMoreFits ==
    ASSUME TypeOK, PromisesFit, Counted' \ late' \subseteq Counted \ late, UNCHANGED highest
    PROVE  PromisesFit'
<1>0. highest.limit \in LimitOrNone /\ highest.perUser \in LimitOrNone
    BY DEF TypeOK
<1>1. ASSUME highest.limit # None PROVE Cardinality((Counted \ late)') <= highest.limit
    <2>1. (Counted \ late)' \in SUBSET (Counted \ late) /\ Counted \ late \in SUBSET Uses
        BY CountedFacts
    <2> QED BY <1>0, <1>1, <2>1, LimitFacts, FitsLess DEF PromisesFit
<1>2. ASSUME highest.perUser # None, NEW b \in Buyers
      PROVE  Cardinality((CountedOf(b) \ late)') <= highest.perUser
    <2>1. (CountedOf(b) \ late)' \in SUBSET (CountedOf(b) \ late)
        BY DEF CountedOf
    <2>2. CountedOf(b) \ late \in SUBSET Uses
        BY CountedFacts
    <2> QED BY <1>0, <1>2, <2>1, <2>2, LimitFacts, FitsLess DEF PromisesFit
<1> QED BY <1>1, <1>2 DEF PromisesFit

\* Everything but the promises, which OneMoreFits and NoMoreFits settle.
Rest ==
    /\ TypeOK /\ CountMatchesRedemptions /\ ReservationsDecided /\ LimitsBelowHighest

\* Checkouts and claims promise or take a use that was eligible.
LEMMA TakingStep ==
    ASSUME QuotaIInv,
           \/ \E o \in Orders : Checkout(o) \/ CheckoutFree(o)
           \/ \E k \in Claims : RedeemClaim(k)
    PROVE  QuotaIInv'
<1> USE DEF QuotaIInv, Rest
<1>1. ASSUME NEW o \in Orders, Checkout(o) PROVE QuotaIInv'
    <2>1. Rest'
        BY <1>1 DEF Checkout, TypeOK, CountMatchesRedemptions, ReservationsDecided,
            LimitsBelowHighest
    <2>2. Counted' \subseteq Counted \cup {o}
        BY <1>1 DEF Checkout, Counted, Held, TypeOK
    <2> QED BY <1>1, <2>1, <2>2, OneMoreFits DEF Checkout, Uses
<1>2. ASSUME NEW o \in Orders, CheckoutFree(o) PROVE QuotaIInv'
    <2>1. o \in Uses /\ o \notin redemptions
        BY <1>2 DEF CheckoutFree, ReservationsDecided, Uses
    <2>2. /\ CountMatchesRedemptions' /\ redemptions' = redemptions \cup {o}
          /\ redemptions' \subseteq Uses
          /\ voucher' \in [active : BOOLEAN, limit : LimitOrNone, perUser : LimitOrNone,
                           redeemed : Nat]
          /\ voucher'.limit = voucher.limit /\ voucher'.perUser = voucher.perUser
        BY <1>2, <2>1, RedeemCounts DEF CheckoutFree
    <2>3. Rest'
        BY <1>2, <2>2 DEF CheckoutFree, TypeOK, ReservationsDecided, LimitsBelowHighest
    <2>4. Counted' \subseteq Counted \cup {o}
        BY <1>2, <2>2 DEF CheckoutFree, Counted, Held, TypeOK
    <2> QED BY <1>2, <2>1, <2>3, <2>4, OneMoreFits DEF CheckoutFree
<1>3. ASSUME NEW k \in Claims, RedeemClaim(k) PROVE QuotaIInv'
    <2>1. k \in Uses /\ k \notin Orders
        BY UsesAssumption DEF Uses
    <2>2. /\ CountMatchesRedemptions' /\ redemptions' = redemptions \cup {k}
          /\ redemptions' \subseteq Uses
          /\ voucher' \in [active : BOOLEAN, limit : LimitOrNone, perUser : LimitOrNone,
                           redeemed : Nat]
          /\ voucher'.limit = voucher.limit /\ voucher'.perUser = voucher.perUser
        BY <1>3, <2>1, RedeemCounts DEF RedeemClaim
    <2>3. Rest'
        BY <1>3, <2>1, <2>2 DEF RedeemClaim, TypeOK, ReservationsDecided, LimitsBelowHighest
    <2>4. Counted' \subseteq Counted \cup {k}
        BY <1>3, <2>2 DEF RedeemClaim, Counted, Held
    <2> QED BY <1>3, <2>1, <2>3, <2>4, OneMoreFits DEF RedeemClaim
<1> QED BY <1>1, <1>2, <1>3

\* A confirmation takes the use its reservation promised, or lapses late; a closed
\* order, and time, give a promise back.
LEMMA OrderStep ==
    ASSUME QuotaIInv, NEW o \in Orders,
           \/ Lapse(o) \/ GatewayConfirms(o) \/ BankConfirms(o)
           \/ \E status \in {"released", "expired"} : CloseOrder(o, status)
    PROVE  QuotaIInv'
<1> USE DEF QuotaIInv, Rest
<1>1. CASE Lapse(o)
    <2>1. Rest'
        BY <1>1 DEF Lapse, TypeOK, CountMatchesRedemptions, ReservationsDecided,
            LimitsBelowHighest
    <2>2. Counted' \ late' \subseteq Counted \ late
        BY <1>1 DEF Lapse, Counted, Held
    <2> QED BY <1>1, <2>1, <2>2, NoMoreFits DEF Lapse
<1>2. CASE GatewayConfirms(o)
    <2>1. o \in Uses /\ o \notin redemptions
        BY <1>2 DEF GatewayConfirms, Open, ReservationsDecided, Uses
    <2>2. /\ CountMatchesRedemptions' /\ redemptions' = redemptions \cup {o}
          /\ redemptions' \subseteq Uses
          /\ voucher' \in [active : BOOLEAN, limit : LimitOrNone, perUser : LimitOrNone,
                           redeemed : Nat]
          /\ voucher'.limit = voucher.limit /\ voucher'.perUser = voucher.perUser
        BY <1>2, <2>1, RedeemCounts DEF GatewayConfirms, RedeemReserved
    <2>3. Rest'
        BY <1>2, <2>2 DEF GatewayConfirms, Open, TypeOK, ReservationsDecided,
            LimitsBelowHighest
    <2>4. Counted' \ late' \subseteq Counted \ late
        BY <1>2, <2>2 DEF GatewayConfirms, Open, Counted, Held, TypeOK
    <2> QED BY <1>2, <2>3, <2>4, NoMoreFits DEF GatewayConfirms
<1>3. CASE BankConfirms(o)
    <2>1. Rest'
        BY <1>3 DEF BankConfirms, Open, TypeOK, CountMatchesRedemptions, ReservationsDecided,
            LimitsBelowHighest
    <2>2. Counted' \ late' \subseteq Counted \ late
        BY <1>3 DEF BankConfirms, Counted, Held, TypeOK
    <2> QED BY <1>3, <2>1, <2>2, NoMoreFits DEF BankConfirms
<1>4. ASSUME NEW status \in {"released", "expired"}, CloseOrder(o, status) PROVE QuotaIInv'
    <2>1. Rest'
        BY <1>4 DEF CloseOrder, EndReservation, Open, TypeOK, CountMatchesRedemptions,
            ReservationsDecided, LimitsBelowHighest
    <2>2. Counted' \ late' \subseteq Counted \ late
        BY <1>4 DEF CloseOrder, EndReservation, Counted, Held, TypeOK
    <2> QED BY <1>4, <2>1, <2>2, NoMoreFits DEF CloseOrder
<1> QED BY <1>1, <1>2, <1>3, <1>4

\* An administrator writes limits, never the counter; the highest limits follow.
LEMMA EditStep ==
    ASSUME QuotaIInv, NEW a \in Admins,
           \/ EditReads(a)
           \/ \E active \in BOOLEAN, limit, perUser \in LimitOrNone :
                 EditWrites(a, active, limit, perUser)
    PROVE  QuotaIInv'
<1> USE DEF QuotaIInv, Rest
<1>1. CASE EditReads(a)
    <2>1. Rest'
        BY <1>1 DEF EditReads, TypeOK, CountMatchesRedemptions, ReservationsDecided,
            LimitsBelowHighest
    <2>2. Counted' \ late' \subseteq Counted \ late
        BY <1>1 DEF EditReads, Counted, Held
    <2> QED BY <1>1, <2>1, <2>2, NoMoreFits DEF EditReads
<1>2. ASSUME NEW active \in BOOLEAN, NEW limit \in LimitOrNone, NEW perUser \in LimitOrNone,
             EditWrites(a, active, limit, perUser)
      PROVE  QuotaIInv'
    <2>1. /\ voucher' = [voucher EXCEPT !.active = active, !.limit = limit, !.perUser = perUser]
          /\ highest' = [limit |-> Higher(highest.limit, limit),
                         perUser |-> Higher(highest.perUser, perUser)]
          /\ UNCHANGED <<reservation, lapsed, paidBy, redemptions, late>>
        BY <1>2 DEF EditWrites, VoucherWritten
    <2>2. /\ highest.limit \in LimitOrNone /\ highest.perUser \in LimitOrNone
          /\ voucher \in [active : BOOLEAN, limit : LimitOrNone, perUser : LimitOrNone,
                          redeemed : Nat]
        BY DEF TypeOK
    <2>3. /\ voucher'.limit = limit /\ voucher'.perUser = perUser
          /\ voucher'.redeemed = voucher.redeemed
          /\ voucher' \in [active : BOOLEAN, limit : LimitOrNone, perUser : LimitOrNone,
                           redeemed : Nat]
        BY <2>1, <2>2
    <2>4. /\ highest'.limit \in LimitOrNone /\ highest'.perUser \in LimitOrNone
          /\ highest' \in [limit : LimitOrNone, perUser : LimitOrNone]
          /\ AtMost(limit, highest'.limit) /\ AtMost(perUser, highest'.perUser)
          /\ AtMost(highest.limit, highest'.limit) /\ AtMost(highest.perUser, highest'.perUser)
        BY <2>1, <2>2, HigherFacts DEF AtMost
    <2>5. Rest'
        <3>1. TypeOK'
            BY <1>2, <2>1, <2>3, <2>4 DEF TypeOK, EditWrites
        <3>2. CountMatchesRedemptions' /\ ReservationsDecided'
            BY <2>1, <2>3 DEF CountMatchesRedemptions, ReservationsDecided
        <3>3. LimitsBelowHighest'
            BY <2>3, <2>4 DEF LimitsBelowHighest
        <3> QED BY <3>1, <3>2, <3>3
    <2>6. PromisesFit'
        <3>1. ASSUME highest'.limit # None PROVE Cardinality(Counted \ late) <= highest'.limit
            <4>1. Cardinality(Counted \ late) \in Nat
                BY CountedFacts, UsesFinite
            <4> QED BY <2>2, <2>4, <3>1, <4>1, LimitFacts DEF PromisesFit, AtMost
        <3>2. ASSUME highest'.perUser # None, NEW b \in Buyers
              PROVE  Cardinality(CountedOf(b) \ late) <= highest'.perUser
            <4>1. Cardinality(CountedOf(b) \ late) \in Nat
                BY CountedFacts, UsesFinite
            <4> QED BY <2>2, <2>4, <3>2, <4>1, LimitFacts DEF PromisesFit, AtMost
        <3> QED BY <2>1, <3>1, <3>2 DEF PromisesFit, Counted, CountedOf, Held
    <2> QED BY <2>5, <2>6
<1> QED BY <1>1, <1>2

\* The invariant holds before the first checkout and after every step.
LEMMA IInvHolds == (Init => QuotaIInv) /\ (QuotaIInv /\ [Next]_vars => QuotaIInv')
<1>1. ASSUME Init PROVE QuotaIInv
    <2>1. /\ voucher \in [active : {TRUE}, limit : LimitOrNone, perUser : LimitOrNone,
                          redeemed : {0}]
          /\ highest = [limit |-> voucher.limit, perUser |-> voucher.perUser]
          /\ redemptions = {} /\ Counted = {} /\ \A b \in Buyers : CountedOf(b) = {}
        BY <1>1 DEF Init, Counted, CountedOf, Held
    <2>2. TypeOK /\ ReservationsDecided
        <3>1. /\ voucher \in [active : BOOLEAN, limit : LimitOrNone, perUser : LimitOrNone,
                              redeemed : Nat]
              /\ voucher.limit \in LimitOrNone /\ voucher.perUser \in LimitOrNone
              /\ highest \in [limit : LimitOrNone, perUser : LimitOrNone]
            <4>1. PICK l \in LimitOrNone, u \in LimitOrNone :
                    voucher = [active |-> TRUE, limit |-> l, perUser |-> u, redeemed |-> 0]
                BY <2>1
            <4> QED BY <2>1, <4>1
        <3>2. TypeOK
            BY <1>1, <3>1 DEF Init, TypeOK
        <3>3. ReservationsDecided
            BY <1>1 DEF Init, ReservationsDecided
        <3> QED BY <3>2, <3>3
    <2>3. CountMatchesRedemptions
        BY <2>1, FS_EmptySet DEF CountMatchesRedemptions
    <2>4. LimitsBelowHighest
        BY <2>1, LimitFacts DEF LimitsBelowHighest, AtMost
    <2>5. PromisesFit
        <3>1. /\ Cardinality(Counted \ late) = 0
              /\ \A b \in Buyers : Cardinality(CountedOf(b) \ late) = 0
            BY <2>1, FS_EmptySet
        <3> QED BY <2>1, <3>1, LimitFacts DEF PromisesFit
    <2> QED BY <2>2, <2>3, <2>4, <2>5 DEF QuotaIInv
<1>2. ASSUME QuotaIInv, Next PROVE QuotaIInv'
    BY <1>2, TakingStep, OrderStep, EditStep DEF Next
<1>3. ASSUME QuotaIInv, UNCHANGED vars PROVE QuotaIInv'
    <2>1. Counted' = Counted /\ \A b \in Buyers : CountedOf(b)' = CountedOf(b)
        BY <1>3 DEF vars, Counted, CountedOf, Held
    <2> QED BY <1>3, <2>1 DEF vars, QuotaIInv, TypeOK, CountMatchesRedemptions,
            ReservationsDecided, PromisesFit, LimitsBelowHighest
<1> QED BY <1>1, <1>2, <1>3

\* No voucher promises more uses than the highest limits it had, but for what was
\* settled after its reservation had lapsed.
THEOREM PromisesKept == Spec => []QuotaIInv
BY IInvHolds, PTL DEF Spec

\* An order that had the discount has its redemption, if no bank transfer paid it: its
\* use is one of those that were counted.
LEMMA UsesCounted == ASSUME QuotaIInv PROVE UsesFit
<1>1. SUFFICES ASSUME highest.limit # None
               PROVE  Cardinality(UsedBy \ (late \cup BankPaid)) <= highest.limit
    BY DEF UsesFit
<1>2. UsedBy \ (late \cup BankPaid) \in SUBSET (Counted \ late)
    BY DEF QuotaIInv, UsedBy, BankPaid, ReservationsDecided, Counted
<1>3. Counted \ late \in SUBSET Uses /\ highest.limit \in Nat
    BY <1>1, CountedFacts, LimitFacts DEF QuotaIInv, TypeOK
<1> QED BY <1>1, <1>2, <1>3, FitsLess DEF QuotaIInv, PromisesFit

\* Reservations, redemptions and the counter follow the orders whoever edits the voucher
\* meanwhile, and neither promises nor uses exceed the highest limits it had, but for
\* what was settled late and for the uses of bank transfers.
THEOREM VoucherConsistentHolds == Spec => []VoucherConsistent
<1>1. QuotaIInv => VoucherConsistent
    BY UsesCounted DEF QuotaIInv, VoucherConsistent
<1> QED BY <1>1, PromisesKept, PTL

-----------------------------------------------------------------------------
(* Sales: the inductive invariant                                           *)

GivenPrice == [amount : Amounts \cup {"none", "keep"}, currency : Currencies \cup {"none", "keep"}]

OrderRecord == [key : CheckoutKeys, lines : (SUBSET Courses) \ {{}}]

\* The update in flight has a course and what the request gave; the form is as it was
\* loaded, while its course is at that version.
FormsSound ==
    /\ editor # Idle => editor.course \in Courses /\ editor.given \in GivenPrice
    /\ page.current => page.course \in Courses
    /\ page = [course |-> page.course, row |-> page.row, current |-> page.current]

SalesIInv ==
    /\ SalesTypeOK /\ orders \in Seq(OrderRecord) /\ FormsSound /\ PriceIsWhole /\ OneOrderPerKey

\* A price pair, as a record.
LEMMA PairIsPrice ==
    ASSUME NEW p, p = [f \in {"amount", "currency"} |-> p[f]],
           p["amount"] \in Amounts \cup {"none"}, p["currency"] \in Currencies \cup {"none"}
    PROVE  p \in Prices
BY DEF Prices

\* Nothing is priced, listed or sold.
LEMMA SalesInitInvariant == SalesInit => SalesIInv
<1> SUFFICES ASSUME SalesInit PROVE SalesIInv
    OBVIOUS
<1>1. SalesTypeOK
    BY DEF SalesInit, SalesTypeOK, NoPrice, Prices, NotLoaded, Range
<1>2. orders \in Seq(OrderRecord) /\ FormsSound /\ PriceIsWhole /\ OneOrderPerKey
    BY DEF SalesInit, FormsSound, NotLoaded, PriceIsWhole, NoPrice, OneOrderPerKey
<1> QED BY <1>1, <1>2 DEF SalesIInv

-----------------------------------------------------------------------------
(* Sales: the steps                                                         *)

\* A course row is written: the form that shows it is no longer current.
LEMMA CourseWritten ==
    ASSUME SalesIInv, NEW c \in Courses, Touched(c), editor' \in {editor, Idle},
           \/ /\ listing' \in [Courses -> [status : {"draft", "published", "archived"}, clear : BOOLEAN]]
              /\ \A d \in Courses : d # c => listing'[d] = listing[d]
              /\ price' = price
           \/ /\ \E row \in Prices : /\ price' = [price EXCEPT ![c] = row]
                                     /\ (row.amount = "none") = (row.currency = "none")
              /\ listing' = listing,
           UNCHANGED <<product, cart, learnerOwns, orders>>
    PROVE  SalesIInv'
<1>1. /\ page'.course = page.course /\ page'.row = page.row
      /\ (page'.current <=> page.current /\ page.course # c) /\ page'.current \in BOOLEAN
      /\ page' = [course |-> page'.course, row |-> page'.row, current |-> page'.current]
    BY DEF Touched, SalesIInv, FormsSound, SalesTypeOK
<1>2. /\ price' \in [Courses -> Prices] /\ PriceIsWhole'
      /\ \A d \in Courses : d # c => price'[d] = price[d]
    BY DEF SalesIInv, SalesTypeOK, PriceIsWhole
<1>3. /\ listing' \in [Courses -> [status : {"draft", "published", "archived"}, clear : BOOLEAN]]
      /\ \A d \in Courses : d # c => listing'[d] = listing[d]
    BY DEF SalesIInv, SalesTypeOK
<1>4. page'.current => page'.row = Row(page.course)'
    <2> SUFFICES ASSUME page'.current PROVE page'.row = Row(page.course)'
        OBVIOUS
    <2>1. /\ page.current /\ page.course # c /\ page.row = Row(page.course)
          /\ page.course \in Courses
        BY <1>1 DEF SalesIInv, SalesTypeOK, FormsSound
    <2>2. price'[page.course] = price[page.course] /\ listing'[page.course] = listing[page.course]
        BY <1>2, <1>3, <2>1
    <2> QED BY <1>1, <2>1, <2>2 DEF Row
<1>5. SalesTypeOK'
    BY <1>1, <1>2, <1>3, <1>4 DEF SalesIInv, SalesTypeOK
<1>6. FormsSound'
    BY <1>1 DEF SalesIInv, FormsSound
<1> QED BY <1>2, <1>5, <1>6 DEF SalesIInv, OneOrderPerKey

\* An instructor reads and writes, and publishes; a moderator hides.
LEMMA InstructorStep ==
    ASSUME SalesIInv, NEW c \in Courses,
           \/ \E a \in Amounts \cup {"none", "keep"}, u \in Currencies \cup {"none", "keep"} :
                 ReadForUpdate(c, [amount |-> a, currency |-> u])
           \/ \E status \in {"published", "archived"} : SetStatus(c, status)
           \/ ModerateCourse(c)
           \/ WriteUpdate
    PROVE  SalesIInv'
<1>1. ASSUME NEW a \in Amounts \cup {"none", "keep"}, NEW u \in Currencies \cup {"none", "keep"},
             ReadForUpdate(c, [amount |-> a, currency |-> u])
      PROVE  SalesIInv'
    <2>1. /\ UNCHANGED <<price, listing, product, page, cart, learnerOwns, orders, edits>>
          /\ editor'.course = c /\ editor'.given \in GivenPrice
        BY <1>1 DEF ReadForUpdate, GivenPrice
    <2> QED BY <2>1 DEF SalesIInv, SalesTypeOK, Row, FormsSound, PriceIsWhole, OneOrderPerKey
<1>2. ASSUME NEW status \in {"published", "archived"}, SetStatus(c, status) PROVE SalesIInv'
    <2>1. listing \in [Courses -> [status : {"draft", "published", "archived"}, clear : BOOLEAN]]
        BY DEF SalesIInv, SalesTypeOK
    <2> QED BY <1>2, <2>1, CourseWritten DEF SetStatus
<1>3. CASE ModerateCourse(c)
    <2>1. listing \in [Courses -> [status : {"draft", "published", "archived"}, clear : BOOLEAN]]
        BY DEF SalesIInv, SalesTypeOK
    <2> QED BY <1>3, <2>1, CourseWritten DEF ModerateCourse
<1>4. CASE WriteUpdate
    <2> PICK d \in Courses : d = editor.course
        BY <1>4 DEF WriteUpdate, SalesIInv, FormsSound
    <2> DEFINE row == Written(price[d], editor.given)
    <2>1. row \in Prices
        <3>1. price[d] \in Prices /\ editor.given \in GivenPrice
            BY <1>4 DEF SalesIInv, SalesTypeOK, WriteUpdate, FormsSound
        <3>2. row = [f \in {"amount", "currency"} |-> row[f]]
            BY DEF Written
        <3>3. row["amount"] \in Amounts \cup {"none"} /\ row["currency"] \in Currencies \cup {"none"}
            BY <3>1 DEF Written, Prices, GivenPrice
        <3> HIDE DEF row
        <3> QED BY <3>2, <3>3, PairIsPrice
    <2>2. UNCHANGED <<listing, product, cart, learnerOwns, orders>> /\ editor' = Idle
        BY <1>4 DEF WriteUpdate
    <2>3. CASE PriceConstraint(row)
        <3>1. price' = [price EXCEPT ![d] = row] /\ Touched(d)
            BY <1>4, <2>3 DEF WriteUpdate
        <3> HIDE DEF row
        <3> QED BY <2>1, <2>2, <2>3, <3>1, CourseWritten DEF PriceConstraint
    <2>4. CASE ~PriceConstraint(row)
        <3>1. UNCHANGED <<price, page>>
            BY <1>4, <2>4 DEF WriteUpdate
        <3> QED BY <2>2, <3>1 DEF SalesIInv, SalesTypeOK, Row, FormsSound, PriceIsWhole, OneOrderPerKey
    <2> QED BY <2>3, <2>4
<1> QED BY <1>1, <1>2, <1>3, <1>4

\* The administrator loads a course and saves it.
LEMMA CatalogStep ==
    ASSUME SalesIInv, NEW c \in Courses,
           \/ LoadCatalog(c)
           \/ \E amount \in Amounts, sellable \in BOOLEAN : UpdateCatalog(c, amount, sellable)
    PROVE  SalesIInv'
<1>1. CASE LoadCatalog(c)
    <2>1. /\ UNCHANGED <<price, listing, product, editor, cart, learnerOwns, orders>>
          /\ page' = [course |-> c, row |-> Row(c), current |-> TRUE] /\ Row(c)' = Row(c)
        BY <1>1 DEF LoadCatalog, Row
    <2> QED BY <2>1 DEF SalesIInv, SalesTypeOK, FormsSound, PriceIsWhole, OneOrderPerKey
<1>2. ASSUME NEW amount \in Amounts, NEW sellable \in BOOLEAN, UpdateCatalog(c, amount, sellable)
      PROVE  SalesIInv'
    <2> DEFINE row == [amount |-> amount, currency |-> "VND"]
    <2>1. row \in Prices /\ row.amount # "none" /\ row.currency # "none"
        BY DEF Prices, Amounts, Currencies
    <2>2. /\ price' = [price EXCEPT ![c] = row] /\ page' = NotLoaded
          /\ UNCHANGED <<listing, editor, cart, learnerOwns, orders>>
          /\ product' \in [Courses -> {"none", "active", "archived"}]
        BY <1>2 DEF UpdateCatalog, SalesIInv, SalesTypeOK
    <2> HIDE DEF row
    <2>3. price' \in [Courses -> Prices] /\ PriceIsWhole'
        BY <2>1, <2>2 DEF SalesIInv, SalesTypeOK, PriceIsWhole
    <2>4. SalesTypeOK' /\ FormsSound'
        BY <2>2, <2>3 DEF SalesIInv, SalesTypeOK, FormsSound, NotLoaded
    <2> QED BY <2>2, <2>3, <2>4 DEF SalesIInv, OneOrderPerKey
<1> QED BY <1>1, <1>2

\* The learner fills and empties the cart, and owns what was delivered.
LEMMA CartStep ==
    ASSUME SalesIInv,
           \/ \E c \in Courses : AddCourse(c) \/ RemoveCourse(c)
           \/ ClearCart
           \/ \E o \in DOMAIN orders : OrderDelivered(o)
    PROVE  SalesIInv'
<1>1. /\ UNCHANGED <<price, listing, editor, page, orders>>
      /\ product' \in [Courses -> {"none", "active", "archived"}]
      /\ cart' \subseteq Courses
    BY DEF AddCourse, RemoveCourse, ClearCart, OrderDelivered, CourseUnchanged,
           EnsureActiveCourseProduct, SalesIInv, SalesTypeOK
<1>2. learnerOwns' \subseteq Courses
    <2>1. \A o \in DOMAIN orders : orders[o] \in OrderRecord
        BY DEF SalesIInv
    <2>2. \A o \in DOMAIN orders : orders[o].lines \subseteq Courses
        BY <2>1 DEF OrderRecord
    <2> QED BY <2>2 DEF AddCourse, RemoveCourse, ClearCart, OrderDelivered, SalesIInv, SalesTypeOK
<1>3. Row(page.course)' = Row(page.course)
    BY <1>1 DEF Row
<1> QED BY <1>1, <1>2, <1>3 DEF SalesIInv, SalesTypeOK, FormsSound, PriceIsWhole, OneOrderPerKey

\* A checkout appends the order of a key that no order has.
LEMMA CheckoutStep ==
    ASSUME SalesIInv, NEW k \in CheckoutKeys, NEW s \in Selections, CreateOrder(k, s)
    PROVE  /\ SalesIInv'
           /\ \E lines \in SUBSET Courses : /\ lines \subseteq cart /\ cart' = cart \ lines
                                            /\ orders' = Append(orders, [key |-> k, lines |-> lines])
<1> DEFINE lines == ChosenFrom(s)
           new == [key |-> k, lines |-> lines]
<1>1. /\ lines # {} /\ lines \subseteq cart /\ cart' = cart \ lines /\ orders' = Append(orders, new)
      /\ UNCHANGED <<price, listing, editor, page, product, learnerOwns>>
      /\ \A i \in DOMAIN orders : orders[i].key # k
    BY DEF CreateOrder, RestOfCart, CourseUnchanged, KeyIsNew, Range
<1>2. lines \in (SUBSET Courses) \ {{}} /\ cart' \subseteq Courses
    <2>1. cart \subseteq Courses
        BY DEF SalesIInv, SalesTypeOK
    <2>2. lines \subseteq Courses /\ lines # {} /\ cart' \subseteq Courses
        BY <1>1, <2>1
    <2> HIDE DEF lines
    <2> QED BY <2>2
<1>3. new \in OrderRecord /\ new.key = k
    BY <1>2 DEF OrderRecord
<1> HIDE DEF new
<1>4. /\ orders' \in Seq(OrderRecord) /\ orders'[Len(orders) + 1] = new
      /\ Len(orders) \in Nat /\ DOMAIN orders = 1 .. Len(orders)
      /\ DOMAIN orders' = 1 .. Len(orders) + 1
      /\ \A i \in DOMAIN orders : orders'[i] = orders[i]
    BY <1>1, <1>3 DEF SalesIInv
<1>5. OneOrderPerKey'
    BY <1>1, <1>3, <1>4 DEF SalesIInv, OneOrderPerKey
<1>6. \A o \in Range(orders') : o \in OrderRecord
    BY <1>4 DEF Range
<1>7. SalesTypeOK'
    BY <1>1, <1>2, <1>6 DEF SalesIInv, SalesTypeOK, Row, OrderRecord
<1> QED
    BY <1>1, <1>2, <1>4, <1>5, <1>7 DEF SalesIInv, FormsSound, PriceIsWhole, new

\* Every step keeps the invariant.
LEMMA SalesStep == SalesIInv /\ [SalesNext]_salesVars => SalesIInv'
<1> SUFFICES ASSUME SalesIInv, [SalesNext]_salesVars PROVE SalesIInv'
    OBVIOUS
<1>1. CASE UNCHANGED salesVars
    BY <1>1 DEF salesVars, SalesIInv, SalesTypeOK, Row, FormsSound, PriceIsWhole, OneOrderPerKey
<1>2. CASE WriteUpdate
    <2>1. \E c : c \in Courses
        BY <1>2 DEF WriteUpdate, SalesIInv, FormsSound
    <2> QED BY <1>2, <2>1, InstructorStep
<1>3. CASE SalesNext /\ ~WriteUpdate
    BY <1>3, InstructorStep, CatalogStep, CartStep, CheckoutStep DEF SalesNext
<1> QED BY <1>1, <1>2, <1>3

LEMMA SalesAlways == SalesSpec => []SalesIInv
BY SalesInitInvariant, SalesStep, PTL DEF SalesSpec

\* Prices are whole and one click makes one order, whatever edits and retries cross
\* (courses.service.ts, commerce-order.service.ts).
THEOREM SalesConsistentHolds == SalesSpec => []SalesConsistent
<1>1. SalesIInv => SalesConsistent
    BY DEF SalesIInv, SalesConsistent
<1> QED BY SalesAlways, <1>1, PTL

\* A checkout moves its own lines and no others; a product is withdrawn only as the
\* administrator saw its course (commerce-order.service.ts, admin-catalog.service.ts).
THEOREM DoneAsShownHolds == SalesSpec => DoneAsShown
<1> DEFINE Sold == UNION {orders'[o].lines : o \in DOMAIN orders' \ DOMAIN orders}
<1>1. SalesIInv /\ [SalesNext]_salesVars =>
          [LET sold == UNION {orders'[o].lines : o \in DOMAIN orders' \ DOMAIN orders}
           IN sold # {} => cart = cart' \cup sold /\ cart' \cap sold = {}]_salesVars
    <2> SUFFICES ASSUME SalesIInv, SalesNext, Sold # {}
                 PROVE  cart = cart' \cup Sold /\ cart' \cap Sold = {}
        OBVIOUS
    <2>1. PICK k \in CheckoutKeys, s \in Selections : CreateOrder(k, s)
        <3>1. orders' # orders
            OBVIOUS
        <3> QED BY <3>1 DEF SalesNext, ReadForUpdate, SetStatus, ModerateCourse, LoadCatalog,
                            UpdateCatalog, AddCourse, RemoveCourse, WriteUpdate, ClearCart,
                            OrderDelivered
    <2>2. PICK lines \in SUBSET Courses : /\ lines \subseteq cart /\ cart' = cart \ lines
                                          /\ orders' = Append(orders, [key |-> k, lines |-> lines])
        BY <2>1, CheckoutStep
    <2>3. /\ Len(orders) \in Nat /\ DOMAIN orders' \ DOMAIN orders = {Len(orders) + 1}
          /\ orders'[Len(orders) + 1] = [key |-> k, lines |-> lines]
        BY <2>2 DEF SalesIInv
    <2>4. Sold = lines
        BY <2>3
    <2> QED BY <2>2, <2>4
<1>2. SalesIInv /\ [SalesNext]_salesVars =>
          [\A c \in Courses : product[c] = "active" /\ product'[c] = "archived" =>
               page.course = c /\ page.row = Row(c)]_salesVars
    <2> SUFFICES ASSUME SalesIInv, SalesNext, NEW c \in Courses,
                        product[c] = "active", product'[c] = "archived"
                 PROVE  page.course = c /\ page.row = Row(c)
        OBVIOUS
    <2>1. product \in [Courses -> {"none", "active", "archived"}]
        BY DEF SalesIInv, SalesTypeOK
    <2>2. \A d \in Courses : ~AddCourse(d)
        BY <2>1 DEF AddCourse, EnsureActiveCourseProduct
    <2>3. PICK d \in Courses, amount \in Amounts, sellable \in BOOLEAN :
              UpdateCatalog(d, amount, sellable)
        BY <2>2 DEF SalesNext, ReadForUpdate, SetStatus, ModerateCourse, LoadCatalog, RemoveCourse,
                    WriteUpdate, ClearCart, OrderDelivered, CreateOrder
    <2>4. d = c
        BY <2>1, <2>3 DEF UpdateCatalog
    <2> QED BY <2>3, <2>4 DEF UpdateCatalog, SameVersion, SalesIInv, SalesTypeOK
<1> QED
    BY <1>1, <1>2, SalesAlways, PTL
       DEF SalesSpec, DoneAsShown, CheckoutMovesItsLines, WithdrawnAsShown

-----------------------------------------------------------------------------
(* Refunds                                                                  *)

RefundRow ==
    [status : {"none", "requested", "recorded", "rejected"}, from : Settlements \cup {Missing},
     closes : BOOLEAN, parts : [Lines -> Nat]]

\* The recorded refunds that named the case of a settlement.
Closers(s) == {r \in Refunds : refund[r].status = "recorded" /\ refund[r].closes
                               /\ refund[r].from = s}

RefundTypes ==
    /\ RefundTypeOK
    /\ refund \in [Refunds -> RefundRow]
    /\ \A r \in Refunds : refund[r].status # "none" => refund[r].from \in Settlements
    /\ confirming \in Settlements \cup {Missing} /\ delivered \in BOOLEAN

\* A case is resolved by the one recorded refund that named it.
CasesNamed == \A s \in Settlements :
    /\ caseOf[s] # "resolved" => Closers(s) = {}
    /\ caseOf[s] = "resolved" => \E r \in Refunds : Closers(s) = {r}

RefundBounds ==
    /\ \A s \in Settlements : RecordedFrom(s) <= Total
    /\ \A l \in Lines : /\ RecordedOf(l) <= Price[l]
                        /\ lineAccess[l] = "revoked" => RecordedOf(l) = Price[l]

LateOrderNamed ==
    orderState = "late_payment_refunded" => \E s \in Settlements : caseOf[s] = "resolved"

RefundIInv == RefundTypes /\ CasesNamed /\ RefundBounds /\ LateOrderNamed /\ FullRefundEndsAccess

\* What is back of a line, and what is back in all, are numbers.
LEMMA BackFacts ==
    ASSUME refund \in [Refunds -> RefundRow]
    PROVE  /\ \A r \in Refunds : Back(r) \in [Lines -> Nat] /\ Amount(Back(r)) \in Int
           /\ \A r \in Refunds : refund[r].status # "recorded" =>
                  (\A l \in Lines : Back(r)[l] = 0) /\ Amount(Back(r)) = 0
           /\ Total \in Int /\ Price \in [Lines -> Nat]
<1>1. NoRefund.parts = [l \in Lines |-> 0]
    BY DEF NoRefund
<1>2. \A f \in [Lines -> Nat] : Amount(f) \in Int
    BY LinesAssumption, TotalInt DEF Amount
<1>3. Amount(NoRefund.parts) = 0
    BY <1>1, LinesAssumption, TotalZero DEF Amount
<1>4. \A r \in Refunds : Back(r) \in [Lines -> Nat]
    BY <1>1 DEF Back, RefundRow
<1>5. Price \in [Lines -> Nat]
    BY LinesAssumption
<1>6. \A r \in Refunds : refund[r].status # "recorded" => Back(r) = NoRefund.parts
    BY DEF Back
<1>7. \A r \in Refunds : refund[r].status # "recorded" => \A l \in Lines : Back(r)[l] = 0
    BY <1>1, <1>6
<1> QED BY <1>2, <1>3, <1>4, <1>5, <1>6, <1>7 DEF Total

\* The sums are of numbers that are not negative, and what came out of one
\* settlement is no more than what came out of all.
LEMMA RecordedFacts ==
    ASSUME refund \in [Refunds -> RefundRow]
    PROVE  /\ \A l \in Lines : RecordedOf(l) \in Int
           /\ \A s : RecordedFrom(s) \in Int
           /\ \A s : \A l \in Lines : Recorded(s, l) \in Int /\ Recorded(s, l) <= RecordedOf(l)
<1> USE LinesAssumption
<1>1. \A l \in Lines : [r \in Refunds |-> Back(r)[l]] \in [Refunds -> Nat]
    BY BackFacts
<1>2. \A l \in Lines : RecordedOf(l) \in Int
    <2>1. TAKE l \in Lines
    <2>2. PICK f : f = [r \in Refunds |-> Back(r)[l]]
        OBVIOUS
    <2>3. f \in [Refunds -> Int]
        BY <1>1, <2>2
    <2> QED BY <2>2, <2>3, TotalInt DEF RecordedOf
<1>3. \A s : RecordedFrom(s) \in Int
    <2>1. TAKE s
    <2>2. PICK f : f = [r \in Refunds |-> IF refund[r].from = s THEN Amount(Back(r)) ELSE 0]
        OBVIOUS
    <2>3. f \in [Refunds -> Int]
        BY <2>2, BackFacts
    <2> QED BY <2>2, <2>3, TotalInt DEF RecordedFrom
<1>4. ASSUME NEW s, NEW l \in Lines
      PROVE  Recorded(s, l) \in Int /\ Recorded(s, l) <= RecordedOf(l)
    <2>1. PICK f : f = [r \in Refunds |-> IF refund[r].from = s THEN Back(r)[l] ELSE 0]
        OBVIOUS
    <2>2. PICK h : h = [r \in Refunds |-> Back(r)[l]]
        OBVIOUS
    <2>3. /\ f \in [Refunds -> Int] /\ h \in [Refunds -> Int]
          /\ \A r \in Refunds : f[r] <= h[r]
        BY <1>1, <2>1, <2>2, BackFacts
    <2>4. SumFunctionOnSet(f, Refunds) <= SumFunctionOnSet(h, Refunds)
        BY <2>3, SumAtMost
    <2>5. SumFunction(f) <= SumFunction(h) /\ SumFunction(f) \in Int
        BY <2>3, <2>4, TotalInt DEF SumFunction
    <2> QED BY <2>1, <2>2, <2>5 DEF Recorded, RecordedOf
<1> QED BY <1>2, <1>3, <1>4

\* Nothing more is back while no refund is recorded.
LEMMA NothingBack ==
    ASSUME refund \in [Refunds -> RefundRow], refund' \in [Refunds -> RefundRow],
           \A q \in Refunds : refund'[q].status = "recorded" <=> refund[q].status = "recorded",
           \A q \in Refunds : refund[q].status = "recorded" => refund'[q] = refund[q]
    PROVE  /\ \A l \in Lines : RecordedOf(l)' = RecordedOf(l)
           /\ \A s \in Settlements : RecordedFrom(s)' = RecordedFrom(s) /\ Closers(s)' = Closers(s)
           /\ \A l \in Lines : UNCHANGED confirming => Recorded(confirming, l)' = Recorded(confirming, l)
<1>1. \A q \in Refunds : Back(q)' = Back(q)
    BY DEF Back, NoRefund
<1>2. \A l \in Lines : RecordedOf(l)' = RecordedOf(l)
    BY <1>1 DEF RecordedOf
<1>3. ASSUME NEW s, NEW q \in Refunds
      PROVE  (IF refund'[q].from = s THEN Amount(Back(q)) ELSE 0)
                 = IF refund[q].from = s THEN Amount(Back(q)) ELSE 0
    BY BackFacts
<1>4. ASSUME NEW s, NEW q \in Refunds, NEW l \in Lines
      PROVE  (IF refund'[q].from = s THEN Back(q)[l] ELSE 0)
                 = IF refund[q].from = s THEN Back(q)[l] ELSE 0
    BY BackFacts
<1>5. \A s \in Settlements : RecordedFrom(s)' = RecordedFrom(s)
    <2>1. TAKE s \in Settlements
    <2>2. RecordedFrom(s)' = SumFunction([q \in Refunds |->
              IF refund'[q].from = s THEN Amount(Back(q)) ELSE 0])
        BY <1>1 DEF RecordedFrom, Amount
    <2>3. [q \in Refunds |-> IF refund'[q].from = s THEN Amount(Back(q)) ELSE 0]
              = [q \in Refunds |-> IF refund[q].from = s THEN Amount(Back(q)) ELSE 0]
        BY <1>3
    <2> QED BY <2>2, <2>3 DEF RecordedFrom
<1>6. ASSUME NEW l \in Lines, UNCHANGED confirming
      PROVE  Recorded(confirming, l)' = Recorded(confirming, l)
    <2>1. Recorded(confirming, l)' = SumFunction([q \in Refunds |->
              IF refund'[q].from = confirming THEN Back(q)[l] ELSE 0])
        BY <1>1, <1>6 DEF Recorded
    <2>2. [q \in Refunds |-> IF refund'[q].from = confirming THEN Back(q)[l] ELSE 0]
              = [q \in Refunds |-> IF refund[q].from = confirming THEN Back(q)[l] ELSE 0]
        BY <1>4
    <2> QED BY <2>1, <2>2 DEF Recorded
<1>7. \A s \in Settlements : Closers(s)' = Closers(s)
    BY DEF Closers
<1> QED BY <1>2, <1>5, <1>6, <1>7

\* A refund that is recorded adds what it allots, to what is back of the lines and to
\* what is back out of its settlement.
LEMMA OneMoreBack ==
    ASSUME refund \in [Refunds -> RefundRow], NEW r \in Refunds, refund[r].status = "requested",
           refund' = [refund EXCEPT ![r].status = "recorded"]
    PROVE  /\ refund' \in [Refunds -> RefundRow]
           /\ \A l \in Lines : RecordedOf(l)' = RecordedOf(l) + refund[r].parts[l]
           /\ \A s \in Settlements : RecordedFrom(s)' =
                  RecordedFrom(s) + IF refund[r].from = s THEN Amount(refund[r].parts) ELSE 0
           /\ \A l \in Lines : UNCHANGED confirming =>
                  Recorded(confirming, l)' =
                      Recorded(confirming, l) + IF refund[r].from = confirming THEN refund[r].parts[l] ELSE 0
           /\ \A s \in Settlements : Closers(s)' =
                  IF refund[r].closes /\ refund[r].from = s THEN Closers(s) \cup {r} ELSE Closers(s)
<1>0. IsFiniteSet(Lines) /\ IsFiniteSet(Refunds)
    BY LinesAssumption
<1>1. /\ refund' \in [Refunds -> RefundRow]
      /\ \A q \in Refunds \ {r} : refund'[q] = refund[q]
      /\ refund'[r].status = "recorded" /\ refund'[r].from = refund[r].from
      /\ refund'[r].parts = refund[r].parts /\ refund'[r].closes = refund[r].closes
    BY DEF RefundRow
<1>2. /\ \A q \in Refunds \ {r} : Back(q)' = Back(q)
      /\ Back(r)' = refund[r].parts
      /\ Back(r) \in [Lines -> Nat] /\ refund[r].parts \in [Lines -> Nat]
      /\ \A l \in Lines : Back(r)[l] = 0
      /\ Amount(Back(r)) = 0
      /\ \A q \in Refunds : Back(q)' \in [Lines -> Nat]
      /\ Amount(refund[r].parts) \in Int
    <2>1. /\ \A q \in Refunds \ {r} : Back(q)' = Back(q)
          /\ Back(r)' = refund[r].parts
        BY <1>1 DEF Back, NoRefund
    <2>2. refund[r].parts \in [Lines -> Nat]
        BY DEF RefundRow
    <2>3. Amount(refund[r].parts) \in Int
        BY <1>0, <2>2, TotalInt DEF Amount
    <2> QED BY <2>1, <2>2, <2>3, BackFacts
<1>3. ASSUME NEW l \in Lines
      PROVE  RecordedOf(l)' = RecordedOf(l) + refund[r].parts[l]
    <2>1. PICK f : f = [q \in Refunds |-> Back(q)[l]]
        OBVIOUS
    <2>2. PICK h : h = [q \in Refunds |-> Back(q)'[l]]
        OBVIOUS
    <2>3. PICK v : v = refund[r].parts[l]
        OBVIOUS
    <2>4. f \in [Refunds -> Int] /\ v \in Int /\ f[r] = 0
        BY <1>2, <2>1, <2>3, BackFacts
    <2>5. h = [f EXCEPT ![r] = v]
        BY <1>2, <2>1, <2>2, <2>3
    <2>6. SumFunction(h) = SumFunction(f) - f[r] + v /\ SumFunction(f) \in Int
        <3>1. SumFunction([f EXCEPT ![r] = v]) = SumFunction(f) - f[r] + v
            BY <1>0, <2>4, TotalChange
        <3>2. SumFunction(f) \in Int
            BY <1>0, <2>4, TotalInt
        <3> QED BY <2>5, <3>1, <3>2
    <2>7. RecordedOf(l)' = SumFunction(h) /\ RecordedOf(l) = SumFunction(f)
        BY <2>1, <2>2 DEF RecordedOf
    <2> QED BY <2>3, <2>4, <2>6, <2>7
<1>4. ASSUME NEW s \in Settlements
      PROVE  RecordedFrom(s)' =
                 RecordedFrom(s) + IF refund[r].from = s THEN Amount(refund[r].parts) ELSE 0
    <2>1. PICK f : f = [q \in Refunds |-> IF refund[q].from = s THEN Amount(Back(q)) ELSE 0]
        OBVIOUS
    <2>2. PICK h : h = [q \in Refunds |-> IF refund'[q].from = s THEN Amount(Back(q)') ELSE 0]
        OBVIOUS
    <2>3. PICK v : v = IF refund[r].from = s THEN Amount(refund[r].parts) ELSE 0
        OBVIOUS
    <2>4. f \in [Refunds -> Int] /\ v \in Int /\ f[r] = 0
        BY <1>2, <2>1, <2>3, BackFacts
    <2>5. h = [f EXCEPT ![r] = v]
        <3>1. h[r] = v
            BY <1>1, <1>2, <2>2, <2>3
        <3>2. \A q \in Refunds \ {r} : h[q] = f[q]
            BY <1>1, <1>2, <2>1, <2>2
        <3> QED BY <2>1, <2>2, <3>1, <3>2
    <2>6. SumFunction(h) = SumFunction(f) - f[r] + v /\ SumFunction(f) \in Int
        <3>1. SumFunction([f EXCEPT ![r] = v]) = SumFunction(f) - f[r] + v
            BY <1>0, <2>4, TotalChange
        <3>2. SumFunction(f) \in Int
            BY <1>0, <2>4, TotalInt
        <3> QED BY <2>5, <3>1, <3>2
    <2>7. RecordedFrom(s)' = SumFunction(h) /\ RecordedFrom(s) = SumFunction(f)
        BY <2>1, <2>2 DEF RecordedFrom, Amount
    <2> QED BY <2>3, <2>4, <2>6, <2>7
<1>5. ASSUME NEW l \in Lines, UNCHANGED confirming
      PROVE  Recorded(confirming, l)' =
                 Recorded(confirming, l) + IF refund[r].from = confirming THEN refund[r].parts[l] ELSE 0
    <2>1. PICK f : f = [q \in Refunds |-> IF refund[q].from = confirming THEN Back(q)[l] ELSE 0]
        OBVIOUS
    <2>2. PICK h : h = [q \in Refunds |-> IF refund'[q].from = confirming THEN Back(q)'[l] ELSE 0]
        OBVIOUS
    <2>3. PICK v : v = IF refund[r].from = confirming THEN refund[r].parts[l] ELSE 0
        OBVIOUS
    <2>4. f \in [Refunds -> Int] /\ v \in Int /\ f[r] = 0
        BY <1>2, <2>1, <2>3, BackFacts
    <2>5. h = [f EXCEPT ![r] = v]
        <3>1. h[r] = v
            BY <1>1, <1>2, <2>2, <2>3
        <3>2. \A q \in Refunds \ {r} : h[q] = f[q]
            BY <1>1, <1>2, <2>1, <2>2
        <3> QED BY <2>1, <2>2, <3>1, <3>2
    <2>6. SumFunction(h) = SumFunction(f) - f[r] + v /\ SumFunction(f) \in Int
        <3>1. SumFunction([f EXCEPT ![r] = v]) = SumFunction(f) - f[r] + v
            BY <1>0, <2>4, TotalChange
        <3>2. SumFunction(f) \in Int
            BY <1>0, <2>4, TotalInt
        <3> QED BY <2>5, <3>1, <3>2
    <2>7. Recorded(confirming, l)' = SumFunction(h) /\ Recorded(confirming, l) = SumFunction(f)
        BY <1>5, <2>1, <2>2 DEF Recorded
    <2> QED BY <2>3, <2>4, <2>6, <2>7
<1>6. \A s \in Settlements : Closers(s)' =
          IF refund[r].closes /\ refund[r].from = s THEN Closers(s) \cup {r} ELSE Closers(s)
    <2>1. ASSUME NEW s \in Settlements, NEW q \in Refunds
          PROVE  q \in Closers(s)' <=>
                     q \in Closers(s) \/ (q = r /\ refund[r].closes /\ refund[r].from = s)
        BY <1>1 DEF Closers
    <2> QED BY <2>1 DEF Closers
<1> QED BY <1>1, <1>3, <1>4, <1>5, <1>6

LEMMA RefundInitInvariant == RefundInit => RefundIInv
<1> SUFFICES ASSUME RefundInit PROVE RefundIInv
    OBVIOUS
<1> USE LinesAssumption
<1>1. RefundTypes
    <2>1. NoRefund \in RefundRow
        BY DEF NoRefund, RefundRow
    <2> QED BY <2>1 DEF RefundInit, RefundTypes, RefundTypeOK, NoRefund
<1>2. \A r \in Refunds : refund[r].status = "none"
    BY DEF RefundInit, NoRefund
<1>3. CasesNamed /\ LateOrderNamed
    BY <1>2 DEF CasesNamed, LateOrderNamed, Closers, RefundInit
<1>4. refund \in [Refunds -> RefundRow]
    BY <1>1 DEF RefundTypes
<1>5. \A l \in Lines : RecordedOf(l) = 0
    <2>1. TAKE l \in Lines
    <2>2. [r \in Refunds |-> Back(r)[l]] = [r \in Refunds |-> 0]
        BY <1>2, <1>4, BackFacts
    <2> QED BY <2>2, TotalZero DEF RecordedOf
<1>6. \A s \in Settlements : RecordedFrom(s) = 0
    <2>1. TAKE s \in Settlements
    <2>2. [r \in Refunds |-> IF refund[r].from = s THEN Amount(Back(r)) ELSE 0] = [r \in Refunds |-> 0]
        BY <1>2, <1>4, BackFacts
    <2> QED BY <2>2, TotalZero DEF RecordedFrom
<1>7. Total >= 0
    <2>1. PICK zero : zero = [l \in Lines |-> 0]
        OBVIOUS
    <2>2. \A l \in Lines : zero[l] \in Int /\ Price[l] \in Int /\ zero[l] <= Price[l]
        BY <2>1
    <2>3. SumFunctionOnSet(zero, Lines) <= SumFunctionOnSet(Price, Lines)
        BY <2>2, SumAtMost
    <2>4. SumFunction(zero) = 0 /\ DOMAIN zero = Lines /\ DOMAIN Price = Lines
        BY <2>1, TotalZero
    <2> QED BY <2>3, <2>4 DEF SumFunction, Total, Amount
<1>8. RefundBounds
    BY <1>5, <1>6, <1>7 DEF RefundBounds, RefundInit
<1>9. FullRefundEndsAccess
    BY DEF FullRefundEndsAccess, RefundInit
<1> QED BY <1>1, <1>3, <1>8, <1>9 DEF RefundIInv

\* The invariant is kept while no refund is recorded.
LEMMA NothingBackStep ==
    ASSUME RefundIInv, RefundTypes',
           \A q \in Refunds : refund'[q].status = "recorded" <=> refund[q].status = "recorded",
           \A q \in Refunds : refund[q].status = "recorded" => refund'[q] = refund[q],
           UNCHANGED <<confirming, orderState, caseOf>>,
           \/ UNCHANGED <<delivered, lineAccess, early>>
           \/ /\ lineAccess' = [l \in Lines |-> "active"]
              /\ early' = {l \in Lines : RecordedOf(l) > 0}
    PROVE  RefundIInv'
<1>1. /\ refund \in [Refunds -> RefundRow] /\ refund' \in [Refunds -> RefundRow]
    BY DEF RefundIInv, RefundTypes
<1>2. /\ \A l \in Lines : RecordedOf(l)' = RecordedOf(l) /\ RecordedOf(l) \in Int
      /\ \A s \in Settlements : RecordedFrom(s)' = RecordedFrom(s) /\ Closers(s)' = Closers(s)
      /\ \A l \in Lines : /\ Recorded(confirming, l)' = Recorded(confirming, l)
                          /\ Recorded(confirming, l) <= RecordedOf(l)
                          /\ Recorded(confirming, l) \in Int
    BY <1>1, NothingBack, RecordedFacts
<1>3. CasesNamed' /\ LateOrderNamed'
    BY <1>2 DEF RefundIInv, CasesNamed, LateOrderNamed
<1>4. RefundBounds'
    BY <1>2 DEF RefundIInv, RefundBounds
<1>5. FullRefundEndsAccess'
    <2>1. \A l \in Lines : Price[l] \in Nat \ {0}
        BY LinesAssumption
    <2>2. CASE UNCHANGED <<delivered, lineAccess, early>>
        BY <1>2, <2>2 DEF RefundIInv, FullRefundEndsAccess
    <2>3. CASE early' = {l \in Lines : RecordedOf(l) > 0}
        BY <1>2, <2>1, <2>3 DEF FullRefundEndsAccess
    <2> QED BY <2>2, <2>3
<1> QED BY <1>3, <1>4, <1>5 DEF RefundIInv

LEMMA RecordStep == ASSUME RefundIInv, NEW r \in Refunds, Record(r) PROVE RefundIInv'
<1>1. /\ refund \in [Refunds -> RefundRow] /\ refund[r].status = "requested"
      /\ refund' = [refund EXCEPT ![r].status = "recorded"]
      /\ UNCHANGED <<confirming, delivered, early>>
      /\ refund[r].from \in Settlements /\ refund[r].closes \in BOOLEAN
      /\ refund[r].parts \in [Lines -> Nat]
      /\ Price \in [Lines -> Nat \ {0}]
    BY LinesAssumption DEF Record, RefundIInv, RefundTypes, RefundRow
<1>2. /\ refund' \in [Refunds -> RefundRow]
      /\ \A l \in Lines : RecordedOf(l)' = RecordedOf(l) + refund[r].parts[l]
      /\ \A s \in Settlements : RecordedFrom(s)' =
             RecordedFrom(s) + IF refund[r].from = s THEN Amount(refund[r].parts) ELSE 0
      /\ \A l \in Lines : Recorded(confirming, l)' =
             Recorded(confirming, l) + IF refund[r].from = confirming THEN refund[r].parts[l] ELSE 0
      /\ \A s \in Settlements : Closers(s)' =
             IF refund[r].closes /\ refund[r].from = s THEN Closers(s) \cup {r} ELSE Closers(s)
    BY <1>1, OneMoreBack
<1>3. /\ \A l \in Lines : RecordedOf(l) \in Int /\ Recorded(confirming, l) <= RecordedOf(l)
                          /\ Recorded(confirming, l) \in Int
      /\ \A s : RecordedFrom(s) \in Int
      /\ Total \in Int
    BY <1>1, RecordedFacts, BackFacts
<1>4. /\ RecordedFrom(refund[r].from) + Amount(refund[r].parts) <= Total
      /\ \A l \in Lines : refund[r].parts[l] > 0 => RecordedOf(l) + refund[r].parts[l] <= Price[l]
      /\ lineAccess' = [l \in Lines |-> IF Ends(r, l) THEN "revoked" ELSE lineAccess[l]]
      /\ CloseCase(r)
    BY DEF Record, Bounded
<1>5. RefundTypes'
    BY <1>1, <1>2, <1>4 DEF RefundIInv, RefundTypes, RefundTypeOK, CloseCase
<1>6. CasesNamed' /\ LateOrderNamed'
    BY <1>1, <1>2, <1>4 DEF RefundIInv, CasesNamed, LateOrderNamed, CloseCase, RefundTypes, RefundTypeOK
<1>7. RefundBounds'
    <2>1. \A s \in Settlements : RecordedFrom(s)' <= Total
        BY <1>2, <1>3, <1>4 DEF RefundIInv, RefundBounds
    <2>2. ASSUME NEW l \in Lines
          PROVE  /\ RecordedOf(l)' <= Price[l]
                 /\ lineAccess'[l] = "revoked" => RecordedOf(l)' = Price[l]
        <3>1. refund[r].parts[l] \in Nat /\ Price[l] \in Nat
            BY <1>1
        <3>2. CASE refund[r].parts[l] = 0
            BY <1>2, <1>3, <1>4, <3>1, <3>2 DEF RefundIInv, RefundBounds, Ends
        <3>3. CASE refund[r].parts[l] > 0
            BY <1>2, <1>3, <1>4, <3>1, <3>3 DEF RefundIInv, RefundBounds, Ends, Exhausts
        <3> QED BY <3>1, <3>2, <3>3
    <2> QED BY <2>1, <2>2 DEF RefundBounds
<1>8. FullRefundEndsAccess'
    <2>1. SUFFICES ASSUME NEW l \in Lines, delivered, Recorded(confirming, l)' = Price[l]
                   PROVE  lineAccess'[l] = "revoked" \/ l \in early
        BY <1>1 DEF FullRefundEndsAccess
    <2>2. refund[r].parts[l] \in Nat /\ Price[l] \in Nat
        BY <1>1
    <2>3. CASE refund[r].from = confirming /\ refund[r].parts[l] > 0
        BY <1>2, <1>3, <1>4, <2>1, <2>2, <2>3 DEF Ends, Exhausts
    <2>4. CASE ~(refund[r].from = confirming /\ refund[r].parts[l] > 0)
        <3>1. Recorded(confirming, l) = Price[l]
            BY <1>2, <1>3, <2>1, <2>2, <2>4
        <3> QED BY <1>4, <2>1, <3>1 DEF RefundIInv, FullRefundEndsAccess
    <2> QED BY <2>3, <2>4
<1> QED BY <1>5, <1>6, <1>7, <1>8 DEF RefundIInv

LEMMA RefundStep == RefundIInv /\ [RefundNext]_refundVars => RefundIInv'
<1> SUFFICES ASSUME RefundIInv, [RefundNext]_refundVars PROVE RefundIInv'
    OBVIOUS
<1>1. ASSUME NEW r \in Refunds, NEW s \in Settlements, NEW p \in Parts, NEW closes \in BOOLEAN,
             Create(r, s, p, closes)
      PROVE  RefundIInv'
    <2>1. p \in [Lines -> Nat]
        BY LinesAssumption DEF Parts, Part
    <2>2. /\ RefundTypes' /\ UNCHANGED <<confirming, orderState, caseOf, delivered, lineAccess, early>>
          /\ \A q \in Refunds : refund'[q].status = "recorded" <=> refund[q].status = "recorded"
          /\ \A q \in Refunds : refund[q].status = "recorded" => refund'[q] = refund[q]
        BY <1>1, <2>1 DEF Create, RefundIInv, RefundTypes, RefundTypeOK, RefundRow
    <2> QED BY <2>2, NothingBackStep
<1>2. ASSUME NEW r \in Refunds, Reject(r) PROVE RefundIInv'
    <2>1. /\ RefundTypes' /\ UNCHANGED <<confirming, orderState, caseOf, delivered, lineAccess, early>>
          /\ \A q \in Refunds : refund'[q].status = "recorded" <=> refund[q].status = "recorded"
          /\ \A q \in Refunds : refund[q].status = "recorded" => refund'[q] = refund[q]
        BY <1>2 DEF Reject, RefundIInv, RefundTypes, RefundTypeOK, RefundRow
    <2> QED BY <2>1, NothingBackStep
<1>3. CASE Deliver
    <2>1. /\ RefundTypes' /\ UNCHANGED <<confirming, orderState, caseOf, refund>>
          /\ lineAccess' = [l \in Lines |-> "active"]
          /\ early' = {l \in Lines : RecordedOf(l) > 0}
        BY <1>3 DEF Deliver, RefundIInv, RefundTypes, RefundTypeOK, RefundRow
    <2> QED BY <2>1, NothingBackStep
<1>4. CASE UNCHANGED refundVars
    <2>1. /\ RefundTypes' /\ UNCHANGED <<confirming, orderState, caseOf, delivered, lineAccess, early, refund>>
        BY <1>4 DEF refundVars, RefundIInv, RefundTypes, RefundTypeOK
    <2> QED BY <2>1, NothingBackStep
<1> QED BY <1>1, <1>2, <1>3, <1>4, RecordStep DEF RefundNext

\* No refunds of an order give back more than came in or than a line cost, whoever
\* records them; who has the whole price of a line back has no access by it
\* (record, payment-refund.service.ts; commerce_validate_recorded_refund_bounds).
THEOREM RefundsConsistentHolds == RefundSpec => []RefundsConsistent
<1>1. RefundIInv => RefundsConsistent
    <2> SUFFICES ASSUME RefundIInv PROVE RefundsConsistent
        OBVIOUS
    <2>1. ASSUME NEW s \in Settlements
          PROVE  caseOf[s] = "resolved" <=> Cardinality(Closers(s)) = 1
        <3>1. CASE caseOf[s] = "resolved"
            <4>1. PICK r \in Refunds : Closers(s) = {r}
                BY <3>1 DEF RefundIInv, CasesNamed
            <4> QED BY <3>1, <4>1, FS_Singleton
        <3>2. CASE caseOf[s] # "resolved"
            <4>1. Closers(s) = {}
                BY <3>2 DEF RefundIInv, CasesNamed
            <4> QED BY <3>2, <4>1, FS_EmptySet
        <3> QED BY <3>1, <3>2
    <2> QED BY <2>1 DEF RefundsConsistent, RefundIInv, RefundTypes, RefundBounds, LateOrderNamed, Closers
<1> QED BY RefundInitInvariant, RefundStep, <1>1, PTL DEF RefundSpec

-----------------------------------------------------------------------------
(* Points, rewards and scholarships                                         *)

Kinds == {p.kind : p \in Policies}
EntryRow == [user : Learners, kind : {"credit", "debit", "redeem", "refund"}, amount : Nat,
             source : RedeemKeys]
AwardRow == [user : Learners, campaign : Campaigns, kind : Kinds]
RedemptionRow == [reward : Rewards \cup {"none"}, cost : Nat, kind : Kinds \cup {"none"},
                  status : {"none", "active", "revoked"}]
OfferRow == [status : RewardStatuses \cup ScholarshipStatuses, policy : Policies, given : Nat]
GrantRows == (Learners \X (RedeemKeys \cup Campaigns)) \X {"active", "revoked"}
StatusesOf(x) == IF x \in Rewards THEN RewardStatuses ELSE ScholarshipStatuses

BenefitTypes ==
    /\ offer \in [Offers -> OfferRow] /\ \A x \in Offers : offer[x].status \in StatusesOf(x)
    /\ redemption \in [Learners \X RedeemKeys -> RedemptionRow]
    /\ \A x \in Learners \X RedeemKeys :
           /\ redemption[x] # NoRedemption <=> redemption[x].status # "none"
           /\ redemption[x] # NoRedemption <=> redemption[x].reward # "none"
    /\ points \in SUBSET EntryRow /\ IsFiniteSet(points)
    /\ award \in SUBSET AwardRow /\ IsFiniteSet(award)
    /\ benefitGrant \subseteq GrantRows
    /\ pendingEdit # NoEdit =>
           /\ pendingEdit.offer \in Offers
           /\ pendingEdit.seen \in OfferRow
           /\ pendingEdit.seen.status \in StatusesOf(pendingEdit.offer)
           /\ pendingEdit.status \in StatusesOf(pendingEdit.offer) \cup {"as read"}
           /\ pendingEdit.policy \in Policies \cup {AsRead}

\* The ledger has one entry of a redemption, and one of its refund, of the price paid.
EntriesOf(u, k, kind) == {e \in points : e.user = u /\ e.source = k /\ e.kind = kind}

EntriesKept == \A u \in Learners, k \in RedeemKeys :
    /\ EntriesOf(u, k, "redeem") =
           IF redemption[<<u, k>>] = NoRedemption THEN {}
           ELSE {Entry(u, "redeem", redemption[<<u, k>>].cost, k)}
    /\ EntriesOf(u, k, "refund") =
           IF redemption[<<u, k>>].status = "revoked"
           THEN {Entry(u, "refund", redemption[<<u, k>>].cost, k)} ELSE {}

\* What a redemption or an award opened has one status, and is of it alone.
GrantsKept ==
    /\ \A x \in Learners \X RedeemKeys :
           /\ (<<x, "active">> \in benefitGrant) <=>
                  (redemption[x].kind = "course_access" /\ redemption[x].status = "active")
           /\ <<x, "revoked">> \in benefitGrant => redemption[x].status = "revoked"
    /\ \A x \in Learners \X Campaigns :
           /\ <<x, "revoked">> \notin benefitGrant
           /\ <<x, "active">> \in benefitGrant =>
                  \E w \in award : w.user = x[1] /\ w.campaign = x[2]
    /\ \A w \in award : w.kind = "course_access" => << <<w.user, w.campaign>>, "active">> \in benefitGrant

BenefitIInv == BenefitTypes /\ EntriesKept /\ NeverOverdrawn /\ GrantsKept /\ GivenIsCounted

\* The sum of entries: none, one, and one more.
LEMMA SumFacts ==
    ASSUME NEW S \in SUBSET EntryRow, IsFiniteSet(S)
    PROVE  /\ Sum(S) \in Nat
           /\ S = {} => Sum(S) = 0
           /\ \A e \in EntryRow : S = {e} => Sum(S) = e.amount
           /\ \A e \in EntryRow : e \notin S => Sum(S \cup {e}) = Sum(S) + e.amount
<1>1. \A e \in EntryRow : e.amount \in Nat
    BY DEF EntryRow
<1>2. PICK f : f = [e \in S |-> e.amount]
    OBVIOUS
<1>3. Sum(S) = SumFunctionOnSet(f, S)
    BY <1>2 DEF Sum, SumFunction
<1>4. \A e \in S : f[e] \in Nat
    BY <1>1, <1>2
<1>5. Sum(S) \in Nat
    BY <1>3, <1>4, SumNat
<1>6. S = {} => Sum(S) = 0
    BY <1>3, SumEmpty
<1>7. ASSUME NEW e \in EntryRow, S = {e} PROVE Sum(S) = e.amount
    <2>1. SumFunctionOnSet(f, S) = f[e] + SumFunctionOnSet(f, S \ {e})
        BY <1>4, <1>7, SumRemove
    <2>2. S \ {e} = {} /\ f[e] = e.amount /\ e.amount \in Nat
        BY <1>1, <1>2, <1>7
    <2> QED BY <1>3, <2>1, <2>2, SumEmpty
<1>8. ASSUME NEW e \in EntryRow, e \notin S PROVE Sum(S \cup {e}) = Sum(S) + e.amount
    <2>1. PICK h : h = [x \in S \cup {e} |-> x.amount]
        OBVIOUS
    <2>2. Sum(S \cup {e}) = SumFunctionOnSet(h, S \cup {e})
        BY <2>1 DEF Sum, SumFunction
    <2>3. \A x \in S \cup {e} : h[x] \in Int
        BY <1>1, <2>1
    <2>4. SumFunctionOnSet(h, S \cup {e}) = h[e] + SumFunctionOnSet(h, S)
        BY <1>8, <2>3, SumOneMore
    <2>5. SumFunctionOnSet(h, S) = SumFunctionOnSet(f, S)
        <3>1. \A x \in S : h[x] = f[x]
            BY <1>2, <2>1
        <3> QED BY <3>1, SumAgrees
    <2>6. h[e] = e.amount
        BY <2>1
    <2> QED BY <1>1, <1>3, <1>5, <2>2, <2>4, <2>5, <2>6
<1> QED BY <1>5, <1>6, <1>7, <1>8

\* What a learner earned and spent are numbers, and one more entry adds to one of them.
LEMMA Booked ==
    ASSUME points \in SUBSET EntryRow, IsFiniteSet(points)
    PROVE  /\ \A u : Earned(u) \in Nat /\ Spent(u) \in Nat
           /\ \A n \in EntryRow : n \notin points /\ points' = points \cup {n} => \A u :
                  /\ Earned(u)' = Earned(u) +
                         IF n.user = u /\ n.kind \in {"refund", "credit"} THEN n.amount ELSE 0
                  /\ Spent(u)' = Spent(u) +
                         IF n.user = u /\ n.kind \in {"redeem", "debit"} THEN n.amount ELSE 0
<1> DEFINE In(u) == {e \in points : e.user = u /\ e.kind \in {"refund", "credit"}}
           Out(u) == {e \in points : e.user = u /\ e.kind \in {"redeem", "debit"}}
<1>1. \A S \in SUBSET points : IsFiniteSet(S) /\ S \in SUBSET EntryRow
    BY FS_Subset, Zenon
<1>2. \A u : In(u) \in SUBSET points /\ Out(u) \in SUBSET points
    OBVIOUS
<1>3. \A u : Earned(u) = Sum(In(u)) /\ Spent(u) = Sum(Out(u))
    BY DEF Earned, Spent
<1> HIDE DEF In, Out
<1>4. \A u : Earned(u) \in Nat /\ Spent(u) \in Nat
    BY <1>1, <1>2, <1>3, SumFacts
<1>5. ASSUME NEW n \in EntryRow, n \notin points, points' = points \cup {n}, NEW u
      PROVE  /\ Earned(u)' = Earned(u) +
                    IF n.user = u /\ n.kind \in {"refund", "credit"} THEN n.amount ELSE 0
             /\ Spent(u)' = Spent(u) +
                    IF n.user = u /\ n.kind \in {"redeem", "debit"} THEN n.amount ELSE 0
    <2>1. /\ n \notin In(u) /\ n \notin Out(u) /\ n.amount \in Nat
          /\ \A e \in In(u) \cup Out(u) : e \in points
        BY <1>5 DEF In, Out, EntryRow
    <2>2. /\ Sum(In(u) \cup {n}) = Sum(In(u)) + n.amount /\ Sum(In(u)) \in Nat
          /\ Sum(Out(u) \cup {n}) = Sum(Out(u)) + n.amount /\ Sum(Out(u)) \in Nat
        BY <1>1, <1>2, <2>1, SumFacts
    <2>3. PICK more : more = {e \in points' : e.user = u /\ e.kind \in {"refund", "credit"}}
        OBVIOUS
    <2>4. PICK less : less = {e \in points' : e.user = u /\ e.kind \in {"redeem", "debit"}}
        OBVIOUS
    <2>5. more = IF n.user = u /\ n.kind \in {"refund", "credit"} THEN In(u) \cup {n} ELSE In(u)
        BY <1>5, <2>3 DEF In
    <2>6. less = IF n.user = u /\ n.kind \in {"redeem", "debit"} THEN Out(u) \cup {n} ELSE Out(u)
        BY <1>5, <2>4 DEF Out
    <2>7. Earned(u)' = Sum(more) /\ Spent(u)' = Sum(less)
        BY <2>3, <2>4 DEF Earned, Spent, Sum
    <2> QED BY <1>3, <2>1, <2>2, <2>5, <2>6, <2>7
<1> QED BY <1>4, <1>5

\* Nothing is given, spent or opened in the beginning.
LEMMA BenefitInitInvariant == BenefitInit => BenefitIInv
<1> SUFFICES ASSUME BenefitInit PROVE BenefitIInv
    OBVIOUS
<1> USE BenefitsAssumption
<1>1. /\ NoRedemption \in RedemptionRow
      /\ \A x \in Learners \X RedeemKeys : redemption[x] = NoRedemption
      /\ NoRedemption.status = "none" /\ NoRedemption.reward = "none" /\ NoRedemption.kind = "none"
    BY DEF NoRedemption, RedemptionRow, BenefitInit
<1>2. BenefitTypes
    <2>1. \A p \in Policies : [status |-> "draft", policy |-> p, given |-> 0] \in OfferRow
        BY DEF OfferRow, RewardStatuses
    <2>2. offer \in [Offers -> OfferRow] /\ \A x \in Offers : offer[x].status \in StatusesOf(x)
        BY <2>1 DEF BenefitInit, StatusesOf, RewardStatuses, ScholarshipStatuses
    <2>3. IsFiniteSet({})
        BY FS_EmptySet
    <2> QED BY <1>1, <2>2, <2>3 DEF BenefitTypes, BenefitInit
<1>3. EntriesKept /\ GrantsKept
    BY <1>1 DEF EntriesKept, GrantsKept, EntriesOf, BenefitInit
<1>4. NeverOverdrawn
    <2>1. \A u : Earned(u) = 0 /\ Spent(u) = 0
        <3>1. \A u : Earned(u) = Sum({}) /\ Spent(u) = Sum({})
            BY DEF Earned, Spent, BenefitInit
        <3>2. Sum({}) = 0
            BY SumFacts, FS_EmptySet
        <3> QED BY <3>1, <3>2
    <2> QED BY <2>1 DEF NeverOverdrawn
<1>5. GivenIsCounted
    <2>1. \A r \in Rewards : {x \in Learners \X RedeemKeys : redemption[x].reward = r} = {}
        BY <1>1
    <2>2. \A c \in Campaigns : {w \in award : w.campaign = c} = {}
        BY DEF BenefitInit
    <2>3. \A x \in Offers : offer[x].given = 0
        BY DEF BenefitInit
    <2>4. Cardinality({}) = 0
        BY FS_EmptySet
    <2> QED BY <2>1, <2>2, <2>3, <2>4 DEF GivenIsCounted, Offers
<1> QED BY <1>2, <1>3, <1>4, <1>5 DEF BenefitIInv

\* The counter of an offer is raised and the rest of the row is as it was.
LEMMA OneMoreGiven ==
    ASSUME offer \in [Offers -> OfferRow], \A y \in Offers : offer[y].status \in StatusesOf(y),
           NEW x \in Offers, offer' = [offer EXCEPT ![x].given = @ + 1]
    PROVE  /\ offer' \in [Offers -> OfferRow]
           /\ \A y \in Offers : offer'[y].status \in StatusesOf(y)
           /\ offer'[x].given = offer[x].given + 1
           /\ \A y \in Offers \ {x} : offer'[y] = offer[y]
<1>1. PICK row : row = [offer[x] EXCEPT !.given = @ + 1]
    OBVIOUS
<1>2. offer[x] \in OfferRow
    OBVIOUS
<1>3. /\ row \in OfferRow /\ row.status = offer[x].status
      /\ row.given = offer[x].given + 1
    BY <1>1, <1>2 DEF OfferRow
<1>4. offer' = [offer EXCEPT ![x] = row]
    BY <1>1
<1> QED BY <1>3, <1>4

LEMMA AdjustStep ==
    ASSUME BenefitIInv, NEW u \in Learners, NEW k \in RedeemKeys, NEW d \in {"credit", "debit"},
           NEW n \in {p.cost : p \in Policies}, AdjustBalance(u, k, d, n)
    PROVE  BenefitIInv'
<1>1. PICK e : e = Entry(u, d, n, k)
    OBVIOUS
<1>2. /\ e \in EntryRow /\ e.user = u /\ e.kind = d /\ e.amount = n /\ e.source = k /\ n \in Nat
    BY <1>1, BenefitsAssumption DEF Entry, EntryRow
<1>3. e \notin points /\ points' = points \cup {e}
    BY <1>1, <1>2 DEF AdjustBalance
<1>4. UNCHANGED <<offer, redemption, award, benefitGrant, pendingEdit>>
    BY DEF AdjustBalance
<1>5. BenefitTypes'
    <2>1. IsFiniteSet(points')
        BY <1>3, FS_AddElement DEF BenefitIInv, BenefitTypes
    <2> QED BY <1>2, <1>3, <1>4, <2>1 DEF BenefitIInv, BenefitTypes
<1>6. EntriesKept'
    <2>1. \A v \in Learners, j \in RedeemKeys, kind \in {"redeem", "refund"} :
              EntriesOf(v, j, kind)' = EntriesOf(v, j, kind)
        BY <1>2, <1>3 DEF EntriesOf
    <2> QED BY <1>4, <2>1 DEF BenefitIInv, EntriesKept
<1>7. NeverOverdrawn'
    <2>1. \A v \in Learners :
              /\ Earned(v) \in Nat /\ Spent(v) \in Nat /\ Spent(v) <= Earned(v)
              /\ Earned(v)' = Earned(v) + IF v = u /\ d = "credit" THEN n ELSE 0
              /\ Spent(v)' = Spent(v) + IF v = u /\ d = "debit" THEN n ELSE 0
        BY <1>2, <1>3, Booked DEF BenefitIInv, BenefitTypes, NeverOverdrawn
    <2>2. d = "debit" => Earned(u) - Spent(u) >= n
        BY <2>1 DEF AdjustBalance, Balance
    <2> QED BY <1>2, <2>1, <2>2 DEF NeverOverdrawn
<1>8. GrantsKept' /\ GivenIsCounted'
    BY <1>4 DEF BenefitIInv, GrantsKept, GivenIsCounted
<1> QED BY <1>5, <1>6, <1>7, <1>8 DEF BenefitIInv

LEMMA RedeemStep ==
    ASSUME BenefitIInv, NEW u \in Learners, NEW r \in Rewards, NEW k \in RedeemKeys, Redeem(u, r, k)
    PROVE  BenefitIInv'
<1> USE BenefitsAssumption
<1>1. PICK p : p = offer[r].policy
    OBVIOUS
<1>2. PICK e : e = Entry(u, "redeem", p.cost, k)
    OBVIOUS
<1>3. PICK x : x = <<u, k>>
    OBVIOUS
<1>4. PICK row : row = [reward |-> r, cost |-> p.cost, kind |-> p.kind, status |-> "active"]
    OBVIOUS
<1>5. /\ redemption[x] = NoRedemption /\ Balance(u) >= p.cost
      /\ redemption' = [redemption EXCEPT ![x] = row]
      /\ benefitGrant' = IF p.kind = "course_access" THEN benefitGrant \cup {<<x, "active">>}
                         ELSE benefitGrant
      /\ points' = points \cup {e}
      /\ offer' = [offer EXCEPT ![r].given = @ + 1]
      /\ UNCHANGED <<award, pendingEdit>>
    BY <1>1, <1>2, <1>3, <1>4 DEF Redeem, Granted, Given
<1>6. /\ r \in Offers /\ p \in Policies /\ p.cost \in Nat /\ p.kind \in Kinds
      /\ x \in Learners \X RedeemKeys
      /\ r # "none"
    BY <1>1, <1>3 DEF Offers, BenefitIInv, BenefitTypes, OfferRow, Kinds
<1>7. /\ e \in EntryRow /\ e.user = u /\ e.kind = "redeem" /\ e.amount = p.cost /\ e.source = k
      /\ row \in RedemptionRow /\ row.reward = r /\ row.cost = p.cost /\ row.kind = p.kind
      /\ row.status = "active" /\ row # NoRedemption
    BY <1>2, <1>4, <1>6 DEF Entry, EntryRow, RedemptionRow, NoRedemption
<1>8. /\ redemption \in [Learners \X RedeemKeys -> RedemptionRow]
      /\ redemption'[x] = row
      /\ \A y \in (Learners \X RedeemKeys) \ {x} : redemption'[y] = redemption[y]
      /\ redemption[x].status = "none" /\ redemption[x].reward = "none"
    BY <1>5, <1>6 DEF BenefitIInv, BenefitTypes, NoRedemption
<1>9. e \notin points
    <2>1. EntriesOf(u, k, "redeem") = {}
        BY <1>3, <1>5 DEF BenefitIInv, EntriesKept
    <2> QED BY <1>7, <2>1 DEF EntriesOf
<1>10. BenefitTypes'
    <2>1. IsFiniteSet(points')
        BY <1>5, FS_AddElement DEF BenefitIInv, BenefitTypes
    <2>2. offer' \in [Offers -> OfferRow] /\ \A y \in Offers : offer'[y].status \in StatusesOf(y)
        BY <1>5, <1>6, OneMoreGiven DEF BenefitIInv, BenefitTypes
    <2>3. redemption' \in [Learners \X RedeemKeys -> RedemptionRow]
        BY <1>5, <1>6, <1>7 DEF BenefitIInv, BenefitTypes
    <2>4. \A y \in Learners \X RedeemKeys :
              /\ redemption'[y] # NoRedemption <=> redemption'[y].status # "none"
              /\ redemption'[y] # NoRedemption <=> redemption'[y].reward # "none"
        BY <1>6, <1>7, <1>8 DEF BenefitIInv, BenefitTypes
    <2>5. benefitGrant' \subseteq GrantRows
        <3>1. <<x, "active">> \in GrantRows
            BY <1>3 DEF GrantRows
        <3>2. benefitGrant \subseteq GrantRows
            BY DEF BenefitIInv, BenefitTypes
        <3>3. \A g \in benefitGrant' : g \in benefitGrant \/ g = <<x, "active">>
            BY <1>5
        <3> QED BY <3>1, <3>2, <3>3, Zenon
    <2>6. points' \in SUBSET EntryRow
        BY <1>5, <1>7 DEF BenefitIInv, BenefitTypes
    <2> QED BY <1>5, <2>1, <2>2, <2>3, <2>4, <2>5, <2>6 DEF BenefitIInv, BenefitTypes
<1>11. EntriesKept'
    <2>1. ASSUME NEW v \in Learners, NEW j \in RedeemKeys
          PROVE  /\ EntriesOf(v, j, "refund")' = EntriesOf(v, j, "refund")
                 /\ EntriesOf(v, j, "redeem")' =
                        IF v = u /\ j = k THEN EntriesOf(v, j, "redeem") \cup {e}
                        ELSE EntriesOf(v, j, "redeem")
        BY <1>5, <1>7 DEF EntriesOf
    <2>2. ASSUME NEW v \in Learners, NEW j \in RedeemKeys, ~(v = u /\ j = k)
          PROVE  <<v, j>> # x /\ <<v, j>> \in Learners \X RedeemKeys
        BY <1>3, <2>2
    <2>3. ASSUME NEW v \in Learners, NEW j \in RedeemKeys
          PROVE  /\ EntriesOf(v, j, "redeem")' =
                        IF redemption'[<<v, j>>] = NoRedemption THEN {}
                        ELSE {Entry(v, "redeem", redemption'[<<v, j>>].cost, j)}
                 /\ EntriesOf(v, j, "refund")' =
                        IF redemption'[<<v, j>>].status = "revoked"
                        THEN {Entry(v, "refund", redemption'[<<v, j>>].cost, j)} ELSE {}
        <3>1. CASE v = u /\ j = k
            BY <1>2, <1>3, <1>5, <1>7, <1>8, <2>1, <3>1 DEF BenefitIInv, EntriesKept
        <3>2. CASE ~(v = u /\ j = k)
            BY <1>8, <2>1, <2>2, <3>2 DEF BenefitIInv, EntriesKept
        <3> QED BY <3>1, <3>2
    <2> QED BY <2>3 DEF EntriesKept, Entry
<1>12. NeverOverdrawn'
    <2>1. \A v \in Learners :
              /\ Earned(v) \in Nat /\ Spent(v) \in Nat /\ Spent(v) <= Earned(v)
              /\ Earned(v)' = Earned(v)
              /\ Spent(v)' = Spent(v) + IF v = u THEN p.cost ELSE 0
        <3>1. points \in SUBSET EntryRow /\ IsFiniteSet(points)
            BY DEF BenefitIInv, BenefitTypes
        <3>2. \A v \in Learners : Spent(v) <= Earned(v)
            BY DEF BenefitIInv, NeverOverdrawn
        <3>3. \A v : Earned(v) \in Nat /\ Spent(v) \in Nat
            BY <3>1, Booked
        <3>4. \A v : /\ Earned(v)' = Earned(v) +
                             IF e.user = v /\ e.kind \in {"refund", "credit"} THEN e.amount ELSE 0
                     /\ Spent(v)' = Spent(v) +
                             IF e.user = v /\ e.kind \in {"redeem", "debit"} THEN e.amount ELSE 0
            BY <1>5, <1>7, <1>9, <3>1, Booked
        <3> QED BY <1>6, <1>7, <3>2, <3>3, <3>4
    <2>2. Earned(u) - Spent(u) >= p.cost
        BY <1>5, <2>1 DEF Balance
    <2> QED BY <1>6, <2>1, <2>2 DEF NeverOverdrawn
<1>13. GrantsKept'
    <2>1. \A y \in Learners \X Campaigns : y # x
        BY <1>3
    <2>2. \A y \in Learners \X RedeemKeys :
              /\ (<<y, "active">> \in benefitGrant') <=>
                     (redemption'[y].kind = "course_access" /\ redemption'[y].status = "active")
              /\ <<y, "revoked">> \in benefitGrant' => redemption'[y].status = "revoked"
        <3>1. TAKE y \in Learners \X RedeemKeys
        <3>2. CASE y = x
            BY <1>5, <1>6, <1>7, <1>8, <3>2 DEF BenefitIInv, GrantsKept
        <3>3. CASE y # x
            BY <1>5, <1>8, <3>3 DEF BenefitIInv, GrantsKept
        <3> QED BY <3>2, <3>3
    <2>3. \A s : \A y \in Learners \X Campaigns :
              <<y, s>> \in benefitGrant' <=> <<y, s>> \in benefitGrant
        BY <1>5, <2>1
    <2>4. \A w \in award : w.kind = "course_access" => << <<w.user, w.campaign>>, "active">> \in benefitGrant'
        BY <1>5 DEF BenefitIInv, GrantsKept
    <2> QED BY <1>5, <2>2, <2>3, <2>4 DEF BenefitIInv, GrantsKept
<1>14. GivenIsCounted'
    <2>1. ASSUME NEW q \in Rewards
          PROVE  offer'[q].given = Cardinality({y \in Learners \X RedeemKeys : redemption'[y].reward = q})
        <3>1. PICK S : S = {y \in Learners \X RedeemKeys : redemption[y].reward = q}
            OBVIOUS
        <3>2. IsFiniteSet(S) /\ offer[q].given = Cardinality(S)
            <4>1. IsFiniteSet(Learners \X RedeemKeys) /\ S \subseteq Learners \X RedeemKeys
                BY <3>1, FS_Product
            <4> QED BY <3>1, <4>1, FS_Subset DEF BenefitIInv, GivenIsCounted
        <3>3. {y \in Learners \X RedeemKeys : redemption'[y].reward = q} = IF q = r THEN S \cup {x} ELSE S
            BY <1>6, <1>7, <1>8, <3>1
        <3>4. x \notin S
            BY <1>6, <1>8, <3>1
        <3>5. offer'[q].given = IF q = r THEN offer[q].given + 1 ELSE offer[q].given
            BY <1>5 DEF Offers, BenefitIInv, BenefitTypes, OfferRow
        <3>6. Cardinality(S \cup {x}) = Cardinality(S) + 1
            BY <3>2, <3>4, FS_AddElement
        <3> QED BY <3>2, <3>3, <3>5, <3>6
    <2>2. \A c \in Campaigns : offer'[c].given = offer[c].given
        BY <1>5 DEF Offers, BenefitIInv, BenefitTypes, OfferRow
    <2> QED BY <1>5, <2>1, <2>2 DEF BenefitIInv, GivenIsCounted
<1> QED BY <1>10, <1>11, <1>12, <1>13, <1>14 DEF BenefitIInv

LEMMA RefundRedemptionStep ==
    ASSUME BenefitIInv, NEW u \in Learners, NEW k \in RedeemKeys, RefundRedemption(u, k)
    PROVE  BenefitIInv'
<1> USE BenefitsAssumption
<1>1. PICK x : x = <<u, k>>
    OBVIOUS
<1>2. PICK n : n = redemption[x].cost
    OBVIOUS
<1>3. PICK e : e = Entry(u, "refund", n, k)
    OBVIOUS
<1>4. /\ redemption[x] # NoRedemption
      /\ ~\E q \in points : q.user = u /\ q.kind = "refund" /\ q.source = k
      /\ redemption' = [redemption EXCEPT ![x].status = "revoked"]
      /\ benefitGrant' = IF redemption[x].kind = "course_access" THEN Revoked(x) ELSE benefitGrant
      /\ points' = points \cup {e}
      /\ UNCHANGED <<offer, award, pendingEdit>>
    BY <1>1, <1>2, <1>3 DEF RefundRedemption, PaidBack, EntitledTo
<1>5. /\ x \in Learners \X RedeemKeys /\ n \in Nat
      /\ e \in EntryRow /\ e.user = u /\ e.kind = "refund" /\ e.amount = n /\ e.source = k
    BY <1>1, <1>2, <1>3 DEF BenefitIInv, BenefitTypes, RedemptionRow, Entry, EntryRow
<1>6. e \notin points
    BY <1>4, <1>5
<1>7. redemption[x].status = "active"
    <2>1. EntriesOf(u, k, "refund") = {}
        BY <1>4 DEF EntriesOf
    <2>2. redemption[x].status # "revoked"
        BY <1>1, <2>1 DEF BenefitIInv, EntriesKept
    <2> QED BY <1>4, <1>5, <2>2 DEF BenefitIInv, BenefitTypes, RedemptionRow
<1>8. /\ redemption' \in [Learners \X RedeemKeys -> RedemptionRow]
      /\ redemption'[x].status = "revoked" /\ redemption'[x].cost = n
      /\ redemption'[x].reward = redemption[x].reward
      /\ \A y \in (Learners \X RedeemKeys) \ {x} : redemption'[y] = redemption[y]
    <2>1. PICK row : row = [redemption[x] EXCEPT !.status = "revoked"]
        OBVIOUS
    <2>2. redemption \in [Learners \X RedeemKeys -> RedemptionRow] /\ redemption[x] \in RedemptionRow
        BY <1>5 DEF BenefitIInv, BenefitTypes
    <2>3. /\ row \in RedemptionRow /\ row.status = "revoked" /\ row.cost = redemption[x].cost
          /\ row.reward = redemption[x].reward
        BY <2>1, <2>2 DEF RedemptionRow
    <2>4. redemption' = [redemption EXCEPT ![x] = row]
        BY <1>4, <2>1
    <2> QED BY <1>2, <1>5, <2>2, <2>3, <2>4
<1>9. redemption'[x] # NoRedemption /\ redemption'[x].reward # "none"
    <2>1. redemption[x].reward # "none"
        BY <1>4, <1>5 DEF BenefitIInv, BenefitTypes
    <2>2. NoRedemption.status = "none"
        BY DEF NoRedemption
    <2> QED BY <1>8, <2>1, <2>2
<1>10. \A y \in Learners \X (RedeemKeys \cup Campaigns), s \in {"active", "revoked"} :
           IF y = x THEN <<y, s>> \in benefitGrant' => s = "revoked"
           ELSE <<y, s>> \in benefitGrant' <=> <<y, s>> \in benefitGrant
    <2>1. CASE redemption[x].kind = "course_access"
        <3>1. benefitGrant' = {IF g[1] = x THEN <<x, "revoked">> ELSE g : g \in benefitGrant}
            BY <1>4, <2>1 DEF Revoked
        <3> QED BY <3>1
    <2>2. CASE redemption[x].kind # "course_access"
        <3>1. <<x, "active">> \notin benefitGrant
            BY <1>5, <2>2 DEF BenefitIInv, GrantsKept
        <3> QED BY <1>4, <2>2, <3>1
    <2> QED BY <2>1, <2>2
<1>11. BenefitTypes'
    <2>1. IsFiniteSet(points')
        BY <1>4, FS_AddElement DEF BenefitIInv, BenefitTypes
    <2>2. benefitGrant' \subseteq GrantRows
        <3>1. <<x, "revoked">> \in GrantRows
            BY <1>1 DEF GrantRows
        <3>2. benefitGrant \subseteq GrantRows
            BY DEF BenefitIInv, BenefitTypes
        <3>3. \A g \in benefitGrant' : g \in benefitGrant \/ g = <<x, "revoked">>
            BY <1>4 DEF Revoked
        <3> QED BY <3>1, <3>2, <3>3, Zenon
    <2>3. \A y \in Learners \X RedeemKeys :
              /\ redemption'[y] # NoRedemption <=> redemption'[y].status # "none"
              /\ redemption'[y] # NoRedemption <=> redemption'[y].reward # "none"
        BY <1>8, <1>9 DEF BenefitIInv, BenefitTypes
    <2>4. points' \in SUBSET EntryRow
        BY <1>4, <1>5 DEF BenefitIInv, BenefitTypes
    <2> QED BY <1>4, <1>8, <2>1, <2>2, <2>3, <2>4 DEF BenefitIInv, BenefitTypes
<1>12. EntriesKept'
    <2>1. ASSUME NEW v \in Learners, NEW j \in RedeemKeys
          PROVE  /\ EntriesOf(v, j, "redeem")' = EntriesOf(v, j, "redeem")
                 /\ EntriesOf(v, j, "refund")' =
                        IF v = u /\ j = k THEN EntriesOf(v, j, "refund") \cup {e}
                        ELSE EntriesOf(v, j, "refund")
        BY <1>4, <1>5 DEF EntriesOf
    <2>2. ASSUME NEW v \in Learners, NEW j \in RedeemKeys, ~(v = u /\ j = k)
          PROVE  <<v, j>> # x /\ <<v, j>> \in Learners \X RedeemKeys
        BY <1>1, <2>2
    <2>3. ASSUME NEW v \in Learners, NEW j \in RedeemKeys
          PROVE  /\ EntriesOf(v, j, "redeem")' =
                        IF redemption'[<<v, j>>] = NoRedemption THEN {}
                        ELSE {Entry(v, "redeem", redemption'[<<v, j>>].cost, j)}
                 /\ EntriesOf(v, j, "refund")' =
                        IF redemption'[<<v, j>>].status = "revoked"
                        THEN {Entry(v, "refund", redemption'[<<v, j>>].cost, j)} ELSE {}
        <3>1. CASE v = u /\ j = k
            <4>1. /\ EntriesOf(u, k, "redeem") = {Entry(u, "redeem", n, k)}
                  /\ EntriesOf(u, k, "refund") = {}
                BY <1>1, <1>2, <1>4, <1>7 DEF BenefitIInv, EntriesKept
            <4> QED BY <1>1, <1>3, <1>8, <1>9, <2>1, <3>1, <4>1
        <3>2. CASE ~(v = u /\ j = k)
            BY <1>8, <2>1, <2>2, <3>2 DEF BenefitIInv, EntriesKept
        <3> QED BY <3>1, <3>2
    <2> QED BY <2>3 DEF EntriesKept, Entry
<1>13. NeverOverdrawn'
    <2>1. \A v \in Learners :
              /\ Earned(v) \in Nat /\ Spent(v) \in Nat /\ Spent(v) <= Earned(v)
              /\ Earned(v)' = Earned(v) + IF v = u THEN n ELSE 0
              /\ Spent(v)' = Spent(v)
        <3>1. points \in SUBSET EntryRow /\ IsFiniteSet(points)
            BY DEF BenefitIInv, BenefitTypes
        <3>2. \A v \in Learners : Spent(v) <= Earned(v)
            BY DEF BenefitIInv, NeverOverdrawn
        <3>3. \A v : Earned(v) \in Nat /\ Spent(v) \in Nat
            BY <3>1, Booked
        <3>4. \A v : /\ Earned(v)' = Earned(v) +
                             IF e.user = v /\ e.kind \in {"refund", "credit"} THEN e.amount ELSE 0
                     /\ Spent(v)' = Spent(v) +
                             IF e.user = v /\ e.kind \in {"redeem", "debit"} THEN e.amount ELSE 0
            BY <1>4, <1>5, <1>6, <3>1, Booked
        <3> QED BY <1>5, <3>2, <3>3, <3>4
    <2> QED BY <1>5, <2>1 DEF NeverOverdrawn
<1>14. GrantsKept'
    <2>1. \A y \in Learners \X RedeemKeys :
              /\ (<<y, "active">> \in benefitGrant') <=>
                     (redemption'[y].kind = "course_access" /\ redemption'[y].status = "active")
              /\ <<y, "revoked">> \in benefitGrant' => redemption'[y].status = "revoked"
        <3>1. TAKE y \in Learners \X RedeemKeys
        <3>2. y \in Learners \X (RedeemKeys \cup Campaigns)
            OBVIOUS
        <3>3. CASE y = x
            BY <1>8, <1>10, <3>2, <3>3
        <3>4. CASE y # x
            <4>1. redemption'[y] = redemption[y]
                BY <1>8, <3>4
            <4>2. /\ <<y, "active">> \in benefitGrant' <=> <<y, "active">> \in benefitGrant
                  /\ <<y, "revoked">> \in benefitGrant' <=> <<y, "revoked">> \in benefitGrant
                BY <1>10, <3>2, <3>4
            <4> QED BY <4>1, <4>2 DEF BenefitIInv, GrantsKept
        <3> QED BY <3>3, <3>4
    <2>2. \A y \in Learners \X Campaigns, s \in {"active", "revoked"} :
              <<y, s>> \in benefitGrant' <=> <<y, s>> \in benefitGrant
        <3>1. \A y \in Learners \X Campaigns : y # x /\ y \in Learners \X (RedeemKeys \cup Campaigns)
            BY <1>1
        <3> QED BY <1>10, <3>1
    <2>3. \A w \in award : w.kind = "course_access" => << <<w.user, w.campaign>>, "active">> \in benefitGrant'
        <3>1. \A w \in award : <<w.user, w.campaign>> \in Learners \X Campaigns
            BY DEF BenefitIInv, BenefitTypes, AwardRow
        <3> QED BY <2>2, <3>1 DEF BenefitIInv, GrantsKept
    <2> QED BY <1>4, <2>1, <2>2, <2>3 DEF BenefitIInv, GrantsKept
<1>15. GivenIsCounted'
    <2>1. \A y \in Learners \X RedeemKeys : redemption'[y].reward = redemption[y].reward
        BY <1>8
    <2>2. \A q : {y \in Learners \X RedeemKeys : redemption'[y].reward = q}
                     = {y \in Learners \X RedeemKeys : redemption[y].reward = q}
        BY <2>1
    <2> QED BY <1>4, <2>2 DEF BenefitIInv, GivenIsCounted
<1> QED BY <1>11, <1>12, <1>13, <1>14, <1>15 DEF BenefitIInv

LEMMA ApplyStep ==
    ASSUME BenefitIInv, NEW u \in Learners, NEW c \in Campaigns, Apply(u, c)
    PROVE  BenefitIInv'
<1> USE BenefitsAssumption
<1>1. PICK p : p = offer[c].policy
    OBVIOUS
<1>2. PICK w : w = [user |-> u, campaign |-> c, kind |-> p.kind]
    OBVIOUS
<1>3. PICK x : x = <<u, c>>
    OBVIOUS
<1>4. /\ ~\E v \in award : v.user = u /\ v.campaign = c
      /\ award' = award \cup {w}
      /\ benefitGrant' = IF p.kind = "course_access" THEN benefitGrant \cup {<<x, "active">>}
                         ELSE benefitGrant
      /\ offer' = [offer EXCEPT ![c].given = @ + 1]
      /\ UNCHANGED <<redemption, points, pendingEdit>>
    BY <1>1, <1>2, <1>3 DEF Apply, Granted, Given
<1>5. /\ c \in Offers /\ c \notin Rewards /\ p.kind \in Kinds
      /\ x \in Learners \X Campaigns /\ x[1] = u /\ x[2] = c
      /\ w \in AwardRow /\ w.user = u /\ w.campaign = c /\ w.kind = p.kind
    <2>1. c \in Offers /\ p \in Policies
        BY <1>1 DEF Offers, BenefitIInv, BenefitTypes, OfferRow
    <2>2. p.kind \in Kinds
        BY <2>1 DEF Kinds
    <2> QED BY <1>2, <1>3, <2>1, <2>2 DEF AwardRow
<1>6. w \notin award
    BY <1>4, <1>5
<1>7. BenefitTypes'
    <2>1. IsFiniteSet(award')
        BY <1>4, FS_AddElement DEF BenefitIInv, BenefitTypes
    <2>2. offer' \in [Offers -> OfferRow] /\ \A y \in Offers : offer'[y].status \in StatusesOf(y)
        BY <1>4, <1>5, OneMoreGiven DEF BenefitIInv, BenefitTypes
    <2>3. benefitGrant' \subseteq GrantRows
        <3>1. <<x, "active">> \in GrantRows
            BY <1>5 DEF GrantRows
        <3>2. benefitGrant \subseteq GrantRows
            BY DEF BenefitIInv, BenefitTypes
        <3>3. \A g \in benefitGrant' : g \in benefitGrant \/ g = <<x, "active">>
            BY <1>4
        <3> QED BY <3>1, <3>2, <3>3, Zenon
    <2>4. award' \in SUBSET AwardRow
        BY <1>4, <1>5 DEF BenefitIInv, BenefitTypes
    <2> QED BY <1>4, <2>1, <2>2, <2>3, <2>4 DEF BenefitIInv, BenefitTypes
<1>8. EntriesKept'
    BY <1>4 DEF BenefitIInv, EntriesKept, EntriesOf
<1>9. NeverOverdrawn'
    BY <1>4 DEF BenefitIInv, NeverOverdrawn, Earned, Spent, Sum
<1>10. GrantsKept'
    <2>1. \A s : \A y \in Learners \X RedeemKeys : <<y, s>> \in benefitGrant' <=> <<y, s>> \in benefitGrant
        BY <1>3, <1>4
    <2>2. ASSUME NEW y \in Learners \X Campaigns
          PROVE  /\ <<y, "revoked">> \notin benefitGrant'
                 /\ <<y, "active">> \in benefitGrant' =>
                        \E v \in award' : v.user = y[1] /\ v.campaign = y[2]
        BY <1>4, <1>5 DEF BenefitIInv, GrantsKept
    <2>3. \A v \in award' : v.kind = "course_access" => << <<v.user, v.campaign>>, "active">> \in benefitGrant'
        BY <1>3, <1>4, <1>5 DEF BenefitIInv, GrantsKept
    <2> QED BY <1>4, <2>1, <2>2, <2>3 DEF BenefitIInv, GrantsKept
<1>11. GivenIsCounted'
    <2>1. ASSUME NEW d \in Campaigns
          PROVE  offer'[d].given = Cardinality({v \in award' : v.campaign = d})
        <3>1. PICK S : S = {v \in award : v.campaign = d}
            OBVIOUS
        <3>2. IsFiniteSet(S) /\ offer[d].given = Cardinality(S)
            <4>1. IsFiniteSet(award) /\ S \subseteq award
                BY <3>1 DEF BenefitIInv, BenefitTypes
            <4> QED BY <3>1, <4>1, FS_Subset DEF BenefitIInv, GivenIsCounted
        <3>3. {v \in award' : v.campaign = d} = IF d = c THEN S \cup {w} ELSE S
            BY <1>4, <1>5, <3>1
        <3>4. w \notin S
            BY <1>6, <3>1
        <3>5. offer'[d].given = IF d = c THEN offer[d].given + 1 ELSE offer[d].given
            BY <1>4 DEF Offers, BenefitIInv, BenefitTypes, OfferRow
        <3>6. Cardinality(S \cup {w}) = Cardinality(S) + 1
            BY <3>2, <3>4, FS_AddElement
        <3> QED BY <3>2, <3>3, <3>5, <3>6
    <2>2. \A r \in Rewards : offer'[r].given = offer[r].given
        <3>1. \A r \in Rewards : r \in Offers \ {c}
            BY <1>5 DEF Offers
        <3>2. \A y \in Offers \ {c} : offer'[y] = offer[y]
            BY <1>4, <1>5, OneMoreGiven DEF BenefitIInv, BenefitTypes
        <3> QED BY <3>1, <3>2, Zenon
    <2>3. \A r \in Rewards : offer'[r].given =
              Cardinality({y \in Learners \X RedeemKeys : redemption'[y].reward = r})
        <3>1. redemption' = redemption
            BY <1>4
        <3> QED BY <2>2, <3>1 DEF BenefitIInv, GivenIsCounted
    <2> QED BY <2>1, <2>3 DEF GivenIsCounted
<1> QED BY <1>7, <1>8, <1>9, <1>10, <1>11 DEF BenefitIInv

\* An edit reads its row, or writes what it read and what it was given, and not the counter.
LEMMA BenefitEditStep ==
    ASSUME BenefitIInv,
           \/ \E p \in Policies \cup {AsRead} :
                 \/ \E r \in Rewards, s \in RewardStatuses \cup {"as read"} : UpdateReward(r, s, p)
                 \/ \E c \in Campaigns, s \in ScholarshipStatuses \cup {"as read"} : UpdateScholarship(c, s, p)
           \/ WriteEdit
           \/ UNCHANGED benefitVars
    PROVE  BenefitIInv'
<1> USE BenefitsAssumption
<1>1. /\ UNCHANGED <<redemption, points, award, benefitGrant>>
      /\ BenefitTypes'
      /\ \A x \in Offers : offer'[x].given = offer[x].given
    <2>1. ASSUME NEW x \in Offers, NEW s \in StatusesOf(x) \cup {"as read"},
                 NEW p \in Policies \cup {AsRead}, ReadForEdit(x, s, p)
          PROVE  /\ UNCHANGED <<redemption, points, award, benefitGrant>>
                 /\ BenefitTypes'
                 /\ \A y \in Offers : offer'[y].given = offer[y].given
        <3>1. /\ UNCHANGED <<offer, redemption, points, award, benefitGrant>>
              /\ pendingEdit'.offer = x /\ pendingEdit'.seen = offer[x]
              /\ pendingEdit'.status = s /\ pendingEdit'.policy = p
            BY <2>1 DEF ReadForEdit
        <3> QED BY <3>1 DEF BenefitIInv, BenefitTypes
    <2>2. \A r \in Rewards : r \in Offers /\ StatusesOf(r) = RewardStatuses
        BY DEF Offers, StatusesOf
    <2>3. \A c \in Campaigns : c \in Offers /\ StatusesOf(c) = ScholarshipStatuses
        BY DEF Offers, StatusesOf
    <2>4. ASSUME WriteEdit
          PROVE  /\ UNCHANGED <<redemption, points, award, benefitGrant>>
                 /\ BenefitTypes'
                 /\ \A y \in Offers : offer'[y].given = offer[y].given
        <3>1. PICK x : x = pendingEdit.offer
            OBVIOUS
        <3>2. PICK status : status =
                  IF pendingEdit.status = "as read" THEN pendingEdit.seen.status ELSE pendingEdit.status
            OBVIOUS
        <3>3. PICK policy : policy =
                  IF pendingEdit.policy = AsRead THEN pendingEdit.seen.policy ELSE pendingEdit.policy
            OBVIOUS
        <3>4. /\ offer' = [offer EXCEPT ![x] =
                     [status |-> status, policy |-> policy, given |-> offer[x].given]]
              /\ pendingEdit' = NoEdit
              /\ UNCHANGED <<redemption, points, award, benefitGrant>>
            BY <2>4, <3>1, <3>2, <3>3 DEF WriteEdit, CountKept
        <3>5. x \in Offers /\ status \in StatusesOf(x) /\ policy \in Policies /\ offer[x].given \in Nat
            BY <2>4, <3>1, <3>2, <3>3 DEF WriteEdit, BenefitIInv, BenefitTypes, OfferRow
        <3>6. [status |-> status, policy |-> policy, given |-> offer[x].given] \in OfferRow
            BY <3>5 DEF OfferRow, StatusesOf
        <3>7. /\ offer' \in [Offers -> OfferRow]
              /\ \A y \in Offers : offer'[y].status \in StatusesOf(y) /\ offer'[y].given = offer[y].given
            BY <3>4, <3>5, <3>6 DEF BenefitIInv, BenefitTypes
        <3> QED BY <3>4, <3>7 DEF BenefitIInv, BenefitTypes
    <2>5. CASE UNCHANGED benefitVars
        BY <2>5 DEF benefitVars, BenefitIInv, BenefitTypes
    <2> QED BY <2>1, <2>2, <2>3, <2>4, <2>5 DEF UpdateReward, UpdateScholarship
<1>2. EntriesKept' /\ GrantsKept'
    BY <1>1 DEF BenefitIInv, EntriesKept, EntriesOf, GrantsKept
<1>3. NeverOverdrawn'
    BY <1>1 DEF BenefitIInv, NeverOverdrawn, Earned, Spent, Sum
<1>4. GivenIsCounted'
    BY <1>1 DEF BenefitIInv, GivenIsCounted, Offers
<1> QED BY <1>1, <1>2, <1>3, <1>4 DEF BenefitIInv

LEMMA BenefitStep == BenefitIInv /\ [BenefitNext]_benefitVars => BenefitIInv'
<1> SUFFICES ASSUME BenefitIInv, [BenefitNext]_benefitVars PROVE BenefitIInv'
    OBVIOUS
<1> QED BY AdjustStep, RedeemStep, RefundRedemptionStep, ApplyStep, BenefitEditStep DEF BenefitNext

\* No learner spends more points than were earned, a refund gives back once what its
\* redemption took, a course is open as long as its entitlement, and the counters that
\* hold the quotas count what was given (tmi-redemption.service.ts, scholarships.service.ts).
THEOREM BenefitsConsistentHolds == BenefitSpec => []BenefitsConsistent
<1>1. BenefitIInv => BenefitsConsistent
    <2> SUFFICES ASSUME BenefitIInv PROVE BenefitsConsistent
        OBVIOUS
    <2>1. \A g, h \in benefitGrant : g[1] = h[1] => g = h
        <3>1. SUFFICES ASSUME NEW g \in benefitGrant, NEW h \in benefitGrant, g[1] = h[1], g # h
                       PROVE  FALSE
            OBVIOUS
        <3>2. PICK x \in Learners \X (RedeemKeys \cup Campaigns) :
                  <<x, "active">> \in benefitGrant /\ <<x, "revoked">> \in benefitGrant
            <4>1. /\ g = <<g[1], g[2]>> /\ h = <<h[1], h[2]>>
                  /\ g[1] \in Learners \X (RedeemKeys \cup Campaigns)
                  /\ g[2] \in {"active", "revoked"} /\ h[2] \in {"active", "revoked"}
                <5>1. \A q \in GrantRows :
                          /\ q = <<q[1], q[2]>> /\ q[1] \in Learners \X (RedeemKeys \cup Campaigns)
                          /\ q[2] \in {"active", "revoked"}
                    BY DEF GrantRows
                <5>2. benefitGrant \subseteq GrantRows
                    BY DEF BenefitIInv, BenefitTypes
                <5>3. \A q \in benefitGrant : q \in GrantRows
                    BY <5>2, Zenon
                <5> QED BY <5>1, <5>3
            <4> QED BY <3>1, <4>1
        <3>3. x \in Learners \X RedeemKeys \/ x \in Learners \X Campaigns
            BY <3>2
        <3> QED BY <3>2, <3>3 DEF BenefitIInv, GrantsKept
    <2>2. BenefitTypeOK
        <3>1. \A x \in Offers : offer[x].policy \in Policies /\ offer[x].given \in Nat
            BY DEF BenefitIInv, BenefitTypes, OfferRow
        <3>2. \A r \in Rewards : offer[r].status \in RewardStatuses
            BY DEF BenefitIInv, BenefitTypes, StatusesOf, Offers
        <3>3. \A c \in Campaigns : offer[c].status \in ScholarshipStatuses
            BY BenefitsAssumption DEF BenefitIInv, BenefitTypes, StatusesOf, Offers
        <3>4. \A x \in Learners \X RedeemKeys :
                  redemption[x] # NoRedemption =>
                      redemption[x].reward \in Rewards /\ redemption[x].status \in {"active", "revoked"}
            BY DEF BenefitIInv, BenefitTypes, RedemptionRow
        <3>5. \A g \in benefitGrant : g[2] \in {"active", "revoked"}
            BY DEF BenefitIInv, BenefitTypes, GrantRows
        <3> QED BY <2>1, <3>1, <3>2, <3>3, <3>4, <3>5 DEF BenefitTypeOK
    <2>3. RefundedAsPaid
        <3>1. SUFFICES ASSUME NEW u \in Learners, NEW k \in RedeemKeys
              PROVE  Sum(EntriesOf(u, k, "refund")) =
                         IF redemption[<<u, k>>].status = "revoked"
                         THEN Sum(EntriesOf(u, k, "redeem")) ELSE 0
            BY DEF RefundedAsPaid, EntriesOf
        <3>2. \A kind \in {"redeem", "refund"} :
                  EntriesOf(u, k, kind) \in SUBSET EntryRow /\ IsFiniteSet(EntriesOf(u, k, kind))
            <4>1. \A kind : EntriesOf(u, k, kind) \subseteq points
                BY DEF EntriesOf
            <4> QED BY <4>1, FS_Subset DEF BenefitIInv, BenefitTypes
        <3>3. PICK n : n = redemption[<<u, k>>].cost
            OBVIOUS
        <3>4. /\ <<u, k>> \in Learners \X RedeemKeys
              /\ n \in Nat
              /\ redemption[<<u, k>>].status = "revoked" => redemption[<<u, k>>] # NoRedemption
            BY <3>3 DEF BenefitIInv, BenefitTypes, RedemptionRow, NoRedemption
        <3>5. \A kind \in {"redeem", "refund"} :
                  Entry(u, kind, n, k) \in EntryRow /\ Entry(u, kind, n, k).amount = n
            BY <3>4 DEF Entry, EntryRow
        <3>6. CASE redemption[<<u, k>>].status = "revoked"
            <4>1. /\ EntriesOf(u, k, "redeem") = {Entry(u, "redeem", n, k)}
                  /\ EntriesOf(u, k, "refund") = {Entry(u, "refund", n, k)}
                BY <3>3, <3>4, <3>6 DEF BenefitIInv, EntriesKept
            <4>2. Sum(EntriesOf(u, k, "redeem")) = n /\ Sum(EntriesOf(u, k, "refund")) = n
                BY <3>2, <3>5, <4>1, SumFacts
            <4> QED BY <3>6, <4>2
        <3>7. CASE redemption[<<u, k>>].status # "revoked"
            <4>1. EntriesOf(u, k, "refund") = {}
                BY <3>7 DEF BenefitIInv, EntriesKept
            <4> QED BY <3>2, <3>7, <4>1, SumFacts
        <3> QED BY <3>6, <3>7
    <2>4. GrantFollowsEntitlement
        BY DEF BenefitIInv, GrantsKept, GrantFollowsEntitlement
    <2> QED BY <2>2, <2>3, <2>4 DEF BenefitsConsistent, BenefitIInv
<1> QED BY BenefitInitInvariant, BenefitStep, <1>1, PTL DEF BenefitSpec
=============================================================================
