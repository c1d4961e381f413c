---------------------------- MODULE CourseSales ----------------------------
(***************************************************************************)
(* What is for sale and how a cart becomes an order: instructors edit,     *)
(* publish and archive their courses, moderators hide and restore them,    *)
(* administrators set prices and sell or withdraw the product, and one     *)
(* learner fills a cart and checks out, with an idempotency key that every *)
(* retry of one click repeats.                                             *)
(*                                                                         *)
(* The learner's operations and the administrator's are SERIALIZABLE       *)
(* transactions that lock the course rows, so each is one step; an         *)
(* instructor's update reads the course in one step and writes it in       *)
(* another.  Vouchers, payment and settlement are other modules'.          *)
(***************************************************************************)
EXTENDS Naturals, Sequences, FiniteSets, SequencesExt

CONSTANTS
    Courses,
    CheckoutKeys,    \* idempotency keys, one for each click on "checkout"
    MaxCatalogEdits, \* bound on writes to the catalogue
    MaxOrders        \* bound on orders

ASSUME SalesBounds == MaxCatalogEdits \in Nat /\ MaxOrders \in Nat

VARIABLES
    price,       \* course -> amount and currency, each possibly absent
    listing,     \* course -> its status and whether moderation is clear
    product,     \* course -> its commerce product
    editor,      \* the instructor's update in flight: the price it read and was given
    page,        \* the administrator's form: a course, the row it shows, whether that is the current version
    cart,        \* courses in the learner's active cart
    learnerOwns, \* courses the learner has full access to
    orders,      \* orders in creation order
    edits        \* writes to the catalogue so far

salesVars == <<price, listing, product, editor, page, cart, learnerOwns, orders, edits>>

Amounts == {"zero", "positive"}
Currencies == {"VND", "USD"}
NoPrice == [amount |-> "none", currency |-> "none"]
Prices == [amount : Amounts \cup {"none"}, currency : Currencies \cup {"none"}]
NotLoaded == [course |-> "none", row |-> <<>>, current |-> FALSE]
Idle == [course |-> "none"]
\* No course list in the request: everything in the cart.
Everything == {"everything"}
Selections == {Everything} \cup ((SUBSET Courses) \ {{}})

SalesInit ==
    /\ price = [c \in Courses |-> NoPrice]
    /\ listing = [c \in Courses |-> [status |-> "draft", clear |-> TRUE]]
    /\ product = [c \in Courses |-> "none"]
    /\ editor = Idle
    /\ page = NotLoaded
    /\ cart = {} /\ learnerOwns = {} /\ orders = <<>>
    /\ edits = 0

\* assertValidPricePair: both or neither.
PairValid(p) == (p.amount = "none") = (p.currency = "none")

PriceConstraintDropped(p) == TRUE
\* The CHECK of the table on every row written.
PriceConstraint(p) == (p.amount = "none") = (p.currency = "none")

TouchedNever(c) == UNCHANGED page
\* A write to the course row gives it a new updatedAt.
Touched(c) == page' = [page EXCEPT !.current = @ /\ page.course # c]

Row(c) == <<price[c], listing[c]>>

EditCounted == edits < MaxCatalogEdits /\ edits' = edits + 1

Published(c) == listing[c].status = "published" /\ listing[c].clear

\* Priced in VND, above zero.
Payable(c) == price[c].amount = "positive" /\ price[c].currency = "VND"

CourseUnchanged == UNCHANGED <<price, listing, editor, page, edits>>

-----------------------------------------------------------------------------
(* The instructor                                                          *)

\* updateCourse up to the write: the fields not given ("keep") are taken from the row.
ReadForUpdate(c, given) ==
    /\ editor = Idle
    /\ PairValid([f \in {"amount", "currency"} |-> IF given[f] = "keep" THEN price[c][f] ELSE given[f]])
    /\ editor' = [course |-> c, given |-> given]
    /\ UNCHANGED <<price, listing, product, page, cart, learnerOwns, orders, edits>>

\* Only the given fields are written; the database refuses half a price.
Written(p, given) == [f \in {"amount", "currency"} |-> IF given[f] = "keep" THEN p[f] ELSE given[f]]

WriteUpdate ==
    /\ editor # Idle
    /\ LET c == editor.course
           row == Written(price[c], editor.given)
       IN IF PriceConstraint(row)
          THEN price' = [price EXCEPT ![c] = row] /\ Touched(c) /\ EditCounted
          ELSE UNCHANGED <<price, page, edits>>
    /\ editor' = Idle
    /\ UNCHANGED <<listing, product, cart, learnerOwns, orders>>

\* publishCourse and archiveCourse write the status whatever it was.
SetStatus(c, status) ==
    /\ listing[c].status # status
    /\ listing' = [listing EXCEPT ![c].status = status]
    /\ Touched(c) /\ EditCounted
    /\ UNCHANGED <<price, product, editor, cart, learnerOwns, orders>>

\* A moderator hides, rejects or archives a clear course, or restores it.
ModerateCourse(c) ==
    /\ listing' = [listing EXCEPT ![c].clear = ~@]
    /\ Touched(c) /\ EditCounted
    /\ UNCHANGED <<price, product, editor, cart, learnerOwns, orders>>

-----------------------------------------------------------------------------
(* The administrator                                                       *)

LoadCatalog(c) ==
    /\ page' = [course |-> c, row |-> Row(c), current |-> TRUE]
    /\ UNCHANGED <<price, listing, product, editor, cart, learnerOwns, orders, edits>>

SameCourse(c) == page.course = c
\* The course the administrator saw is still the row's version.
SameVersion(c) == page.course = c /\ page.current

Sellable(c, amount) == amount = "positive" /\ Published(c)

UpdateCatalog(c, amount, sellable) ==
    /\ SameVersion(c)
    /\ sellable => Sellable(c, amount) /\ product[c] # "archived"
    /\ price' = [price EXCEPT ![c] = [amount |-> amount, currency |-> "VND"]]
    /\ product' = [product EXCEPT ![c] = IF sellable THEN "active"
                                        ELSE IF @ = "active" THEN "archived" ELSE @]
    /\ page' = NotLoaded /\ EditCounted
    /\ UNCHANGED <<listing, editor, cart, learnerOwns, orders>>

-----------------------------------------------------------------------------
(* The learner                                                             *)

\* A course's first buyer creates its product; an archived one is not sold again.
EnsureActiveCourseProduct(c) ==
    /\ product[c] # "archived"
    /\ product' = [product EXCEPT ![c] = "active"]

AddCourse(c) ==
    /\ Published(c) /\ Payable(c) /\ c \notin learnerOwns
    /\ EnsureActiveCourseProduct(c)
    /\ cart' = cart \cup {c}
    /\ CourseUnchanged /\ UNCHANGED <<learnerOwns, orders>>

RemoveCourse(c) ==
    /\ c \in cart /\ cart' = cart \ {c}
    /\ CourseUnchanged /\ UNCHANGED <<product, learnerOwns, orders>>

ClearCart ==
    /\ cart # {} /\ cart' = {}
    /\ CourseUnchanged /\ UNCHANGED <<product, learnerOwns, orders>>

ChosenFrom(selection) == IF selection = Everything THEN cart ELSE selection

\* Every chosen line is priced from its course, or none is.
PriceLines(lines) == \A c \in lines : product[c] = "active" /\ Published(c) /\ Payable(c)

RestLost(lines) == {}
\* The unchosen lines move to a new active cart; the old one is converted.
RestOfCart(lines) == cart \ lines

KeyForgotten(k) == TRUE
KeyIsNew(k) == \A o \in Range(orders) : o.key # k

\* A key that is already there answers with its order, whatever the cart has become.
CreateOrder(k, selection) ==
    /\ KeyIsNew(k) /\ Len(orders) < MaxOrders
    /\ LET lines == ChosenFrom(selection)
       IN /\ lines # {} /\ lines \subseteq cart
          /\ lines \cap learnerOwns = {}
          /\ PriceLines(lines)
          /\ orders' = Append(orders, [key |-> k, lines |-> lines])
          /\ cart' = RestOfCart(lines)
    /\ CourseUnchanged /\ UNCHANGED <<product, learnerOwns>>

\* Payment and fulfilment, elsewhere, make the learner own what the order lists.
OrderDelivered(o) ==
    /\ ~(orders[o].lines \subseteq learnerOwns)
    /\ learnerOwns' = learnerOwns \cup orders[o].lines
    /\ CourseUnchanged /\ UNCHANGED <<product, cart, orders>>

SalesNext ==
    \/ \E c \in Courses :
        \/ \E a \in Amounts \cup {"none", "keep"}, u \in Currencies \cup {"none", "keep"} :
              ReadForUpdate(c, [amount |-> a, currency |-> u])
        \/ \E status \in {"published", "archived"} : SetStatus(c, status)
        \/ ModerateCourse(c) \/ LoadCatalog(c)
        \/ \E amount \in Amounts, sellable \in BOOLEAN : UpdateCatalog(c, amount, sellable)
        \/ AddCourse(c) \/ RemoveCourse(c)
    \/ WriteUpdate \/ ClearCart
    \/ \E k \in CheckoutKeys, s \in Selections : CreateOrder(k, s)
    \/ \E o \in DOMAIN orders : OrderDelivered(o)

SalesSpec == SalesInit /\ [][SalesNext]_salesVars

-----------------------------------------------------------------------------
(* Properties                                                              *)

\* Prices, listings, products, carts and orders are what the tables allow.
SalesTypeOK ==
    /\ price \in [Courses -> Prices]
    /\ listing \in [Courses -> [status : {"draft", "published", "archived"}, clear : BOOLEAN]]
    /\ product \in [Courses -> {"none", "active", "archived"}]
    /\ page.course \in Courses \cup {"none"} /\ page.current \in BOOLEAN
    /\ page.current => page.row = Row(page.course)
    /\ cart \subseteq Courses /\ learnerOwns \subseteq Courses
    /\ \A o \in Range(orders) : o.key \in CheckoutKeys /\ o.lines \in (SUBSET Courses) \ {{}}

\* An amount never stands without its currency, nor a currency without an amount, although
\* updateCourse checks the pair against a row it read before and then writes only what it was given.
PriceIsWhole == \A c \in Courses : (price[c].amount = "none") = (price[c].currency = "none")

\* One click on "checkout" makes one order: a retry of createOrder with the same key, after the
\* cart was converted, refilled or repriced, finds the order of the first.
OneOrderPerKey ==
    \A i, j \in DOMAIN orders : orders[i].key = orders[j].key => i = j

\* An order takes its lines out of the active cart and leaves every other line in it.
CheckoutMovesItsLines ==
    [][ LET sold == UNION {orders'[o].lines : o \in DOMAIN orders' \ DOMAIN orders}
        IN sold # {} => cart = cart' \cup sold /\ cart' \cap sold = {} ]_salesVars

\* Withdrawing a product is for good.  The administrator's form does it only while the course is as
\* the page showed it: no edit, publication or moderation in between goes unseen.
WithdrawnAsShown ==
    [][ \A c \in Courses :
          product[c] = "active" /\ product'[c] = "archived" => page.course = c /\ page.row = Row(c) ]_salesVars

\* Courses, carts and orders hold together, whatever edits and checkouts cross.
SalesConsistent == SalesTypeOK /\ PriceIsWhole /\ OneOrderPerKey

\* A checkout and a withdrawal from sale do what was shown to who asked for them.
DoneAsShown == CheckoutMovesItsLines /\ WithdrawnAsShown
=============================================================================
