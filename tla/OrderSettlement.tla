--------------------------- MODULE OrderSettlement ---------------------------
(***************************************************************************)
(* What the payment code promises of one order, whatever its provider:     *)
(* the order is decided once, its benefits are delivered only when it was  *)
(* kept, and no collection a provider reported is booked twice or          *)
(* forgotten.  PaymentLifecycle is shown to implement it.                  *)
(***************************************************************************)
CONSTANTS
    Orders,
    Collections,        \* what a provider may collect
    Owner(_)            \* the order a collection was made for

VARIABLES
    promise,            \* [Orders -> {"awaiting", "kept", "withdrawn", "review"}]
    delivered,          \* the orders whose benefits were given
    booked              \* the collections that have a settlement row

promiseVars == <<promise, delivered, booked>>

AbstractInit ==
    /\ promise = [o \in Orders |-> "awaiting"]
    /\ delivered = {}
    /\ booked = {}

Books(c) == c \notin booked /\ booked' = booked \cup {c}

\* The first verified collection of an order that awaits it keeps the order.
Keep(c) ==
    /\ promise[Owner(c)] = "awaiting"
    /\ promise' = [promise EXCEPT ![Owner(c)] = "kept"]
    /\ Books(c)
    /\ UNCHANGED delivered

\* A cancellation or the end of the payment window.
Withdraw(o) ==
    /\ promise[o] = "awaiting"
    /\ promise' = [promise EXCEPT ![o] = "withdrawn"]
    /\ UNCHANGED <<delivered, booked>>

\* Money for an order already kept is booked beside the first collection.
BookAgain(c) ==
    /\ promise[Owner(c)] = "kept"
    /\ Books(c)
    /\ UNCHANGED <<promise, delivered>>

\* Money for a withdrawn order is booked, and the order waits for a person.
BookLate(c) ==
    /\ promise[Owner(c)] = "withdrawn"
    /\ promise' = [promise EXCEPT ![Owner(c)] = "review"]
    /\ Books(c)
    /\ UNCHANGED delivered

Deliver(o) ==
    /\ promise[o] = "kept"
    /\ delivered' = delivered \cup {o}
    /\ UNCHANGED <<promise, booked>>

AbstractNext ==
    \/ \E c \in Collections : Keep(c) \/ BookAgain(c) \/ BookLate(c)
    \/ \E o \in Orders : Withdraw(o) \/ Deliver(o)

AbstractSpec == AbstractInit /\ [][AbstractNext]_promiseVars
=============================================================================
