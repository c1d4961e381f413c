---------------------- MODULE PaymentReconciliationProofs ----------------------
(* What providers tell and the runs that ask them again, for any number of   *)
(* attempts, collections, handlers, operators and pages, any amounts, any    *)
(* run time and any slack.                                                   *)
(* Evidence: what is on the books is what was collected, and what a handler  *)
(* is about to answer fits the books; with these facts the properties of     *)
(* PaymentEvidence are inductive.                                            *)
(* Runs: a run that may still ask holds the lease beyond its deadline; what  *)
(* a sweep has passed it has looked at; what was read as paid is booked;     *)
(* these facts make SweepsSound inductive.                                   *)
EXTENDS PaymentEvidence, PaymentSweeps, FiniteSetTheorems, TLAPS

-----------------------------------------------------------------------------
(* What providers tell: the inductive invariant                             *)

Moneys == [code : Known \cup {Foreign, Nothing}, raw : Nat, good : BOOLEAN]

\* What was collected has a code, PayOS tells only of whole units that succeeded,
\* and a link of VNPay is made only for an amount it can write down.
MoneyTyped ==
    /\ money \in [Collections -> Moneys]
    /\ \A c \in Collections :
          /\ money[c].code = Nothing <=> money[c] = NoMoney
          /\ money[c].code \in PayOs => money[c].raw % 100 = 0 /\ money[c].good
          /\ money[c].code \in VnPay => Payable

Results ==
    {"none", "error", "unknown", "noted", "confirmed", "confirmed again", "duplicate",
     "duplicate again", "late"} \cup Rejections

Works ==
    [step : {"rest", "verified", "classify", "fulfil", "answer"}, via : {"none", "notice", "query"},
     of : Collections \cup {Nothing}, result : Results]

\* The books follow what was collected, and an order its settlement.
BooksFollow ==
    /\ \A c \in Collections :
          /\ settlement[c] # "none" =>
                money[c].good /\ money[c].code \in Known /\ money[c].raw = Price * 100
          /\ settlement[c] = "matched" =>
                attempt[money[c].code] = "paid" /\ confirmedBy[money[c].code] = c
          /\ settlement[c] # "none" /\ money[c].code \in PayOs => <<"payos", c>> \in events
          /\ \A via \in {"notice", "query", "payos"} :
                 <<via, c>> \in events => settlement[c] # "none"
    /\ \A a \in Known :
          /\ attempt[a] = "paid" =>
                \E c \in Collections : money[c].code = a /\ settlement[c] = "matched"
          /\ attempt[a] = "late" =>
                \E c \in Collections : money[c].code = a /\ settlement[c] # "none"

\* A good collection is on the books, and delivered if it confirmed its order.
Settled(c) ==
    money[c].good => /\ settlement[c] # "none"
                     /\ settlement[c] = "matched" => money[c].code \in delivered

WorkFits(h) ==
    LET w == handling[h] IN
    /\ w.step # "rest" =>
          /\ w.of \in Collections /\ money[w.of] # NoMoney
          /\ w.via \in {"notice", "query"}
    /\ w.step = "verified" => money[w.of].good /\ money[w.of].raw % 100 = 0
    /\ w.step = "classify" => ~money[w.of].good
    /\ w.step = "fulfil" =>
          settlement[w.of] = "matched" /\ w.result \in {"confirmed", "confirmed again"}
    /\ w.step = "answer" /\ mapProcessingResult(w.result) \in Final => Settled(w.of)

AnswersTrue ==
    \A c \in Collections, code \in Final :
        <<c, code>> \in answers => money[c] # NoMoney /\ Settled(c)

EvidenceIInv ==
    /\ MoneyTyped /\ handling \in [Handlers -> Works]
    /\ EvidenceTypeOK /\ BooksFollow /\ ConflictsAreReal
    /\ (\A h \in Handlers : WorkFits(h)) /\ AnswersTrue

\* The properties that the invariant does not name.
LEMMA InvariantImplies == EvidenceIInv => EvidenceSound
<1> SUFFICES ASSUME EvidenceIInv PROVE EvidenceSound
    OBVIOUS
<1>1. AcknowledgedIsBooked
    <2> SUFFICES ASSUME NEW c \in Collections, money[c].good, NEW code \in Final,
                        <<c, code>> \in answers
                 PROVE  /\ settlement[c] # "none" /\ money[c].raw = Price * 100
                        /\ settlement[c] = "matched" => money[c].code \in delivered
        BY DEF AcknowledgedIsBooked
    <2> QED BY DEF EvidenceIInv, AnswersTrue, Settled, BooksFollow
<1>2. OneConfirms
    <2> SUFFICES ASSUME NEW a \in Known
                 PROVE  LET confirming == {c \in BookedFor(a) : settlement[c] = "matched"}
                        IN  /\ Cardinality(confirming) <= 1
                            /\ confirming # {} <=> attempt[a] = "paid"
        BY DEF OneConfirms
    <2> DEFINE confirming == {c \in BookedFor(a) : settlement[c] = "matched"}
    <2>1. /\ \A c \in Collections : settlement[c] = "matched" =>
                attempt[money[c].code] = "paid" /\ confirmedBy[money[c].code] = c
          /\ attempt[a] = "paid" =>
                \E c \in Collections : money[c].code = a /\ settlement[c] = "matched"
        BY DEF EvidenceIInv, BooksFollow
    <2>2. \A c : c \in confirming <=>
              c \in Collections /\ money[c].code = a /\ settlement[c] = "matched"
        BY DEF BookedFor
    <2> HIDE DEF confirming
    <2>3. confirming \subseteq {confirmedBy[a]}
        BY <2>1, <2>2
    <2>4. Cardinality(confirming) <= 1
        <3>1. IsFiniteSet({confirmedBy[a]}) /\ Cardinality({confirmedBy[a]}) = 1
            BY FS_Singleton
        <3>2. Cardinality(confirming) <= Cardinality({confirmedBy[a]})
            BY <2>3, <3>1, FS_Subset
        <3> QED BY <3>1, <3>2
    <2>5. confirming # {} <=> attempt[a] = "paid"
        BY <2>1, <2>2
    <2> QED BY <2>4, <2>5 DEF confirming
<1> QED BY <1>1, <1>2 DEF EvidenceIInv, EvidenceSound

-----------------------------------------------------------------------------
(* Amounts, and what never goes away                                        *)

\* Whole units are the price exactly when the hundredths are.
LEMMA AmountFacts ==
    /\ Price * 100 \in Nat /\ Price * 100 > 0
    /\ \A c \in Collections :
          MoneyTyped /\ money[c].raw % 100 = 0 =>
              (paymentFactsMatch(c) <=> money[c].raw = Price * 100)
    /\ \A c \in Collections :
          MoneyTyped /\ money[c].raw = Price * 100 => paymentFactsMatch(c)
<1>1. Price \in Nat /\ Price > 0
    BY EvidenceAssumption
<1>2. \A r \in Nat : r % 100 = 0 => (r \div 100 = Price <=> r = Price * 100)
    BY <1>1, SMT
<1>3. (Price * 100) \div 100 = Price
    BY <1>1, SMT
<1> QED BY <1>1, <1>2, <1>3 DEF paymentFactsMatch, AmountOf, MoneyTyped, Moneys

\* A collection, a settlement and a delivery stay what they are.
Grows ==
    /\ \A c \in Collections :
          /\ money[c] # NoMoney => money'[c] = money[c]
          /\ settlement[c] # "none" => settlement'[c] = settlement[c]
    /\ delivered \subseteq delivered'

\* A successful collection is one.
LEMMA GoodIsMoney == \A c \in Collections : money[c].good => money[c] # NoMoney
BY DEF NoMoney

\* Two collections of one attempt are more than one.
LEMMA TwoAreMore ==
    ASSUME NEW a, NEW c \in PaidInto(a), NEW d \in PaidInto(a), c # d
    PROVE  Cardinality(PaidInto(a)) > 1
<1>1. IsFiniteSet(PaidInto(a))
    BY EvidenceAssumption, FS_Subset DEF PaidInto
<1>2. IsFiniteSet({c}) /\ Cardinality({c}) = 1
    BY FS_Singleton
<1>3. Cardinality({c} \cup {d}) = 2
    <2>1. Cardinality({c} \cup {d}) = IF d \in {c} THEN Cardinality({c}) ELSE Cardinality({c}) + 1
        BY <1>2, FS_AddElement
    <2> QED BY <1>2, <2>1
<1>4. {c} \cup {d} \subseteq PaidInto(a)
    OBVIOUS
<1>5. Cardinality({c} \cup {d}) <= Cardinality(PaidInto(a)) /\ Cardinality(PaidInto(a)) \in Nat
    BY <1>1, <1>4, FS_Subset, FS_CardinalityType
<1> QED BY <1>3, <1>5

\* The provider collected another amount for the attempt, or more than once.
Real(a) ==
    \/ \E c \in PaidInto(a) : money[c].raw # Price * 100
    \/ Cardinality(PaidInto(a)) > 1

\* It did so for good.
LEMMA RealStays ==
    ASSUME Grows, NEW a, Real(a)
    PROVE  \/ \E c \in PaidInto(a)' : money'[c].raw # Price * 100
           \/ Cardinality(PaidInto(a)') > 1
<1>1. PaidInto(a) \subseteq PaidInto(a)' /\ \A c \in PaidInto(a) : money'[c] = money[c]
    BY GoodIsMoney DEF Grows, PaidInto
<1>2. IsFiniteSet(PaidInto(a)')
    BY EvidenceAssumption, FS_Subset DEF PaidInto
<1>3. CASE Cardinality(PaidInto(a)) > 1
    <2>1. IsFiniteSet(PaidInto(a)) /\ Cardinality(PaidInto(a)) <= Cardinality(PaidInto(a)')
        BY <1>1, <1>2, FS_Subset
    <2>2. Cardinality(PaidInto(a)) \in Nat /\ Cardinality(PaidInto(a)') \in Nat
        BY <1>2, <2>1, FS_CardinalityType
    <2> QED BY <1>3, <2>1, <2>2
<1> QED BY <1>1, <1>3 DEF Real

\* Conflicts stay real, and a new one is if it is about such an attempt.
LEMMA ConflictsStay ==
    ASSUME ConflictsAreReal, Grows,
           \A m \in mismatches' \ mismatches : Real(m[1])
    PROVE  ConflictsAreReal'
<1>1. \A m \in mismatches' : Real(m[1])
    BY DEF ConflictsAreReal, Real
<1> QED BY <1>1, RealStays DEF ConflictsAreReal

\* What a handler does not touch still fits, and so do the answers given.
LEMMA WorkStays ==
    ASSUME EvidenceIInv, Grows, NEW h \in Handlers, handling'[h] = handling[h]
    PROVE  WorkFits(h)'
<1> DEFINE w == handling[h]
<1>1. w.step # "rest" => w.of \in Collections /\ money[w.of] # NoMoney /\ money'[w.of] = money[w.of]
    BY DEF EvidenceIInv, WorkFits, Grows
<1>2. w.step = "fulfil" => settlement'[w.of] = "matched"
    BY <1>1 DEF EvidenceIInv, WorkFits, Grows
<1>3. w.step = "answer" /\ mapProcessingResult(w.result) \in Final => Settled(w.of)'
    BY <1>1 DEF EvidenceIInv, WorkFits, Grows, Settled
<1> QED BY <1>1, <1>2, <1>3 DEF EvidenceIInv, WorkFits

\* An answer given stays true, and a new one has to be.
LEMMA AnswersStay ==
    ASSUME EvidenceIInv, Grows,
           \A c \in Collections, code \in Final :
               <<c, code>> \in answers' \ answers => money[c] # NoMoney /\ Settled(c)
    PROVE  AnswersTrue'
<1> SUFFICES ASSUME NEW c \in Collections, NEW code \in Final, <<c, code>> \in answers'
             PROVE  money'[c] # NoMoney /\ Settled(c)'
    BY DEF AnswersTrue
<1>1. money[c] # NoMoney /\ Settled(c)
    BY DEF EvidenceIInv, AnswersTrue
<1> QED BY <1>1 DEF Grows, Settled

-----------------------------------------------------------------------------
(* What is booked                                                           *)

\* A collection without a settlement is booked: it confirms an attempt that is
\* pending, or comes beside one that did, or after the attempt was closed.
LEMMA BookStep ==
    ASSUME EvidenceIInv, UNCHANGED money, NEW c \in Collections, NEW via \in {"notice", "query"},
           NEW disposition, NEW status,
           settlement[c] = "none", money[c].good, money[c].raw = Price * 100,
           money[c].code \in Known, Book(via, c, disposition, status),
           <<disposition, status, attempt[money[c].code]>> \in
               {<<"matched", "paid", "pending">>, <<"duplicate", "paid", "paid">>,
                <<"late", "late", "closed">>}
    PROVE  /\ BooksFollow'
           /\ attempt' \in [Known -> {"pending", "paid", "closed", "late"}]
           /\ confirmedBy' \in [Known -> Collections \cup {Nothing}]
           /\ settlement' \in [Collections -> {"none", "matched", "duplicate", "late"}]
           /\ settlement' = [settlement EXCEPT ![c] = disposition]
<1>1. PICK a \in Known : a = money[c].code
    OBVIOUS
<1>2. \/ disposition = "matched" /\ status = "paid" /\ attempt[a] = "pending"
      \/ disposition = "duplicate" /\ status = "paid" /\ attempt[a] = "paid"
      \/ disposition = "late" /\ status = "late" /\ attempt[a] = "closed"
    BY <1>1
<1>3. /\ settlement' = [settlement EXCEPT ![c] = disposition]
      /\ events' = events \cup {EventOf(via, c)}
      /\ attempt' = [attempt EXCEPT ![a] = status]
      /\ confirmedBy' = IF disposition = "matched" THEN [confirmedBy EXCEPT ![a] = c]
                        ELSE confirmedBy
    BY <1>1 DEF Book
<1>4. /\ attempt' \in [Known -> {"pending", "paid", "closed", "late"}]
      /\ confirmedBy' \in [Known -> Collections \cup {Nothing}]
      /\ settlement' \in [Collections -> {"none", "matched", "duplicate", "late"}]
    BY <1>2, <1>3 DEF EvidenceIInv, EvidenceTypeOK
<1>5. /\ settlement'[c] = disposition /\ disposition # "none"
      /\ \A d \in Collections : d # c => settlement'[d] = settlement[d]
      /\ attempt'[a] = status /\ \A b \in Known : b # a => attempt'[b] = attempt[b]
      /\ disposition = "matched" => confirmedBy'[a] = c
      /\ \A b \in Known : b # a \/ disposition # "matched" => confirmedBy'[b] = confirmedBy[b]
    BY <1>2, <1>3 DEF EvidenceIInv, EvidenceTypeOK
<1>6. ASSUME NEW d \in Collections
      PROVE  /\ settlement'[d] # "none" =>
                   money[d].good /\ money[d].code \in Known /\ money[d].raw = Price * 100
             /\ settlement'[d] = "matched" =>
                   attempt'[money[d].code] = "paid" /\ confirmedBy'[money[d].code] = d
    <2>1. CASE d = c
        BY <1>1, <1>2, <1>5, <2>1
    <2>2. CASE d # c
        <3>1. settlement[d] # "none" =>
                  money[d].good /\ money[d].code \in Known /\ money[d].raw = Price * 100
            BY DEF EvidenceIInv, BooksFollow
        <3>2. settlement[d] = "matched" =>
                  attempt[money[d].code] = "paid" /\ confirmedBy[money[d].code] = d
            BY DEF EvidenceIInv, BooksFollow
        <3> QED BY <1>2, <1>5, <2>2, <3>1, <3>2
    <2> QED BY <2>1, <2>2
<1>7. ASSUME NEW d \in Collections
      PROVE  /\ settlement'[d] # "none" /\ money[d].code \in PayOs => <<"payos", d>> \in events'
             /\ \A v \in {"notice", "query", "payos"} :
                    <<v, d>> \in events' => settlement'[d] # "none"
    <2>1. CASE d = c
        BY <1>3, <1>5, <2>1 DEF EventOf, IsVnPay
    <2>2. CASE d # c
        <3>1. \A v \in {"notice", "query", "payos"} : <<v, d>> \in events' <=> <<v, d>> \in events
            BY <1>3, <2>2 DEF EventOf
        <3> QED BY <1>5, <2>2, <3>1 DEF EvidenceIInv, BooksFollow
    <2> QED BY <2>1, <2>2
<1>8. ASSUME NEW b \in Known
      PROVE  /\ attempt'[b] = "paid" =>
                   \E d \in Collections : money[d].code = b /\ settlement'[d] = "matched"
             /\ attempt'[b] = "late" =>
                   \E d \in Collections : money[d].code = b /\ settlement'[d] # "none"
    <2>1. /\ attempt[b] = "paid" =>
                \E d \in Collections : d # c /\ money[d].code = b /\ settlement[d] = "matched"
          /\ attempt[b] = "late" =>
                \E d \in Collections : d # c /\ money[d].code = b /\ settlement[d] # "none"
        BY DEF EvidenceIInv, BooksFollow
    <2>2. CASE b = a
        BY <1>1, <1>2, <1>5, <2>1, <2>2
    <2>3. CASE b # a
        BY <1>5, <2>1, <2>3
    <2> QED BY <2>2, <2>3
<1>9. BooksFollow'
    BY <1>6, <1>7, <1>8 DEF BooksFollow
<1> QED BY <1>3, <1>4, <1>9

\* What a transaction finds: a collection seen before is answered by what was booked of
\* it, and is no conflict.
LEMMA OutcomeFacts ==
    ASSUME EvidenceIInv, NEW c \in Collections, NEW via \in {"notice", "query"},
           money[c].good, money[c].raw % 100 = 0
    PROVE  LET result == Outcome(via, c)
               fits == settlement[c] = "none" /\ money[c].code \in Known /\ money[c].raw = Price * 100
           IN  /\ result \in Results \ {"event", "reference", "none", "error", "noted"}
               /\ result = "confirmed" => fits /\ attempt[money[c].code] = "pending"
               /\ result = "duplicate" => fits /\ attempt[money[c].code] = "paid"
               /\ result = "late" =>
                     \/ fits /\ attempt[money[c].code] = "closed"
                     \/ settlement[c] = "late"
               /\ result = "fact" => money[c].code \in Known /\ money[c].raw # Price * 100
               /\ result = "state" => fits /\ attempt[money[c].code] = "late"
               /\ result = "confirmed again" => settlement[c] = "matched"
               /\ result = "duplicate again" => settlement[c] = "duplicate"
<1>1. /\ paymentFactsMatch(c) <=> money[c].raw = Price * 100
      /\ settlement[c] \in {"none", "matched", "duplicate", "late"}
    BY AmountFacts DEF EvidenceIInv, EvidenceTypeOK
<1>2. EventOf(via, c) \in events => settlement[c] # "none"
    BY DEF EventOf, EvidenceIInv, BooksFollow
<1>3. settlement[c] # "none" =>
          /\ paymentFactsMatch(c) /\ Canonical(c) /\ existingSettlementMatches(via, c)
          /\ priorEventMatches(c) /\ money[c].code \in Known
    BY <1>1 DEF EvidenceIInv, BooksFollow, Canonical, existingSettlementMatches, priorEventMatches, IsVnPay,
                EventOf
<1>4. settlement[c] # "none" =>
          /\ ReplayOf(c) \in {"late", "confirmed again", "duplicate again"}
          /\ ReplayOf(c) = "late" => settlement[c] = "late"
          /\ ReplayOf(c) = "confirmed again" => settlement[c] = "matched"
          /\ ReplayOf(c) = "duplicate again" => settlement[c] = "duplicate"
    BY <1>1 DEF ReplayOf
<1>5. CASE settlement[c] # "none"
    <2>1. Outcome(via, c) = ReplayOf(c)
        BY <1>3, <1>5 DEF Outcome
    <2> QED BY <1>4, <1>5, <2>1 DEF Results
<1>6. CASE settlement[c] = "none"
    <2>1. money[c].code \in Known => attempt[money[c].code] \in {"pending", "paid", "closed", "late"}
        BY DEF EvidenceIInv, EvidenceTypeOK
    <2>2. Outcome(via, c) = IF money[c].code \notin Known THEN "unknown"
                            ELSE IF ~paymentFactsMatch(c) THEN "fact"
                            ELSE IF attempt[money[c].code] = "pending" THEN "confirmed"
                            ELSE IF attempt[money[c].code] = "paid" THEN "duplicate"
                            ELSE IF attempt[money[c].code] = "closed" THEN "late"
                            ELSE "state"
        BY <1>2, <1>6 DEF Outcome, Confirmable
    <2> QED BY <1>1, <1>6, <2>1, <2>2 DEF Results, Rejections
<1> QED BY <1>5, <1>6

-----------------------------------------------------------------------------
(* Every step                                                               *)

\* The records and the collections are what they were.
LEMMA RecordsStay ==
    ASSUME EvidenceIInv, UNCHANGED <<money, records>>, delivered \subseteq delivered'
    PROVE  Grows /\ MoneyTyped' /\ BooksFollow' /\ ConflictsAreReal'
<1>1. UNCHANGED <<money, attempt, confirmedBy, settlement, events, mismatches>>
    BY DEF records
<1>2. Grows
    BY <1>1 DEF Grows
<1>3. MoneyTyped' /\ BooksFollow'
    BY <1>1 DEF EvidenceIInv, MoneyTyped, BooksFollow
<1>4. ConflictsAreReal'
    BY <1>1, <1>2, ConflictsStay DEF EvidenceIInv
<1> QED BY <1>2, <1>3, <1>4

\* Nothing but a handler changes.
LEMMA NothingElse ==
    ASSUME EvidenceIInv, UNCHANGED <<money, records, delivered, answers>>
    PROVE  /\ Grows /\ MoneyTyped' /\ BooksFollow' /\ ConflictsAreReal' /\ EvidenceTypeOK'
           /\ AnswersTrue'
<1>1. Grows /\ MoneyTyped' /\ BooksFollow' /\ ConflictsAreReal'
    BY RecordsStay
<1>2. EvidenceTypeOK'
    BY DEF EvidenceIInv, EvidenceTypeOK, records
<1>3. AnswersTrue'
    BY <1>1, AnswersStay
<1> QED BY <1>1, <1>2, <1>3

\* A step of one handler that leaves the records alone: what it knows next has to fit.
LEMMA HandlerStep ==
    ASSUME EvidenceIInv, NEW h \in Handlers, handling' \in [Handlers -> Works],
           \A k \in Handlers : k # h => handling'[k] = handling[k],
           Grows, MoneyTyped', BooksFollow', ConflictsAreReal', EvidenceTypeOK', AnswersTrue',
           WorkFits(h)'
    PROVE  EvidenceIInv'
<1>1. \A k \in Handlers : WorkFits(k)'
    BY WorkStays
<1> QED BY <1>1 DEF EvidenceIInv

\* What a handler at work knows.
LEMMA WorkFacts ==
    ASSUME EvidenceIInv, NEW h \in Handlers, handling[h].step # "rest"
    PROVE  /\ handling[h] \in Works /\ WorkFits(h)
           /\ handling[h].of \in Collections /\ handling[h].via \in {"notice", "query"}
           /\ money[handling[h].of] # NoMoney
BY DEF EvidenceIInv, WorkFits

\* What fits a handler at its next step.
LEMMA FitsNext ==
    ASSUME NEW h \in Handlers, NEW step, NEW result, NEW c \in Collections,
           NEW via \in {"notice", "query"}, money'[c] # NoMoney,
           handling'[h].step = step, handling'[h].via = via, handling'[h].of = c,
           handling'[h].result = result,
           step = "verified" => money'[c].good /\ money'[c].raw % 100 = 0,
           step = "classify" => ~money'[c].good,
           step = "fulfil" =>
               settlement'[c] = "matched" /\ result \in {"confirmed", "confirmed again"},
           step = "answer" /\ mapProcessingResult(result) \in Final => Settled(c)'
    PROVE  WorkFits(h)'
BY DEF WorkFits

\* A new transaction of a provider disturbs nothing that is known of the others.
LEMMA CollectStep ==
    ASSUME EvidenceIInv, NEW c \in Collections, NEW code \in Known \cup {Foreign}, NEW raw \in Raw,
           NEW good \in BOOLEAN, Collect(c, code, raw, good)
    PROVE  EvidenceIInv'
<1> DEFINE m == [code |-> code, raw |-> raw, good |-> good]
<1>1. /\ money[c] = NoMoney /\ money' = [money EXCEPT ![c] = m]
      /\ code \in VnPay => Payable
      /\ code \in PayOs => raw % 100 = 0 /\ good
      /\ UNCHANGED <<attempt, confirmedBy, settlement, events, mismatches, delivered, handling, answers>>
    BY DEF Collect, records
<1>2. m \in Moneys /\ code # Nothing /\ m # NoMoney
    BY EvidenceAssumption DEF Moneys, NoMoney
<1>3. /\ money'[c] = m /\ \A d \in Collections : d # c => money'[d] = money[d]
      /\ money' \in [Collections -> Moneys]
    BY <1>1, <1>2 DEF EvidenceIInv, MoneyTyped
<1>4. Grows
    BY <1>1, <1>3 DEF Grows
<1>5. MoneyTyped'
    <2>1. m.code = code /\ m.raw = raw /\ m.good = good
        OBVIOUS
    <2> HIDE DEF m
    <2> QED BY <1>1, <1>2, <1>3, <2>1 DEF EvidenceIInv, MoneyTyped, Payable
<1>6. BooksFollow'
    <2>1. ASSUME NEW d \in Collections, settlement[d] # "none" PROVE money'[d] = money[d] /\ d # c
        BY <1>1, <1>4, <2>1, GoodIsMoney DEF Grows, EvidenceIInv, BooksFollow
    <2> HIDE DEF m
    <2> QED BY <1>1, <2>1 DEF EvidenceIInv, BooksFollow
<1>7. ConflictsAreReal' /\ AnswersTrue' /\ EvidenceTypeOK'
    BY <1>1, <1>4, ConflictsStay, AnswersStay DEF EvidenceIInv, EvidenceTypeOK
<1>8. \A h \in Handlers : WorkFits(h)'
    BY <1>1, <1>4, WorkStays
<1> QED BY <1>1, <1>5, <1>6, <1>7, <1>8 DEF EvidenceIInv

\* An attempt is closed while it is pending: nothing was booked for it.
LEMMA CloseStep ==
    ASSUME EvidenceIInv, NEW a \in Known, Close(a)
    PROVE  EvidenceIInv'
<1>1. /\ attempt[a] = "pending" /\ attempt' = [attempt EXCEPT ![a] = "closed"]
      /\ UNCHANGED <<money, confirmedBy, settlement, events, mismatches, delivered, handling, answers>>
    BY DEF Close
<1>2. Grows
    BY <1>1 DEF Grows
<1>3. EvidenceTypeOK' /\ attempt'[a] = "closed" /\ \A b \in Known : b # a => attempt'[b] = attempt[b]
    BY <1>1 DEF EvidenceIInv, EvidenceTypeOK
<1>4. BooksFollow'
    BY <1>1, <1>3 DEF EvidenceIInv, BooksFollow
<1>5. MoneyTyped' /\ handling' \in [Handlers -> Works]
    BY <1>1 DEF EvidenceIInv, MoneyTyped
<1>6. ConflictsAreReal' /\ AnswersTrue'
    BY <1>1, <1>2, ConflictsStay, AnswersStay DEF EvidenceIInv
<1>7. \A h \in Handlers : WorkFits(h)'
    BY <1>1, <1>2, WorkStays
<1> QED BY <1>3, <1>4, <1>5, <1>6, <1>7 DEF EvidenceIInv

\* A transaction books what it found, or keeps a case about money that is really wrong.
LEMMA ApplyStep ==
    ASSUME EvidenceIInv, NEW h \in Handlers, ApplyVerified(h)
    PROVE  EvidenceIInv'
<1>1. handling[h].step = "verified" /\ UNCHANGED <<money, delivered, answers>>
    BY DEF ApplyVerified
<1>2. PICK c \in Collections, via \in {"notice", "query"} :
          /\ c = handling[h].of /\ via = handling[h].via
          /\ money[c].good /\ money[c].raw % 100 = 0 /\ money[c] # NoMoney
    BY <1>1, WorkFacts DEF WorkFits
<1>3. PICK result \in Results : result = Outcome(via, c)
    BY <1>2, OutcomeFacts
<1>4. /\ result # "event" /\ result # "reference" /\ result # "none" /\ result # "error"
      /\ result # "noted"
      /\ result = "confirmed" \/ result = "duplicate"
             \/ (result = "late" /\ settlement[c] = "none") \/ result = "state" =>
             /\ settlement[c] = "none" /\ money[c].code \in Known
             /\ money[c].raw = Price * 100
      /\ result = "confirmed" => attempt[money[c].code] = "pending"
      /\ result = "duplicate" => attempt[money[c].code] = "paid"
      /\ result = "late" /\ settlement[c] = "none" => attempt[money[c].code] = "closed"
      /\ result = "state" => attempt[money[c].code] = "late"
      /\ result = "late" => settlement[c] \in {"none", "late"}
      /\ result = "fact" => money[c].code \in Known /\ money[c].raw # Price * 100
      /\ result = "confirmed again" => settlement[c] = "matched"
      /\ result = "duplicate again" => settlement[c] = "duplicate"
    <2>1. settlement[c] \in {"none", "matched", "duplicate", "late"}
        BY DEF EvidenceIInv, EvidenceTypeOK
    <2>2. /\ result \in Results \ {"event", "reference", "none", "error", "noted"}
          /\ result = "confirmed" =>
                /\ settlement[c] = "none" /\ money[c].code \in Known /\ money[c].raw = Price * 100
                /\ attempt[money[c].code] = "pending"
          /\ result = "duplicate" =>
                /\ settlement[c] = "none" /\ money[c].code \in Known /\ money[c].raw = Price * 100
                /\ attempt[money[c].code] = "paid"
          /\ result = "late" =>
                \/ /\ settlement[c] = "none" /\ money[c].code \in Known
                   /\ money[c].raw = Price * 100 /\ attempt[money[c].code] = "closed"
                \/ settlement[c] = "late"
          /\ result = "fact" => money[c].code \in Known /\ money[c].raw # Price * 100
          /\ result = "state" =>
                /\ settlement[c] = "none" /\ money[c].code \in Known /\ money[c].raw = Price * 100
                /\ attempt[money[c].code] = "late"
          /\ result = "confirmed again" => settlement[c] = "matched"
          /\ result = "duplicate again" => settlement[c] = "duplicate"
        <3>1. LET r == Outcome(via, c)
                  fits == settlement[c] = "none" /\ money[c].code \in Known /\ money[c].raw = Price * 100
              IN  /\ r \in Results \ {"event", "reference", "none", "error", "noted"}
                  /\ r = "confirmed" => fits /\ attempt[money[c].code] = "pending"
                  /\ r = "duplicate" => fits /\ attempt[money[c].code] = "paid"
                  /\ r = "late" => \/ fits /\ attempt[money[c].code] = "closed"
                                   \/ settlement[c] = "late"
                  /\ r = "fact" => money[c].code \in Known /\ money[c].raw # Price * 100
                  /\ r = "state" => fits /\ attempt[money[c].code] = "late"
                  /\ r = "confirmed again" => settlement[c] = "matched"
                  /\ r = "duplicate again" => settlement[c] = "duplicate"
            BY <1>2, OutcomeFacts
        <3> QED BY <1>3, <3>1
    <2> QED BY <2>1, <2>2
<1> DEFINE step == IF result \in {"confirmed", "confirmed again"} THEN "fulfil" ELSE "answer"
           Applied == /\ Grows /\ MoneyTyped' /\ BooksFollow' /\ ConflictsAreReal' /\ EvidenceTypeOK'
                      /\ result = "confirmed" => settlement'[c] = "matched"
                      /\ result = "confirmed again" => settlement'[c] = "matched"
                      /\ result \in {"duplicate", "duplicate again"} => settlement'[c] = "duplicate"
                      /\ result = "late" => settlement'[c] = "late"
<1>5. /\ handling' = [handling EXCEPT ![h].result = result, ![h].step = step]
      /\ CASE result = "confirmed" -> Book(via, c, "matched", "paid")
           [] result = "duplicate" -> Book(via, c, "duplicate", "paid")
           [] result = "late" /\ settlement[c] = "none" -> Book(via, c, "late", "late")
           [] result \in Rejections -> Reject(c, result)
           [] OTHER -> UNCHANGED records
    BY <1>2, <1>3 DEF ApplyVerified
<1>6. ASSUME NEW disposition, NEW status, Book(via, c, disposition, status),
             \/ result = "confirmed" /\ disposition = "matched" /\ status = "paid"
             \/ result = "duplicate" /\ disposition = "duplicate" /\ status = "paid"
             \/ result = "late" /\ settlement[c] = "none" /\ disposition = "late" /\ status = "late"
      PROVE  Applied
    <2>1. /\ settlement[c] = "none" /\ money[c].code \in Known /\ money[c].raw = Price * 100
          /\ <<disposition, status, attempt[money[c].code]>> \in
                 {<<"matched", "paid", "pending">>, <<"duplicate", "paid", "paid">>,
                  <<"late", "late", "closed">>}
        BY <1>4, <1>6
    <2>2. /\ BooksFollow'
          /\ attempt' \in [Known -> {"pending", "paid", "closed", "late"}]
          /\ confirmedBy' \in [Known -> Collections \cup {Nothing}]
          /\ settlement' \in [Collections -> {"none", "matched", "duplicate", "late"}]
          /\ settlement' = [settlement EXCEPT ![c] = disposition]
        BY <1>1, <1>2, <1>6, <2>1, BookStep
    <2>3. settlement'[c] = disposition /\ \A d \in Collections : d # c => settlement'[d] = settlement[d]
        BY <2>2 DEF EvidenceIInv, EvidenceTypeOK
    <2>4. Grows
        BY <1>1, <2>1, <2>3 DEF Grows
    <2>5. ConflictsAreReal'
        BY <1>6, <2>4, ConflictsStay DEF Book, EvidenceIInv
    <2>6. MoneyTyped' /\ EvidenceTypeOK'
        BY <1>1, <2>2 DEF EvidenceIInv, MoneyTyped, EvidenceTypeOK
    <2> QED BY <1>6, <2>2, <2>3, <2>4, <2>5, <2>6
<1>7. ASSUME result \in {"fact", "state"}, Reject(c, result) PROVE Applied
    <2>1. Real(money[c].code) /\ c \in PaidInto(money[c].code)
        <3>1. c \in PaidInto(money[c].code)
            BY <1>2 DEF PaidInto
        <3>2. CASE result = "fact"
            BY <1>4, <3>1, <3>2 DEF Real
        <3>3. CASE result = "state"
            <4>1. PICK d \in Collections : money[d].code = money[c].code /\ settlement[d] # "none"
                BY <1>4, <3>3 DEF EvidenceIInv, BooksFollow
            <4>2. d # c /\ d \in PaidInto(money[c].code)
                BY <1>4, <3>3, <4>1 DEF EvidenceIInv, BooksFollow, PaidInto
            <4> QED BY <3>1, <4>2, TwoAreMore DEF Real
        <3> QED BY <1>7, <3>2, <3>3
    <2>2. /\ mismatches' = mismatches \cup {<<money[c].code, result>>}
          /\ UNCHANGED <<attempt, confirmedBy, settlement, events>>
        BY <1>7 DEF Reject
    <2>3. Grows
        BY <1>1, <2>2 DEF Grows
    <2>4. ConflictsAreReal'
        BY <2>1, <2>2, <2>3, ConflictsStay DEF EvidenceIInv
    <2>5. MoneyTyped' /\ EvidenceTypeOK' /\ BooksFollow'
        BY <1>1, <2>2 DEF EvidenceIInv, MoneyTyped, EvidenceTypeOK, BooksFollow
    <2> QED BY <1>7, <2>3, <2>4, <2>5
<1>8. ASSUME UNCHANGED records, result \in {"unknown", "confirmed again", "duplicate again", "late"},
             result = "late" => settlement[c] # "none"
      PROVE  Applied
    <2>1. Grows /\ MoneyTyped' /\ BooksFollow' /\ ConflictsAreReal'
        BY <1>1, <1>8, RecordsStay
    <2>2. EvidenceTypeOK' /\ settlement' = settlement
        BY <1>1, <1>8 DEF EvidenceIInv, EvidenceTypeOK, records
    <2> QED BY <1>4, <1>8, <2>1, <2>2
<1>9. Applied
    <2> HIDE DEF Applied
    <2>1. CASE result = "confirmed"
        BY <1>5, <1>6, <2>1 DEF Rejections
    <2>2. CASE result = "duplicate"
        BY <1>5, <1>6, <2>2 DEF Rejections
    <2>3. CASE result = "late" /\ settlement[c] = "none"
        BY <1>5, <1>6, <2>3 DEF Rejections
    <2>4. CASE result \in {"fact", "state"}
        BY <1>5, <1>7, <2>4 DEF Rejections
    <2>5. CASE result \in {"unknown", "confirmed again", "duplicate again"}
               \/ (result = "late" /\ settlement[c] # "none")
        BY <1>5, <1>8, <2>5 DEF Rejections
    <2> QED BY <1>3, <1>4, <2>1, <2>2, <2>3, <2>4, <2>5 DEF Results, Rejections
<1>10. step \in {"fulfil", "answer"}
    OBVIOUS
<1>11. /\ handling' \in [Handlers -> Works]
       /\ \A k \in Handlers : k # h => handling'[k] = handling[k]
       /\ handling'[h].step = step /\ handling'[h].via = via /\ handling'[h].of = c
       /\ handling'[h].result = result
    <2> HIDE DEF step
    <2> QED BY <1>2, <1>5, <1>10 DEF EvidenceIInv, Works
<1>12. AnswersTrue'
    BY <1>1, <1>9, AnswersStay
<1>13. WorkFits(h)'
    <2>1. result \in {"confirmed", "confirmed again"} => settlement'[c] = "matched"
        BY <1>9
    <2>2. result \notin {"confirmed", "confirmed again"} /\ mapProcessingResult(result) \in Final =>
              settlement'[c] \in {"duplicate", "late"}
        BY <1>3, <1>4, <1>9 DEF mapProcessingResult, Final, Results, Rejections
    <2>3. money' = money
        BY <1>1
    <2>4. /\ step = "fulfil" => result \in {"confirmed", "confirmed again"}
          /\ step = "answer" => result \notin {"confirmed", "confirmed again"}
        OBVIOUS
    <2> HIDE DEF step
    <2>5. step = "answer" /\ mapProcessingResult(result) \in Final => Settled(c)'
        BY <2>2, <2>4 DEF Settled
    <2> QED BY <1>2, <1>10, <1>11, <2>1, <2>3, <2>4, <2>5, FitsNext
<1> QED BY <1>9, <1>11, <1>12, <1>13, HandlerStep

\* A transaction that fails leaves the records alone and is answered as an error.
LEMMA FailStep ==
    ASSUME EvidenceIInv, NEW h \in Handlers, TransactionFails(h)
    PROVE  EvidenceIInv'
<1>1. /\ handling[h].step = "verified" /\ UNCHANGED <<money, records, delivered, answers>>
      /\ handling' = [handling EXCEPT ![h].result = "error", ![h].step = "answer"]
    BY DEF TransactionFails
<1>2. /\ handling[h].of \in Collections /\ handling[h].via \in {"notice", "query"}
      /\ money'[handling[h].of] # NoMoney
    BY <1>1, WorkFacts
<1>3. /\ handling' \in [Handlers -> Works]
      /\ \A k \in Handlers : k # h => handling'[k] = handling[k]
      /\ handling'[h].step = "answer" /\ handling'[h].via = handling[h].via
      /\ handling'[h].of = handling[h].of /\ handling'[h].result = "error"
    BY <1>1 DEF EvidenceIInv, Works, Results
<1>4. Grows /\ MoneyTyped' /\ BooksFollow' /\ ConflictsAreReal' /\ EvidenceTypeOK' /\ AnswersTrue'
    BY <1>1, NothingElse
<1>5. mapProcessingResult("error") \notin Final
    BY DEF mapProcessingResult, Final, Rejections
<1>6. WorkFits(h)'
    BY <1>2, <1>3, <1>5, FitsNext
<1> QED BY <1>3, <1>4, <1>6, HandlerStep

\* What was confirmed is delivered, or the caller is told of an error.
LEMMA FulfilStep ==
    ASSUME EvidenceIInv, NEW h \in Handlers, Fulfil(h)
    PROVE  EvidenceIInv'
<1>1. handling[h].step = "fulfil" /\ UNCHANGED <<money, records, answers>>
    BY DEF Fulfil
<1>2. PICK c \in Collections, via \in {"notice", "query"} :
          /\ c = handling[h].of /\ via = handling[h].via /\ money[c] # NoMoney
          /\ settlement[c] = "matched" /\ handling[h].result \in Results
    BY <1>1, WorkFacts DEF WorkFits, Works
<1>3. money[c].code \in Known /\ money' = money /\ settlement' = settlement
    BY <1>1, <1>2 DEF EvidenceIInv, BooksFollow, records
<1>4. ASSUME NEW result \in Results, delivered \subseteq delivered', delivered' \subseteq Known,
             result = "error" \/ money[c].code \in delivered',
             \/ handling' = [handling EXCEPT ![h].step = "answer", ![h].result = result]
             \/ result = handling[h].result /\ handling' = [handling EXCEPT ![h].step = "answer"]
      PROVE  EvidenceIInv'
    <2>1. /\ handling' \in [Handlers -> Works]
          /\ \A k \in Handlers : k # h => handling'[k] = handling[k]
          /\ handling'[h].step = "answer" /\ handling'[h].via = via
          /\ handling'[h].of = c /\ handling'[h].result = result
        BY <1>2, <1>4 DEF EvidenceIInv, Works
    <2>2. Grows /\ MoneyTyped' /\ BooksFollow' /\ ConflictsAreReal'
        BY <1>1, <1>4, RecordsStay
    <2>3. EvidenceTypeOK'
        BY <1>1, <1>4 DEF EvidenceIInv, EvidenceTypeOK, records
    <2>4. AnswersTrue'
        BY <1>1, <2>2, AnswersStay
    <2>5. mapProcessingResult("error") \notin Final
        BY DEF mapProcessingResult, Final, Rejections
    <2>6. result # "error" => Settled(c)'
        BY <1>2, <1>3, <1>4 DEF Settled
    <2>7. WorkFits(h)'
        BY <1>2, <1>3, <2>1, <2>5, <2>6, FitsNext
    <2> QED BY <2>1, <2>2, <2>3, <2>4, <2>7, HandlerStep
<1>5. CASE /\ delivered' = delivered \cup {money[handling[h].of].code}
           /\ handling' = [handling EXCEPT ![h].step = "answer"]
    <2>1. PICK r \in Results : r = handling[h].result
        BY <1>2
    <2>2. money[c].code \in delivered' /\ delivered \subseteq delivered' /\ delivered' \subseteq Known
        BY <1>2, <1>3, <1>5 DEF EvidenceIInv, EvidenceTypeOK
    <2> QED BY <1>4, <1>5, <2>1, <2>2
<1>6. CASE /\ handling' = [handling EXCEPT ![h].step = "answer", ![h].result = "error"]
           /\ UNCHANGED delivered
    <2>1. delivered \subseteq delivered' /\ delivered' \subseteq Known /\ "error" \in Results
        BY <1>6 DEF EvidenceIInv, EvidenceTypeOK, Results
    <2> QED BY <1>4, <1>6, <2>1
<1> QED BY <1>5, <1>6 DEF Fulfil

\* A notice that VNPay wrote another amount into is refused before anything is read;
\* one of a payment that failed is only classified.
LEMMA NoticeStep ==
    ASSUME EvidenceIInv, NEW h \in Handlers, NEW c \in Collections, Notice(h, c)
    PROVE  EvidenceIInv'
<1>1. money[c] # NoMoney /\ UNCHANGED <<money, records, delivered, answers>>
    BY DEF Notice
<1>2. PICK unread \in BOOLEAN : unread <=> IsVnPay(c) /\ ~Parses(money[c].raw)
    OBVIOUS
<1>3. money[c].good \in BOOLEAN /\ (money[c].code \in PayOs => money[c].raw % 100 = 0)
    BY DEF EvidenceIInv, MoneyTyped, Moneys
<1>4. PICK step, result :
          /\ \/ unread /\ step = "answer" /\ result = "fact"
             \/ ~unread /\ money[c].good /\ step = "verified" /\ result = "none"
             \/ ~unread /\ ~money[c].good /\ step = "classify" /\ result = "none"
          /\ handling' = [handling EXCEPT ![h] =
                              [via |-> "notice", of |-> c, result |-> result, step |-> step]]
    BY <1>2, <1>3 DEF Notice
<1>5. /\ handling' \in [Handlers -> Works]
      /\ \A k \in Handlers : k # h => handling'[k] = handling[k]
      /\ handling'[h].step = step /\ handling'[h].via = "notice"
      /\ handling'[h].of = c /\ handling'[h].result = result
    BY <1>4 DEF EvidenceIInv, Works, Results, Rejections
<1>6. Grows /\ MoneyTyped' /\ BooksFollow' /\ ConflictsAreReal' /\ EvidenceTypeOK' /\ AnswersTrue'
    BY <1>1, NothingElse
<1>7. mapProcessingResult("fact") \notin Final
    BY DEF mapProcessingResult, Final
<1>8. ~unread => money[c].raw % 100 = 0
    BY <1>2, <1>3 DEF IsVnPay, Parses
<1>9. WorkFits(h)'
    <2>1. money' = money
        BY <1>1
    <2>2. /\ step = "verified" => money'[c].good /\ money'[c].raw % 100 = 0
          /\ step = "classify" => ~money'[c].good
          /\ step = "answer" => result = "fact"
          /\ step # "fulfil" /\ money'[c] # NoMoney
        BY <1>1, <1>4, <1>8, <2>1
    <2> QED BY <1>5, <1>7, <2>2, FitsNext
<1> QED BY <1>5, <1>6, <1>9, HandlerStep

\* A payment that failed is classified: it binds nothing, whatever the answer.
LEMMA ClassifyStep ==
    ASSUME EvidenceIInv, NEW h \in Handlers, classifyVerified(h)
    PROVE  EvidenceIInv'
<1>1. handling[h].step = "classify" /\ UNCHANGED <<money, records, delivered, answers>>
    BY DEF classifyVerified
<1>2. PICK result \in {"unknown", "fact", "confirmed again", "noted"} :
          handling' = [handling EXCEPT ![h].step = "answer", ![h].result = result]
    <2>1. PICK r : r = (IF money[handling[h].of].code \notin Known THEN "unknown"
                        ELSE IF ~paymentFactsMatch(handling[h].of) THEN "fact"
                        ELSE IF attempt[money[handling[h].of].code] = "paid"
                        THEN "confirmed again" ELSE "noted")
        OBVIOUS
    <2>2. r \in {"unknown", "fact", "confirmed again", "noted"}
        BY <2>1
    <2>3. handling' = [handling EXCEPT ![h].step = "answer", ![h].result = r]
        BY <2>1 DEF classifyVerified
    <2> QED BY <2>2, <2>3
<1>3. PICK c \in Collections, via \in {"notice", "query"} :
          /\ c = handling[h].of /\ via = handling[h].via
          /\ money'[c] # NoMoney /\ ~money'[c].good
    BY <1>1, WorkFacts DEF WorkFits
<1>4. /\ handling' \in [Handlers -> Works]
      /\ \A k \in Handlers : k # h => handling'[k] = handling[k]
      /\ handling'[h].step = "answer" /\ handling'[h].via = via
      /\ handling'[h].of = c /\ handling'[h].result = result
    BY <1>2, <1>3 DEF EvidenceIInv, Works, Results, Rejections
<1>5. Grows /\ MoneyTyped' /\ BooksFollow' /\ ConflictsAreReal' /\ EvidenceTypeOK' /\ AnswersTrue'
    BY <1>1, NothingElse
<1>6. WorkFits(h)'
    <2>1. Settled(c)'
        BY <1>3 DEF Settled
    <2> QED BY <1>3, <1>4, <2>1, FitsNext
<1> QED BY <1>4, <1>5, <1>6, HandlerStep

\* A handler at rest fits whatever is known.
LEMMA RestStep ==
    ASSUME EvidenceIInv, NEW h \in Handlers, handling' = [handling EXCEPT ![h] = NoWork]
    PROVE  /\ handling' \in [Handlers -> Works] /\ WorkFits(h)'
           /\ \A k \in Handlers : k # h => handling'[k] = handling[k]
<1>1. NoWork \in Works
    BY DEF NoWork, Works, Results
<1>2. /\ handling' \in [Handlers -> Works] /\ handling'[h] = NoWork
      /\ \A k \in Handlers : k # h => handling'[k] = handling[k]
    BY <1>1 DEF EvidenceIInv
<1>3. handling'[h].step = "rest"
    BY <1>2 DEF NoWork
<1> QED BY <1>2, <1>3 DEF WorkFits

\* The answer that ends the retries is given of what is on the books.
LEMMA RespondStep ==
    ASSUME EvidenceIInv, NEW h \in Handlers, Respond(h)
    PROVE  EvidenceIInv'
<1>1. /\ handling[h].step = "answer" /\ UNCHANGED <<money, records, delivered>>
      /\ handling' = [handling EXCEPT ![h] = NoWork]
      /\ answers' \subseteq
             answers \cup {<<handling[h].of, mapProcessingResult(handling[h].result)>>}
    BY DEF Respond
<1>2. Grows /\ MoneyTyped' /\ BooksFollow' /\ ConflictsAreReal'
    BY <1>1, RecordsStay
<1>3. EvidenceTypeOK'
    BY <1>1 DEF EvidenceIInv, EvidenceTypeOK, records
<1>4. AnswersTrue'
    <2>1. ASSUME NEW c \in Collections, NEW code \in Final, <<c, code>> \in answers' \ answers
          PROVE  money[c] # NoMoney /\ Settled(c)
        <3>1. c = handling[h].of /\ code = mapProcessingResult(handling[h].result)
            BY <1>1, <2>1
        <3> QED BY <1>1, <2>1, <3>1, WorkFacts DEF WorkFits
    <2> QED BY <1>2, <2>1, AnswersStay
<1> QED BY <1>1, <1>2, <1>3, <1>4, RestStep, HandlerStep

\* What a handler that crashes knew is lost; the provider tells it again.
LEMMA EvidenceCrashStep ==
    ASSUME EvidenceIInv, NEW h \in Handlers, HandlerCrash(h)
    PROVE  EvidenceIInv'
BY NothingElse, RestStep, HandlerStep DEF HandlerCrash

\* A handler that a query has told of a collection.
LEMMA FoundStep ==
    ASSUME EvidenceIInv, NEW h \in Handlers, NEW c \in Collections,
           UNCHANGED <<money, records, delivered, answers>>,
           handling' = [handling EXCEPT ![h] = Found(c)], money[c].good, money[c].raw % 100 = 0
    PROVE  EvidenceIInv'
<1>1. Found(c) = [step |-> "verified", via |-> "query", of |-> c, result |-> "none"]
    <2>1. [NoWork EXCEPT !.step = "verified"] =
              [step |-> "verified", via |-> "none", of |-> Nothing, result |-> "none"]
        BY DEF NoWork
    <2>2. [NoWork EXCEPT !.step = "verified", !.via = "query", !.of = c] =
              [[[NoWork EXCEPT !.step = "verified"] EXCEPT !.via = "query"] EXCEPT !.of = c]
        OBVIOUS
    <2>3. [[step |-> "verified", via |-> "none", of |-> Nothing, result |-> "none"]
              EXCEPT !.via = "query"] =
          [step |-> "verified", via |-> "query", of |-> Nothing, result |-> "none"]
        OBVIOUS
    <2>4. [[step |-> "verified", via |-> "query", of |-> Nothing, result |-> "none"]
              EXCEPT !.of = c] =
          [step |-> "verified", via |-> "query", of |-> c, result |-> "none"]
        OBVIOUS
    <2> QED BY <2>1, <2>2, <2>3, <2>4 DEF Found
<1>2. /\ handling' \in [Handlers -> Works]
      /\ \A k \in Handlers : k # h => handling'[k] = handling[k]
      /\ handling'[h].step = "verified" /\ handling'[h].via = "query"
      /\ handling'[h].of = c /\ handling'[h].result = "none"
    <2>1. /\ Found(c) \in Works /\ Found(c).step = "verified" /\ Found(c).via = "query"
          /\ Found(c).of = c /\ Found(c).result = "none"
        BY <1>1 DEF Works, Results
    <2>2. handling'[h] = Found(c)
        BY DEF EvidenceIInv
    <2> QED BY <2>1, <2>2 DEF EvidenceIInv
<1>3. Grows /\ MoneyTyped' /\ BooksFollow' /\ ConflictsAreReal' /\ EvidenceTypeOK' /\ AnswersTrue'
    BY NothingElse
<1>4. WorkFits(h)'
    BY <1>2, GoodIsMoney, FitsNext
<1> QED BY <1>2, <1>3, <1>4, HandlerStep

\* An attempt is flagged by a query, and the provider really collected what it was not asked for.
LEMMA FlagStep ==
    ASSUME EvidenceIInv, NEW a, Real(a), mismatches' = mismatches \cup {<<a, "query">>},
           UNCHANGED <<money, attempt, confirmedBy, settlement, events, delivered, handling, answers>>
    PROVE  EvidenceIInv'
<1>1. Grows
    BY DEF Grows
<1>2. ConflictsAreReal'
    BY <1>1, ConflictsStay DEF EvidenceIInv
<1>3. MoneyTyped' /\ handling' \in [Handlers -> Works] /\ EvidenceTypeOK' /\ BooksFollow'
    BY DEF EvidenceIInv, MoneyTyped, EvidenceTypeOK, BooksFollow
<1>4. AnswersTrue' /\ \A h \in Handlers : WorkFits(h)'
    BY <1>1, AnswersStay, WorkStays
<1> QED BY <1>2, <1>3, <1>4 DEF EvidenceIInv

\* VNPay names one transaction: another one on the books, or another amount, is real.
LEMMA QueryVnPayStep ==
    ASSUME EvidenceIInv, NEW h \in Handlers, NEW a \in VnPay, NEW c \in Collections, QueryVnPay(h, a, c)
    PROVE  EvidenceIInv'
<1>1. /\ c \in PaidInto(a) /\ money[c].code = a /\ money[c].good /\ money[c].raw \in Nat
      /\ UNCHANGED <<money, attempt, confirmedBy, settlement, events, delivered, answers>>
    BY DEF QueryVnPay, PaidInto, EvidenceIInv, MoneyTyped, Moneys
<1>2. CASE BookedFor(a) \subseteq {c} /\ Parses(money[c].raw) /\ paymentFactsMatch(c)
    <2>1. /\ handling' = [handling EXCEPT ![h] = Found(c)]
          /\ UNCHANGED <<money, records, delivered, answers>>
        BY <1>1, <1>2 DEF QueryVnPay, records
    <2>2. money[c].raw % 100 = 0
        BY <1>2 DEF Parses
    <2> QED BY <1>1, <2>1, <2>2, FoundStep
<1>3. CASE ~(BookedFor(a) \subseteq {c} /\ Parses(money[c].raw) /\ paymentFactsMatch(c))
    <2>1. mismatches' = mismatches \cup {<<a, "query">>} /\ UNCHANGED handling
        BY <1>3 DEF QueryVnPay
    <2>2. CASE ~(BookedFor(a) \subseteq {c})
        <3>1. PICK d \in Collections : d # c /\ money[d].code = a /\ settlement[d] # "none"
            BY <2>2 DEF BookedFor
        <3>2. d \in PaidInto(a)
            BY <3>1 DEF EvidenceIInv, BooksFollow, PaidInto
        <3> QED BY <1>1, <2>1, <3>1, <3>2, TwoAreMore, FlagStep DEF Real
    <2>3. CASE ~Parses(money[c].raw)
        <3>1. Payable
            BY <1>1 DEF EvidenceIInv, MoneyTyped
        <3>2. (Price * 100) % 100 = 0
            BY EvidenceAssumption
        <3>3. money[c].raw # Price * 100
            BY <2>3, <3>1, <3>2, AmountFacts DEF Parses, Payable
        <3> QED BY <1>1, <2>1, <3>3, FlagStep DEF Real
    <2>4. CASE ~paymentFactsMatch(c)
        <3>1. money[c].raw # Price * 100
            BY <2>4, AmountFacts DEF EvidenceIInv
        <3> QED BY <1>1, <2>1, <3>1, FlagStep DEF Real
    <2> QED BY <1>3, <2>2, <2>3, <2>4
<1> QED BY <1>2, <1>3

\* PayOS names all its transactions: one, of the amount asked for, or the wrong is real.
LEMMA QueryPayOsStep ==
    ASSUME EvidenceIInv, NEW h \in Handlers, NEW a \in PayOs, QueryPayOs(h, a)
    PROVE  EvidenceIInv'
<1>1. PICK c \in Collections : c \in PaidInto(a) /\ money[c].code = a /\ money[c].good
    BY DEF QueryPayOs, PaidInto
<1>2. UNCHANGED <<money, attempt, confirmedBy, settlement, events, delivered, answers>>
    BY DEF QueryPayOs
<1>3. CASE \E d \in PaidInto(a) : PaidInto(a) = {d} /\ paymentFactsMatch(d)
    <2>1. PaidInto(a) = {c}
        BY <1>1, <1>3
    <2>2. (CHOOSE d \in PaidInto(a) : TRUE) = c
        BY <2>1
    <2>3. /\ handling' = [handling EXCEPT ![h] = Found(c)]
          /\ UNCHANGED <<money, records, delivered, answers>>
        BY <1>2, <1>3, <2>2 DEF QueryPayOs, records
    <2>4. money[c].raw % 100 = 0
        BY <1>1 DEF EvidenceIInv, MoneyTyped
    <2> QED BY <1>1, <2>3, <2>4, FoundStep
<1>4. CASE ~\E d \in PaidInto(a) : PaidInto(a) = {d} /\ paymentFactsMatch(d)
    <2>1. mismatches' = mismatches \cup {<<a, "query">>} /\ UNCHANGED handling
        BY <1>4 DEF QueryPayOs
    <2>2. CASE PaidInto(a) = {c}
        <3>1. ~paymentFactsMatch(c)
            BY <1>1, <1>4, <2>2
        <3>2. money[c].raw # Price * 100
            BY <3>1, AmountFacts DEF EvidenceIInv
        <3> QED BY <1>1, <1>2, <2>1, <3>2, FlagStep DEF Real
    <2>3. CASE PaidInto(a) # {c}
        <3>1. PICK d \in PaidInto(a) : d # c
            BY <1>1, <2>3
        <3> QED BY <1>1, <1>2, <2>1, <3>1, TwoAreMore, FlagStep DEF Real
    <2> QED BY <2>2, <2>3
<1> QED BY <1>3, <1>4

-----------------------------------------------------------------------------
(* The theorems                                                             *)

\* Nothing was collected, told or booked.
LEMMA Initially == EvidenceInit => EvidenceIInv
<1> SUFFICES ASSUME EvidenceInit PROVE EvidenceIInv
    OBVIOUS
<1>1. NoMoney \in Moneys /\ NoMoney.code = Nothing /\ ~NoMoney.good
    BY DEF Moneys, NoMoney
<1>2. NoWork \in Works /\ NoWork.step = "rest"
    BY DEF NoWork, Works, Results
<1>3. MoneyTyped
    BY <1>1, EvidenceAssumption DEF EvidenceInit, MoneyTyped, Known
<1>4. handling \in [Handlers -> Works] /\ \A h \in Handlers : WorkFits(h)
    BY <1>2 DEF EvidenceInit, WorkFits
<1>5. EvidenceTypeOK /\ BooksFollow /\ ConflictsAreReal /\ AnswersTrue
    BY DEF EvidenceInit, EvidenceTypeOK, BooksFollow, ConflictsAreReal, AnswersTrue
<1> QED BY <1>3, <1>4, <1>5 DEF EvidenceIInv

\* Every action preserves the invariant, and so does a step that changes nothing.
LEMMA EveryStep == EvidenceIInv /\ [EvidenceNext]_evidenceVars => EvidenceIInv'
<1> SUFFICES ASSUME EvidenceIInv, [EvidenceNext]_evidenceVars PROVE EvidenceIInv'
    OBVIOUS
<1>1. CASE UNCHANGED evidenceVars
    <2>1. UNCHANGED <<money, records, delivered, answers>> /\ UNCHANGED handling
        BY <1>1 DEF evidenceVars, records
    <2>2. /\ Grows /\ MoneyTyped' /\ BooksFollow' /\ ConflictsAreReal' /\ EvidenceTypeOK'
          /\ AnswersTrue'
        BY <2>1, NothingElse
    <2> QED BY <2>1, <2>2, WorkStays DEF EvidenceIInv
<1>2. CASE \E c \in Collections, code \in Known \cup {Foreign}, raw \in Raw, good \in BOOLEAN :
               Collect(c, code, raw, good)
    BY <1>2, CollectStep
<1>3. CASE \E a \in Known : Close(a)
    BY <1>3, CloseStep
<1>4. ASSUME NEW h \in Handlers,
             \/ ApplyVerified(h) \/ TransactionFails(h) \/ Fulfil(h) \/ classifyVerified(h)
             \/ Respond(h) \/ HandlerCrash(h)
      PROVE  EvidenceIInv'
    BY <1>4, ApplyStep, FailStep, FulfilStep, ClassifyStep, RespondStep, EvidenceCrashStep
<1>5. ASSUME NEW h \in Handlers, NEW c \in Collections,
             Notice(h, c) \/ \E a \in VnPay : QueryVnPay(h, a, c)
      PROVE  EvidenceIInv'
    BY <1>5, NoticeStep, QueryVnPayStep
<1>6. ASSUME NEW h \in Handlers, NEW a \in PayOs, QueryPayOs(h, a)
      PROVE  EvidenceIInv'
    BY <1>6, QueryPayOsStep
<1> QED BY <1>1, <1>2, <1>3, <1>4, <1>5, <1>6 DEF EvidenceNext

\* The books follow what the providers collected, what a handler is about to answer fits
\* the books, and a kept conflict is one, for any number of collections and handlers.
THEOREM EvidenceInvariant == EvidenceSpec => []EvidenceIInv
BY Initially, EveryStep, PTL DEF EvidenceSpec

\* What ends a provider's retries is booked as it was collected, and delivered if it
\* came first; a conflict is never made of one collection seen twice; and one collection
\* confirms an order (applyVerified, mapProcessingResult, verifyReconciliation).
THEOREM EvidenceSoundHolds == EvidenceSpec => []EvidenceSound
BY EvidenceInvariant, InvariantImplies, PTL

-----------------------------------------------------------------------------
(* Reconciliation runs: the inductive invariant                             *)

Working == {"loop", "asking", "answered", "ingesting", "fulfilling"}
WithAttempt == {"asking", "answered", "ingesting", "fulfilling"}
RunSteps == {"idle", "acquired", "probing"} \cup Working
Facts == {"open", "paid", "ended"}
States == {"created", "pending", "paid", "expired"}

RunRecord ==
    [step : RunSteps, deadline : Nat, page : SUBSET (Attempts \X States), more : BOOLEAN,
     last : Nat, at : Nat, saw : Facts \cup {"none"}]

RunsOK ==
    /\ SweepTypeOK
    /\ lease \in [token : Runs \cup {Nobody}, until : Nat]
    /\ provider \in [Attempts -> Facts]
    /\ booked \subseteq Attempts
    /\ run \in [Runs -> RunRecord]
    /\ cursor \in [Runs -> Nat]
    /\ \A r \in Runs : run[r].step \in WithAttempt => run[r].at \in Attempts

\* A run that may still ask holds the lease for longer than it asks.
Turn(r) ==
    /\ run[r].step = "acquired" => lease.token = r /\ now + RunTime < lease.until
    /\ run[r].step \in Working /\ now <= run[r].deadline =>
          lease.token = r /\ run[r].deadline < lease.until
    /\ run[r].step = "asking" => now <= run[r].deadline

TakeTurns == \A r \in Runs : Turn(r)

\* What the page leaves out comes behind it.
PageCovers(r) ==
    \A x \in since[r] :
        x > cursor[r] /\ (\A p \in run[r].page : p[1] # x) =>
            run[r].more /\ \A p \in run[r].page : p[1] < x

\* What a sweep has passed it has looked at.
Covers(r) ==
    /\ since[r] \subseteq EligibleIn(state, fulfilled)
    /\ \A x \in since[r] : x <= cursor[r] => x \in looked[r]
    /\ run[r].step \in Working =>
          PageCovers(r) /\ \A x \in since[r] : x <= run[r].last => x \in looked[r]
    /\ r \in ended =>
          run[r].step \notin Working /\ cursor[r] = 0 /\ since[r] \subseteq looked[r]

SweepsCover == \A r \in Runs : Covers(r)

\* An attempt is paid, and read as paid, only with a settlement.
PaidIsBooked ==
    /\ \A x \in Attempts : state[x] = "paid" => x \in booked
    /\ \A r \in Runs :
          /\ \A p \in run[r].page : p[2] = "paid" => p[1] \in booked
          /\ run[r].step = "fulfilling" => run[r].at \in booked

SweepIInv == RunsOK /\ TakeTurns /\ SweepsCover /\ BookedStaysDecided /\ PaidIsBooked

-----------------------------------------------------------------------------
(* Pages                                                                    *)

\* Ids and times are numbers.
LEMMA Numbers ==
    /\ \A x \in Attempts : x \in Nat /\ x > 0
    /\ RunTime \in Nat /\ RunTime > 0 /\ Slack \in Nat /\ Slack > 0 /\ MaxTime \in Nat
    /\ Limit \in Nat /\ Limit > 0
BY SweepAssumption

\* The first attempts of a query come before those it leaves out, and it leaves some out
\* only when there are more than a page holds.
LEMMA FirstOfFacts ==
    ASSUME NEW set \in SUBSET Attempts, NEW x \in set, x \notin FirstOf(set, Limit)
    PROVE  Cardinality(set) > Limit /\ \A y \in FirstOf(set, Limit) : y < x
<1> DEFINE Below(y) == {z \in set : z < y}
<1>1. IsFiniteSet(set)
    BY SweepAssumption, FS_Subset
<1>2. \A S \in SUBSET set : IsFiniteSet(S) /\ Cardinality(S) \in Nat
    BY <1>1, FS_Subset, FS_CardinalityType
<1>3. \A y \in set : y \in Nat
    BY Numbers
<1>4. Cardinality(Below(x)) >= Limit
    BY <1>2, Numbers DEF FirstOf
<1>5. Cardinality(set) > Limit
    <2>1. x \notin Below(x)
        BY <1>3
    <2>2. Cardinality(Below(x) \cup {x}) = Cardinality(Below(x)) + 1
        BY <1>2, <2>1, FS_AddElement
    <2>3. Cardinality(Below(x) \cup {x}) <= Cardinality(set)
        BY <1>1, FS_Subset
    <2> QED BY <1>2, <1>4, <2>2, <2>3, Numbers
<1>6. ASSUME NEW y \in FirstOf(set, Limit) PROVE y < x
    <2>1. y \in set /\ Cardinality(Below(y)) < Limit
        BY DEF FirstOf
    <2>2. SUFFICES ASSUME ~ (y < x) PROVE FALSE
        OBVIOUS
    <2>3. x < y
        BY <1>3, <2>1, <2>2
    <2>4. Below(x) \in SUBSET Below(y)
        BY <1>3, <2>1, <2>3
    <2>5. Cardinality(Below(x)) <= Cardinality(Below(y))
        BY <1>2, <2>4, FS_Subset
    <2> QED BY <1>2, <1>4, <2>1, <2>5, Numbers
<1> QED BY <1>5, <1>6

\* A run that goes on to its next step keeps what it knows.
LEMMA RunGoesOn ==
    ASSUME run \in [Runs -> RunRecord], NEW r \in Runs, NEW s \in RunSteps,
           run' = [run EXCEPT ![r].step = s]
    PROVE  /\ run' \in [Runs -> RunRecord]
           /\ run'[r] = [run[r] EXCEPT !.step = s]
           /\ run'[r].step = s /\ run'[r].deadline = run[r].deadline
           /\ run'[r].page = run[r].page /\ run'[r].more = run[r].more
           /\ run'[r].last = run[r].last /\ run'[r].at = run[r].at
           /\ \A q \in Runs \ {r} : run'[q] = run[q]
<1>1. run[r] \in RunRecord
    OBVIOUS
<1>2. run'[r] = [run[r] EXCEPT !.step = s]
    OBVIOUS
<1>3. run'[r] \in RunRecord
    BY <1>1, <1>2 DEF RunRecord
<1> QED BY <1>1, <1>2, <1>3 DEF RunRecord

\* A run that ends forgets.
LEMMA RunEnds ==
    ASSUME run \in [Runs -> RunRecord], NEW r \in Runs, run' = [run EXCEPT ![r] = NoRun]
    PROVE  /\ run' \in [Runs -> RunRecord] /\ run'[r] = NoRun
           /\ run'[r].step = "idle" /\ run'[r].page = {}
           /\ \A q \in Runs \ {r} : run'[q] = run[q]
<1>1. NoRun \in RunRecord
    BY DEF NoRun, RunRecord, RunSteps
<1> QED BY <1>1 DEF NoRun

-----------------------------------------------------------------------------
(* Steps                                                                    *)

\* A run keeps its turn as long as the clock and the lease stand still for it.
LEMMA TurnKept ==
    ASSUME NEW q \in Runs, Turn(q), run'[q] = run[q], now' = now,
           lease' = lease \/ (lease.token # q) \/ lease.until <= now,
           RunsOK
    PROVE  Turn(q)'
<1>1. run[q] \in RunRecord /\ now \in Nat /\ lease.until \in Nat /\ RunTime \in Nat
    BY Numbers DEF RunsOK, SweepTypeOK
<1> QED BY <1>1 DEF Turn, RunRecord

\* Taking and probing the lease.
LEMMA LeaseStep ==
    ASSUME SweepIInv, NEW r \in Runs,
           \/ \E step \in {"acquired", "probing"} : Acquire(r, step)
           \/ ProbeEnds(r)
    PROVE  SweepIInv'
<1> USE DEF SweepIInv, rows, sweep
<1>1. ASSUME NEW step \in {"acquired", "probing"}, Acquire(r, step) PROVE SweepIInv'
    <2>1. /\ run' \in [Runs -> RunRecord] /\ run'[r].step = step /\ run'[r].page = run[r].page
          /\ \A q \in Runs \ {r} : run'[q] = run[q]
        BY <1>1, RunGoesOn DEF Acquire, RunsOK, RunSteps
    <2>2. now \in Nat /\ LeaseTime \in Nat /\ LeaseTime > RunTime
        BY Numbers DEF RunsOK, SweepTypeOK, LeaseTime
    <2>3. lease' = [token |-> r, until |-> now + LeaseTime]
        BY <1>1 DEF Acquire
    <2>4. RunsOK'
        BY <1>1, <2>1, <2>2, <2>3 DEF Acquire, RunsOK, SweepTypeOK, WithAttempt
    <2>5. ASSUME NEW q \in Runs PROVE Turn(q)'
        <3>1. CASE q = r
            BY <2>1, <2>2, <2>3, <3>1, Numbers, <1>1 DEF Acquire, Turn, Working
        <3>2. CASE q # r
            <4>1. lease.token # q \/ lease.until <= now
                BY <1>1, <3>2, SweepAssumption DEF Acquire, Expired
            <4> QED BY <1>1, <2>1, <3>2, <4>1, TurnKept DEF Acquire, TakeTurns
        <3> QED BY <3>1, <3>2
    <2>6. SweepsCover' /\ BookedStaysDecided' /\ PaidIsBooked'
        BY <1>1, <2>1 DEF Acquire, SweepsCover, Covers, PageCovers, BookedStaysDecided,
            PaidIsBooked, Working
    <2> QED BY <2>4, <2>5, <2>6 DEF TakeTurns
<1>2. CASE ProbeEnds(r)
    <2>1. /\ run' \in [Runs -> RunRecord] /\ run'[r].step = "idle" /\ run'[r].page = {}
          /\ \A q \in Runs \ {r} : run'[q] = run[q]
        BY <1>2, RunEnds DEF ProbeEnds, RunsOK
    <2>2. RunsOK'
        BY <1>2, <2>1 DEF ProbeEnds, RunsOK, SweepTypeOK, WithAttempt, Released, Free
    <2>3. ASSUME NEW q \in Runs PROVE Turn(q)'
        <3>1. CASE q = r
            BY <2>1, <3>1 DEF Turn, Working
        <3>2. CASE q # r
            BY <1>2, <2>1, <3>2, TurnKept DEF ProbeEnds, Released, TakeTurns
        <3> QED BY <3>1, <3>2
    <2>4. SweepsCover' /\ BookedStaysDecided' /\ PaidIsBooked'
        BY <1>2, <2>1 DEF ProbeEnds, SweepsCover, Covers, PageCovers, BookedStaysDecided,
            PaidIsBooked, Working
    <2> QED BY <2>2, <2>3, <2>4 DEF TakeTurns
<1> QED BY <1>1, <1>2

\* A crash forgets the run and leaves the lease.
LEMMA SweepCrashStep == ASSUME SweepIInv, NEW r \in Runs, RunCrash(r) PROVE SweepIInv'
<1> USE DEF SweepIInv, rows, sweep
<1>1. /\ run' \in [Runs -> RunRecord] /\ run'[r].step = "idle" /\ run'[r].page = {}
      /\ \A q \in Runs \ {r} : run'[q] = run[q]
    BY RunEnds DEF RunCrash, RunsOK
<1>2. RunsOK'
    BY <1>1 DEF RunCrash, RunsOK, SweepTypeOK, WithAttempt
<1>3. ASSUME NEW q \in Runs PROVE Turn(q)'
    <2>1. CASE q = r
        BY <1>1, <2>1 DEF Turn, Working
    <2>2. CASE q # r
        BY <1>1, <2>2, TurnKept DEF RunCrash, TakeTurns
    <2> QED BY <2>1, <2>2
<1>4. SweepsCover' /\ BookedStaysDecided' /\ PaidIsBooked'
    BY <1>1 DEF RunCrash, SweepsCover, Covers, PageCovers, BookedStaysDecided, PaidIsBooked,
        Working
<1> QED BY <1>2, <1>3, <1>4 DEF TakeTurns

\* A page covers what is eligible behind the cursor.
LEMMA PageStep == ASSUME SweepIInv, NEW r \in Runs, ReadPage(r) PROVE SweepIInv'
<1> USE DEF SweepIInv, rows, sweep
<1> DEFINE found == {x \in EligibleIn(state, fulfilled) : x > cursor[r]}
           page == {<<x, state[x]>> : x \in FirstOf(found, Limit)}
           new == [step |-> "loop", deadline |-> now + RunTime, page |-> page,
                   more |-> Cardinality(found) > Limit, last |-> 0, at |-> 0, saw |-> "none"]
<1>0. /\ found \in SUBSET Attempts /\ FirstOf(found, Limit) \in SUBSET found
      /\ \A x \in Attempts : state[x] \in States
    BY DEF EligibleIn, FirstOf, RunsOK, SweepTypeOK, States
<1> HIDE DEF found
<1>1. page \in SUBSET (Attempts \X States)
    BY <1>0
<1>2. /\ new.step = "loop" /\ new.deadline = now + RunTime /\ new.page = page
      /\ new.more = (Cardinality(found) > Limit) /\ new.last = 0 /\ new.at = 0
      /\ new.saw = "none"
    OBVIOUS
<1>3. now \in Nat /\ now + RunTime \in Nat
    BY Numbers DEF RunsOK, SweepTypeOK
<1>4. new \in RunRecord
    <2> HIDE DEF page
    <2> QED BY <1>1, <1>3 DEF RunRecord, RunSteps, Working
<1>5. run[r].step = "acquired" /\ run' = [run EXCEPT ![r] = new]
    BY DEF ReadPage, found
<1> HIDE DEF new, page
<1>6. /\ run' \in [Runs -> RunRecord] /\ run'[r] = new
      /\ \A q \in Runs \ {r} : run'[q] = run[q]
    BY <1>4, <1>5 DEF RunsOK
<1>7. RunsOK'
    <2>1. EligibleIn(state, fulfilled) \in SUBSET Attempts
        BY DEF EligibleIn
    <2>2. {looked', since'} \subseteq [Runs -> SUBSET Attempts] /\ ended' \subseteq Runs
            /\ cursor' = cursor
        BY <2>1 DEF ReadPage, RunsOK, SweepTypeOK
    <2> QED BY <1>2, <1>6, <2>2 DEF ReadPage, RunsOK, SweepTypeOK, WithAttempt
<1>8. ASSUME NEW q \in Runs PROVE Turn(q)'
    <2>1. CASE q = r
        BY <1>2, <1>3, <1>5, <1>6, <2>1 DEF ReadPage, Turn, TakeTurns, Working
    <2>2. CASE q # r
        BY <1>6, <2>2, TurnKept DEF ReadPage, TakeTurns
    <2> QED BY <2>1, <2>2
<1>9. ASSUME NEW q \in Runs PROVE Covers(q)'
    <2>1. CASE q # r
        <3>1. run'[q] = run[q] /\ since'[q] = since[q] /\ looked'[q] = looked[q]
              /\ cursor' = cursor /\ (q \in ended' <=> q \in ended)
              /\ UNCHANGED <<state, fulfilled>>
            BY <1>6, <2>1 DEF ReadPage, RunsOK, SweepTypeOK
        <3> QED BY <3>1 DEF SweepsCover, Covers, PageCovers
    <2>2. CASE q = r
        <3>1. /\ since'[r] \subseteq EligibleIn(state, fulfilled) /\ cursor' = cursor
              /\ UNCHANGED <<state, fulfilled>> /\ r \notin ended'
              /\ cursor[r] # 0 => since'[r] = since[r] /\ looked'[r] = looked[r]
            BY DEF ReadPage, SweepsCover, Covers, RunsOK, SweepTypeOK
        <3>2. \A x \in since'[r] : x \in Nat /\ x > 0 /\ x \in Attempts
            BY <3>1, Numbers DEF EligibleIn
        <3>3. \A x \in since'[r] : x <= cursor[r] => x \in looked'[r]
            BY <3>1, <3>2 DEF SweepsCover, Covers
        <3>4. ASSUME NEW x \in since'[r], x > cursor[r], \A p \in new.page : p[1] # x
              PROVE  new.more /\ \A p \in new.page : p[1] < x
            <4>1. x \in found
                BY <3>1, <3>4 DEF found
            <4>2. x \notin FirstOf(found, Limit)
                <5>1. SUFFICES ASSUME x \in FirstOf(found, Limit) PROVE FALSE
                    OBVIOUS
                <5>2. <<x, state[x]>> \in new.page /\ <<x, state[x]>>[1] = x
                    BY <1>2, <5>1 DEF page
                <5> QED BY <3>4, <5>2
            <4>3. Cardinality(found) > Limit /\ \A y \in FirstOf(found, Limit) : y < x
                BY <1>0, <4>1, <4>2, FirstOfFacts
            <4>4. \A p \in page : p[1] \in FirstOf(found, Limit)
                BY DEF page
            <4> QED BY <1>2, <4>3, <4>4
        <3>5. PageCovers(r)'
            BY <1>6, <3>1, <3>4 DEF PageCovers
        <3>6. \A x \in since'[r] : ~ (x <= new.last)
            BY <1>2, <3>2
        <3> QED BY <1>6, <2>2, <3>1, <3>3, <3>5, <3>6 DEF Covers
    <2> QED BY <2>1, <2>2
<1>10. BookedStaysDecided' /\ PaidIsBooked'
    <2>1. \A p \in new.page : p[2] = "paid" => p[1] \in booked
        <3>1. \A p \in page : p[1] \in Attempts /\ p[2] = state[p[1]]
            BY <1>0 DEF page
        <3> QED BY <1>2, <3>1 DEF PaidIsBooked
    <2> QED BY <1>2, <1>6, <2>1 DEF ReadPage, BookedStaysDecided, PaidIsBooked
<1> QED BY <1>7, <1>8, <1>9, <1>10 DEF TakeTurns, SweepsCover

\* A sweep still covers what is left of the attempts it has to look at.
LEMMA CoversKept ==
    ASSUME NEW q \in Runs, Covers(q), since'[q] \subseteq since[q],
           since'[q] \subseteq EligibleIn(state', fulfilled'),
           cursor'[q] = cursor[q], looked'[q] = looked[q], q \in ended' <=> q \in ended,
           run'[q].step \in Working =>
              /\ run[q].step \in Working /\ run'[q].page = run[q].page
              /\ run'[q].more = run[q].more /\ run'[q].last = run[q].last
    PROVE  Covers(q)'
BY DEF Covers, PageCovers

\* What every run has to look at is still eligible after a row was written.
LEMMA SinceShrinks ==
    ASSUME RunsOK, since' = StillEligible(state', fulfilled'), NEW q \in Runs
    PROVE  since'[q] \subseteq since[q] /\ since'[q] \subseteq EligibleIn(state', fulfilled')
BY DEF StillEligible

\* The next attempt of the page.
LEMMA LookStep == ASSUME SweepIInv, NEW r \in Runs, Look(r) PROVE SweepIInv'
<1> USE DEF SweepIInv, rows, sweep
<1>1. PICK p \in Left(r) :
        /\ run[r].step = "loop" /\ now < run[r].deadline
        /\ \A q \in Left(r) : p[1] <= q[1]
        /\ run' = [run EXCEPT ![r].step = IF p[2] = "paid" THEN "fulfilling" ELSE "asking",
                              ![r].at = p[1], ![r].last = p[1]]
        /\ looked' = [looked EXCEPT ![r] = @ \cup {p[1]}]
        /\ UNCHANGED <<now, lease, rows, provider, cursor, since, ended>>
    BY DEF Look
<1>2. run[r] \in RunRecord /\ run[r].page \in SUBSET (Attempts \X States)
    BY DEF RunsOK, RunRecord
<1>3. p \in run[r].page /\ p[1] \in Attempts /\ p[1] \in Nat /\ p[1] > run[r].last
    BY <1>2, Numbers DEF Left
<1>4. /\ run'[r].step = (IF p[2] = "paid" THEN "fulfilling" ELSE "asking")
      /\ run'[r].at = p[1] /\ run'[r].last = p[1] /\ run'[r].deadline = run[r].deadline
      /\ run'[r].page = run[r].page /\ run'[r].more = run[r].more
      /\ run'[r].saw = run[r].saw
    BY <1>1, <1>2 DEF RunsOK, RunRecord
<1>5. run'[r] \in RunRecord
    BY <1>1, <1>2, <1>3 DEF RunsOK, RunRecord, RunSteps, Working
<1>6. run' \in [Runs -> RunRecord] /\ \A q \in Runs \ {r} : run'[q] = run[q]
    BY <1>1, <1>5 DEF RunsOK
<1>7. RunsOK'
    <2>1. looked' \in [Runs -> SUBSET Attempts]
        BY <1>1, <1>3 DEF RunsOK, SweepTypeOK
    <2>2. \A q \in Runs : run'[q].step \in WithAttempt => run'[q].at \in Attempts
        BY <1>3, <1>4, <1>6 DEF RunsOK
    <2> QED BY <1>1, <1>6, <2>1, <2>2 DEF RunsOK, SweepTypeOK
<1>8. ASSUME NEW q \in Runs PROVE Turn(q)'
    <2>1. CASE q = r
        <3>1. run[r].deadline \in Nat /\ now \in Nat
            BY <1>2 DEF RunRecord, RunsOK, SweepTypeOK
        <3> QED BY <1>1, <1>4, <2>1, <3>1 DEF Turn, TakeTurns, Working
    <2>2. CASE q # r
        BY <1>1, <1>6, <2>2, TurnKept DEF TakeTurns
    <2> QED BY <2>1, <2>2
<1>9. ASSUME NEW q \in Runs PROVE Covers(q)'
    <2>1. CASE q # r
        <3>1. Covers(q) /\ since' = since /\ looked'[q] = looked[q]
                /\ EligibleIn(state', fulfilled') = EligibleIn(state, fulfilled)
            BY <1>1, <2>1 DEF SweepsCover, RunsOK, SweepTypeOK
        <3> QED BY <1>1, <1>6, <2>1, <3>1, CoversKept DEF Covers
    <2>2. CASE q = r
        <3>1. Covers(r) /\ run[r].step \in Working
            BY <1>1 DEF SweepsCover, Working
        <3>2. /\ UNCHANGED <<state, fulfilled, since, cursor, ended>>
              /\ looked'[r] = looked[r] \cup {p[1]}
            BY <1>1 DEF RunsOK, SweepTypeOK
        <3>3. \A x \in since[r] : x \in Nat
            BY <3>1, Numbers DEF Covers, EligibleIn
        <3>4. ASSUME NEW x \in since[r], x <= p[1], x \notin looked'[r] PROVE FALSE
            <4>1. x \notin looked[r] /\ x # p[1] /\ x < p[1]
                BY <1>3, <3>2, <3>3, <3>4
            <4>2. x > run[r].last /\ x > cursor[r]
                <5>1. run[r].last \in Nat /\ cursor[r] \in Nat
                    BY <1>2 DEF RunRecord, RunsOK
                <5> QED BY <3>1, <3>3, <4>1, <5>1 DEF Covers
            <4>3. CASE \A s \in run[r].page : s[1] # x
                <5>1. p[1] < x
                    BY <1>3, <3>1, <4>2, <4>3 DEF Covers, PageCovers
                <5> QED BY <1>3, <3>3, <4>1, <5>1
            <4>4. ASSUME NEW s \in run[r].page, s[1] = x PROVE FALSE
                <5>1. s \in Left(r)
                    BY <4>2, <4>4 DEF Left
                <5>2. p[1] <= x
                    BY <1>1, <4>4, <5>1
                <5> QED BY <1>3, <3>3, <4>1, <5>2
            <4> QED BY <4>3, <4>4
        <3>5. PageCovers(r)'
            BY <1>4, <3>1, <3>2 DEF Covers, PageCovers
        <3>6. run'[r].step \in Working
            BY <1>4 DEF Working
        <3> QED BY <1>4, <2>2, <3>1, <3>2, <3>4, <3>5, <3>6 DEF Covers
    <2> QED BY <2>1, <2>2
<1>10. BookedStaysDecided' /\ PaidIsBooked'
    BY <1>1, <1>3, <1>4, <1>6 DEF BookedStaysDecided, PaidIsBooked
<1> QED BY <1>7, <1>8, <1>9, <1>10 DEF TakeTurns, SweepsCover

\* A step of a run that neither looks further nor writes a row that counts.
LEMMA StepWithin ==
    ASSUME SweepIInv, NEW r \in Runs, run[r].step \in Working, NEW s \in Working,
           run'[r].step = s, run'[r].deadline = run[r].deadline, run'[r].page = run[r].page,
           run'[r].more = run[r].more, run'[r].last = run[r].last,
           \A q \in Runs \ {r} : run'[q] = run[q],
           s # "asking", UNCHANGED <<now, lease, cursor, looked, ended>>,
           \A q \in Runs : since'[q] \subseteq since[q]
                             /\ since'[q] \subseteq EligibleIn(state', fulfilled')
    PROVE  TakeTurns' /\ SweepsCover'
<1> USE DEF SweepIInv
<1>1. ASSUME NEW q \in Runs PROVE Turn(q)'
    <2>1. CASE q = r
        BY <2>1 DEF Turn, TakeTurns, Working
    <2>2. CASE q # r
        BY <2>2, TurnKept DEF TakeTurns
    <2> QED BY <2>1, <2>2
<1>2. ASSUME NEW q \in Runs PROVE Covers(q)'
    BY CoversKept DEF SweepsCover
<1> QED BY <1>1, <1>2 DEF TakeTurns, SweepsCover

\* An answer of the provider, or none.
LEMMA AnswerStep == ASSUME SweepIInv, NEW r \in Runs, Answer(r) PROVE SweepIInv'
<1> USE DEF SweepIInv, rows, sweep
<1>1. /\ run[r].step = "asking" /\ run[r].at \in Attempts /\ run[r] \in RunRecord
      /\ \A q \in Runs : Covers(q)
    BY DEF Answer, RunsOK, WithAttempt, SweepsCover
<1>2. PICK s \in {"answered", "loop"}, saw \in Facts \cup {"none"} :
        run' = [run EXCEPT ![r].step = s, ![r].saw = saw]
    <2>1. CASE run' = [run EXCEPT ![r].step = "answered", ![r].saw = provider[run[r].at]]
        BY <1>1, <2>1 DEF RunsOK
    <2>2. CASE run' = [run EXCEPT ![r].step = "loop"]
        <3>1. run' = [run EXCEPT ![r].step = "loop", ![r].saw = run[r].saw]
            BY <1>1, <2>2 DEF RunsOK, RunRecord
        <3> QED BY <1>1, <3>1 DEF RunRecord
    <2> QED BY <2>1, <2>2 DEF Answer
<1>3. /\ run'[r].step = s /\ run'[r].deadline = run[r].deadline /\ run'[r].page = run[r].page
      /\ run'[r].more = run[r].more /\ run'[r].last = run[r].last /\ run'[r].at = run[r].at
      /\ run'[r].saw = saw
    BY <1>1, <1>2 DEF RunsOK, RunRecord
<1>4. run'[r] \in RunRecord
    BY <1>1, <1>2 DEF RunsOK, RunRecord, RunSteps, Working
<1>5. run' \in [Runs -> RunRecord] /\ \A q \in Runs \ {r} : run'[q] = run[q]
    BY <1>2, <1>4 DEF RunsOK
<1>6. /\ openCases' \subseteq Attempts
      /\ UNCHANGED <<now, lease, state, booked, fulfilled, provider, sweep>>
    BY <1>1 DEF Answer, RunsOK, SweepTypeOK
<1>7. RunsOK'
    BY <1>1, <1>3, <1>5, <1>6 DEF RunsOK, SweepTypeOK
<1>8. TakeTurns' /\ SweepsCover'
    BY <1>1, <1>3, <1>5, <1>6, StepWithin DEF Working, Covers
<1>9. BookedStaysDecided' /\ PaidIsBooked'
    BY <1>3, <1>5, <1>6 DEF BookedStaysDecided, PaidIsBooked
<1> QED BY <1>7, <1>8, <1>9

\* What was learned is written down: a row made pending was created until now.
LEMMA PersistStep == ASSUME SweepIInv, NEW r \in Runs, Persist(r) PROVE SweepIInv'
<1> USE DEF SweepIInv, rows, sweep
<1>1. /\ run[r].step = "answered" /\ run[r].at \in Attempts
      /\ \A q \in Runs : Covers(q)
    BY DEF Persist, RunsOK, WithAttempt, SweepsCover
<1>2. PICK s \in {"ingesting", "loop"} : run' = [run EXCEPT ![r].step = s]
    BY DEF Persist
<1>3. /\ run' \in [Runs -> RunRecord]
      /\ run'[r].step = s /\ run'[r].deadline = run[r].deadline
      /\ run'[r].page = run[r].page /\ run'[r].more = run[r].more
      /\ run'[r].last = run[r].last /\ run'[r].at = run[r].at
      /\ \A q \in Runs \ {r} : run'[q] = run[q]
    BY <1>2, RunGoesOn DEF RunsOK, RunSteps, Working
<1>4. /\ openCases' \subseteq Attempts
      /\ UNCHANGED <<now, lease, booked, fulfilled, provider, sweep>>
    BY <1>1 DEF Persist, RunsOK, SweepTypeOK
<1>5. /\ state' \in [Attempts -> States]
      /\ \A x \in Attempts :
            state'[x] = state[x] \/ (state[x] = "created" /\ state'[x] = "pending")
    BY <1>1 DEF Persist, Recoverable, RunsOK, SweepTypeOK, States
<1>6. EligibleIn(state', fulfilled') = EligibleIn(state, fulfilled)
    BY <1>4, <1>5 DEF EligibleIn
<1>7. RunsOK'
    BY <1>1, <1>3, <1>4, <1>5 DEF RunsOK, SweepTypeOK, States
<1>8. TakeTurns' /\ SweepsCover'
    BY <1>1, <1>3, <1>4, <1>6, StepWithin DEF Working, Covers
<1>9. BookedStaysDecided' /\ PaidIsBooked'
    BY <1>3, <1>4, <1>5 DEF BookedStaysDecided, PaidIsBooked, RunsOK
<1> QED BY <1>7, <1>8, <1>9

\* A collection that is booked decides its attempt.
LEMMA IngestedFacts ==
    ASSUME SweepIInv, NEW x \in Attempts, NEW whole \in BOOLEAN, Ingested(x, whole)
    PROVE  /\ state' \in [Attempts -> States] /\ fulfilled' \subseteq booked'
           /\ booked' = booked \cup {x} /\ openCases' \subseteq Attempts
           /\ fulfilled \subseteq fulfilled' /\ since' \in [Runs -> SUBSET Attempts]
           /\ BookedStaysDecided' /\ \A y \in Attempts : state'[y] = "paid" => y \in booked'
           /\ \A q \in Runs : since'[q] \subseteq since[q]
                                /\ since'[q] \subseteq EligibleIn(state', fulfilled')
<1> USE DEF SweepIInv
<1>1. /\ booked' = booked \cup {x}
      /\ state' = [state EXCEPT ![x] = IF @ \in {"created", "pending"} THEN "paid" ELSE @]
      /\ fulfilled' = (IF whole /\ state'[x] = "paid" THEN fulfilled \cup {x} ELSE fulfilled)
      /\ openCases' \subseteq openCases \cup {x}
      /\ since' = StillEligible(state', fulfilled')
    BY DEF Ingested
<1>2. /\ state' \in [Attempts -> States] /\ state'[x] \in {"paid", "expired"}
      /\ \A y \in Attempts : y # x => state'[y] = state[y]
    BY <1>1 DEF RunsOK, SweepTypeOK, States
<1>3. \A q \in Runs : since'[q] \subseteq since[q]
                        /\ since'[q] \subseteq EligibleIn(state', fulfilled')
    BY <1>1, SinceShrinks
<1>4. since' \in [Runs -> SUBSET Attempts]
    BY <1>1 DEF StillEligible, EligibleIn
<1>5. BookedStaysDecided' /\ \A y \in Attempts : state'[y] = "paid" => y \in booked'
    BY <1>1, <1>2 DEF BookedStaysDecided, PaidIsBooked, RunsOK
<1> QED BY <1>1, <1>2, <1>3, <1>4, <1>5 DEF RunsOK, SweepTypeOK

\* A run books what it learned.
LEMMA IngestStep == ASSUME SweepIInv, NEW r \in Runs, Ingest(r) PROVE SweepIInv'
<1> USE DEF SweepIInv
<1>1. run[r].step = "ingesting" /\ run[r].at \in Attempts
    BY DEF Ingest, RunsOK, WithAttempt
<1>2. PICK whole \in BOOLEAN : Ingested(run[r].at, whole)
    BY DEF Ingest
<1>3. /\ run' \in [Runs -> RunRecord]
      /\ run'[r].step = "loop" /\ run'[r].deadline = run[r].deadline
      /\ run'[r].page = run[r].page /\ run'[r].more = run[r].more
      /\ run'[r].last = run[r].last
      /\ \A q \in Runs \ {r} : run'[q] = run[q]
    BY RunGoesOn DEF Ingest, RunsOK, RunSteps, Working
<1>4. UNCHANGED <<now, lease, provider, cursor, looked, ended>>
    BY DEF Ingest
<1>5. RunsOK'
    BY <1>1, <1>2, <1>3, <1>4, IngestedFacts DEF RunsOK, SweepTypeOK, WithAttempt, States
<1>6. TakeTurns' /\ SweepsCover'
    BY <1>1, <1>2, <1>3, <1>4, IngestedFacts, StepWithin DEF Working
<1>7. BookedStaysDecided' /\ PaidIsBooked'
    BY <1>1, <1>2, <1>3, IngestedFacts DEF PaidIsBooked
<1> QED BY <1>5, <1>6, <1>7

\* A run delivers again what was paid when its page was read.
LEMMA RetryStep == ASSUME SweepIInv, NEW r \in Runs, RetryFulfillment(r) PROVE SweepIInv'
<1> USE DEF SweepIInv
<1>1. run[r].step = "fulfilling" /\ run[r].at \in Attempts /\ run[r].at \in booked
    BY DEF RetryFulfillment, RunsOK, WithAttempt, PaidIsBooked
<1>2. /\ run' \in [Runs -> RunRecord]
      /\ run'[r].step = "loop" /\ run'[r].deadline = run[r].deadline
      /\ run'[r].page = run[r].page /\ run'[r].more = run[r].more
      /\ run'[r].last = run[r].last
      /\ \A q \in Runs \ {r} : run'[q] = run[q]
    BY RunGoesOn DEF RetryFulfillment, RunsOK, RunSteps, Working
<1>3. /\ fulfilled' \subseteq booked /\ openCases' \subseteq Attempts
      /\ since' = StillEligible(state', fulfilled')
      /\ UNCHANGED <<now, lease, state, booked, provider, cursor, looked, ended>>
    BY <1>1 DEF RetryFulfillment, RunsOK, SweepTypeOK
<1>4. since' \in [Runs -> SUBSET Attempts]
    BY <1>3 DEF StillEligible, EligibleIn
<1>5. RunsOK'
    BY <1>2, <1>3, <1>4 DEF RunsOK, SweepTypeOK, WithAttempt
<1>6. TakeTurns' /\ SweepsCover'
    BY <1>1, <1>2, <1>3, SinceShrinks, StepWithin DEF Working
<1>7. BookedStaysDecided' /\ PaidIsBooked'
    BY <1>2, <1>3 DEF BookedStaysDecided, PaidIsBooked
<1> QED BY <1>5, <1>6, <1>7

\* The end of a run: the sweep goes on behind the last attempt looked at, or has come to
\* its end when the page was the last one and is through.
LEMMA EndStep == ASSUME SweepIInv, NEW r \in Runs, EndRun(r) PROVE SweepIInv'
<1> USE DEF SweepIInv
<1> DEFINE more == run[r].more \/ Left(r) # {}
<1>1. /\ run[r].step \in {"loop", "asking"} /\ run[r] \in RunRecord
      /\ run[r].step \in Working /\ Covers(r)
    BY DEF EndRun, TimedOut, RunsOK, Working, SweepsCover
<1>2. /\ run' \in [Runs -> RunRecord] /\ run'[r] = NoRun
      /\ run'[r].step = "idle" /\ run'[r].page = {}
      /\ \A q \in Runs \ {r} : run'[q] = run[q]
    BY RunEnds DEF EndRun, RunsOK
<1>3. /\ cursor' = [cursor EXCEPT ![r] = IF more THEN NextCursor(r) ELSE 0]
      /\ ended' = IF more THEN ended ELSE ended \cup {r}
      /\ lease' = Released(r)
      /\ UNCHANGED <<now, state, booked, fulfilled, provider, looked, since>>
    BY DEF EndRun
<1>4. NextCursor(r) \in Nat /\ run[r].last \in Nat /\ cursor[r] \in Nat
    BY <1>1 DEF NextCursor, RunsOK, RunRecord
<1>5. openCases' \subseteq Attempts
    BY <1>1 DEF EndRun, RunsOK, SweepTypeOK, WithAttempt
<1>6. RunsOK'
    BY <1>2, <1>3, <1>4, <1>5 DEF RunsOK, SweepTypeOK, Released, Free, WithAttempt
<1>7. ASSUME NEW q \in Runs PROVE Turn(q)'
    <2>1. CASE q = r
        BY <1>2, <2>1 DEF Turn, Working
    <2>2. CASE q # r
        BY <1>2, <1>3, <2>2, TurnKept DEF Released, TakeTurns
    <2> QED BY <2>1, <2>2
<1>8. ASSUME NEW q \in Runs PROVE Covers(q)'
    <2>1. CASE q # r
        <3>1. cursor'[q] = cursor[q] /\ (q \in ended' <=> q \in ended) /\ Covers(q)
            BY <1>3, <2>1 DEF RunsOK, SweepsCover
        <3> QED BY <1>2, <1>3, <2>1, <3>1, CoversKept DEF Covers
    <2>2. CASE q = r
        <3>1. \A x \in since[r] : x \in Nat /\ x > 0
            BY <1>1, Numbers DEF Covers, EligibleIn
        <3>2. CASE more
            <4>1. cursor'[r] = NextCursor(r) /\ r \notin ended
                BY <1>1, <1>3, <3>2 DEF RunsOK, Covers
            <4>2. \A x \in since[r] : x <= NextCursor(r) => x \in looked[r]
                BY <1>1 DEF NextCursor, Covers
            <4> QED BY <1>1, <1>2, <1>3, <2>2, <3>2, <4>1, <4>2 DEF Covers, Working
        <3>3. CASE ~ more
            <4>1. cursor'[r] = 0
                BY <1>3, <3>3 DEF RunsOK
            <4>2. ASSUME NEW x \in since[r] PROVE x \in looked[r]
                <5>1. CASE x <= cursor[r]
                    BY <1>1, <5>1 DEF Covers
                <5>2. CASE x > cursor[r]
                    <6>1. PICK p \in run[r].page : p[1] = x
                        BY <1>1, <3>3, <5>2 DEF Covers, PageCovers
                    <6>2. ~ (p[1] > run[r].last)
                        BY <3>3, <6>1 DEF Left
                    <6> QED BY <1>1, <1>4, <3>1, <6>1, <6>2 DEF Covers
                <5> QED BY <1>4, <3>1, <5>1, <5>2
            <4> QED BY <1>1, <1>2, <1>3, <2>2, <3>1, <4>1, <4>2 DEF Covers, Working
        <3> QED BY <3>2, <3>3
    <2> QED BY <2>1, <2>2
<1>9. BookedStaysDecided' /\ PaidIsBooked'
    BY <1>2, <1>3 DEF BookedStaysDecided, PaidIsBooked
<1> QED BY <1>6, <1>7, <1>8, <1>9 DEF TakeTurns, SweepsCover

\* Time passes for a run only as long as its lease outlasts it.
LEMMA TickStep == ASSUME SweepIInv, Tick PROVE SweepIInv'
<1> USE DEF SweepIInv, rows, sweep
<1>1. /\ now' = now + 1 /\ now' \in 0 .. MaxTime /\ now \in Nat
      /\ UNCHANGED <<lease, rows, provider, run, sweep>>
    BY Numbers DEF Tick, RunsOK, SweepTypeOK
<1>2. RunsOK' /\ SweepsCover' /\ BookedStaysDecided' /\ PaidIsBooked'
    BY <1>1 DEF RunsOK, SweepTypeOK, SweepsCover, Covers, PageCovers, BookedStaysDecided,
        PaidIsBooked
<1>3. ASSUME NEW q \in Runs PROVE Turn(q)'
    <2>1. /\ run[q].deadline \in Nat /\ lease.until \in Nat /\ RunTime \in Nat /\ Turn(q)
        BY Numbers DEF RunsOK, RunRecord, TakeTurns
    <2>2. /\ run[q].step = "acquired" => now + 1 < lease.until - RunTime
          /\ run[q].step = "asking" => now < run[q].deadline
        BY DEF Tick
    <2> QED BY <1>1, <2>1, <2>2 DEF Turn
<1> QED BY <1>2, <1>3 DEF TakeTurns

\* The provider takes a payment, or ends its link.
LEMMA ProviderStep ==
    ASSUME SweepIInv, NEW x \in Attempts, NEW to \in {"paid", "ended"}, ProviderMoves(x, to)
    PROVE  SweepIInv'
<1> USE DEF SweepIInv, rows, sweep
<1>1. /\ provider' \in [Attempts -> Facts] /\ UNCHANGED <<now, lease, rows, run, sweep>>
    BY DEF ProviderMoves, RunsOK, Facts
<1> QED BY <1>1 DEF RunsOK, SweepTypeOK, TakeTurns, Turn, SweepsCover, Covers, PageCovers,
        BookedStaysDecided, PaidIsBooked

\* Webhooks and expiry decide attempts behind the back of a run.
LEMMA OthersStep ==
    ASSUME SweepIInv, NEW x \in Attempts, Webhook(x) \/ ExpiryDecides(x)
    PROVE  SweepIInv'
<1> USE DEF SweepIInv
<1>1. ASSUME UNCHANGED <<now, lease, run, cursor, looked, ended>>,
             \A q \in Runs : since'[q] \subseteq since[q]
                               /\ since'[q] \subseteq EligibleIn(state', fulfilled')
      PROVE  TakeTurns' /\ SweepsCover'
    <2>1. TakeTurns'
        BY <1>1, TurnKept DEF TakeTurns
    <2>2. ASSUME NEW q \in Runs PROVE Covers(q)'
        BY <1>1, CoversKept DEF SweepsCover
    <2> QED BY <2>1, <2>2 DEF SweepsCover
<1>2. CASE Webhook(x)
    <2>1. PICK whole \in BOOLEAN : Ingested(x, whole)
        BY <1>2 DEF Webhook
    <2>2. UNCHANGED <<now, lease, provider, run, cursor, looked, ended>>
        BY <1>2 DEF Webhook
    <2>3. RunsOK'
        BY <2>1, <2>2, IngestedFacts DEF RunsOK, SweepTypeOK, States
    <2>4. TakeTurns' /\ SweepsCover'
        BY <1>1, <2>1, <2>2, IngestedFacts
    <2>5. BookedStaysDecided' /\ PaidIsBooked'
        BY <2>1, <2>2, IngestedFacts DEF PaidIsBooked
    <2> QED BY <2>3, <2>4, <2>5
<1>3. CASE ExpiryDecides(x)
    <2>1. /\ state' = [state EXCEPT ![x] = "expired"] /\ state[x] = "pending"
          /\ since' = StillEligible(state', fulfilled')
          /\ UNCHANGED <<now, lease, booked, fulfilled, provider, openCases, run, cursor,
                         looked, ended>>
        BY <1>3 DEF ExpiryDecides
    <2>2. since' \in [Runs -> SUBSET Attempts]
        BY <2>1 DEF StillEligible, EligibleIn
    <2>3. RunsOK'
        BY <2>1, <2>2 DEF RunsOK, SweepTypeOK
    <2>4. TakeTurns' /\ SweepsCover'
        BY <1>1, <2>1, SinceShrinks
    <2>5. BookedStaysDecided' /\ PaidIsBooked'
        BY <2>1 DEF BookedStaysDecided, PaidIsBooked, RunsOK, SweepTypeOK
    <2> QED BY <2>3, <2>4, <2>5
<1> QED BY <1>2, <1>3

\* The invariant holds before the first run and after every step.
LEMMA IInvHolds == (SweepInit => SweepIInv) /\ (SweepIInv /\ [SweepNext]_sweepVars => SweepIInv')
<1>1. ASSUME SweepInit PROVE SweepIInv
    <2>1. NoRun \in RunRecord /\ NoRun.step = "idle" /\ NoRun.page = {}
        BY DEF NoRun, RunRecord, RunSteps
    <2>2. RunsOK
        BY <1>1, <2>1, Numbers DEF SweepInit, RunsOK, SweepTypeOK, Free, Facts, WithAttempt
    <2>3. TakeTurns /\ SweepsCover
        BY <1>1, <2>1 DEF SweepInit, TakeTurns, Turn, SweepsCover, Covers, Working
    <2>4. BookedStaysDecided /\ PaidIsBooked
        BY <1>1, <2>1 DEF SweepInit, BookedStaysDecided, PaidIsBooked
    <2> QED BY <2>2, <2>3, <2>4 DEF SweepIInv
<1>2. ASSUME SweepIInv, SweepNext PROVE SweepIInv'
    BY <1>2, LeaseStep, PageStep, LookStep, AnswerStep, PersistStep, IngestStep, RetryStep,
        EndStep, SweepCrashStep, TickStep, ProviderStep, OthersStep DEF SweepNext
<1>3. ASSUME SweepIInv, UNCHANGED sweepVars PROVE SweepIInv'
    BY <1>3 DEF sweepVars, SweepIInv, RunsOK, SweepTypeOK, TakeTurns, Turn, SweepsCover, Covers,
        PageCovers, BookedStaysDecided, PaidIsBooked
<1> QED BY <1>1, <1>2, <1>3

\* Leases, sweeps and settlements fit together, however runs are cut short and repeated.
THEOREM SweepInvariant == SweepSpec => []SweepIInv
BY IInvHolds, PTL DEF SweepSpec

\* Two runs that ask hold one lease.
LEMMA OneAsks == ASSUME SweepIInv PROVE OneRunAsks
<1> DEFINE asking == {r \in Runs : run[r].step = "asking"}
<1>1. asking \subseteq {lease.token}
    BY DEF SweepIInv, TakeTurns, Turn, Working
<1>2. IsFiniteSet({lease.token}) /\ Cardinality({lease.token}) = 1
    BY FS_Singleton
<1>3. Cardinality(asking) <= 1
    BY <1>1, <1>2, FS_Subset
<1> QED BY <1>3 DEF OneRunAsks

\* Runs take turns, leave out nothing, and take nothing back.
THEOREM SweepsSoundHolds == SweepSpec => []SweepsSound
<1>1. ASSUME SweepIInv PROVE SweepsSound
    <2>1. SweepTypeOK /\ BookedStaysDecided /\ OneRunAsks
        BY <1>1, OneAsks DEF SweepIInv, RunsOK
    <2>2. SweepMissesNothing
        BY <1>1, <2>1 DEF SweepIInv, SweepTypeOK, SweepMissesNothing, SweepsCover, Covers
    <2> QED BY <2>1, <2>2 DEF SweepsSound
<1> QED BY <1>1, SweepInvariant, PTL

===============================================================================
