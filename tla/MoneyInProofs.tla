----------------------------- MODULE MoneyInProofs -----------------------------
(* Money that comes in without a provider's webhook.                         *)
(* Bank transfers, their receipts and the access opened before the money is  *)
(* confirmed, for any number of orders, transfers, operators, images and     *)
(* generations: money is settled once and for good, and an image whose       *)
(* retention is over is read by nobody any more; with these facts the        *)
(* properties of BankTransfer and BankReceipts are inductive.                *)
(* Top-ups, for any number of intents, transfers and runs: a credit stands   *)
(* for a sound transfer to a link that was never closed.  The argument       *)
(* follows a transfer: once PayOS holds the full amount it refuses to close  *)
(* the link, so what a worker learned is still true when it credits.         *)
EXTENDS BankReceipts, GdsTopup, TLAPS

-----------------------------------------------------------------------------
(* Bank transfers: the inductive invariant                                  *)

Statements ==
    [recorded : {TRUE}, order : BankOrders, exception : {"none", "MISMATCH", "CLOSED_REQUEST"}]

\* A paid request never becomes anything else, and a reservation is decided with its order.
SettledForGood ==
    \A o \in BankOrders :
        /\ bankRequest[o] = "PAID" => bankOrder[o] = "confirmed"
        /\ bankOrder[o] = "pending_payment" => bankBenefit[o] = "reserved"
        /\ bankFulfillment[o] = "fulfilled" => bankOrder[o] = "confirmed"

LedgerInv ==
    /\ statement \in [Transactions -> {NoStatement} \cup Statements]
    /\ BankTypeOK /\ RequestFollowsOrder /\ ConfirmedHasProof /\ SettledForGood

Claims ==
    [status : {"none", "PROCESSING", "MATCHED_CLAIM", "REVIEW_REQUIRED", "OCR_FAILED"},
     order : BankOrders \cup {"none"}, code : TransferCodes \cup {"none"}]

Readings ==
    [step : {"idle", "put", "assess", "read", "failed"}, fits : BOOLEAN,
     code : TransferCodes \cup {"none"}]

\* A claim stays with its order.
ClaimsPlaced ==
    \A i \in Images : claim[i] = NoClaim \/ (claim[i].status # "none" /\ claim[i].order \in BankOrders)

\* The unique index over the identities that images show.
OneClaimPerCode ==
    \A i, j \in Images : i # j => claim[i].code = "none" \/ claim[i].code # claim[j].code

\* An image is removed when its upload is long over.
RemovedLast ==
    /\ imageDeleted \subseteq retentionOver /\ retentionOver \subseteq leaseOver
    /\ \A i \in leaseOver : claim[i] # NoClaim
    /\ \A i \in retentionOver : Reading(i, "idle")

ImagesInv ==
    /\ claim \in [Images -> Claims] /\ reading \in [Images -> Readings]
    /\ leaseOver \cup retentionOver \cup stored \cup imageDeleted \subseteq Images
    /\ ClaimsPlaced /\ OneClaimPerCode /\ RemovedLast /\ DeletedIsGone

Generations ==
    [status : {"ACCESS_UNVERIFIED", "REVOKED", "VERIFIED_PAID"}, by : Operators \cup {"buyer"}]

\* What was delivered has no provisional access.
DeliveredIsVerified ==
    \A o \in BankOrders : bankFulfillment[o] = "fulfilled" => Latest(o) \in {"NONE", "VERIFIED_PAID"}

AccessInv ==
    /\ generations \in [BankOrders -> Seq(Generations)]
    /\ \A o \in BankOrders : Len(generations[o]) <= MaxGenerations
    /\ ProvisionalIsLatest /\ RestoredByOperators /\ DeliveredIsVerified

ReceiptsIInv == LedgerInv /\ ImagesInv /\ AccessInv

\* The invariant says what the properties say.
LEMMA InvariantImplies == ReceiptsIInv => OrdersSettled /\ ReceiptsConsistent
<1> SUFFICES ASSUME ReceiptsIInv PROVE OrdersSettled /\ ReceiptsConsistent
    OBVIOUS
<1> USE DEF ReceiptsIInv
<1>1. OrdersSettled
    BY DEF LedgerInv, OrdersSettled
<1>2. TransferClaimedOnce
    BY DEF ImagesInv, OneClaimPerCode, TransferClaimedOnce
<1>3. provisional \subseteq BankOrders \X (1 .. MaxGenerations)
    <2>1. ASSUME NEW o \in BankOrders, Latest(o) = "ACCESS_UNVERIFIED"
          PROVE  Len(generations[o]) \in 1 .. MaxGenerations
        BY <2>1, ReceiptsAssumption DEF AccessInv, Latest
    <2> QED BY <2>1 DEF AccessInv, ProvisionalIsLatest
<1>4. ReceiptsTypeOK
    BY <1>3 DEF LedgerInv, ImagesInv, AccessInv, Claims, ReceiptsTypeOK
<1> QED BY <1>1, <1>2, <1>4 DEF ReceiptsConsistent, ImagesInv, AccessInv

-----------------------------------------------------------------------------
(* Orders, requests, statements and approvals                               *)

\* A request that is closed had nothing settled.
LEMMA CloseStep ==
    ASSUME LedgerInv, NEW o \in BankOrders, NEW as \in {"CANCELLED", "EXPIRED"},
           CloseRequest(o, as)
    PROVE  LedgerInv'
<1> USE DEF LedgerInv, BankTypeOK, CloseRequest, ClosedRequest, OpenStatuses, IsOpen, statementVars
<1>1. statement' \in [Transactions -> {NoStatement} \cup Statements] /\ BankTypeOK'
    OBVIOUS
<1>2. RequestFollowsOrder'
    BY DEF RequestFollowsOrder
<1>3. ConfirmedHasProof'
    BY DEF ConfirmedHasProof, BankProof
<1>4. SettledForGood'
    BY DEF SettledForGood
<1> QED BY <1>1, <1>2, <1>3, <1>4

\* A statement is recorded once; it moves only a request that is open.
LEMMA RecordStep ==
    ASSUME LedgerInv, NEW p \in Operators, NEW x \in Transactions, NEW o \in BankOrders,
           NEW flaw \in {"none", "MISMATCH"}, RecordStatement(p, x, o, flaw)
    PROVE  LedgerInv'
<1> USE DEF LedgerInv
<1>1. PICK exception \in {"none", "MISMATCH", "CLOSED_REQUEST"} :
          /\ statement' = [statement EXCEPT ![x] =
                 [recorded |-> TRUE, order |-> o, exception |-> exception]]
          /\ bankRequest' = [bankRequest EXCEPT ![o] = RequestAfter(o, exception)]
    BY DEF RecordStatement
<1>2. /\ statement[x] = NoStatement
      /\ UNCHANGED <<bankOrderVars, windowOver, approvals, bankSettlement, activeOperators>>
    BY DEF RecordStatement
<1>3. statement' \in [Transactions -> {NoStatement} \cup Statements]
    BY <1>1 DEF Statements
<1>4. IF IsOpen(o) THEN RequestAfter(o, exception) \in {"UNDER_REVIEW", "NEEDS_SUPPORT"}
      ELSE RequestAfter(o, exception) = bankRequest[o]
    BY DEF RequestAfter
<1>5. BankTypeOK'
    BY <1>1, <1>2, <1>4 DEF BankTypeOK, bankOrderVars, OpenStatuses
<1>6. RequestFollowsOrder'
    BY <1>1, <1>2, <1>4 DEF BankTypeOK, RequestFollowsOrder, bankOrderVars, OpenStatuses, IsOpen
<1>7. ConfirmedHasProof'
    <2> SUFFICES ASSUME NEW b \in BankOrders, bankOrder'[b] = "confirmed" PROVE BankProof(b)'
        BY DEF ConfirmedHasProof
    <2>1. BankProof(b)
        BY <1>2 DEF ConfirmedHasProof, bankOrderVars
    <2>2. PICK y \in bankSettlement[b] :
              /\ statement[y].recorded /\ statement[y].order = b
              /\ statement[y].exception = "none"
              /\ Cardinality(approvals[y]) >= 2
        BY <2>1 DEF BankProof
    <2>3. y \in Transactions /\ y # x
        BY <1>2, <2>2 DEF BankTypeOK, NoStatement
    <2>4. statement'[y] = statement[y] /\ bankRequest'[b] = "PAID"
        BY <1>1, <1>4, <2>1, <2>3 DEF BankTypeOK, BankProof, IsOpen, OpenStatuses
    <2> QED BY <1>2, <2>1, <2>2, <2>4 DEF BankProof, bankOrderVars
<1>8. SettledForGood'
    BY <1>1, <1>2, <1>4 DEF SettledForGood, BankTypeOK, bankOrderVars, IsOpen, OpenStatuses
<1> QED BY <1>3, <1>5, <1>6, <1>7, <1>8

\* An approval that is not the last, and one that confirms: only a request under
\* review is approved, so what was settled keeps its approvals.
LEMMA ApproveStep ==
    ASSUME LedgerInv, NEW p \in Operators, NEW x \in Transactions, Approve(p, x)
    PROVE  LedgerInv'
<1> USE DEF LedgerInv
<1>0. PICK o \in BankOrders : o = statement[x].order
    <2>1. statement[x].recorded
        BY DEF Approve
    <2>2. statement[x] \in Statements
        BY <2>1 DEF NoStatement
    <2> QED BY <2>2 DEF Statements
<1>1. /\ statement[x].order = o /\ statement[x].recorded
      /\ statement[x].exception = "none" /\ bankRequest[o] = "UNDER_REVIEW"
    BY <1>0 DEF Approve, Approvable
<1>2. /\ approvals' = [approvals EXCEPT ![x] = @ \cup {p}]
      /\ UNCHANGED <<windowOver, statement, activeOperators>>
      /\ IF Enough(approvals'[x]) THEN Confirm(o, x)
         ELSE UNCHANGED <<bankOrderVars, bankRequest, bankSettlement>>
    BY <1>1 DEF Approve
<1>3. \A b \in BankOrders : bankOrder[b] = "confirmed" => b # o
    BY <1>1 DEF RequestFollowsOrder
<1>4. statement' \in [Transactions -> {NoStatement} \cup Statements]
    BY <1>2
<1>5. ASSUME NEW b \in BankOrders, b # o, bankOrder[b] = "confirmed",
             bankOrder'[b] = bankOrder[b], bankRequest'[b] = bankRequest[b],
             bankAttempt'[b] = bankAttempt[b], bankSettlement'[b] = bankSettlement[b]
      PROVE  BankProof(b)'
    <2>1. PICK y \in bankSettlement[b] :
              /\ statement[y].recorded /\ statement[y].order = b
              /\ statement[y].exception = "none"
              /\ Cardinality(approvals[y]) >= 2
        BY <1>5 DEF ConfirmedHasProof, BankProof
    <2>2. y \in Transactions /\ y # x
        BY <1>1, <1>5, <2>1 DEF BankTypeOK
    <2>3. approvals'[y] = approvals[y]
        BY <1>2, <2>2 DEF BankTypeOK
    <2> QED BY <1>2, <1>5, <2>1, <2>3 DEF BankProof, ConfirmedHasProof
<1>6. CASE ~Enough(approvals'[x])
    <2> USE <1>1, <1>2, <1>6 DEF bankOrderVars
    <2>1. BankTypeOK'
        BY DEF BankTypeOK
    <2>2. RequestFollowsOrder' /\ SettledForGood'
        BY DEF RequestFollowsOrder, SettledForGood, IsOpen
    <2>3. ConfirmedHasProof'
        BY <1>3, <1>5 DEF ConfirmedHasProof
    <2> QED BY <1>4, <2>1, <2>2, <2>3
<1>7. CASE Enough(approvals'[x])
    <2> USE <1>1, <1>2, <1>7 DEF Confirm, BankTypeOK
    <2>1. BankTypeOK'
        OBVIOUS
    <2>2. RequestFollowsOrder'
        <3>1. ASSUME NEW b \in BankOrders, b # o
              PROVE  /\ bankOrder'[b] = bankOrder[b] /\ bankAttempt'[b] = bankAttempt[b]
                     /\ bankBenefit'[b] = bankBenefit[b] /\ bankRequest'[b] = bankRequest[b]
                     /\ bankSettlement'[b] = bankSettlement[b]
            BY <3>1
        <3>2. /\ bankOrder'[o] = "confirmed" /\ bankBenefit'[o] = "consumed"
              /\ bankRequest'[o] = "PAID" /\ x \in bankSettlement'[o]
            OBVIOUS
        <3> HIDE <1>1, <1>2, <1>7 DEF Confirm, BankTypeOK
        <3> QED BY <3>1, <3>2 DEF RequestFollowsOrder, IsOpen, OpenStatuses
    <2>3. SettledForGood'
        BY DEF SettledForGood
    <2>4. BankProof(o)'
        <3>1. bankSettlement'[o] = {x} /\ Cardinality(approvals'[x]) >= 2
            BY DEF Enough
        <3>2. bankOrder'[o] = "confirmed" /\ bankRequest'[o] = "PAID" /\ bankAttempt'[o] = "paid"
            OBVIOUS
        <3>3. statement'[x].recorded /\ statement'[x].order = o /\ statement'[x].exception = "none"
            OBVIOUS
        <3> HIDE <1>1, <1>2, <1>7 DEF Confirm, BankTypeOK
        <3> QED BY <3>1, <3>2, <3>3 DEF BankProof
    <2>5. ConfirmedHasProof'
        <3> SUFFICES ASSUME NEW b \in BankOrders, bankOrder'[b] = "confirmed" PROVE BankProof(b)'
            BY DEF ConfirmedHasProof
        <3>1. CASE b = o
            BY <2>4, <3>1
        <3>2. CASE b # o
            BY <3>2, <1>5
        <3> QED BY <3>1, <3>2
    <2> QED BY <1>4, <2>1, <2>2, <2>3, <2>5
<1> QED BY <1>6, <1>7

\* The steps of the ledger.
LEMMA LedgerStep ==
    ASSUME LedgerInv, BankStep
    PROVE  LedgerInv'
<1> USE DEF LedgerInv
<1>1. ASSUME NEW o \in BankOrders, ChooseGateway(o) PROVE LedgerInv'
    BY <1>1 DEF ChooseGateway, BankTypeOK, RequestFollowsOrder, ConfirmedHasProof, BankProof,
                SettledForGood, IsOpen, OpenStatuses, statementVars
<1>2. ASSUME NEW o \in BankOrders, CreateRequest(o) PROVE LedgerInv'
    BY <1>2 DEF CreateRequest, BankTypeOK, RequestFollowsOrder, ConfirmedHasProof, BankProof,
                SettledForGood, IsOpen, OpenStatuses, statementVars
<1>3. ASSUME NEW o \in BankOrders, WindowPasses(o) PROVE LedgerInv'
    BY <1>3 DEF WindowPasses, BankTypeOK, RequestFollowsOrder, ConfirmedHasProof, BankProof,
                SettledForGood, IsOpen, statementVars, bankOrderVars
<1>4. ASSUME NEW o \in BankOrders, RequestSupport(o) PROVE LedgerInv'
    BY <1>4 DEF RequestSupport, BankTypeOK, RequestFollowsOrder, ConfirmedHasProof, BankProof,
                SettledForGood, IsOpen, OpenStatuses, statementVars, bankOrderVars
<1>5. ASSUME NEW o \in BankOrders, BankFulfillFails(o) PROVE LedgerInv'
    BY <1>5 DEF BankFulfillFails, BankTypeOK, RequestFollowsOrder, ConfirmedHasProof, BankProof,
                SettledForGood, IsOpen, statementVars
<1>6. ASSUME NEW o \in BankOrders, CancelRequest(o) \/ ExpireDue(o) \/ QueryRequest(o)
      PROVE  LedgerInv'
    BY <1>6, CloseStep DEF CancelRequest, ExpireDue, QueryRequest
<1>7. ASSUME NEW p \in Operators, OperatorChanges(p) PROVE LedgerInv'
    BY <1>7 DEF OperatorChanges, BankTypeOK, RequestFollowsOrder, ConfirmedHasProof, BankProof,
                SettledForGood, IsOpen, statementVars, bankOrderVars
<1> QED BY <1>1, <1>2, <1>3, <1>4, <1>5, <1>6, <1>7, RecordStep, ApproveStep DEF BankStep

\* Delivery changes nothing else in the ledger.
LEMMA FulfillStep ==
    ASSUME LedgerInv, NEW o \in BankOrders, BankFulfill(o)
    PROVE  LedgerInv'
BY DEF LedgerInv, BankFulfill, BankTypeOK, RequestFollowsOrder, ConfirmedHasProof, BankProof,
       SettledForGood, IsOpen, statementVars

\* The ledger is what its own variables say.
LEMMA LedgerStutter ==
    ASSUME LedgerInv, UNCHANGED bankVars
    PROVE  LedgerInv'
BY DEF LedgerInv, bankVars, bankOrderVars, statementVars, BankTypeOK, RequestFollowsOrder,
       ConfirmedHasProof, BankProof, SettledForGood, IsOpen

-----------------------------------------------------------------------------
(* Images and their claims                                                  *)

\* An assessment is written once, and a code only when no other claim has it.
LEMMA FinalizeStep ==
    ASSUME ImagesInv, NEW i \in Images, FinalizeClaim(i)
    PROVE  ImagesInv'
<1> USE DEF ImagesInv
<1>1. /\ reading' = [reading EXCEPT ![i] = Idle]
      /\ UNCHANGED <<leaseOver, retentionOver, stored, imageDeleted>>
    BY DEF FinalizeClaim
<1>2. reading' \in [Images -> Readings] /\ DeletedIsGone'
    BY <1>1 DEF Readings, Idle, DeletedIsGone
<1>3. \A j \in retentionOver' : Reading(j, "idle")'
    BY <1>1 DEF RemovedLast, Reading, Idle
<1>4. CASE claim[i].status # "PROCESSING"
    <2>1. claim' = claim
        BY <1>4 DEF FinalizeClaim
    <2> QED BY <1>1, <1>2, <1>3, <2>1 DEF ClaimsPlaced, OneClaimPerCode, RemovedLast
<1>5. CASE claim[i].status = "PROCESSING"
    <2> DEFINE code == reading[i].code
               reused == code # "none" /\ CodeTaken(i, code)
    <2>1. claim[i] # NoClaim /\ claim[i] \in Claims /\ code \in TransferCodes \cup {"none"}
        BY <1>5 DEF NoClaim, Readings
    <2>2. PICK c \in Claims :
              /\ claim' = [claim EXCEPT ![i] = c]
              /\ c.status \in {"OCR_FAILED", "MATCHED_CLAIM", "REVIEW_REQUIRED"}
              /\ c.order = claim[i].order
              /\ c.code # "none" => c.code = claim[i].code \/ (c.code = code /\ ~reused)
        <3>1. CASE Reading(i, "failed")
            <4>1. [claim[i] EXCEPT !.status = "OCR_FAILED"] \in Claims
                BY <2>1 DEF Claims
            <4> QED BY <1>5, <3>1, <4>1, <2>1 DEF FinalizeClaim, Claims
        <3>2. CASE ~Reading(i, "failed")
            <4> DEFINE c == [claim[i] EXCEPT !.status = ClaimStatus(i, reused),
                                             !.code = IF reused THEN "none" ELSE code]
            <4>1. ClaimStatus(i, reused) \in {"MATCHED_CLAIM", "REVIEW_REQUIRED"}
                BY DEF ClaimStatus
            <4>2. c \in Claims
                BY <2>1, <4>1 DEF Claims
            <4>3. c.status = ClaimStatus(i, reused) /\ c.order = claim[i].order
                BY <2>1 DEF Claims
            <4>4. c.code = IF reused THEN "none" ELSE code
                BY <2>1 DEF Claims
            <4>5. claim' = [claim EXCEPT ![i] = c]
                BY <1>5, <3>2 DEF FinalizeClaim
            <4> HIDE DEF c, reused, code
            <4> QED BY <4>1, <4>2, <4>3, <4>4, <4>5
        <3> QED BY <3>1, <3>2
    <2>3. claim' \in [Images -> Claims]
        BY <2>2
    <2>4. claim'[i] = c /\ \A j \in Images : j # i => claim'[j] = claim[j]
        BY <2>2
    <2>5. ClaimsPlaced'
        <3>1. claim[i].order \in BankOrders
            BY <2>1 DEF ClaimsPlaced
        <3> QED BY <2>2, <2>4, <3>1 DEF ClaimsPlaced
    <2>6. OneClaimPerCode'
        <3>1. ASSUME NEW j \in Images, j # i
              PROVE  c.code = "none" \/ c.code # claim[j].code
            BY <2>2, <3>1 DEF OneClaimPerCode, CodeTaken
        <3> QED BY <2>4, <3>1 DEF OneClaimPerCode
    <2>7. \A j \in leaseOver : claim'[j] # NoClaim
        BY <2>2, <2>4 DEF RemovedLast, NoClaim
    <2> QED BY <1>1, <1>2, <1>3, <2>3, <2>5, <2>6, <2>7 DEF RemovedLast
<1> QED BY <1>4, <1>5

\* A claim is new, so its image is not leased yet.
LEMMA SubmitStep ==
    ASSUME ImagesInv, NEW i \in Images, NEW o \in BankOrders, SubmitReceipt(i, o)
    PROVE  ImagesInv'
<1> USE DEF ImagesInv
<1> DEFINE c == [status |-> "PROCESSING", order |-> o, code |-> "none"]
<1>1. /\ claim[i] = NoClaim /\ claim' = [claim EXCEPT ![i] = c]
      /\ reading' = [reading EXCEPT ![i].step = "put"]
      /\ UNCHANGED <<leaseOver, retentionOver, stored, imageDeleted>>
    BY DEF SubmitReceipt
<1>2. claim' \in [Images -> Claims] /\ reading' \in [Images -> Readings]
    BY <1>1 DEF Claims, Readings
<1>3. ClaimsPlaced' /\ OneClaimPerCode'
    BY <1>1 DEF ClaimsPlaced, OneClaimPerCode
<1>4. i \notin leaseOver /\ i \notin retentionOver
    BY <1>1 DEF RemovedLast
<1>5. RemovedLast'
    BY <1>1, <1>4 DEF RemovedLast, Reading, NoClaim
<1> QED BY <1>1, <1>2, <1>3, <1>5 DEF DeletedIsGone

\* A claim that only changes its status keeps its order and its code.
LEMMA GiveUpStep ==
    ASSUME ImagesInv, NEW i \in Images, GiveUpReading(i)
    PROVE  ImagesInv'
<1> USE DEF ImagesInv
<1>1. /\ claim[i] \in Claims /\ claim[i] # NoClaim
      /\ UNCHANGED <<reading, leaseOver, retentionOver, stored, imageDeleted>>
    BY DEF GiveUpReading, NoClaim
<1>2. claim' = [claim EXCEPT ![i].status = "OCR_FAILED"]
    BY DEF GiveUpReading
<1>3. /\ claim'[i].status = "OCR_FAILED" /\ claim'[i].order = claim[i].order
      /\ claim'[i].code = claim[i].code
      /\ \A j \in Images : j # i => claim'[j] = claim[j]
    BY <1>1, <1>2 DEF Claims
<1>4. claim' \in [Images -> Claims]
    BY <1>1, <1>2 DEF Claims
<1>5. ClaimsPlaced'
    BY <1>1, <1>3 DEF ClaimsPlaced
<1>6. OneClaimPerCode'
    BY <1>3 DEF OneClaimPerCode
<1>7. RemovedLast'
    BY <1>1, <1>3 DEF RemovedLast, Reading, NoClaim
<1> QED BY <1>1, <1>4, <1>5, <1>6, <1>7 DEF DeletedIsGone

\* A file is written only for an image that is being uploaded.
LEMMA ReadingStep ==
    ASSUME ImagesInv, NEW i \in Images,
           \/ PutImage(i) \/ AssessFails(i) \/ ReadingStops(i)
           \/ \E part \in BOOLEAN : PutFails(i, part)
           \/ \E fits \in BOOLEAN, code \in TransferCodes \cup {"none"} : AssessImage(i, fits, code)
    PROVE  ImagesInv'
<1> USE DEF ImagesInv
<1>1. UNCHANGED <<claim, leaseOver, retentionOver, imageDeleted>>
    BY DEF PutImage, AssessFails, ReadingStops, PutFails, AssessImage
<1>2. reading' \in [Images -> Readings]
    <2>1. reading[i] \in Readings
        OBVIOUS
    <2>2. \A s \in {"assess", "failed"} : [reading[i] EXCEPT !.step = s] \in Readings
        BY <2>1 DEF Readings
    <2>3. Idle \in Readings
        BY DEF Idle, Readings
    <2>4. \A fits \in BOOLEAN, code \in TransferCodes \cup {"none"} :
              [step |-> "read", fits |-> fits, code |-> code] \in Readings
        BY DEF Readings
    <2>5. PICK r \in Readings : reading' = [reading EXCEPT ![i] = r]
        BY <2>2, <2>3, <2>4 DEF PutImage, AssessFails, ReadingStops, PutFails, AssessImage
    <2> QED BY <2>5
<1>3. ReadingStops(i) \/ i \notin retentionOver
    BY DEF PutImage, AssessFails, PutFails, AssessImage, RemovedLast, Reading
<1>4. \A j \in Images : j # i => reading'[j] = reading[j]
    BY DEF PutImage, AssessFails, ReadingStops, PutFails, AssessImage
<1>5. RemovedLast'
    <2>1. ReadingStops(i) => reading'[i].step = "idle"
        BY DEF ReadingStops, Idle
    <2> QED BY <1>1, <1>3, <1>4, <2>1 DEF RemovedLast, Reading
<1>6. stored' \in SUBSET (stored \cup {i}) /\ (ReadingStops(i) => stored' = stored)
    BY DEF PutImage, AssessFails, ReadingStops, PutFails, AssessImage
<1>7. DeletedIsGone'
    BY <1>1, <1>3, <1>6 DEF DeletedIsGone, RemovedLast
<1> QED BY <1>1, <1>2, <1>5, <1>6, <1>7 DEF ClaimsPlaced, OneClaimPerCode

\* Leases and retentions pass, and what is over is removed.
LEMMA RetentionStep ==
    ASSUME ImagesInv, NEW i \in Images,
           LeasePasses(i) \/ RetentionPasses(i) \/ RemoveImage(i) \/ MarkDeleted(i)
    PROVE  ImagesInv'
BY DEF ImagesInv, LeasePasses, RetentionPasses, RemoveImage, MarkDeleted, FileGone, Reading,
       ClaimsPlaced, OneClaimPerCode, RemovedLast, DeletedIsGone

\* The images are what their own variables say.
LEMMA ImagesStutter ==
    ASSUME ImagesInv, UNCHANGED receiptVars
    PROVE  ImagesInv'
BY DEF ImagesInv, receiptVars, Reading, ClaimsPlaced, OneClaimPerCode, RemovedLast, DeletedIsGone

-----------------------------------------------------------------------------
(* Provisional access                                                       *)

\* The status of the latest generation, as the order's own sequence says it.
LEMMA LatestIs ==
    ASSUME NEW o \in BankOrders, AccessInv
    PROVE  /\ generations[o] \in Seq(Generations)
           /\ generations[o] = <<>> => Latest(o) = "NONE"
           /\ generations[o] # <<>> =>
                 /\ Len(generations[o]) \in Nat \ {0}
                 /\ Latest(o) = generations[o][Len(generations[o])].status
                 /\ Latest(o) \in {"ACCESS_UNVERIFIED", "REVOKED", "VERIFIED_PAID"}
<1>1. generations[o] \in Seq(Generations) /\ (generations[o] = <<>> => Latest(o) = "NONE")
    BY DEF AccessInv, Latest
<1>2. ASSUME generations[o] # <<>>
      PROVE  /\ Len(generations[o]) \in Nat \ {0}
             /\ generations[o][Len(generations[o])] \in Generations
    BY <1>1, <1>2
<1> QED BY <1>1, <1>2 DEF Latest, Generations

\* A generation is added when the one before is closed.
LEMMA CreateStep ==
    ASSUME AccessInv, NEW o \in BankOrders, NEW by \in Operators \cup {"buyer"},
           CreateGeneration(o, by), Latest(o) # "ACCESS_UNVERIFIED",
           by = "buyer" <=> generations[o] = <<>>,
           bankFulfillment[o] # "fulfilled", UNCHANGED bankFulfillment
    PROVE  AccessInv' /\ \A b \in BankOrders : b # o => Latest(b)' = Latest(b)
<1> DEFINE g == [status |-> "ACCESS_UNVERIFIED", by |-> by]
           n == Len(generations[o])
<1>1. /\ generations' = [generations EXCEPT ![o] = Append(@, g)]
      /\ provisional' = provisional \cup {<<o, n + 1>>}
      /\ n < MaxGenerations
    BY DEF CreateGeneration
<1>2. g \in Generations /\ generations[o] \in Seq(Generations) /\ n \in Nat
    <2>1. g \in Generations
        BY DEF Generations
    <2> QED BY <2>1 DEF AccessInv
<1>3. /\ generations'[o] = Append(generations[o], g)
      /\ \A b \in BankOrders : b # o => generations'[b] = generations[b]
    BY <1>1 DEF AccessInv
<1>4. /\ Append(generations[o], g) \in Seq(Generations)
      /\ Len(Append(generations[o], g)) = n + 1
      /\ Append(generations[o], g)[n + 1] = g
      /\ \A k \in 1 .. n : Append(generations[o], g)[k] = generations[o][k]
      /\ Append(generations[o], g) # <<>>
    <2> HIDE DEF g
    <2> QED BY <1>2
<1> HIDE DEF g
<1>5. generations' \in [BankOrders -> Seq(Generations)]
    BY <1>1, <1>2, <1>4 DEF AccessInv
<1>6. \A b \in BankOrders : Len(generations'[b]) <= MaxGenerations
    BY <1>1, <1>2, <1>3, <1>4, ReceiptsAssumption DEF AccessInv
<1>7. Latest(o)' = "ACCESS_UNVERIFIED" /\ \A b \in BankOrders : b # o => Latest(b)' = Latest(b)
    BY <1>3, <1>4 DEF Latest, g
<1>8. ProvisionalIsLatest'
    <2>1. \A e : e \in provisional <=>
              \E b \in BankOrders : Latest(b) = "ACCESS_UNVERIFIED" /\ e = <<b, Len(generations[b])>>
        BY DEF AccessInv, ProvisionalIsLatest
    <2>2. ASSUME NEW e
          PROVE  e \in provisional' <=>
              \E b \in BankOrders : Latest(b)' = "ACCESS_UNVERIFIED" /\ e = <<b, Len(generations'[b])>>
        BY <1>1, <1>3, <1>4, <1>7, <2>1
    <2> QED BY <2>2 DEF ProvisionalIsLatest
<1>9. RestoredByOperators'
    <2> SUFFICES ASSUME NEW b \in BankOrders, NEW k \in DOMAIN (generations'[b])
                 PROVE  generations'[b][k].by = "buyer" <=> k = 1
        BY DEF RestoredByOperators
    <2>1. CASE b # o
        BY <1>3, <2>1 DEF AccessInv, RestoredByOperators
    <2>2. CASE b = o
        <3>1. k \in 1 .. n + 1 /\ generations'[o] = Append(generations[o], g)
            BY <1>3, <1>4, <1>5, <2>2
        <3>2. CASE k = n + 1
            <4>1. n = 0 <=> generations[o] = <<>>
                BY <1>2
            <4>2. generations'[o][k].by = by
                BY <1>4, <3>1, <3>2 DEF g
            <4> QED BY <1>2, <2>2, <3>2, <4>1, <4>2
        <3>3. CASE k # n + 1
            <4>1. k \in 1 .. n /\ k \in DOMAIN generations[o]
                BY <1>2, <3>1, <3>3
            <4> QED BY <1>4, <2>2, <3>1, <4>1 DEF AccessInv, RestoredByOperators
        <3> QED BY <3>2, <3>3
    <2> QED BY <2>1, <2>2
<1>10. DeliveredIsVerified'
    BY <1>7 DEF AccessInv, DeliveredIsVerified
<1> QED BY <1>5, <1>6, <1>7, <1>8, <1>9, <1>10 DEF AccessInv

\* The latest generation gets its final status.
LEMMA FinalStep ==
    ASSUME AccessInv, NEW o \in BankOrders, NEW as \in {"REVOKED", "VERIFIED_PAID"},
           CloseGeneration(o, as), generations[o] # <<>>,
           \A b \in BankOrders :
               bankFulfillment'[b] = "fulfilled" =>
                   IF b = o THEN as = "VERIFIED_PAID" ELSE bankFulfillment[b] = "fulfilled"
    PROVE  AccessInv' /\ \A b \in BankOrders : b # o => Latest(b)' = Latest(b)
<1> DEFINE n == Len(generations[o])
           s == [generations[o] EXCEPT ![n].status = as]
<1>1. generations[o] \in Seq(Generations) /\ n \in Nat \ {0} /\ n <= MaxGenerations
    BY LatestIs DEF AccessInv
<1>2. /\ generations' = [generations EXCEPT ![o] = s]
      /\ provisional' = provisional \ {<<o, n>>}
    BY DEF CloseGeneration, RetiredEffects
<1>3. \A k \in 1 .. n : generations[o][k] \in Generations
    BY <1>1
<1>4. /\ s \in Seq(Generations) /\ Len(s) = n /\ s[n].status = as /\ s # <<>>
      /\ \A k \in 1 .. n : s[k].by = generations[o][k].by
    <2>1. n \in 1 .. n /\ DOMAIN generations[o] = 1 .. n
        BY <1>1
    <2>2. PICK r \in Generations : /\ r = [generations[o][n] EXCEPT !.status = as]
                                   /\ r.status = as /\ r.by = generations[o][n].by
        <3>1. PICK g \in Generations : g = generations[o][n]
            BY <1>3, <2>1
        <3>2. [g EXCEPT !.status = as] \in Generations
            BY <3>1 DEF Generations
        <3>3. [g EXCEPT !.status = as].status = as /\ [g EXCEPT !.status = as].by = g.by
            BY <3>1 DEF Generations
        <3> QED BY <3>1, <3>2, <3>3
    <2>3. s = [generations[o] EXCEPT ![n] = r]
        BY <2>2
    <2> HIDE DEF s
    <2>4. s \in Seq(Generations) /\ Len(s) = n
        BY <1>1, <2>1, <2>3
    <2>5. s[n] = r /\ \A k \in 1 .. n : k # n => s[k] = generations[o][k]
        BY <1>1, <2>1, <2>3
    <2>6. s # <<>>
        BY <1>1, <2>4
    <2> QED BY <2>2, <2>4, <2>5, <2>6
<1> HIDE DEF s
<1>5. generations'[o] = s /\ \A b \in BankOrders : b # o => generations'[b] = generations[b]
    BY <1>2 DEF AccessInv
<1>6. generations' \in [BankOrders -> Seq(Generations)]
    BY <1>2, <1>4 DEF AccessInv
<1>7. \A b \in BankOrders : Len(generations'[b]) <= MaxGenerations
    BY <1>1, <1>4, <1>5 DEF AccessInv
<1>8. Latest(o)' = as /\ \A b \in BankOrders : b # o => Latest(b)' = Latest(b)
    BY <1>4, <1>5 DEF Latest
<1>9. ProvisionalIsLatest'
    <2>1. \A e : e \in provisional <=>
              \E b \in BankOrders : Latest(b) = "ACCESS_UNVERIFIED" /\ e = <<b, Len(generations[b])>>
        BY DEF AccessInv, ProvisionalIsLatest
    <2>2. ASSUME NEW e
          PROVE  e \in provisional' <=>
              \E b \in BankOrders : Latest(b)' = "ACCESS_UNVERIFIED" /\ e = <<b, Len(generations'[b])>>
        <3>1. ASSUME NEW b \in BankOrders, b # o
              PROVE  /\ Latest(b)' = Latest(b) /\ Len(generations'[b]) = Len(generations[b])
                     /\ <<b, Len(generations[b])>> # <<o, n>>
            BY <1>5, <1>8, <3>1
        <3>2. Latest(o)' # "ACCESS_UNVERIFIED"
            BY <1>8
        <3>3. e \in provisional' <=> e \in provisional /\ e # <<o, n>>
            BY <1>2
        <3> QED BY <2>1, <3>1, <3>2, <3>3
    <2> QED BY <2>2 DEF ProvisionalIsLatest
<1>10. RestoredByOperators'
    <2>1. DOMAIN s = 1 .. n /\ DOMAIN generations[o] = 1 .. n
        BY <1>1, <1>4
    <2>2. ASSUME NEW b \in BankOrders, NEW k \in DOMAIN (generations'[b])
          PROVE  generations'[b][k].by = "buyer" <=> k = 1
        <3>1. CASE b = o
            <4>1. k \in 1 .. n /\ generations'[b][k].by = generations[o][k].by
                BY <1>4, <1>5, <2>1, <2>2, <3>1
            <4>2. \A j \in DOMAIN generations[o] : generations[o][j].by = "buyer" <=> j = 1
                BY DEF AccessInv, RestoredByOperators
            <4> QED BY <2>1, <4>1, <4>2
        <3>2. CASE b # o
            BY <1>5, <2>2, <3>2 DEF AccessInv, RestoredByOperators
        <3> QED BY <3>1, <3>2
    <2> QED BY <2>2 DEF RestoredByOperators
<1>11. DeliveredIsVerified'
    BY <1>8 DEF AccessInv, DeliveredIsVerified
<1> QED BY <1>6, <1>7, <1>8, <1>9, <1>10, <1>11 DEF AccessInv

\* Access is what its own variables say, whatever is delivered no more.
LEMMA AccessStutter ==
    ASSUME AccessInv, UNCHANGED accessVars,
           \A b \in BankOrders : bankFulfillment'[b] = "fulfilled" =>
               bankFulfillment[b] = "fulfilled" \/ Latest(b) = "NONE"
    PROVE  AccessInv' /\ \A b \in BankOrders : Latest(b)' = Latest(b)
BY DEF AccessInv, accessVars, Latest, ProvisionalIsLatest, RestoredByOperators, DeliveredIsVerified

-----------------------------------------------------------------------------
(* Every step                                                               *)

\* No step of the ledger delivers an order.
LEMMA BankStepDelivers ==
    ASSUME LedgerInv, BankStep, NEW b \in BankOrders, bankFulfillment'[b] = "fulfilled"
    PROVE  bankFulfillment[b] = "fulfilled"
BY DEF BankStep, ChooseGateway, CreateRequest, WindowPasses, RequestSupport, BankFulfillFails,
       CancelRequest, ExpireDue, QueryRequest, CloseRequest, ClosedRequest, RecordStatement,
       Approve, Confirm, OperatorChanges, bankOrderVars, LedgerInv, BankTypeOK

\* Delivery ends what was provisional.
LEMMA ConvertStep ==
    ASSUME LedgerInv, AccessInv, NEW o \in BankOrders, FulfillAndConvert(o)
    PROVE  AccessInv' /\ \A b \in BankOrders : b # o => Latest(b)' = Latest(b)
<1>1. bankFulfillment' = [bankFulfillment EXCEPT ![o] = "fulfilled"]
    BY DEF FulfillAndConvert, BankFulfill
<1>2. \A b \in BankOrders : bankFulfillment'[b] = "fulfilled" =>
          b = o \/ bankFulfillment[b] = "fulfilled"
    BY <1>1 DEF LedgerInv, BankTypeOK
<1>3. CASE generations[o] = <<>>
    BY <1>2, <1>3, LatestIs, AccessStutter DEF FulfillAndConvert
<1>4. CASE generations[o] # <<>>
    BY <1>2, <1>4, FinalStep DEF FulfillAndConvert
<1> QED BY <1>3, <1>4

\* The first access is the buyer's, for a claim that matches an order still open.
LEMMA GrantStep ==
    ASSUME LedgerInv, ImagesInv, AccessInv, NEW i \in Images, GrantForClaim(i)
    PROVE  /\ AccessInv'
           /\ \A b \in BankOrders : bankOrder[b] = "confirmed" => Latest(b)' = Latest(b)
<1>1. PICK o \in BankOrders : o = claim[i].order
    BY DEF GrantForClaim, ImagesInv, ClaimsPlaced
<1>2. /\ generations[o] = <<>> /\ bankOrder[o] = "pending_payment"
      /\ CreateGeneration(o, "buyer") /\ UNCHANGED bankFulfillment
    BY <1>1 DEF GrantForClaim, FirstAccess, ReceiptEligible, InWindow, bankVars, bankOrderVars
<1>3. Latest(o) # "ACCESS_UNVERIFIED" /\ bankFulfillment[o] # "fulfilled"
    BY <1>2, LatestIs DEF LedgerInv, SettledForGood
<1> QED BY <1>2, <1>3, CreateStep

\* A later one is an operator's.
LEMMA RestoreStep ==
    ASSUME LedgerInv, ImagesInv, AccessInv, NEW p \in Operators, NEW i \in Images,
           RestoreAccess(p, i)
    PROVE  /\ AccessInv'
           /\ \A b \in BankOrders : bankOrder[b] = "confirmed" => Latest(b)' = Latest(b)
<1>1. PICK o \in BankOrders : o = claim[i].order
    BY DEF RestoreAccess, ImagesInv, ClaimsPlaced
<1>2. /\ Latest(o) = "REVOKED" /\ bankOrder[o] = "pending_payment"
      /\ CreateGeneration(o, p) /\ UNCHANGED bankFulfillment
    BY <1>1 DEF RestoreAccess, ReceiptEligible, InWindow, bankVars, bankOrderVars
<1>3. generations[o] # <<>> /\ p # "buyer" /\ bankFulfillment[o] # "fulfilled"
    BY <1>2, LatestIs, ReceiptsAssumption DEF LedgerInv, SettledForGood
<1> QED BY <1>2, <1>3, CreateStep

\* An operator revokes what no confirmed payment stands behind.
LEMMA RevokeStep ==
    ASSUME LedgerInv, AccessInv, NEW p \in Operators, NEW o \in BankOrders, RevokeAccess(p, o)
    PROVE  /\ AccessInv'
           /\ \A b \in BankOrders : bankOrder[b] = "confirmed" => Latest(b)' = Latest(b)
<1>1. /\ bankOrder[o] # "confirmed" /\ Latest(o) = "ACCESS_UNVERIFIED"
      /\ CloseGeneration(o, "REVOKED") /\ UNCHANGED bankFulfillment
    BY DEF RevokeAccess, Unverified, bankVars, bankOrderVars
<1>2. generations[o] # <<>> /\ bankFulfillment[o] # "fulfilled"
    BY <1>1, LatestIs DEF LedgerInv, SettledForGood
<1> QED BY <1>1, <1>2, FinalStep

\* What every step does: the invariant stays, and what is open to the buyer of a
\* confirmed order changes only with its delivery.
LEMMA EveryStep ==
    ASSUME ReceiptsIInv, [ReceiptsNext]_allBankVars
    PROVE  /\ ReceiptsIInv'
           /\ \A o \in BankOrders : bankOrder[o] = "confirmed" /\ Latest(o)' # Latest(o) =>
                                        bankFulfillment'[o] = "fulfilled"
<1> DEFINE Later == \A o \in BankOrders : bankOrder[o] = "confirmed" /\ Latest(o)' # Latest(o) =>
                                              bankFulfillment'[o] = "fulfilled"
<1> USE DEF ReceiptsIInv
<1>1. ASSUME BankStep, UNCHANGED <<receiptVars, accessVars>> PROVE ReceiptsIInv' /\ Later
    BY <1>1, LedgerStep, ImagesStutter, BankStepDelivers, AccessStutter
<1>2. ASSUME NEW o \in BankOrders, FulfillAndConvert(o) PROVE ReceiptsIInv' /\ Later
    <2>1. BankFulfill(o) /\ UNCHANGED receiptVars
        BY <1>2 DEF FulfillAndConvert
    <2>2. bankFulfillment'[o] = "fulfilled"
        BY <2>1 DEF BankFulfill, LedgerInv, BankTypeOK
    <2> QED BY <1>2, <2>1, <2>2, FulfillStep, ImagesStutter, ConvertStep
<1>3. ASSUME UNCHANGED <<bankVars, accessVars>>, ImagesInv' PROVE ReceiptsIInv' /\ Later
    <2>1. UNCHANGED bankFulfillment
        BY <1>3 DEF bankVars, bankOrderVars
    <2> QED BY <1>3, <2>1, LedgerStutter, AccessStutter
<1>4. ASSUME NEW i \in Images, NEW o \in BankOrders, SubmitReceipt(i, o) PROVE ReceiptsIInv' /\ Later
    BY <1>3, <1>4, SubmitStep DEF SubmitReceipt
<1>5. ASSUME NEW i \in Images,
             \/ PutImage(i) \/ AssessFails(i) \/ ReadingStops(i)
             \/ \E part \in BOOLEAN : PutFails(i, part)
             \/ \E fits \in BOOLEAN, code \in TransferCodes \cup {"none"} : AssessImage(i, fits, code)
      PROVE  ReceiptsIInv' /\ Later
    <2>1. UNCHANGED <<bankVars, accessVars>>
        BY <1>5 DEF PutImage, AssessFails, ReadingStops, PutFails, AssessImage
    <2> QED BY <1>3, <1>5, <2>1, ReadingStep
<1>6. ASSUME NEW i \in Images, FinalizeClaim(i) \/ GiveUpReading(i) PROVE ReceiptsIInv' /\ Later
    <2>1. UNCHANGED <<bankVars, accessVars>>
        BY <1>6 DEF FinalizeClaim, GiveUpReading
    <2> QED BY <1>3, <1>6, <2>1, FinalizeStep, GiveUpStep
<1>7. ASSUME NEW i \in Images,
             LeasePasses(i) \/ RetentionPasses(i) \/ RemoveImage(i) \/ MarkDeleted(i)
      PROVE  ReceiptsIInv' /\ Later
    <2>1. UNCHANGED <<bankVars, accessVars>>
        BY <1>7 DEF LeasePasses, RetentionPasses, RemoveImage, MarkDeleted
    <2> QED BY <1>3, <1>7, <2>1, RetentionStep
<1>8. ASSUME NEW i \in Images, GrantForClaim(i) PROVE ReceiptsIInv' /\ Later
    BY <1>8, GrantStep, LedgerStutter, ImagesStutter DEF GrantForClaim
<1>9. ASSUME NEW p \in Operators, NEW o \in BankOrders, RevokeAccess(p, o) PROVE ReceiptsIInv' /\ Later
    BY <1>9, RevokeStep, LedgerStutter, ImagesStutter DEF RevokeAccess
<1>10. ASSUME NEW p \in Operators, NEW i \in Images, RestoreAccess(p, i) PROVE ReceiptsIInv' /\ Later
    BY <1>10, RestoreStep, LedgerStutter, ImagesStutter DEF RestoreAccess
<1>11. ASSUME UNCHANGED allBankVars PROVE ReceiptsIInv' /\ Later
    BY <1>3, <1>11, ImagesStutter DEF allBankVars
<1> HIDE DEF ReceiptsIInv, Later
<1>12. ASSUME ReceiptsNext PROVE ReceiptsIInv' /\ Later
    BY <1>12, <1>1, <1>2, <1>4, <1>5, <1>6, <1>7, <1>8, <1>9, <1>10 DEF ReceiptsNext
<1>13. ReceiptsIInv' /\ Later
    BY <1>11, <1>12
<1> QED BY <1>13 DEF Later

\* Nothing is requested, claimed or open at first.
LEMMA Initially == ReceiptsInit => ReceiptsIInv
<1> SUFFICES ASSUME ReceiptsInit PROVE ReceiptsIInv
    OBVIOUS
<1> USE DEF ReceiptsInit
<1>1. LedgerInv
    BY DEF BankInit, LedgerInv, BankTypeOK, RequestFollowsOrder, ConfirmedHasProof, SettledForGood,
           IsOpen, OpenStatuses
<1>2. ImagesInv
    BY DEF ImagesInv, Claims, Readings, NoClaim, Idle, ClaimsPlaced, OneClaimPerCode, RemovedLast,
           DeletedIsGone
<1>3. \A o \in BankOrders : generations[o] = <<>> /\ Latest(o) = "NONE"
    BY DEF Latest
<1>4. generations \in [BankOrders -> Seq(Generations)] /\ Len(<<>>) = 0
    OBVIOUS
<1>5. \A o \in BankOrders : Len(generations[o]) <= MaxGenerations
    BY <1>3, <1>4, ReceiptsAssumption
<1>6. AccessInv
    BY <1>3, <1>4, <1>5 DEF AccessInv, ProvisionalIsLatest, RestoredByOperators, DeliveredIsVerified
<1> QED BY <1>1, <1>2, <1>6 DEF ReceiptsIInv

-----------------------------------------------------------------------------
(* Theorems                                                                 *)

\* The ledger, the images and the provisional access are sound at every moment.
THEOREM ReceiptsInvariant == ReceiptsSpec => []ReceiptsIInv
<1>1. ReceiptsIInv /\ [ReceiptsNext]_allBankVars => ReceiptsIInv'
    BY EveryStep
<1> QED BY Initially, <1>1, PTL DEF ReceiptsSpec

\* The request, the attempt, the reservation, the settlement and the proof of an
\* order tell one story, whoever approves, closes and fails in between
\* (bank-transfer.service.ts, bank-transfer-proof.ts).
THEOREM OrdersSettledHolds == ReceiptsSpec => []OrdersSettled
BY ReceiptsInvariant, InvariantImplies, PTL

\* What is open without proof is the latest unverified generation, a transfer is
\* claimed once, and a removed image has no file (bank-receipt-access.service.ts,
\* bank-transfer-receipt.service.ts).
THEOREM ReceiptsConsistentHolds == ReceiptsSpec => []ReceiptsConsistent
BY ReceiptsInvariant, InvariantImplies, PTL

\* Money is committed only by an approval whose operators are all active then, on a
\* request under review (bank-transfer.service.ts approve).
THEOREM ConfirmedByActiveOperatorsHolds == ReceiptsSpec => ConfirmedByActiveOperators
<1> DEFINE Vouched == \A o \in BankOrders : \A x \in bankSettlement'[o] \ bankSettlement[o] :
                          approvals'[x] \subseteq activeOperators /\ bankRequest[o] = "UNDER_REVIEW"
<1>1. ASSUME ReceiptsIInv, [ReceiptsNext]_allBankVars PROVE [Vouched]_bankVars
    <2>1. ASSUME NEW p \in Operators, NEW x \in Transactions, Approve(p, x) PROVE Vouched
        <3>1. /\ statement[x].recorded /\ Authorised(p, x)
              /\ bankRequest[statement[x].order] = "UNDER_REVIEW"
              /\ approvals' = [approvals EXCEPT ![x] = @ \cup {p}]
              /\ \/ bankSettlement' = bankSettlement
                 \/ bankSettlement' = [bankSettlement EXCEPT ![statement[x].order] = {x}]
            BY <2>1 DEF Approve, Approvable, Confirm, bankOrderVars
        <3>2. approvals'[x] \subseteq activeOperators
            BY <3>1, <1>1 DEF Authorised, ReceiptsIInv, LedgerInv, BankTypeOK
        <3> QED BY <3>1, <3>2, <1>1 DEF ReceiptsIInv, LedgerInv, BankTypeOK
    <2>2. ASSUME UNCHANGED bankSettlement PROVE Vouched
        BY <2>2
    <2>3. ASSUME BankStep, ~\E p \in Operators, x \in Transactions : Approve(p, x)
          PROVE  UNCHANGED bankSettlement
        BY <2>3 DEF BankStep, ChooseGateway, CreateRequest, WindowPasses, RequestSupport,
                    BankFulfillFails, CancelRequest, ExpireDue, QueryRequest, CloseRequest,
                    RecordStatement, OperatorChanges, statementVars
    <2>4. ASSUME NEW o \in BankOrders, FulfillAndConvert(o) PROVE UNCHANGED bankSettlement
        BY <2>4 DEF FulfillAndConvert, BankFulfill, statementVars
    <2>5. BankStep \/ (\E o \in BankOrders : FulfillAndConvert(o)) \/ UNCHANGED bankVars
        BY <1>1 DEF ReceiptsNext, SubmitReceipt, PutImage, AssessFails, ReadingStops, PutFails,
                    AssessImage, FinalizeClaim, LeasePasses, GiveUpReading, RetentionPasses,
                    RemoveImage, MarkDeleted, GrantForClaim, RevokeAccess, RestoreAccess, allBankVars
    <2> HIDE DEF Vouched
    <2> QED BY <2>1, <2>2, <2>3, <2>4, <2>5
<1> QED BY ReceiptsInvariant, <1>1, PTL DEF ReceiptsSpec, ConfirmedByActiveOperators

\* A delivered order has no provisional access left, and no decision about it is
\* taken once the money is confirmed (bank-receipt-access.service.ts).
THEOREM VerifiedEndsProvisionalHolds == ReceiptsSpec => VerifiedEndsProvisional
<1>1. ASSUME ReceiptsIInv, [ReceiptsNext]_allBankVars
      PROVE  \A o \in BankOrders :
                 /\ bankFulfillment'[o] = "fulfilled" => Latest(o)' \in {"NONE", "VERIFIED_PAID"}
                 /\ bankOrder[o] = "confirmed" /\ Latest(o)' # Latest(o) =>
                        bankFulfillment'[o] = "fulfilled"
    BY <1>1, EveryStep DEF ReceiptsIInv, AccessInv, DeliveredIsVerified
<1> QED BY ReceiptsInvariant, <1>1, PTL DEF ReceiptsSpec, VerifiedEndsProvisional

\* Both: who vouches for money is in office, and what delivery ends stays ended
\* (bank-transfer.service.ts approve, bank-receipt-access.service.ts).
THEOREM MoneyInStepsHolds == ReceiptsSpec => MoneyInSteps
BY ConfirmedByActiveOperatorsHolds, VerifiedEndsProvisionalHolds DEF MoneyInSteps

-----------------------------------------------------------------------------
(* Top-ups: the inductive invariant                                         *)

\* An unanswered event has attempts left.
AttemptsLeft == \A x \in Transfers :
    inbox[x] # None /\ inbox[x].status = "RECEIVED" => inbox[x].attempts < MaxAttempts

\* Events, deliveries and workers are about transfers that were made.
Linked ==
    /\ \A x \in Transfers : inbox[x] # None => transfer[x] # None
    /\ \A h \in Hooks : hook[h] # None => transfer[hook[h].event] # None
    /\ \A w \in Workers : worker[w] # None => inbox[worker[w].event] # None

\* A link with the full amount is not closed; closing leaves its mark.
CloseFacts == \A x \in Transfers : transfer[x] # None =>
    /\ transfer[x].afterClose => transfer[x].topup \in closed
    /\ transfer[x].exact /\ ~transfer[x].afterClose => transfer[x].topup \notin closed

\* What a worker has made sure of before it asks, and before it credits.
WorkerFacts == \A w \in Workers : worker[w] # None =>
    LET x == worker[w].event IN
    /\ worker[w].step \in {"query", "apply"} => transfer[x].exact /\ ~transfer[x].late
    /\ worker[w].step = "apply" => transfer[x].topup \notin closed

\* The link is closed before the cancellation is written, and no money came before.
ClosedUnpaid(t) == t \in closed /\ \A x \in Received(t) : transfer[x].afterClose

CancelFacts == \A c \in Cancels : At(cancel[c], "write") => ClosedUnpaid(cancel[c].topup)

Facts == Linked /\ CloseFacts /\ WorkerFacts /\ CancelFacts

TopupIInv == TypeOK /\ AttemptsLeft /\ Facts /\ CreditSound /\ CancelledUnpaid

-----------------------------------------------------------------------------
\* The initial states: nothing stored, nothing running.
LEMMA TopupIInvInit == Init => TopupIInv
BY NoneAssumption DEF Init, TopupIInv, TypeOK, AttemptsLeft, Facts, Linked, CloseFacts, WorkerFacts,
   CancelFacts, At, CreditSound, CancelledUnpaid

\* A stutter changes nothing.
LEMMA TopupIInvStutter == TopupIInv /\ UNCHANGED vars => TopupIInv'
BY DEF vars, payosVars, runVars, TopupIInv, TypeOK, AttemptsLeft, Facts, Linked, CloseFacts, WorkerFacts,
   CancelFacts, ClosedUnpaid, At, CreditSound, CancelledUnpaid, Stored, Received

\* New intents and the passing of time.
LEMMA TopupIInvIntent == \A t \in Topups :
    TopupIInv /\ (Prepare(t) \/ AttachCreatedLink(t) \/ ExpiryPasses(t)) => TopupIInv'
<1> SUFFICES ASSUME NEW t \in Topups, TopupIInv,
                    Prepare(t) \/ AttachCreatedLink(t) \/ ExpiryPasses(t)
             PROVE  TopupIInv'
    OBVIOUS
<1> USE DEF payosVars, runVars
<1>1. UNCHANGED <<inbox, journal, payosVars, runVars>>
    BY DEF Prepare, AttachCreatedLink, ExpiryPasses
<1>2. TypeOK'
    BY <1>1 DEF TopupIInv, TypeOK, Prepare, AttachCreatedLink, ExpiryPasses
<1>3. AttemptsLeft' /\ Facts'
    BY <1>1 DEF TopupIInv, AttemptsLeft, Facts, Linked, CloseFacts, WorkerFacts, CancelFacts,
       ClosedUnpaid, Received, At
<1>4. \A u \in Topups : /\ topup'[u] = "CREDITED" <=> topup[u] = "CREDITED"
                        /\ topup'[u] = "CANCELLED" <=> topup[u] = "CANCELLED"
    BY DEF TopupIInv, TypeOK, Prepare, AttachCreatedLink, ExpiryPasses
<1>5. CreditSound' /\ CancelledUnpaid'
    BY <1>1, <1>4 DEF TopupIInv, CreditSound, CancelledUnpaid, Stored, Received
<1> QED BY <1>2, <1>3, <1>5 DEF TopupIInv

\* A transfer knows whether its link was closed, and is in nobody's hands yet.
LEMMA TopupIInvTransfer ==
    ASSUME NEW t \in Topups, NEW x \in Transfers, NEW exact \in BOOLEAN, NEW historic \in BOOLEAN,
           TopupIInv, TransferArrives(x, t, exact, historic)
    PROVE  TopupIInv'
<1> USE DEF payosVars, runVars
<1> DEFINE fact == [topup |-> t, exact |-> exact, historic |-> historic,
                    late |-> t \in expired, afterClose |-> t \in closed]
<1>1. /\ transfer[x] = None /\ transfer' = [transfer EXCEPT ![x] = fact]
      /\ UNCHANGED <<topup, expired, inbox, journal, closed, accepted, runVars>>
    BY DEF TransferArrives
<1>2. TypeOK'
    BY <1>1 DEF TopupIInv, TypeOK
<1>3. \A y \in Transfers : transfer[y] # None => y # x /\ transfer'[y] = transfer[y]
    BY <1>1 DEF TopupIInv, TypeOK
<1>4. \A u \in Topups : \A y \in Received(u)' : y \in Received(u) \/ (y = x /\ u = t)
    BY <1>1 DEF TopupIInv, TypeOK, Received
<1>5. /\ transfer'[x] = fact
      /\ transfer'[x].topup = t /\ (transfer'[x].afterClose <=> t \in closed)
      /\ \A y \in Transfers \ {x} : transfer'[y] = transfer[y]
    BY <1>1 DEF TopupIInv, TypeOK
<1>6. Linked'
    BY <1>1, <1>3, <1>5 DEF TopupIInv, Facts, Linked, TypeOK
<1>7. CloseFacts'
    <2> SUFFICES ASSUME NEW y \in Transfers, transfer'[y] # None
                 PROVE  /\ transfer'[y].afterClose => transfer'[y].topup \in closed
                        /\ transfer'[y].exact /\ ~transfer'[y].afterClose
                              => transfer'[y].topup \notin closed
        BY <1>1 DEF CloseFacts
    <2>1. CASE y = x
        BY <2>1, <1>5
    <2>2. CASE y # x
        BY <2>2, <1>5 DEF TopupIInv, Facts, CloseFacts
    <2> QED BY <2>1, <2>2
<1>8. WorkerFacts'
    BY <1>1, <1>3 DEF TopupIInv, Facts, WorkerFacts, Linked, TypeOK
<1>9. \A u \in Topups : ClosedUnpaid(u) => ClosedUnpaid(u)'
    <2> SUFFICES ASSUME NEW u \in Topups, ClosedUnpaid(u), NEW y \in Received(u)'
                 PROVE  transfer'[y].afterClose
        BY <1>1 DEF ClosedUnpaid
    <2>1. CASE y \in Received(u)
        BY <2>1, <1>3 DEF ClosedUnpaid, Received
    <2>2. CASE y = x /\ u = t
        BY <2>2, <1>5 DEF ClosedUnpaid
    <2> QED BY <2>1, <2>2, <1>4
<1>10. CancelFacts'
    BY <1>1, <1>9 DEF TopupIInv, Facts, CancelFacts, TypeOK, At
<1>11. CancelledUnpaid'
    BY <1>1, <1>9 DEF TopupIInv, CancelledUnpaid, ClosedUnpaid
<1>12. CreditSound'
    BY <1>1, <1>3 DEF TopupIInv, CreditSound, Stored, Received
<1>13. AttemptsLeft'
    BY <1>1 DEF TopupIInv, AttemptsLeft
<1> QED BY <1>2, <1>6, <1>7, <1>8, <1>10, <1>11, <1>12, <1>13 DEF TopupIInv, Facts

-----------------------------------------------------------------------------
\* The steps of a cancellation that only look, and its end.
LEMMA TopupIInvCancel == ASSUME NEW c \in Cancels, TopupIInv,
    \/ \E t \in Topups : CancelRead(c, t)
    \/ CancelRetrieve(c) \/ CancelStops(c)
    PROVE TopupIInv'
<1> USE DEF payosVars, CancelGoes, CancelEnds, At
<1>1. UNCHANGED <<topup, expired, inbox, journal, payosVars, hook, worker>>
    BY DEF CancelRead, CancelRetrieve, CancelStops
<1>2. TypeOK'
    BY <1>1 DEF TopupIInv, TypeOK, CancelRead, CancelRetrieve, CancelStops
<1>3. /\ AttemptsLeft' /\ Linked' /\ CloseFacts' /\ WorkerFacts'
      /\ CreditSound' /\ CancelledUnpaid'
    BY <1>1 DEF TopupIInv, Facts, AttemptsLeft, Linked, CloseFacts, WorkerFacts,
       CreditSound, CancelledUnpaid, Stored, Received
<1>4. CancelFacts'
    BY <1>1 DEF TopupIInv, TypeOK, Facts, CancelFacts, ClosedUnpaid, Received,
       CancelRead, CancelRetrieve, CancelStops
<1> QED BY <1>2, <1>3, <1>4 DEF TopupIInv, Facts

\* PayOS closes a link only while it does not hold the full amount for it.
LEMMA TopupIInvCancelRemote == ASSUME NEW c \in Cancels, TopupIInv, CancelRemote(c) PROVE TopupIInv'
<1> USE DEF CancelGoes, CancelEnds, At
<1> DEFINE t == cancel[c].topup
<1>1. /\ t \in Topups /\ closed' = closed \cup {t}
      /\ ~\E x \in Received(t) : transfer[x].exact
      /\ UNCHANGED <<topup, expired, inbox, journal, transfer, accepted, hook, worker>>
    BY DEF CancelRemote, TopupIInv, TypeOK
<1>2. TypeOK'
    BY <1>1 DEF TopupIInv, TypeOK, CancelRemote
<1>3. AttemptsLeft' /\ Linked'
    BY <1>1 DEF TopupIInv, Facts, AttemptsLeft, Linked
<1>4. \A x \in Transfers : transfer[x] # None /\ transfer[x].exact => transfer[x].topup # t
    BY <1>1 DEF Received
<1>5. CloseFacts'
    BY <1>1, <1>4 DEF TopupIInv, Facts, CloseFacts
<1>6. WorkerFacts'
    BY <1>1, <1>4 DEF TopupIInv, TypeOK, Facts, WorkerFacts, Linked
<1>7. CancelFacts'
    BY <1>1 DEF TopupIInv, TypeOK, Facts, CancelFacts, ClosedUnpaid, Received, CancelRemote, RequireUnpaid
<1>8. CreditSound'
    BY <1>1, <1>4 DEF TopupIInv, CreditSound, Stored, Received
<1>9. CancelledUnpaid'
    BY <1>1 DEF TopupIInv, CancelledUnpaid, Received
<1> QED BY <1>2, <1>3, <1>5, <1>6, <1>7, <1>8, <1>9 DEF TopupIInv, Facts

\* A cancellation is written only once PayOS has said that it holds nothing.
LEMMA TopupIInvCancelWrite == ASSUME NEW c \in Cancels, TopupIInv, CancelWrite(c) PROVE TopupIInv'
<1> USE DEF payosVars, CancelEnds, At
<1> DEFINE t == cancel[c].topup
<1>1. /\ t \in Topups /\ ClosedUnpaid(t)
      /\ UNCHANGED <<expired, inbox, journal, payosVars, hook, worker>>
    BY DEF CancelWrite, TopupIInv, TypeOK, Facts, CancelFacts
<1>2. \/ topup' = topup
      \/ Writable(t) /\ topup' = [topup EXCEPT ![t] = "CANCELLED"]
    BY DEF CancelWrite
<1>3. TypeOK'
    BY <1>1, <1>2 DEF TopupIInv, TypeOK, CancelWrite
<1>4. AttemptsLeft' /\ Linked' /\ CloseFacts' /\ WorkerFacts'
    BY <1>1 DEF TopupIInv, Facts, AttemptsLeft, Linked, CloseFacts, WorkerFacts
<1>5. CancelFacts'
    BY <1>1 DEF TopupIInv, TypeOK, Facts, CancelFacts, ClosedUnpaid, Received, CancelWrite
<1>6. CreditSound'
    BY <1>1, <1>2 DEF TopupIInv, TypeOK, CreditSound, Stored, Received, Writable
<1>7. CancelledUnpaid'
    BY <1>1, <1>2 DEF TopupIInv, TypeOK, CancelledUnpaid, ClosedUnpaid, Received
<1> QED BY <1>3, <1>4, <1>5, <1>6, <1>7 DEF TopupIInv, Facts

-----------------------------------------------------------------------------
\* A delivery is stored as read, whatever happened to the intent meanwhile.
LEMMA TopupIInvHook == TopupIInv /\ HookNext => TopupIInv'
<1> SUFFICES ASSUME TopupIInv, NEW h \in Hooks,
                    \/ \E x \in Transfers : HookRead(h, x)
                    \/ HookStore(h) \/ HookStops(h)
             PROVE  TopupIInv'
    BY DEF HookNext
<1> USE DEF payosVars
<1>1. CASE (\E x \in Transfers : HookRead(h, x)) \/ HookStops(h)
  <2>1. UNCHANGED <<topup, expired, inbox, journal, payosVars, cancel, worker>>
      BY <1>1 DEF HookRead, HookStops
  <2>2. TypeOK' /\ Linked'
    <3>1. \A x \in Transfers : WrongIdentity(x) \in BOOLEAN
        BY DEF WrongIdentity, TopupIInv, TypeOK
    <3>2. CASE HookStops(h)
        BY <2>1, <3>2 DEF TopupIInv, TypeOK, Facts, Linked, HookStops
    <3>3. CASE \E x \in Transfers : HookRead(h, x)
      <4>1. PICK x \in Transfers : HookRead(h, x)
          BY <3>3
      <4>2. /\ hook'[h].event = x /\ transfer[x] # None
            /\ \A g \in Hooks \ {h} : hook'[g] = hook[g]
          BY <4>1 DEF HookRead, TopupIInv, TypeOK
      <4>3. hook' \in [Hooks -> {None} \cup [event : Transfers, review : BOOLEAN]]
          BY <3>1, <4>1 DEF HookRead, TopupIInv, TypeOK
      <4> QED BY <2>1, <4>2, <4>3 DEF TopupIInv, TypeOK, Facts, Linked
    <3> QED BY <1>1, <3>2, <3>3
  <2>3. /\ AttemptsLeft' /\ CloseFacts' /\ WorkerFacts' /\ CancelFacts'
        /\ CreditSound' /\ CancelledUnpaid'
      BY <2>1 DEF TopupIInv, Facts, AttemptsLeft, CloseFacts, WorkerFacts, CancelFacts, ClosedUnpaid,
         At, CreditSound, CancelledUnpaid, Stored, Received
  <2> QED BY <2>2, <2>3 DEF TopupIInv, Facts
<1>2. CASE HookStore(h)
  <2> DEFINE x == hook[h].event
  <2> DEFINE row == [status |-> IF hook[h].review THEN "REVIEW" ELSE "RECEIVED",
                     reason |-> IF hook[h].review THEN "identity" ELSE "none", attempts |-> 0]
  <2>0. row \in InboxRows /\ row.attempts = 0
      BY AttemptsAssumption DEF InboxRows
  <2>1. /\ x \in Transfers /\ transfer[x] # None
        /\ inbox' = inbox \/ (inbox[x] = None /\ inbox' = [inbox EXCEPT ![x] = row])
        /\ UNCHANGED <<topup, expired, journal, closed, transfer, cancel, worker>>
      BY <1>2 DEF HookStore, StoresFirst, TopupIInv, TypeOK, Facts, Linked
  <2> HIDE DEF row
  <2>2. TypeOK'
    <3>1. inbox' \in [Transfers -> {None} \cup InboxRows]
        BY <2>0, <2>1 DEF TopupIInv, TypeOK
    <3>2. accepted' = accepted \cup {x} /\ hook' = [hook EXCEPT ![h] = None]
        BY <1>2 DEF HookStore
    <3>3. /\ accepted' \subseteq Transfers
          /\ hook' \in [Hooks -> {None} \cup [event : Transfers, review : BOOLEAN]]
        BY <3>2, <2>1 DEF TopupIInv, TypeOK
    <3> QED BY <2>1, <3>1, <3>3 DEF TopupIInv, TypeOK
  <2>3. \A y \in Transfers :
           /\ inbox[y] # None => inbox'[y] = inbox[y]
           /\ y # x => inbox'[y] = inbox[y]
           /\ inbox'[x] = inbox[x] \/ inbox'[x] = row
      BY <2>1 DEF TopupIInv, TypeOK
  <2>4. hook' = [hook EXCEPT ![h] = None]
      BY <1>2 DEF HookStore
  <2>5. Linked'
    <3>1. ASSUME NEW y \in Transfers, inbox'[y] # None PROVE transfer'[y] # None
      <4>1. CASE y = x
          BY <2>1, <4>1
      <4>2. CASE y # x
          BY <2>1, <2>3, <3>1, <4>2 DEF TopupIInv, Facts, Linked
      <4> QED BY <4>1, <4>2
    <3>2. \A g \in Hooks : hook'[g] # None => transfer'[hook'[g].event] # None
        BY <2>1, <2>4 DEF TopupIInv, TypeOK, Facts, Linked
    <3>3. \A v \in Workers : worker'[v] # None => inbox'[worker'[v].event] # None
        BY <2>1, <2>3 DEF TopupIInv, TypeOK, Facts, Linked
    <3> QED BY <3>1, <3>2, <3>3 DEF Linked
  <2>6. AttemptsLeft'
    <3> SUFFICES ASSUME NEW y \in Transfers, inbox'[y] # None, inbox'[y].status = "RECEIVED"
                 PROVE  inbox'[y].attempts < MaxAttempts
        BY DEF AttemptsLeft
    <3>1. CASE inbox'[y] = inbox[y]
        BY <3>1 DEF TopupIInv, AttemptsLeft
    <3>2. CASE inbox'[y] = row
        BY <2>0, <3>2, AttemptsAssumption
    <3> QED BY <2>3, <3>1, <3>2
  <2>7. CloseFacts' /\ WorkerFacts' /\ CancelFacts' /\ CancelledUnpaid'
      BY <2>1 DEF TopupIInv, Facts, CloseFacts, WorkerFacts, CancelFacts, ClosedUnpaid, At,
         CancelledUnpaid, Received
  <2>8. CreditSound'
      BY <2>1, <2>3 DEF TopupIInv, TypeOK, CreditSound, Stored, Received
  <2> QED BY <2>2, <2>5, <2>6, <2>7, <2>8 DEF TopupIInv, Facts
<1> QED BY <1>1, <1>2

-----------------------------------------------------------------------------
\* A worker reads, asks PayOS or stops: nothing is written.
LEMMA TopupIInvWorkAsk == ASSUME NEW w \in Workers, TopupIInv,
    \/ \E x \in Transfers, recovery \in BOOLEAN : WorkRead(w, x, recovery)
    \/ \E reachable \in BOOLEAN : WorkQuery(w, reachable)
    \/ WorkStops(w)
    PROVE TopupIInv'
<1> USE DEF payosVars, WorkGoes, WorkEnds, At
<1>1. UNCHANGED <<topup, expired, inbox, journal, payosVars, cancel, hook>>
    BY DEF WorkRead, WorkQuery, WorkStops
<1>2. TypeOK' /\ Linked'
    BY <1>1 DEF TopupIInv, TypeOK, Facts, Linked, WorkRead, WorkQuery, WorkStops, Eligible
<1>3. WorkerFacts'
    BY <1>1 DEF TopupIInv, TypeOK, Facts, WorkerFacts, WorkRead, WorkQuery, WorkStops,
       Reconcilable, Reconciled
<1>4. /\ AttemptsLeft' /\ CloseFacts' /\ CancelFacts'
      /\ CreditSound' /\ CancelledUnpaid'
    BY <1>1 DEF TopupIInv, Facts, AttemptsLeft, CloseFacts, CancelFacts, ClosedUnpaid,
       CreditSound, CancelledUnpaid, Stored, Received
<1> QED BY <1>2, <1>3, <1>4 DEF TopupIInv, Facts

\* The inbox row of the event at hand changes, or not; rows are never removed.
LEMMA TopupIInvWorkWrite == ASSUME NEW w \in Workers, TopupIInv, WorkDefer(w) \/ WorkReject(w) PROVE TopupIInv'
<1> USE DEF payosVars, WorkEnds, At
<1> DEFINE x == worker[w].event
<1>1. /\ x \in Transfers /\ inbox[x] \in InboxRows
      /\ UNCHANGED <<topup, expired, journal, payosVars, cancel, hook>>
      /\ worker' = [worker EXCEPT ![w] = None]
    BY DEF WorkDefer, WorkReject, TopupIInv, TypeOK, Facts, Linked
<1>2. /\ inbox' \in [Transfers -> {None} \cup InboxRows]
      /\ inbox'[x] \in InboxRows
      /\ \A y \in Transfers \ {x} : inbox'[y] = inbox[y]
      /\ inbox'[x].status = "RECEIVED" => inbox'[x].attempts < MaxAttempts
    BY <1>1, AttemptsAssumption, NoneAssumption
       DEF TopupIInv, TypeOK, AttemptsLeft, InboxRows, WorkDefer, WorkReject, Exhausted, Open
<1>3. TypeOK'
    BY <1>1, <1>2 DEF TopupIInv, TypeOK
<1>4. AttemptsLeft'
    BY <1>2 DEF TopupIInv, AttemptsLeft
<1>5. \A y \in Transfers : inbox'[y] # None <=> inbox[y] # None
    BY <1>1, <1>2, NoneAssumption
<1>6. /\ Linked' /\ CloseFacts' /\ WorkerFacts' /\ CancelFacts'
    BY <1>1, <1>5 DEF TopupIInv, TypeOK, Facts, Linked, CloseFacts, WorkerFacts, CancelFacts,
       ClosedUnpaid, Received
<1>7. CreditSound' /\ CancelledUnpaid'
    BY <1>1, <1>5 DEF TopupIInv, TypeOK, CreditSound, CancelledUnpaid, Stored, Received
<1> QED BY <1>3, <1>4, <1>6, <1>7 DEF TopupIInv, Facts

\* The credit: what the worker learned still holds, so the transfer is sound.
LEMMA TopupIInvWorkApply == ASSUME NEW w \in Workers, TopupIInv, WorkApply(w) PROVE TopupIInv'
<1> USE DEF payosVars, WorkEnds, WorkGoes, At
<1> DEFINE x == worker[w].event
           t == transfer[x].topup
<1>1. /\ worker[w] # None /\ x \in Transfers /\ inbox[x] \in InboxRows
      /\ transfer[x] # None /\ t \in Topups
      /\ transfer[x].exact /\ ~transfer[x].late /\ ~transfer[x].afterClose /\ t \notin closed
      /\ UNCHANGED <<expired, closed, transfer, accepted, cancel, hook>>
    BY DEF WorkApply, TopupIInv, TypeOK, Facts, Linked, CloseFacts, WorkerFacts
<1>2. CASE UNCHANGED <<topup, inbox, journal>>
  <2>1. worker' = [worker EXCEPT ![w] = None] \/ worker' = [worker EXCEPT ![w].step = "reject"]
      BY <1>2 DEF WorkApply
  <2>2. TypeOK'
      BY <1>1, <1>2, <2>1 DEF TopupIInv, TypeOK
  <2>3. /\ \A v \in Workers : worker'[v] # None => worker[v] # None /\ worker'[v].event = worker[v].event
        /\ \A v \in Workers : worker'[v] # None => worker'[v].step \in {worker[v].step, "reject"}
      BY <1>1, <2>1 DEF TopupIInv, TypeOK
  <2>4. Linked' /\ WorkerFacts'
      BY <1>1, <1>2, <2>3 DEF TopupIInv, Facts, Linked, WorkerFacts
  <2>5. AttemptsLeft' /\ CloseFacts' /\ CancelFacts' /\ CreditSound' /\ CancelledUnpaid'
      BY <1>1, <1>2 DEF TopupIInv, Facts, AttemptsLeft, CloseFacts, CancelFacts, ClosedUnpaid,
         CreditSound, CancelledUnpaid, Stored, Received
  <2> QED BY <2>2, <2>4, <2>5 DEF TopupIInv, Facts
<1>3. CASE /\ topup' = [topup EXCEPT ![t] = "CREDITED"]
           /\ journal' = [journal EXCEPT ![t] = x]
           /\ inbox' = Acknowledged(x)
           /\ worker' = [worker EXCEPT ![w] = None]
  <2>1. /\ inbox' \in [Transfers -> {None} \cup InboxRows]
        /\ inbox'[x] \in InboxRows
        /\ \A y \in Transfers \ {x} : inbox'[y] = inbox[y]
        /\ inbox'[x].status # "RECEIVED"
      BY <1>1, <1>3, AttemptsAssumption
         DEF Acknowledged, Open, InboxRows, TopupIInv, TypeOK, AttemptsLeft
  <2>2. TypeOK'
      BY <1>1, <1>3, <2>1 DEF TopupIInv, TypeOK
  <2>3. AttemptsLeft'
      BY <2>1 DEF TopupIInv, AttemptsLeft
  <2>4. \A y \in Transfers : inbox'[y] # None <=> inbox[y] # None
      BY <1>1, <2>1, NoneAssumption
  <2>5. Linked' /\ CloseFacts' /\ WorkerFacts' /\ CancelFacts'
      BY <1>1, <1>3, <2>4 DEF TopupIInv, TypeOK, Facts, Linked, CloseFacts, WorkerFacts, CancelFacts,
         ClosedUnpaid, Received
  <2>6. CreditSound'
      BY <1>1, <1>3, <2>1, <2>4, NoneAssumption DEF TopupIInv, TypeOK, CreditSound, Stored, Received
  <2>7. CancelledUnpaid'
      BY <1>1, <1>3 DEF TopupIInv, TypeOK, CancelledUnpaid, Received
  <2> QED BY <2>2, <2>3, <2>5, <2>6, <2>7 DEF TopupIInv, Facts
<1> QED BY <1>2, <1>3 DEF WorkApply

-----------------------------------------------------------------------------
\* Every step is one of those above.
LEMMA TopupIInvStep == TopupIInv /\ [Next]_vars => TopupIInv'
<1> SUFFICES ASSUME TopupIInv, [Next]_vars PROVE TopupIInv'
    OBVIOUS
<1>1. CASE IntentNext
    BY <1>1, TopupIInvIntent, TopupIInvTransfer DEF IntentNext
<1>2. CASE CancelNext
    BY <1>2, TopupIInvCancel, TopupIInvCancelRemote, TopupIInvCancelWrite DEF CancelNext
<1>3. CASE HookNext
    BY <1>3, TopupIInvHook
<1>4. CASE WorkNext
    BY <1>4, TopupIInvWorkAsk, TopupIInvWorkApply, TopupIInvWorkWrite DEF WorkNext
<1>5. CASE UNCHANGED vars
    BY <1>5, TopupIInvStutter
<1> QED BY <1>1, <1>2, <1>3, <1>4, <1>5 DEF Next

\* A wallet is credited only for a transfer of the full amount, in time, to a link
\* that stays open for ever: cancellation and credit exclude each other although
\* neither holds a lock while it talks to PayOS.
THEOREM CreditSoundHolds == Spec => []CreditSound
<1>1. TopupIInv => CreditSound
    BY DEF TopupIInv
<1> QED BY TopupIInvInit, TopupIInvStep, <1>1, PTL DEF Spec

\* A cancelled intent has a closed link and no money from before it was closed.
THEOREM CancelledUnpaidHolds == Spec => []CancelledUnpaid
<1>1. TopupIInv => CancelledUnpaid
    BY DEF TopupIInv
<1> QED BY TopupIInvInit, TopupIInvStep, <1>1, PTL DEF Spec

\* Every variable keeps its type; an event never has more attempts than allowed.
THEOREM TopupTypeOK == Spec => []TypeOK
<1>1. TopupIInv => TypeOK
    BY DEF TopupIInv
<1> QED BY TopupIInvInit, TopupIInvStep, <1>1, PTL DEF Spec

\* The three together: the claim the run checks of the top-ups.
THEOREM TopupsSoundHolds == Spec => []TopupsSound
<1>1. TopupIInv => TopupsSound
    BY DEF TopupIInv, TopupsSound
<1> QED BY TopupIInvInit, TopupIInvStep, <1>1, PTL DEF Spec

================================================================================
