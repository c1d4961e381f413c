---------------------------- MODULE BankReceipts ----------------------------
(***************************************************************************)
(* Receipts of bank transfers: a buyer uploads an image, a reader that     *)
(* runs outside any transaction assesses it, and a claim that matches      *)
(* opens provisional access to what was ordered, which operators may       *)
(* revoke and restore and which the confirmed payment replaces.  Images    *)
(* are removed when their retention is over.  BankTransfer is the ledger   *)
(* of orders, requests and operators that all of this shares.              *)
(***************************************************************************)
EXTENDS BankTransfer, Sequences

CONSTANTS
    Images,         \* receipt images; one claim each, at most
    TransferCodes,  \* transaction identities an image may show
    ReceiptLimit,   \* claims per order (3)
    MaxGenerations  \* bound: provisional accesses of an order

\* A generation is the buyer's or some operator's.
ASSUME ReceiptsAssumption == MaxGenerations \in Nat /\ "buyer" \notin Operators

VARIABLES
    claim,         \* commerce_bank_receipt_claims by image
    reading,       \* the upload that is being served for an image
    leaseOver,     \* images whose processing_expires_at has passed
    retentionOver, \* images whose expires_at has passed
    stored,        \* image files in the private storage
    imageDeleted,  \* claims with image_deleted_at
    generations,   \* commerce_receipt_access_generations by order
    provisional    \* <<order, generation>> pairs whose grants are active

receiptVars == <<claim, reading, leaseOver, retentionOver, stored, imageDeleted>>
accessVars == <<generations, provisional>>
allBankVars == <<bankVars, receiptVars, accessVars>>

NoClaim == [status |-> "none", order |-> "none", code |-> "none"]

Idle == [step |-> "idle", fits |-> FALSE, code |-> "none"]

ReceiptsInit ==
    /\ BankInit
    /\ claim = [i \in Images |-> NoClaim]
    /\ reading = [i \in Images |-> Idle]
    /\ leaseOver = {} /\ retentionOver = {} /\ stored = {} /\ imageDeleted = {}
    /\ generations = [o \in BankOrders |-> <<>>]
    /\ provisional = {}

-----------------------------------------------------------------------------
(* Upload and assessment                                                   *)

InWindow(o) == bankOrder[o] = "pending_payment" /\ IsOpen(o) /\ o \notin windowOver

ClaimsOf(o) == {i \in Images : claim[i].order = o}

\* The claim, in a transaction of its own; an image is taken once, by any order.
SubmitReceipt(i, o) ==
    /\ claim[i] = NoClaim
    /\ InWindow(o)
    /\ Cardinality(ClaimsOf(o)) < ReceiptLimit
    /\ claim' = [claim EXCEPT ![i] = [status |-> "PROCESSING", order |-> o, code |-> "none"]]
    /\ reading' = [reading EXCEPT ![i].step = "put"]
    /\ UNCHANGED <<bankVars, leaseOver, retentionOver, stored, imageDeleted, accessVars>>

Reading(i, step) == reading[i].step = step

PutImage(i) ==
    /\ Reading(i, "put")
    /\ stored' = stored \cup {i}
    /\ reading' = [reading EXCEPT ![i].step = "assess"]
    /\ UNCHANGED <<bankVars, claim, leaseOver, retentionOver, imageDeleted, accessVars>>

\* What the reader made of the image: whether all but the transaction's identity
\* agrees with the request, and that identity when it is legible.
AssessImage(i, fits, code) ==
    /\ Reading(i, "assess")
    /\ reading' = [reading EXCEPT ![i] = [step |-> "read", fits |-> fits, code |-> code]]
    /\ UNCHANGED <<bankVars, claim, leaseOver, retentionOver, stored, imageDeleted, accessVars>>

\* The write fails, and may leave a part of the file.
PutFails(i, part) ==
    /\ Reading(i, "put")
    /\ stored' = IF part THEN stored \cup {i} ELSE stored
    /\ reading' = [reading EXCEPT ![i].step = "failed"]
    /\ UNCHANGED <<bankVars, claim, leaseOver, retentionOver, imageDeleted, accessVars>>

\* The reader is busy, times out or finds nothing.
AssessFails(i) ==
    /\ Reading(i, "assess")
    /\ reading' = [reading EXCEPT ![i].step = "failed"]
    /\ UNCHANGED <<bankVars, claim, leaseOver, retentionOver, stored, imageDeleted, accessVars>>

ReadingStops(i) ==
    /\ ~Reading(i, "idle")
    /\ reading' = [reading EXCEPT ![i] = Idle]
    /\ UNCHANGED <<bankVars, claim, leaseOver, retentionOver, stored, imageDeleted, accessVars>>

\* Mutant: only other claims of the same order are looked at.
CodeTakenHere(i, code) == \E j \in Images \ {i} : claim[j].code = code /\ claim[j].order = claim[i].order

\* transactionKeyHash, unique over all claims.
CodeTaken(i, code) == \E j \in Images \ {i} : claim[j].code = code

\* assessReceiptClaim, the order, its window and the lease, all at the time of writing.
ClaimStatus(i, reused) ==
    IF reading[i].fits /\ ~reused /\ InWindow(claim[i].order) /\ i \notin leaseOver
    THEN "MATCHED_CLAIM" ELSE "REVIEW_REQUIRED"

\* finalize: an assessment is written once.
FinalizeClaim(i) ==
    LET code == reading[i].code
        reused == code # "none" /\ CodeTaken(i, code)
        assessed == IF Reading(i, "failed") THEN [claim[i] EXCEPT !.status = "OCR_FAILED"]
                    ELSE [claim[i] EXCEPT !.status = ClaimStatus(i, reused),
                                          !.code = IF reused THEN "none" ELSE code]
    IN /\ reading[i].step \in {"read", "failed"}
       /\ claim' = IF claim[i].status = "PROCESSING" THEN [claim EXCEPT ![i] = assessed] ELSE claim
       /\ reading' = [reading EXCEPT ![i] = Idle]
       /\ UNCHANGED <<bankVars, leaseOver, retentionOver, stored, imageDeleted, accessVars>>

LeasePasses(i) ==
    /\ claim[i] # NoClaim /\ i \notin leaseOver
    /\ leaseOver' = leaseOver \cup {i}
    /\ UNCHANGED <<bankVars, claim, reading, retentionOver, stored, imageDeleted, accessVars>>

\* expireProcessing: whoever reads a claim after its lease gives the reading up.
GiveUpReading(i) ==
    /\ claim[i].status = "PROCESSING" /\ i \in leaseOver
    /\ claim' = [claim EXCEPT ![i].status = "OCR_FAILED"]
    /\ UNCHANGED <<bankVars, reading, leaseOver, retentionOver, stored, imageDeleted, accessVars>>

-----------------------------------------------------------------------------
(* Retention: the file is removed first, then the claim is marked.  An     *)
(* upload is over long before the 24 hours of its image are.               *)

RetentionPasses(i) ==
    /\ i \in leaseOver /\ i \notin retentionOver /\ Reading(i, "idle")
    /\ claim[i].order \in windowOver
    /\ retentionOver' = retentionOver \cup {i}
    /\ UNCHANGED <<bankVars, claim, reading, leaseOver, stored, imageDeleted, accessVars>>

RemoveImage(i) ==
    /\ i \in (retentionOver \cap stored) \ imageDeleted
    /\ stored' = stored \ {i}
    /\ UNCHANGED <<bankVars, claim, reading, leaseOver, retentionOver, imageDeleted, accessVars>>

\* Mutant: the claim is marked before the file is removed.
FileGoneLater(i) == TRUE

FileGone(i) == i \notin stored

MarkDeleted(i) ==
    /\ i \in retentionOver \ imageDeleted
    /\ FileGone(i)
    /\ imageDeleted' = imageDeleted \cup {i}
    /\ UNCHANGED <<bankVars, claim, reading, leaseOver, retentionOver, stored, accessVars>>

-----------------------------------------------------------------------------
(* Provisional access                                                      *)

Latest(o) == IF generations[o] = <<>> THEN "NONE" ELSE generations[o][Len(generations[o])].status

ReceiptEligible(i) ==
    /\ claim[i].status = "MATCHED_CLAIM"
    /\ i \notin retentionOver
    /\ InWindow(claim[i].order)

CreateGeneration(o, by) ==
    /\ Len(generations[o]) < MaxGenerations
    /\ generations' = [generations EXCEPT ![o] = Append(@, [status |-> "ACCESS_UNVERIFIED", by |-> by])]
    /\ provisional' = provisional \cup {<<o, Len(generations[o]) + 1>>}

\* Mutant: a matching image opens access whenever there is none.
FirstAccessAgain(o) == Latest(o) # "ACCESS_UNVERIFIED"

\* A second screenshot is never permission to restore a revoked generation.
FirstAccess(o) == generations[o] = <<>>

\* grantForClaim, after the upload or a repetition of it.
GrantForClaim(i) ==
    /\ claim[i] # NoClaim
    /\ FirstAccess(claim[i].order)
    /\ ReceiptEligible(i)
    /\ CreateGeneration(claim[i].order, "buyer")
    /\ UNCHANGED <<bankVars, receiptVars>>

\* Mutant: the grants of the generation stay.
RetiredNothing(o) == {}

RetiredEffects(o) == {<<o, Len(generations[o])>>}

\* The latest generation gets its final status and its grants end.
CloseGeneration(o, as) ==
    /\ generations' = [generations EXCEPT ![o][Len(generations[o])].status = as]
    /\ provisional' = provisional \ RetiredEffects(o)

\* Mutant: a confirmed order that is not fulfilled yet is still open to operators.
UnverifiedLater(o) == bankFulfillment[o] # "fulfilled"

Unverified(o) == bankOrder[o] # "confirmed"

RevokeAccess(p, o) ==
    /\ p \in activeOperators /\ ClaimsOf(o) # {}
    /\ Unverified(o)
    /\ Latest(o) = "ACCESS_UNVERIFIED"
    /\ CloseGeneration(o, "REVOKED")
    /\ UNCHANGED <<bankVars, receiptVars>>

RestoreAccess(p, i) ==
    LET o == claim[i].order IN
    /\ p \in activeOperators /\ claim[i] # NoClaim
    /\ Latest(o) = "REVOKED"
    /\ ReceiptEligible(i)
    /\ CreateGeneration(o, p)
    /\ UNCHANGED <<bankVars, receiptVars>>

\* convertForPaidOrder, inside the fulfillment: paid grants replace the provisional.
FulfillAndConvert(o) ==
    /\ BankFulfill(o)
    /\ IF generations[o] = <<>> THEN UNCHANGED accessVars ELSE CloseGeneration(o, "VERIFIED_PAID")
    /\ UNCHANGED receiptVars

-----------------------------------------------------------------------------

BankStep ==
    \/ \E o \in BankOrders : ChooseGateway(o) \/ CreateRequest(o) \/ WindowPasses(o) \/ RequestSupport(o)
                             \/ BankFulfillFails(o)
    \/ \E o \in BankOrders : CancelRequest(o) \/ ExpireDue(o) \/ QueryRequest(o)
    \/ \E p \in Operators, x \in Transactions, o \in BankOrders, flaw \in {"none", "MISMATCH"} :
           RecordStatement(p, x, o, flaw)
    \/ \E p \in Operators, x \in Transactions : Approve(p, x)
    \/ \E p \in Operators : OperatorChanges(p)

ReceiptsNext ==
    \/ BankStep /\ UNCHANGED <<receiptVars, accessVars>>
    \/ \E o \in BankOrders : FulfillAndConvert(o)
    \/ \E i \in Images, o \in BankOrders : SubmitReceipt(i, o)
    \/ \E i \in Images, fits \in BOOLEAN, code \in TransferCodes \cup {"none"} : AssessImage(i, fits, code)
    \/ \E i \in Images, part \in BOOLEAN : PutFails(i, part)
    \/ \E i \in Images : PutImage(i) \/ AssessFails(i) \/ ReadingStops(i) \/ FinalizeClaim(i)
                         \/ LeasePasses(i) \/ GiveUpReading(i) \/ RetentionPasses(i)
                         \/ RemoveImage(i) \/ MarkDeleted(i) \/ GrantForClaim(i)
    \/ \E p \in Operators, o \in BankOrders : RevokeAccess(p, o)
    \/ \E p \in Operators, i \in Images : RestoreAccess(p, i)

ReceiptsSpec == ReceiptsInit /\ [][ReceiptsNext]_allBankVars

-----------------------------------------------------------------------------
(* Properties                                                              *)

ReceiptsTypeOK ==
    /\ BankTypeOK
    /\ claim \in [Images -> [status : {"none", "PROCESSING", "MATCHED_CLAIM", "REVIEW_REQUIRED", "OCR_FAILED"},
                             order : BankOrders \cup {"none"}, code : TransferCodes \cup {"none"}]]
    /\ leaseOver \cup retentionOver \cup stored \cup imageDeleted \subseteq Images
    /\ \A o \in BankOrders : Len(generations[o]) <= MaxGenerations
    /\ provisional \subseteq BankOrders \X (1 .. MaxGenerations)

\* What is open to a buyer without proof is exactly the latest generation while it
\* is unverified: nothing outlives a revocation, a restoration or the payment
\* (bank-receipt-access.service.ts:73, 97).
ProvisionalIsLatest ==
    provisional = {<<o, Len(generations[o])>> :
                       o \in {b \in BankOrders : Latest(b) = "ACCESS_UNVERIFIED"}}

\* The buyer's images open access once; every later generation is an operator's
\* (bank-receipt-access.service.ts:28).
RestoredByOperators ==
    \A o \in BankOrders : \A g \in DOMAIN generations[o] : generations[o][g].by = "buyer" <=> g = 1

\* A delivered order has no provisional access left, and no decision about it is
\* taken once the money is confirmed (bank-receipt-access.service.ts:92).
VerifiedEndsProvisional ==
    [][\A o \in BankOrders :
           /\ bankFulfillment'[o] = "fulfilled" => Latest(o)' \in {"NONE", "VERIFIED_PAID"}
           /\ bankOrder[o] = "confirmed" /\ Latest(o)' # Latest(o) => bankFulfillment'[o] = "fulfilled"]_allBankVars

\* What is vouched for is vouched for by operators in office, and what it ends stays ended.
MoneyInSteps == ConfirmedByActiveOperators /\ VerifiedEndsProvisional

\* Two claims that match never show one transfer, whichever orders they are for and
\* in whichever order their readings end (bank-transfer-receipt.service.ts:72).
TransferClaimedOnce ==
    \A i, j \in Images :
        i # j /\ claim[i].status = "MATCHED_CLAIM" /\ claim[j].status = "MATCHED_CLAIM"
            => claim[i].code = "none" \/ claim[i].code # claim[j].code

\* A claim whose image is recorded as removed has no file
\* (bank-transfer-receipt.service.ts:153).
DeletedIsGone == imageDeleted \cap stored = {}

\* Images, claims and generations of provisional access agree, however readings,
\* clean-ups and operators cross.
ReceiptsConsistent ==
    /\ ReceiptsTypeOK
    /\ ProvisionalIsLatest /\ RestoredByOperators
    /\ TransferClaimedOnce /\ DeletedIsGone
=============================================================================
