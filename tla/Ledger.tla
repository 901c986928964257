------------------------------- MODULE Ledger -------------------------------
(***************************************************************************)
(* The simulated supply-chain ledger: the world state of assets, document  *)
(* anchors and provenance edges, the validation rules a command must pass, *)
(* the event each accepted command applies to the world, and the queue of  *)
(* ordered transactions that the ordering service seals into blocks.       *)
(*                                                                         *)
(* One call of SimulatedLedger.submitCommand is one step: it either        *)
(* records a REJECTED transaction and leaves the world alone, or applies   *)
(* the command's event, records an ORDERED transaction and seals when the  *)
(* block is full.  sealPendingTransactions is the other operation.         *)
(*                                                                         *)
(* A command record carries the proposer's context (actor, org) and the    *)
(* scenario time (at).  Its field "asset" is the asset acted upon and      *)
(* "output" the asset brought into existence.                              *)
(***************************************************************************)
EXTENDS Integers, Sequences, FiniteSets, Provenance

CONSTANTS OrganizationId,          \* names of organizations, registered or not
          ActorId,                 \* names of people acting for them
          AssetId,                 \* names of batches and lots
          AnchorId,                \* names of document anchors
          Organizations,           \* the registry: id -> type, isActive, authorizedActions
          Actors,                  \* the registry: id -> organization, isAuthorized
          Submittable,             \* the commands that may be submitted
          MaxTransactionsPerBlock, \* ledger configuration
          BlockCommitMode,         \* "IMMEDIATE" or "STAGE_BOUNDARY"
          MaxTransactions,         \* bound: how many commands a behaviour submits
          MaxRejected              \* bound: how many of them are rejected

VARIABLES assets,            \* id -> asset, for the assets that exist
          documentAnchors,   \* id -> anchor, for the anchors that exist
          provenanceEdges,   \* the edges, each with the transaction that made it
          transactions,      \* every transaction in submission order
          pending,           \* ordered transactions not yet in a block
          blocks             \* the blocks, each the sequence of its transactions

world == <<assets, documentAnchors, provenanceEdges>>
vars == <<world, transactions, pending, blocks>>

-----------------------------------------------------------------------------
(* Types *)

TransactionType ==
    {"CREATE_BATCH", "ANCHOR_DOCUMENT", "ISSUE_CERTIFICATE", "TRANSFER_OWNERSHIP",
     "TRANSFER_CUSTODY", "RECORD_TRANSPORT_CONDITION", "RECEIVE_BATCH",
     "RECORD_CORRECTION", "TRANSFORM_BATCH", "PACKAGE_BATCH", "DISPATCH_BATCH",
     "RECALL_BATCH"}

OrganizationType ==
    {"PRODUCER", "CERTIFIER", "LOGISTICS_PROVIDER", "PROCESSOR", "DISTRIBUTOR",
     "RETAILER", "REGULATOR"}

Lifecycle ==
    {"CREATED", "CERTIFIED", "IN_TRANSIT", "RECEIVED", "CONSUMED_IN_TRANSFORMATION",
     "PROCESSED", "PACKAGED", "AVAILABLE_FOR_SALE", "RECALLED", "CLOSED"}

Compliance == {"PENDING_CERTIFICATION", "COMPLIANT", "INSPECTION_REQUIRED", "RECALLED"}
SaleEligibility == {"NOT_YET_ELIGIBLE", "ELIGIBLE", "PROHIBITED"}
DocumentType ==
    {"QUALITY_CERTIFICATE", "SHIPPING_MANIFEST", "SENSOR_DATASET", "LABORATORY_REPORT"}

Unit == {"KG", "GRAM", "UNIT"}
Quantity == [amount : Int, unit : Unit]
None == -1                          \* an absent package size or expiry date
PackageSize == Nat \cup {None}
Time == Nat

\* What a correction corrects: an asset's quantity or the quantity a shipping
\* manifest declares.
Target == [kind : {"ASSET_FIELD"}, id : AssetId]
            \cup [kind : {"DOCUMENT_METADATA_FIELD"}, id : AnchorId]

Command ==
    [type : {"CREATE_BATCH"}, actor : ActorId, org : OrganizationId, at : Time,
     output : AssetId, producer : OrganizationId,
     quantity : Quantity, packageSize : PackageSize]
    \cup
    [type : {"ANCHOR_DOCUMENT"}, actor : ActorId, org : OrganizationId, at : Time,
     asset : AssetId, anchor : AnchorId, documentType : DocumentType,
     metadataKind : DocumentType, declaredQuantity : Quantity,
     isHashPresent : BOOLEAN, issuer : OrganizationId, expiresAt : Time \cup {None}]
    \cup
    [type : {"ISSUE_CERTIFICATE"}, actor : ActorId, org : OrganizationId, at : Time,
     asset : AssetId, anchor : AnchorId, issuer : OrganizationId]
    \cup
    [type : {"TRANSFER_OWNERSHIP", "DISPATCH_BATCH"}, actor : ActorId,
     org : OrganizationId, at : Time, asset : AssetId,
     from : OrganizationId, to : OrganizationId]
    \cup
    [type : {"TRANSFER_CUSTODY"}, actor : ActorId, org : OrganizationId, at : Time,
     asset : AssetId, from : OrganizationId, to : OrganizationId,
     alsoTransfersOwnership : BOOLEAN]
    \cup
    [type : {"RECORD_TRANSPORT_CONDITION"}, actor : ActorId, org : OrganizationId,
     at : Time, asset : AssetId, humidityPercent : Nat,
     allowedMaximumHumidityPercent : Nat]
    \cup
    [type : {"RECEIVE_BATCH"}, actor : ActorId, org : OrganizationId, at : Time,
     asset : AssetId, to : OrganizationId, quantity : Quantity]
    \cup
    [type : {"RECORD_CORRECTION"}, actor : ActorId, org : OrganizationId, at : Time,
     asset : AssetId, correctionOf : Nat, target : Target,
     incorrect : Quantity, corrected : Quantity, isReasonGiven : BOOLEAN]
    \cup
    [type : {"TRANSFORM_BATCH", "PACKAGE_BATCH"}, actor : ActorId,
     org : OrganizationId, at : Time, asset : AssetId, output : AssetId,
     quantity : Quantity, packageSize : PackageSize]
    \cup
    [type : {"RECALL_BATCH"}, actor : ActorId, org : OrganizationId, at : Time,
     asset : AssetId]

Asset ==
    [owner : OrganizationId, custodian : OrganizationId, lifecycle : Lifecycle,
     compliance : Compliance, sale : SaleEligibility, quantity : Quantity,
     packageSize : PackageSize, anchors : SUBSET AnchorId, parents : SUBSET AssetId,
     children : SUBSET AssetId, createdBy : Nat, lastUpdatedBy : Nat,
     stateVersion : Nat]

Anchor ==
    [documentType : DocumentType, issuer : OrganizationId,
     expiresAt : Time \cup {None}]

Edge == [source : AssetId, target : AssetId, transaction : Nat]

Transaction ==
    [command : Command, status : {"REJECTED", "ORDERED", "COMMITTED"},
     endorsers : SUBSET OrganizationId, block : Nat]

ASSUME RegistryAssumption ==
    /\ DOMAIN Organizations \subseteq OrganizationId
    /\ \A o \in DOMAIN Organizations :
          Organizations[o] \in [type : OrganizationType, isActive : BOOLEAN,
                                authorizedActions : SUBSET TransactionType]
    /\ DOMAIN Actors \subseteq ActorId
    /\ \A a \in DOMAIN Actors :
          Actors[a] \in [organization : OrganizationId, isAuthorized : BOOLEAN]

ASSUME ConfigurationAssumption ==
    /\ Submittable \subseteq Command
    /\ \A c \in Submittable : c.type = "PACKAGE_BATCH" => c.quantity.unit = "UNIT"
    /\ MaxTransactionsPerBlock \in Nat \ {0}
    /\ BlockCommitMode \in {"IMMEDIATE", "STAGE_BOUNDARY"}
    /\ MaxTransactions \in Nat
    /\ MaxRejected \in Nat

-----------------------------------------------------------------------------
(* Command targets *)

Transforming == {"TRANSFORM_BATCH", "PACKAGE_BATCH"}
Outgoing == {"TRANSFER_CUSTODY", "TRANSFER_OWNERSHIP", "DISPATCH_BATCH"}
CustodyRequired ==
    {"TRANSFER_CUSTODY", "RECORD_TRANSPORT_CONDITION"} \cup Transforming
OwnershipRequired == {"TRANSFER_OWNERSHIP", "DISPATCH_BATCH"}

Subjects(c) == IF c.type = "CREATE_BATCH" THEN {} ELSE {c.asset}
Produced(c) == IF c.type \in {"CREATE_BATCH"} \cup Transforming THEN {c.output} ELSE {}
Receivers(c) == IF c.type \in Outgoing \cup {"RECEIVE_BATCH"} THEN {c.to} ELSE {}

\* The subject asset, when the ledger has it: most rules have nothing to say
\* about an asset that does not exist, ASSET_EXISTS already does.
Present(c) == Subjects(c) \cap DOMAIN assets

\* Transactions that were not rejected and touch asset a, in the sense of the
\* sequence rules: a is their subject or their product.
History(a) ==
    {i \in DOMAIN transactions :
        /\ transactions[i].status # "REJECTED"
        /\ a \in Subjects(transactions[i].command) \cup Produced(transactions[i].command)}

-----------------------------------------------------------------------------
(* Units.  Zero or negative package sizes have no mass. *)

IsConvertible(unit, packageSize) == unit = "UNIT" => packageSize > 0

Grams(quantity, packageSize) ==
    quantity.amount * (CASE quantity.unit = "KG"   -> 1000
                         [] quantity.unit = "GRAM" -> 1
                         [] quantity.unit = "UNIT" -> packageSize)

-----------------------------------------------------------------------------
(* Effective values.  A target's effective value is what its creating      *)
(* transaction committed, with the committed corrections folded over it in *)
(* ledger order; a correction that does not state the value it replaces is *)
(* skipped.                                                                *)

ValuesIn(c, target) ==
    IF target.kind = "ASSET_FIELD"
    THEN IF target.id \in Produced(c) THEN {c.quantity} ELSE {}
    ELSE IF /\ c.type = "ANCHOR_DOCUMENT"
            /\ c.anchor = target.id
            /\ c.documentType = "SHIPPING_MANIFEST"
            /\ c.metadataKind = "SHIPPING_MANIFEST"
         THEN {c.declaredQuantity}
         ELSE {}

Originals(target) ==
    {i \in DOMAIN transactions :
        /\ transactions[i].status = "COMMITTED"
        /\ ValuesIn(transactions[i].command, target) # {}}

OriginalTransaction(target) ==
    CHOOSE i \in Originals(target) : \A j \in Originals(target) : i <= j

IsCommittedCorrection(i, target) ==
    /\ transactions[i].status = "COMMITTED"
    /\ transactions[i].command.type = "RECORD_CORRECTION"
    /\ transactions[i].command.target = target
    /\ transactions[i].command.correctionOf = OriginalTransaction(target)

IsCoherent(correction, value) ==
    /\ correction.incorrect = value
    /\ correction.corrected.unit = value.unit
    /\ correction.corrected.amount > 0
    /\ correction.corrected # value

EffectiveValue(target) ==
    LET original == transactions[OriginalTransaction(target)].command
        value[n \in 0..Len(transactions)] ==
            IF n = 0
            THEN CHOOSE v \in ValuesIn(original, target) : TRUE
            ELSE IF /\ IsCommittedCorrection(n, target)
                    /\ IsCoherent(transactions[n].command, value[n - 1])
                 THEN transactions[n].command.corrected
                 ELSE value[n - 1]
    IN  value[Len(transactions)]

-----------------------------------------------------------------------------
(* The validation rules.  Every rule that applies is evaluated; a command  *)
(* is accepted when none of them fails.                                    *)

IsActive(o) == o \in DOMAIN Organizations /\ Organizations[o].isActive

ActorAuthorized(c) ==
    /\ c.actor \in DOMAIN Actors
    /\ Actors[c.actor].isAuthorized
    /\ c.org \in DOMAIN Organizations
    /\ Actors[c.actor].organization = c.org
    /\ c.type \in Organizations[c.org].authorizedActions
    /\ c.type = "CREATE_BATCH" => c.producer = c.org

\* RECEIVER_AUTHORIZED: the counterparty is active; goods are booked in by the
\* receiver itself and handed over to somebody else.
ReceiverAuthorized(c) ==
    \A receiver \in Receivers(c) :
        /\ IsActive(receiver)
        /\ c.type = "RECEIVE_BATCH" => receiver = c.org
        /\ c.type \in Outgoing => receiver # c.org

CertifierAuthorized(c) ==
    c.type \in {"ISSUE_CERTIFICATE", "ANCHOR_DOCUMENT"} =>
        /\ IsActive(c.issuer)
        /\ c.type = "ISSUE_CERTIFICATE" =>
              /\ c.issuer = c.org
              /\ Organizations[c.issuer].type = "CERTIFIER"
              /\ "ISSUE_CERTIFICATE" \in Organizations[c.issuer].authorizedActions

RecallAuthorized(c) ==
    c.type = "RECALL_BATCH" =>
        c.org \in DOMAIN Organizations /\ Organizations[c.org].type = "REGULATOR"

AuthorizationRules(c) ==
    /\ ActorAuthorized(c)
    /\ IsActive(c.org)
    /\ ReceiverAuthorized(c)
    /\ CertifierAuthorized(c)
    /\ RecallAuthorized(c)

\* Mutant: only movements are refused on recalled goods, not what is made of them.
BatchNotRecalledMovesOnly(c) ==
    c.type \in Outgoing => \A a \in Present(c) : assets[a].lifecycle # "RECALLED"

BatchNotRecalled(c) ==
    c.type # "RECALL_BATCH" => \A a \in Present(c) : assets[a].lifecycle # "RECALLED"

ValidStateTransition(c) ==
    c.type \in Outgoing \cup Transforming =>
        \A a \in Present(c) :
            assets[a].lifecycle \notin {"CONSUMED_IN_TRANSFORMATION", "CLOSED"}

\* Mutant: the uniqueness of a new asset's identifier is not checked.
AssetRulesNotUnique(c) ==
    /\ Subjects(c) \subseteq DOMAIN assets
    /\ BatchNotRecalled(c)
    /\ ValidStateTransition(c)

AssetRules(c) ==
    /\ Subjects(c) \subseteq DOMAIN assets            \* ASSET_EXISTS
    /\ Produced(c) \cap DOMAIN assets = {}            \* ASSET_ID_UNIQUE
    /\ BatchNotRecalled(c)
    /\ ValidStateTransition(c)

CurrentCustodianRequired(c) ==
    c.type \in CustodyRequired =>
        \A a \in Present(c) :
            /\ assets[a].custodian = c.org
            /\ c.type = "TRANSFER_CUSTODY" => c.from = assets[a].custodian

CurrentOwnerRequired(c) ==
    c.type \in OwnershipRequired =>
        \A a \in Present(c) :
            /\ assets[a].owner = c.org
            /\ c.type = "TRANSFER_OWNERSHIP" => c.from = assets[a].owner

OwnershipCustodyRules(c) ==
    /\ CurrentCustodianRequired(c)
    /\ CurrentOwnerRequired(c)
    /\ c.type = "TRANSFER_CUSTODY" => ~c.alsoTransfersOwnership

\* The package size a quantity-bearing command declares; a receipt has none.
DeclaredPackageSize(c) == IF c.type = "RECEIVE_BATCH" THEN None ELSE c.packageSize

QuantityRules(c) ==
    c.type \in {"CREATE_BATCH", "RECEIVE_BATCH"} \cup Transforming =>
        /\ c.quantity.amount > 0
        /\ IsConvertible(c.quantity.unit, DeclaredPackageSize(c))
        /\ c.quantity.unit # "UNIT" => DeclaredPackageSize(c) = None
        /\ c.type = "RECEIVE_BATCH" =>                \* AVAILABLE_QUANTITY
              \A a \in Present(c) :
                  /\ IsConvertible(assets[a].quantity.unit, assets[a].packageSize)
                  /\ Grams(c.quantity, None) <= Grams(assets[a].quantity, assets[a].packageSize)

TransformationRules(c) ==
    c.type \in Transforming =>
        /\ c.asset # c.output
        /\ \A a \in Present(c) :
              /\ IsConvertible(assets[a].quantity.unit, assets[a].packageSize)
              /\ IsConvertible(c.quantity.unit, c.packageSize)
              /\ Grams(c.quantity, c.packageSize)
                    <= Grams(assets[a].quantity, assets[a].packageSize)

AnchorRules(c) ==
    c.type = "ANCHOR_DOCUMENT" =>
        /\ c.isHashPresent
        /\ c.anchor \notin DOMAIN documentAnchors
        /\ c.metadataKind = c.documentType
        /\ c.documentType = "SHIPPING_MANIFEST" => c.declaredQuantity.amount > 0

CertificateRules(c) ==
    c.type = "ISSUE_CERTIFICATE" =>
        /\ c.anchor \in DOMAIN documentAnchors
        /\ \A a \in Present(c) :
              /\ c.anchor \in assets[a].anchors
              /\ documentAnchors[c.anchor].documentType = "QUALITY_CERTIFICATE"
              /\ documentAnchors[c.anchor].issuer = c.issuer
        /\ \/ documentAnchors[c.anchor].expiresAt = None
           \/ c.at < documentAnchors[c.anchor].expiresAt

SequenceRules(c) ==
    /\ \A a \in Subjects(c) : \A i \in History(a) : transactions[i].command.at <= c.at
    /\ c.type = "RECEIVE_BATCH" =>
          /\ \E i \in History(c.asset) :              \* SHIPMENT_BEFORE_RECEIPT
                /\ transactions[i].command.type \in {"TRANSFER_CUSTODY", "DISPATCH_BATCH"}
                /\ transactions[i].command.at <= c.at
          /\ \A i \in History(c.asset) :              \* RECEIPT_NOT_DUPLICATED
                transactions[i].command.type # "RECEIVE_BATCH"

\* Mutant: a correction is compared with the original value, not the effective one.
CorrectionRulesAgainstOriginal(c) ==
    c.type = "RECORD_CORRECTION" =>
        /\ c.correctionOf \in DOMAIN transactions
        /\ LET original == transactions[c.correctionOf]
           IN  /\ original.status = "COMMITTED"
               /\ original.command.type # "RECORD_CORRECTION"
               /\ \E v \in ValuesIn(original.command, c.target) : IsCoherent(c, v)
               /\ IF c.target.kind = "ASSET_FIELD"
                  THEN c.target.id = c.asset
                  ELSE original.command.asset = c.asset

\* A correction names a committed transaction that established the value it
\* corrects, and states the value that is effective now.
CorrectionRules(c) ==
    c.type = "RECORD_CORRECTION" =>
        /\ c.correctionOf \in DOMAIN transactions
        /\ LET original == transactions[c.correctionOf]
           IN  /\ original.status = "COMMITTED"
               /\ original.command.type # "RECORD_CORRECTION"
               /\ ValuesIn(original.command, c.target) # {}
               /\ IF c.target.kind = "ASSET_FIELD"
                  THEN c.target.id = c.asset
                  ELSE original.command.asset = c.asset
        /\ c.isReasonGiven
        /\ c.incorrect # c.corrected
        /\ Originals(c.target) # {}
        /\ OriginalTransaction(c.target) = c.correctionOf
        /\ IsCoherent(c, EffectiveValue(c.target))

IsValid(c) ==
    /\ AuthorizationRules(c)
    /\ AssetRules(c)
    /\ OwnershipCustodyRules(c)
    /\ QuantityRules(c)
    /\ TransformationRules(c)
    /\ AnchorRules(c)
    /\ CertificateRules(c)
    /\ SequenceRules(c)
    /\ CorrectionRules(c)

\* The organizations that must agree: the proposer, the receiver, and on a
\* transfer whoever holds or owns the goods now.
RequiredEndorsers(c) ==
    {c.org} \cup Receivers(c)
        \cup (IF c.type \in Outgoing
              THEN {assets[a].custodian : a \in Present(c)} ELSE {})
        \cup (IF c.type \in OwnershipRequired
              THEN {assets[a].owner : a \in Present(c)} ELSE {})

-----------------------------------------------------------------------------
(* Ordering and sealing *)

\* The pending queue p cut into batches of at most MaxTransactionsPerBlock.
Batches(p) ==
    [k \in 1..((Len(p) + MaxTransactionsPerBlock - 1) \div MaxTransactionsPerBlock) |->
        LET last == k * MaxTransactionsPerBlock
        IN  SubSeq(p, (k - 1) * MaxTransactionsPerBlock + 1,
                   IF last < Len(p) THEN last ELSE Len(p))]

\* Where i stands in queue p.
Position(p, i) == CHOOSE k \in DOMAIN p : p[k] = i

\* Mutant: every transaction that was not rejected is stamped with the new block.
SealRestampsAll(txs, p) ==
    /\ blocks' = blocks \o Batches(p)
    /\ transactions' =
          [i \in DOMAIN txs |->
              IF txs[i].status # "REJECTED"
              THEN [txs[i] EXCEPT !.status = "COMMITTED", !.block = Len(blocks')]
              ELSE txs[i]]
    /\ pending' = <<>>

\* Drain queue p into blocks: its transactions, among txs, become COMMITTED in
\* the block that holds them.
Seal(txs, p) ==
    /\ blocks' = blocks \o Batches(p)
    /\ transactions' =
          [i \in DOMAIN txs |->
              IF \E k \in DOMAIN p : p[k] = i
              THEN [txs[i] EXCEPT
                      !.status = "COMMITTED",
                      !.block = Len(blocks) + 1
                                  + ((Position(p, i) - 1) \div MaxTransactionsPerBlock)]
              ELSE txs[i]]
    /\ pending' = <<>>

\* The accepted command c becomes an ORDERED transaction; a full queue, or the
\* IMMEDIATE mode, seals it at once.
Order(c) ==
    LET ordered == Append(transactions,
                          [command |-> c, status |-> "ORDERED",
                           endorsers |-> RequiredEndorsers(c), block |-> 0])
        queue == Append(pending, Len(transactions) + 1)
    IN  IF BlockCommitMode = "IMMEDIATE" \/ Len(queue) >= MaxTransactionsPerBlock
        THEN Seal(ordered, queue)
        ELSE /\ transactions' = ordered
             /\ pending' = queue
             /\ UNCHANGED blocks

\* The number the submitted transaction gets.
TxId == Len(transactions) + 1

Accepted(c) ==
    /\ Len(transactions) < MaxTransactions
    /\ IsValid(c)
    /\ Order(c)

-----------------------------------------------------------------------------
(* The events *)

WithAsset(a, asset) ==
    [x \in DOMAIN assets \cup {a} |-> IF x = a THEN asset ELSE assets[x]]

Touch(asset) ==
    [asset EXCEPT !.lastUpdatedBy = TxId, !.stateVersion = @ + 1]

CreateBatch(c) ==
    /\ c.type = "CREATE_BATCH"
    /\ Accepted(c)
    /\ assets' = WithAsset(c.output,
          [owner |-> c.producer, custodian |-> c.producer, lifecycle |-> "CREATED",
           compliance |-> "PENDING_CERTIFICATION", sale |-> "NOT_YET_ELIGIBLE",
           quantity |-> c.quantity, packageSize |-> c.packageSize, anchors |-> {},
           parents |-> {}, children |-> {}, createdBy |-> TxId,
           lastUpdatedBy |-> TxId, stateVersion |-> 1])
    /\ UNCHANGED <<documentAnchors, provenanceEdges>>

AnchorDocument(c) ==
    /\ c.type = "ANCHOR_DOCUMENT"
    /\ Accepted(c)
    /\ documentAnchors' =
          [x \in DOMAIN documentAnchors \cup {c.anchor} |->
              IF x = c.anchor
              THEN [documentType |-> c.documentType, issuer |-> c.issuer,
                    expiresAt |-> c.expiresAt]
              ELSE documentAnchors[x]]
    /\ assets' = WithAsset(c.asset,
          Touch([assets[c.asset] EXCEPT !.anchors = @ \cup {c.anchor}]))
    /\ UNCHANGED provenanceEdges

\* Mutant: a certificate clears an open inspection.
IssueCertificateClears(c) ==
    /\ c.type = "ISSUE_CERTIFICATE"
    /\ Accepted(c)
    /\ assets' = WithAsset(c.asset,
          Touch([assets[c.asset] EXCEPT !.compliance = "COMPLIANT",
                                        !.lifecycle = "CERTIFIED"]))
    /\ UNCHANGED <<documentAnchors, provenanceEdges>>

\* A certificate does not clear a batch that is under inspection.
IssueCertificate(c) ==
    /\ c.type = "ISSUE_CERTIFICATE"
    /\ Accepted(c)
    /\ assets' = WithAsset(c.asset,
          Touch([assets[c.asset] EXCEPT
                    !.compliance = IF @ = "INSPECTION_REQUIRED" THEN @ ELSE "COMPLIANT",
                    !.lifecycle = "CERTIFIED"]))
    /\ UNCHANGED <<documentAnchors, provenanceEdges>>

TransferOwnership(c) ==
    /\ c.type = "TRANSFER_OWNERSHIP"
    /\ Accepted(c)
    /\ assets' = WithAsset(c.asset, Touch([assets[c.asset] EXCEPT !.owner = c.to]))
    /\ UNCHANGED <<documentAnchors, provenanceEdges>>

TransferCustody(c) ==
    /\ c.type = "TRANSFER_CUSTODY"
    /\ Accepted(c)
    /\ assets' = WithAsset(c.asset,
          Touch([assets[c.asset] EXCEPT !.custodian = c.to, !.lifecycle = "IN_TRANSIT"]))
    /\ UNCHANGED <<documentAnchors, provenanceEdges>>

\* A humidity excursion asks for an inspection; a clean reading changes nothing.
RecordTransportCondition(c) ==
    /\ c.type = "RECORD_TRANSPORT_CONDITION"
    /\ Accepted(c)
    /\ assets' = WithAsset(c.asset,
          Touch([assets[c.asset] EXCEPT
                    !.compliance = IF c.humidityPercent > c.allowedMaximumHumidityPercent
                                   THEN "INSPECTION_REQUIRED" ELSE @]))
    /\ UNCHANGED <<documentAnchors, provenanceEdges>>

ReceiveBatch(c) ==
    /\ c.type = "RECEIVE_BATCH"
    /\ Accepted(c)
    /\ assets' = WithAsset(c.asset,
          Touch([assets[c.asset] EXCEPT !.custodian = c.to, !.lifecycle = "RECEIVED"]))
    /\ UNCHANGED <<documentAnchors, provenanceEdges>>

\* Only a correction of an asset's quantity moves the world; a corrected
\* manifest figure lives in the effective value alone.
RecordCorrection(c) ==
    /\ c.type = "RECORD_CORRECTION"
    /\ Accepted(c)
    /\ assets' = IF c.target.kind = "ASSET_FIELD"
                 THEN WithAsset(c.asset,
                        Touch([assets[c.asset] EXCEPT
                                  !.quantity.amount = c.corrected.amount]))
                 ELSE assets
    /\ UNCHANGED <<documentAnchors, provenanceEdges>>

\* TRANSFORM_BATCH and PACKAGE_BATCH: the input is consumed, the output inherits
\* its owner, custodian and compliance, and an edge ties the two.
MakeFrom(c, lifecycle) ==
    LET input == assets[c.asset]
        output == [owner |-> input.owner, custodian |-> input.custodian,
                   lifecycle |-> lifecycle, compliance |-> input.compliance,
                   sale |-> "NOT_YET_ELIGIBLE", quantity |-> c.quantity,
                   packageSize |-> c.packageSize, anchors |-> {},
                   parents |-> {c.asset}, children |-> {}, createdBy |-> TxId,
                   lastUpdatedBy |-> TxId, stateVersion |-> 1]
        consumed == Touch([input EXCEPT !.lifecycle = "CONSUMED_IN_TRANSFORMATION",
                                        !.children = @ \cup {c.output}])
    IN  /\ assets' = [x \in DOMAIN assets \cup {c.output} |->
                         CASE x = c.output -> output
                           [] x = c.asset  -> consumed
                           [] OTHER        -> assets[x]]
        /\ provenanceEdges' = provenanceEdges \cup
              {[source |-> c.asset, target |-> c.output, transaction |-> TxId]}

TransformBatch(c) ==
    /\ c.type = "TRANSFORM_BATCH"
    /\ Accepted(c)
    /\ MakeFrom(c, "PROCESSED")
    /\ UNCHANGED documentAnchors

PackageBatch(c) ==
    /\ c.type = "PACKAGE_BATCH"
    /\ Accepted(c)
    /\ MakeFrom(c, "PACKAGED")
    /\ UNCHANGED documentAnchors

\* A sale moves both: the receiver owns the goods and holds them.
DispatchBatch(c) ==
    /\ c.type = "DISPATCH_BATCH"
    /\ Accepted(c)
    /\ assets' = WithAsset(c.asset,
          Touch([assets[c.asset] EXCEPT
                    !.owner = c.to, !.custodian = c.to,
                    !.lifecycle = "AVAILABLE_FOR_SALE", !.sale = "ELIGIBLE"]))
    /\ UNCHANGED <<documentAnchors, provenanceEdges>>

\* The extent comes from the provenance graph, never from the learner.
RecallBatch(c) ==
    /\ c.type = "RECALL_BATCH"
    /\ Accepted(c)
    /\ LET scope == RecallScope(c.asset, provenanceEdges, DOMAIN assets)
       IN  assets' = [x \in DOMAIN assets |->
                         IF x \in scope
                         THEN Touch([assets[x] EXCEPT !.lifecycle = "RECALLED",
                                                      !.compliance = "RECALLED",
                                                      !.sale = "PROHIBITED"])
                         ELSE assets[x]]
    /\ UNCHANGED <<documentAnchors, provenanceEdges>>

\* A rejected command is recorded, and touches nothing else.
RejectCommand(c) ==
    /\ Len(transactions) < MaxTransactions
    /\ Cardinality({i \in DOMAIN transactions : transactions[i].status = "REJECTED"}) < MaxRejected
    /\ ~IsValid(c)
    /\ transactions' = Append(transactions,
          [command |-> c, status |-> "REJECTED", endorsers |-> {}, block |-> 0])
    /\ UNCHANGED <<world, pending, blocks>>

\* The stage boundary, and the "seal block" action: drain the queue, which
\* changes nothing when it is empty.
SealPendingTransactions ==
    /\ Seal(transactions, pending)
    /\ UNCHANGED world

-----------------------------------------------------------------------------

Init ==
    /\ assets = <<>>
    /\ documentAnchors = <<>>
    /\ provenanceEdges = {}
    /\ transactions = <<>>
    /\ pending = <<>>
    /\ blocks = <<>>

Accept(c) ==
    \/ CreateBatch(c)
    \/ AnchorDocument(c)
    \/ IssueCertificate(c)
    \/ TransferOwnership(c)
    \/ TransferCustody(c)
    \/ RecordTransportCondition(c)
    \/ ReceiveBatch(c)
    \/ RecordCorrection(c)
    \/ TransformBatch(c)
    \/ PackageBatch(c)
    \/ DispatchBatch(c)
    \/ RecallBatch(c)

Next ==
    \/ \E c \in Submittable : Accept(c) \/ RejectCommand(c)
    \/ SealPendingTransactions

Spec == Init /\ [][Next]_vars

-----------------------------------------------------------------------------
(* Properties *)

\* Type correctness of the ledger state.
TypeOK ==
    /\ DOMAIN assets \subseteq AssetId
    /\ assets \in [DOMAIN assets -> Asset]
    /\ DOMAIN documentAnchors \subseteq AnchorId
    /\ documentAnchors \in [DOMAIN documentAnchors -> Anchor]
    /\ provenanceEdges \subseteq Edge
    /\ transactions \in Seq(Transaction)
    /\ pending \in Seq(Nat)
    /\ blocks \in Seq(Seq(Nat))

\* A recall reaches everything made out of the recalled goods, now and later:
\* nothing descends from a recalled asset without being recalled itself, and
\* recalled goods are marked so in all three statuses.
RecallReachesDescendants ==
    /\ \A e \in provenanceEdges :
          assets[e.source].lifecycle = "RECALLED" => assets[e.target].lifecycle = "RECALLED"
    /\ \A a \in DOMAIN assets :
          assets[a].lifecycle = "RECALLED"
             <=> assets[a].compliance = "RECALLED" /\ assets[a].sale = "PROHIBITED"

\* Recalled goods are frozen: no later transaction moves, sells, transforms,
\* corrects or certifies them; only another recall touches them.
RecalledStaysFrozen ==
    [][\A a \in DOMAIN assets :
          assets[a].lifecycle = "RECALLED" =>
             assets'[a] = [assets[a] EXCEPT
                              !.lastUpdatedBy = assets'[a].lastUpdatedBy,
                              !.stateVersion = assets'[a].stateVersion]]_vars

\* The provenance edges, the parent and child lists and the creating
\* transactions tell one story: every derived asset has exactly one parent, the
\* transaction that made it is the edge's, and lineage runs forward in ledger
\* order and in scenario time, so that no asset descends from itself.
LineageIsConsistent ==
    /\ \A a \in DOMAIN assets :
          /\ assets[a].parents = {e.source : e \in {f \in provenanceEdges : f.target = a}}
          /\ assets[a].children = {e.target : e \in {f \in provenanceEdges : f.source = a}}
          /\ Cardinality(assets[a].parents) <= 1
    /\ \A e \in provenanceEdges :
          /\ {e.source, e.target} \subseteq DOMAIN assets
          /\ assets[e.target].createdBy = e.transaction
          /\ assets[e.source].createdBy < e.transaction
          /\ transactions[assets[e.source].createdBy].command.at
                <= transactions[e.transaction].command.at

\* A flag is neither cleared nor left behind in what is made of the goods.
FlagsStick ==
    /\ \A a \in DOMAIN assets :
          assets[a].compliance = "INSPECTION_REQUIRED" =>
             assets'[a].compliance \in {"INSPECTION_REQUIRED", "RECALLED"}
    /\ \A e \in provenanceEdges' \ provenanceEdges :
          assets[e.source].compliance = "INSPECTION_REQUIRED" =>
             assets'[e.target].compliance = "INSPECTION_REQUIRED"

\* What was decided stays as it was decided.
RecordSticks ==
    /\ \A i \in DOMAIN transactions :
          /\ transactions'[i].command = transactions[i].command
          /\ transactions'[i].endorsers = transactions[i].endorsers
          /\ transactions[i].status # "ORDERED" => transactions'[i] = transactions[i]
    /\ \A b \in DOMAIN blocks : blocks'[b] = blocks[b]

\* Nothing is forgotten.  A humidity excursion is not: neither a later certificate,
\* a clean reading nor a correction clears an inspection, and goods made out of
\* flagged goods are flagged from the start.  And corrections add to the record and
\* never edit it: a transaction keeps its payload, its endorsers and, once decided,
\* its status and block; blocks are only ever appended.
NothingIsForgotten == [][FlagsStick /\ RecordSticks]_vars

AssetQuantity(a) == [kind |-> "ASSET_FIELD", id |-> a]

\* What the world state says of an asset's quantity is what replaying the
\* correction chain over the committed record says, in a ledger that seals at
\* once.  One that seals at stage boundaries applies a correction before the record
\* counts it; and of two corrections of one asset ordered between two seals both
\* are accepted, against the same committed value, and the record skips the second.
QuantityIsEffectiveValue ==
    \A a \in DOMAIN assets :
        Originals(AssetQuantity(a)) # {} => assets[a].quantity = EffectiveValue(AssetQuantity(a))

\* The world state tells what the committed transactions tell.
StateMatchesRecord == LineageIsConsistent /\ QuantityIsEffectiveValue

=============================================================================
