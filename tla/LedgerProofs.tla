---------------------------- MODULE LedgerProofs ----------------------------
(***************************************************************************)
(* Theorems about the ledger that hold for every registry, every command   *)
(* vocabulary and every block size; and that what is read off the record   *)
(* is right.  The breadth-first walk computes exactly the reachable        *)
(* assets, for any set of assets and any graph: the set of assets need not *)
(* be finite.  The verifier finds an edit where it was made or where it    *)
(* was hidden, in a chain of any length, with blocks of any size.          *)
(***************************************************************************)
EXTENDS Ledger, Traversal, Integrity, SequenceTheorems, FiniteSetTheorems,
        WellFoundedInduction, TLAPS

\* The fields every command has.
LEMMA CommandContext ==
    ASSUME NEW c \in Command
    PROVE  /\ c.type \in TransactionType
           /\ c.org \in OrganizationId
           /\ c.at \in Time
           /\ c.type # "CREATE_BATCH" => c.asset \in AssetId
  BY DEF Command, TransactionType

\* The fields the events read, by command type.
LEMMA CommandPayload ==
    ASSUME NEW c \in Command
    PROVE  /\ c.type = "CREATE_BATCH" => c.producer \in OrganizationId
           /\ c.type \in {"CREATE_BATCH"} \cup Transforming =>
                 /\ c.output \in AssetId
                 /\ c.quantity \in Quantity
                 /\ c.packageSize \in PackageSize
           /\ c.type \in Outgoing \cup {"RECEIVE_BATCH"} => c.to \in OrganizationId
           /\ c.type = "RECORD_CORRECTION" => c.corrected \in Quantity
           /\ c.type = "ANCHOR_DOCUMENT" =>
                 /\ c.anchor \in AnchorId
                 /\ c.documentType \in DocumentType
                 /\ c.issuer \in OrganizationId
                 /\ c.expiresAt \in Time \cup {None}
  BY DEF Command, Transforming, Outgoing

\* The endorsers of an accepted command are organizations.
LEMMA EndorsersAreOrganizations ==
    ASSUME TypeOK, NEW c \in Command
    PROVE  RequiredEndorsers(c) \subseteq OrganizationId
<1>1. {c.org} \cup Receivers(c) \subseteq OrganizationId
  BY CommandContext, CommandPayload DEF Receivers
<1>2. \A a \in Present(c) : assets[a].custodian \in OrganizationId
                            /\ assets[a].owner \in OrganizationId
  BY DEF Present, TypeOK, Asset
<1> QED
  BY <1>1, <1>2 DEF RequiredEndorsers

\* What the block arithmetic needs.
LEMMA QuotientNat ==
    ASSUME NEW a \in Nat, NEW m \in Nat \ {0}
    PROVE  a \div m \in Nat
  OBVIOUS

LEMMA ProductNat ==
    ASSUME NEW a \in Nat, NEW b \in Nat
    PROVE  a * b \in Nat
  OBVIOUS

LEMMA FunctionIsSequence ==
    ASSUME NEW S, NEW n \in Nat, NEW f \in [1..n -> S]
    PROVE  f \in Seq(S) /\ Len(f) = n
  OBVIOUS

LEMMA SequenceIsFunction ==
    ASSUME NEW S, NEW s \in Seq(S)
    PROVE  Len(s) \in Nat /\ DOMAIN s = 1..Len(s) /\ \A i \in DOMAIN s : s[i] \in S
  OBVIOUS

\* A queue of transaction numbers is cut into sequences of transaction numbers.
LEMMA BatchesType ==
    ASSUME ConfigurationAssumption, NEW p \in Seq(Nat)
    PROVE  Batches(p) \in Seq(Seq(Nat))
<1> DEFINE M == MaxTransactionsPerBlock
           n == (Len(p) + M - 1) \div M
<1>1. M \in Nat \ {0}
  BY DEF ConfigurationAssumption
<1> HIDE DEF M
<1>2. Len(p) \in Nat /\ \A i \in 1..Len(p) : p[i] \in Nat
  BY SequenceIsFunction
<1>3. n \in Nat
  <2>1. Len(p) + M - 1 \in Nat
    BY <1>1, <1>2
  <2> QED
    BY <2>1, <1>1, QuotientNat
<1>4. ASSUME NEW k \in 1..n
      PROVE  Batches(p)[k] \in Seq(Nat)
  <2> DEFINE first == (k - 1) * M + 1
             last == k * M
             end == IF last < Len(p) THEN last ELSE Len(p)
  <2>1. Batches(p)[k] = SubSeq(p, first, end)
    BY DEF Batches, M
  <2>2. (k - 1) * M \in Nat /\ k * M \in Nat
    BY <1>1, <1>3, ProductNat
  <2>3. first \in Nat /\ end \in Nat /\ \A i \in first..end : p[i] \in Nat
    <3> HIDE DEF last
    <3>1. (k - 1) * M + 1 >= 1 /\ (k - 1) * M + 1 \in Nat
      BY <2>2
    <3> HIDE DEF first
    <3>2. last \in Nat
      BY <2>2 DEF last
    <3>3. end \in Nat /\ end <= Len(p)
      BY <3>2, <1>2
    <3>4. first \in Nat /\ first >= 1
      BY <3>1 DEF first
    <3> QED
      BY <1>2, <3>3, <3>4
  <2> HIDE DEF first, end
  <2>4. SubSeq(p, first, end) \in Seq(Nat)
    BY <2>3, SubSeqProperties
  <2> QED
    BY <2>1, <2>4
<1>5. Batches(p) \in [1..n -> Seq(Nat)]
  BY <1>4 DEF Batches, M
<1> HIDE DEF n
<1> QED
  BY <1>3, <1>5, FunctionIsSequence

\* Sealing a well-typed queue over a well-typed list of transactions.
LEMMA SealType ==
    ASSUME ConfigurationAssumption, blocks \in Seq(Seq(Nat)),
           NEW txs \in Seq(Transaction), NEW p \in Seq(Nat), Seal(txs, p)
    PROVE  /\ transactions' \in Seq(Transaction)
           /\ Len(transactions') = Len(txs)
           /\ pending' \in Seq(Nat)
           /\ blocks' \in Seq(Seq(Nat))
<1> DEFINE number(i) == Len(blocks) + 1 + ((Position(p, i) - 1) \div MaxTransactionsPerBlock)
<1>1. ASSUME NEW i \in DOMAIN txs, \E k \in DOMAIN p : p[k] = i
      PROVE  number(i) \in Nat
  <2>1. Position(p, i) \in DOMAIN p
    BY <1>1 DEF Position
  <2> DEFINE before == Position(p, i) - 1
  <2>2. before \in Nat
    BY <2>1, SequenceIsFunction
  <2> HIDE DEF before
  <2>3. before \div MaxTransactionsPerBlock \in Nat
    BY <2>2, QuotientNat DEF ConfigurationAssumption
  <2>4. Len(blocks) \in Nat
    BY SequenceIsFunction
  <2> QED
    BY <2>3, <2>4 DEF before
<1>2. ASSUME NEW i \in DOMAIN txs
      PROVE  transactions'[i] \in Transaction
  <2>1. txs[i] \in Transaction
    BY SequenceIsFunction
  <2>2. CASE \E k \in DOMAIN p : p[k] = i
    <3>1. number(i) \in Nat
      BY <1>1, <2>2
    <3>2. transactions'[i] = [txs[i] EXCEPT !.status = "COMMITTED", !.block = number(i)]
      BY <2>2 DEF Seal
    <3> HIDE DEF number
    <3> QED
      BY <2>1, <3>1, <3>2 DEF Transaction
  <2>3. CASE ~\E k \in DOMAIN p : p[k] = i
    BY <2>1, <2>3 DEF Seal
  <2> QED
    BY <2>2, <2>3
<1>3. Len(txs) \in Nat /\ DOMAIN txs = 1..Len(txs)
  BY SequenceIsFunction
<1>4. transactions' \in [1..Len(txs) -> Transaction]
  BY <1>2, <1>3 DEF Seal
<1>5. transactions' \in Seq(Transaction) /\ Len(transactions') = Len(txs)
  BY <1>3, <1>4, FunctionIsSequence
<1>6. blocks' \in Seq(Seq(Nat))
  BY BatchesType, ConcatProperties DEF Seal
<1>7. pending' \in Seq(Nat)
  <2>1. pending' = <<>>
    BY DEF Seal
  <2> QED
    BY <2>1
<1> QED
  BY <1>5, <1>6, <1>7

\* The type of the ordering half of the state, apart from the world.
LedgerType ==
    /\ transactions \in Seq(Transaction)
    /\ pending \in Seq(Nat)
    /\ blocks \in Seq(Seq(Nat))

LEMMA OrderType ==
    ASSUME ConfigurationAssumption, TypeOK, NEW c \in Command, Order(c)
    PROVE  LedgerType'
<1> DEFINE new == [command |-> c, status |-> "ORDERED",
                   endorsers |-> RequiredEndorsers(c), block |-> 0]
           ordered == Append(transactions, new)
           queue == Append(pending, Len(transactions) + 1)
<1>1. new \in Transaction
  BY EndorsersAreOrganizations DEF Transaction
<1> HIDE DEF new
<1>2. ordered \in Seq(Transaction) /\ queue \in Seq(Nat)
  BY <1>1 DEF TypeOK
<1>3. blocks \in Seq(Seq(Nat))
  BY DEF TypeOK
<1>4. CASE Seal(ordered, queue)
  BY <1>2, <1>3, <1>4, SealType DEF LedgerType
<1>5. CASE transactions' = ordered /\ pending' = queue /\ UNCHANGED blocks
  BY <1>2, <1>3, <1>5 DEF LedgerType
<1> QED
  BY <1>4, <1>5 DEF Order, new

LEMMA SealPendingType ==
    ASSUME ConfigurationAssumption, TypeOK, SealPendingTransactions
    PROVE  LedgerType'
  BY SealType DEF SealPendingTransactions, TypeOK, LedgerType

LEMMA RejectType ==
    ASSUME TypeOK, NEW c \in Command, RejectCommand(c)
    PROVE  LedgerType'
<1> DEFINE new == [command |-> c, status |-> "REJECTED", endorsers |-> {}, block |-> 0]
<1>1. new \in Transaction
  BY DEF Transaction
<1>2. transactions' = Append(transactions, new) /\ UNCHANGED <<pending, blocks>>
  BY DEF RejectCommand
<1> QED
  BY <1>1, <1>2 DEF TypeOK, LedgerType

-----------------------------------------------------------------------------
(* The world *)

WorldType ==
    /\ DOMAIN assets \subseteq AssetId
    /\ assets \in [DOMAIN assets -> Asset]
    /\ DOMAIN documentAnchors \subseteq AnchorId
    /\ documentAnchors \in [DOMAIN documentAnchors -> Anchor]
    /\ provenanceEdges \subseteq Edge

\* Putting one well-typed asset into the world.
LEMMA WithAssetType ==
    ASSUME WorldType, NEW a \in AssetId, NEW asset \in Asset, assets' = WithAsset(a, asset)
    PROVE  /\ DOMAIN assets' = DOMAIN assets \cup {a}
           /\ DOMAIN assets' \subseteq AssetId
           /\ assets' \in [DOMAIN assets' -> Asset]
           /\ assets'[a] = asset
           /\ \A x \in DOMAIN assets : x # a => assets'[x] = assets[x]
  BY DEF WorldType, WithAsset

\* A transaction that touches a well-typed asset leaves it well typed, and
\* changes nothing but its bookkeeping.
LEMMA TouchType ==
    ASSUME LedgerType, NEW asset \in Asset
    PROVE  /\ Touch(asset) \in Asset
           /\ Touch(asset).lifecycle = asset.lifecycle
           /\ Touch(asset).compliance = asset.compliance
           /\ Touch(asset).sale = asset.sale
           /\ Touch(asset).quantity = asset.quantity
           /\ Touch(asset).parents = asset.parents
           /\ Touch(asset).children = asset.children
           /\ Touch(asset).createdBy = asset.createdBy
<1>1. TxId \in Nat
  BY DEF LedgerType, TxId
<1>2. asset.stateVersion + 1 \in Nat
  BY DEF Asset
<1>3. Touch(asset) = [asset EXCEPT !.lastUpdatedBy = TxId,
                                   !.stateVersion = asset.stateVersion + 1]
  BY DEF Touch
<1> HIDE DEF TxId
<1> QED
  BY <1>1, <1>2, <1>3 DEF Asset

-----------------------------------------------------------------------------
(* Accepted commands *)

\* What the rules have established by the time an event is applied.
LEMMA AcceptedFacts ==
    ASSUME NEW c \in Command, Accepted(c)
    PROVE  /\ c.type # "CREATE_BATCH" => c.asset \in DOMAIN assets
           /\ c.type \in {"CREATE_BATCH"} \cup Transforming => c.output \notin DOMAIN assets
           /\ c.type \notin {"CREATE_BATCH", "RECALL_BATCH"} =>
                 assets[c.asset].lifecycle # "RECALLED"
           /\ Order(c)
<1>1. AssetRules(c) /\ Order(c)
  BY DEF Accepted, IsValid
<1>2. c.type # "CREATE_BATCH" => c.asset \in DOMAIN assets
  BY <1>1 DEF AssetRules, Subjects
<1>3. c.type \in {"CREATE_BATCH"} \cup Transforming => c.output \notin DOMAIN assets
  BY <1>1 DEF AssetRules, Produced
<1>4. c.type \notin {"CREATE_BATCH", "RECALL_BATCH"} => assets[c.asset].lifecycle # "RECALLED"
  BY <1>1, <1>2 DEF AssetRules, BatchNotRecalled, Present, Subjects
<1> QED
  BY <1>1, <1>2, <1>3, <1>4

\* The three statuses of an asset agree on whether it is recalled.
StatusesAgree(asset) ==
    asset.lifecycle = "RECALLED" <=> asset.compliance = "RECALLED" /\ asset.sale = "PROHIBITED"

\* The step replaces the asset it acts upon by one that is not recalled, and
\* leaves its lineage and the provenance graph alone.
TouchesOne(c) ==
    \E asset \in Asset :
        /\ c.asset \in DOMAIN assets
        /\ assets[c.asset].lifecycle # "RECALLED"
        /\ assets' = WithAsset(c.asset, asset)
        /\ asset.lifecycle # "RECALLED"
        /\ StatusesAgree(asset)
        /\ asset.parents = assets[c.asset].parents
        /\ asset.children = assets[c.asset].children
        /\ asset.createdBy = assets[c.asset].createdBy
        /\ UNCHANGED provenanceEdges

\* Every event but creation, transformation, packaging and recall touches one asset.
LEMMA TouchingEvents ==
    ASSUME TypeOK, \A a \in DOMAIN assets : StatusesAgree(assets[a]),
           NEW c \in Command,
           \/ AnchorDocument(c)
           \/ IssueCertificate(c)
           \/ TransferOwnership(c)
           \/ TransferCustody(c)
           \/ RecordTransportCondition(c)
           \/ ReceiveBatch(c)
           \/ DispatchBatch(c)
           \/ RecordCorrection(c) /\ c.target.kind = "ASSET_FIELD"
    PROVE  TouchesOne(c)
<1> DEFINE old == assets[c.asset]
<1>0. TypeOK /\ LedgerType
  BY DEF TypeOK, LedgerType
<1>1. /\ c.type \notin {"CREATE_BATCH", "RECALL_BATCH"}
      /\ Accepted(c)
  BY DEF AnchorDocument, IssueCertificate, TransferOwnership, TransferCustody,
         RecordTransportCondition, ReceiveBatch, DispatchBatch, RecordCorrection
<1>2. c.asset \in DOMAIN assets /\ old.lifecycle # "RECALLED"
  BY <1>1, AcceptedFacts
<1>3. old \in Asset /\ StatusesAgree(old)
  BY <1>0, <1>2 DEF TypeOK
<1>4. UNCHANGED provenanceEdges
  BY DEF AnchorDocument, IssueCertificate, TransferOwnership, TransferCustody,
         RecordTransportCondition, ReceiveBatch, DispatchBatch, RecordCorrection
<1>5. ASSUME NEW asset \in Asset,
             assets' = WithAsset(c.asset, Touch(asset)),
             asset.lifecycle # "RECALLED", StatusesAgree(asset),
             asset.parents = old.parents, asset.children = old.children,
             asset.createdBy = old.createdBy
      PROVE  TouchesOne(c)
  <2>1. /\ Touch(asset) \in Asset
        /\ Touch(asset).lifecycle # "RECALLED"
        /\ StatusesAgree(Touch(asset))
        /\ Touch(asset).parents = old.parents
        /\ Touch(asset).children = old.children
        /\ Touch(asset).createdBy = old.createdBy
    BY <1>0, <1>5, TouchType DEF StatusesAgree
  <2> QED
    BY <1>2, <1>4, <1>5, <2>1 DEF TouchesOne
<1>6. CASE AnchorDocument(c)
  <2> DEFINE new == [old EXCEPT !.anchors = old.anchors \cup {c.anchor}]
  <2>1. c.anchor \in AnchorId
    BY <1>6, CommandPayload DEF AnchorDocument
  <2>2. /\ new \in Asset
        /\ new.lifecycle = old.lifecycle /\ new.compliance = old.compliance
        /\ new.sale = old.sale /\ new.parents = old.parents
        /\ new.children = old.children /\ new.createdBy = old.createdBy
    BY <1>3, <2>1 DEF Asset
  <2>3. assets' = WithAsset(c.asset, Touch(new))
    BY <1>6 DEF AnchorDocument
  <2> HIDE DEF new
  <2> QED
    BY <1>2, <1>3, <1>5, <2>2, <2>3 DEF StatusesAgree
<1>7. CASE IssueCertificate(c)
  <2> DEFINE compliance == IF old.compliance = "INSPECTION_REQUIRED"
                           THEN old.compliance ELSE "COMPLIANT"
             new == [old EXCEPT !.compliance = compliance, !.lifecycle = "CERTIFIED"]
  <2>1. compliance \in {"INSPECTION_REQUIRED", "COMPLIANT"}
    OBVIOUS
  <2>2. assets' = WithAsset(c.asset, Touch(new))
    BY <1>7 DEF IssueCertificate
  <2> HIDE DEF compliance
  <2>3. /\ new \in Asset
        /\ new.lifecycle = "CERTIFIED" /\ new.compliance = compliance
        /\ new.parents = old.parents
        /\ new.children = old.children /\ new.createdBy = old.createdBy
    BY <1>3, <2>1 DEF Asset, Compliance, Lifecycle
  <2> HIDE DEF new
  <2> QED
    BY <1>5, <2>1, <2>2, <2>3 DEF StatusesAgree
<1>8. CASE TransferOwnership(c)
  <2> DEFINE new == [old EXCEPT !.owner = c.to]
  <2>1. c.to \in OrganizationId
    BY <1>8, CommandPayload DEF TransferOwnership, Outgoing
  <2>2. /\ new \in Asset
        /\ new.lifecycle = old.lifecycle /\ new.compliance = old.compliance
        /\ new.sale = old.sale /\ new.parents = old.parents
        /\ new.children = old.children /\ new.createdBy = old.createdBy
    BY <1>3, <2>1 DEF Asset
  <2>3. assets' = WithAsset(c.asset, Touch(new))
    BY <1>8 DEF TransferOwnership
  <2> HIDE DEF new
  <2> QED
    BY <1>2, <1>3, <1>5, <2>2, <2>3 DEF StatusesAgree
<1>9. CASE TransferCustody(c)
  <2> DEFINE new == [old EXCEPT !.custodian = c.to, !.lifecycle = "IN_TRANSIT"]
  <2>1. c.to \in OrganizationId
    BY <1>9, CommandPayload DEF TransferCustody, Outgoing
  <2>2. /\ new \in Asset
        /\ new.lifecycle = "IN_TRANSIT" /\ new.compliance = old.compliance
        /\ new.sale = old.sale /\ new.parents = old.parents
        /\ new.children = old.children /\ new.createdBy = old.createdBy
    BY <1>3, <2>1 DEF Asset, Lifecycle
  <2>3. assets' = WithAsset(c.asset, Touch(new))
    BY <1>9 DEF TransferCustody
  <2> HIDE DEF new
  <2> QED
    BY <1>2, <1>3, <1>5, <2>2, <2>3 DEF StatusesAgree
<1>10. CASE RecordTransportCondition(c)
  <2> DEFINE compliance == IF c.humidityPercent > c.allowedMaximumHumidityPercent
                           THEN "INSPECTION_REQUIRED" ELSE old.compliance
             new == [old EXCEPT !.compliance = compliance]
  <2>1. compliance \in {"INSPECTION_REQUIRED", old.compliance}
    OBVIOUS
  <2>2. assets' = WithAsset(c.asset, Touch(new))
    BY <1>10 DEF RecordTransportCondition
  <2> HIDE DEF compliance
  <2>3. /\ new \in Asset
        /\ new.lifecycle = old.lifecycle /\ new.compliance = compliance
        /\ new.sale = old.sale /\ new.parents = old.parents
        /\ new.children = old.children /\ new.createdBy = old.createdBy
    BY <1>3, <2>1 DEF Asset, Compliance
  <2> HIDE DEF new
  <2> QED
    BY <1>2, <1>3, <1>5, <2>1, <2>2, <2>3 DEF StatusesAgree
<1>11. CASE ReceiveBatch(c)
  <2> DEFINE new == [old EXCEPT !.custodian = c.to, !.lifecycle = "RECEIVED"]
  <2>1. c.to \in OrganizationId
    BY <1>11, CommandPayload DEF ReceiveBatch
  <2>2. /\ new \in Asset
        /\ new.lifecycle = "RECEIVED" /\ new.compliance = old.compliance
        /\ new.sale = old.sale /\ new.parents = old.parents
        /\ new.children = old.children /\ new.createdBy = old.createdBy
    BY <1>3, <2>1 DEF Asset, Lifecycle
  <2>3. assets' = WithAsset(c.asset, Touch(new))
    BY <1>11 DEF ReceiveBatch
  <2> HIDE DEF new
  <2> QED
    BY <1>2, <1>3, <1>5, <2>2, <2>3 DEF StatusesAgree
<1>12. CASE DispatchBatch(c)
  <2> DEFINE new == [old EXCEPT !.owner = c.to, !.custodian = c.to,
                                !.lifecycle = "AVAILABLE_FOR_SALE", !.sale = "ELIGIBLE"]
  <2>1. c.to \in OrganizationId
    BY <1>12, CommandPayload DEF DispatchBatch, Outgoing
  <2>2. /\ new \in Asset
        /\ new.lifecycle = "AVAILABLE_FOR_SALE" /\ new.sale = "ELIGIBLE"
        /\ new.parents = old.parents
        /\ new.children = old.children /\ new.createdBy = old.createdBy
    BY <1>3, <2>1 DEF Asset, Lifecycle, SaleEligibility
  <2>3. assets' = WithAsset(c.asset, Touch(new))
    BY <1>12 DEF DispatchBatch
  <2> HIDE DEF new
  <2> QED
    BY <1>5, <2>2, <2>3 DEF StatusesAgree
<1>13. CASE RecordCorrection(c) /\ c.target.kind = "ASSET_FIELD"
  <2> DEFINE new == [old EXCEPT !.quantity.amount = c.corrected.amount]
  <2>1. c.corrected \in Quantity
    BY <1>13, CommandPayload DEF RecordCorrection
  <2>2. /\ new \in Asset
        /\ new.lifecycle = old.lifecycle /\ new.compliance = old.compliance
        /\ new.sale = old.sale /\ new.parents = old.parents
        /\ new.children = old.children /\ new.createdBy = old.createdBy
    BY <1>3, <2>1 DEF Asset, Quantity
  <2>3. assets' = WithAsset(c.asset, Touch(new))
    BY <1>13 DEF RecordCorrection
  <2> HIDE DEF new
  <2> QED
    BY <1>2, <1>3, <1>5, <2>2, <2>3 DEF StatusesAgree
<1> QED
  BY <1>6, <1>7, <1>8, <1>9, <1>10, <1>11, <1>12, <1>13

\* Transforming and packaging put one new asset into the world, consume the
\* input, and record the edge between the two.
Makes(c) ==
    \E output, input \in Asset :
        /\ c.asset \in DOMAIN assets
        /\ c.output \in AssetId \ DOMAIN assets
        /\ assets[c.asset].lifecycle # "RECALLED"
        /\ assets' = [x \in DOMAIN assets \cup {c.output} |->
                         CASE x = c.output -> output
                           [] x = c.asset  -> input
                           [] OTHER        -> assets[x]]
        /\ output.lifecycle # "RECALLED" /\ StatusesAgree(output)
        /\ output.parents = {c.asset} /\ output.children = {} /\ output.createdBy = TxId
        /\ input.lifecycle # "RECALLED" /\ StatusesAgree(input)
        /\ input.parents = assets[c.asset].parents
        /\ input.children = assets[c.asset].children \cup {c.output}
        /\ input.createdBy = assets[c.asset].createdBy
        /\ provenanceEdges' = provenanceEdges \cup
              {[source |-> c.asset, target |-> c.output, transaction |-> TxId]}

LEMMA MakingEvents ==
    ASSUME TypeOK, \A a \in DOMAIN assets : StatusesAgree(assets[a]),
           NEW c \in Command, TransformBatch(c) \/ PackageBatch(c)
    PROVE  Makes(c)
<1> DEFINE old == assets[c.asset]
<1>0. TypeOK /\ LedgerType
  BY DEF TypeOK, LedgerType
<1>1. c.type \in Transforming /\ Accepted(c)
  BY DEF TransformBatch, PackageBatch, Transforming
<1>2. /\ c.asset \in DOMAIN assets /\ old.lifecycle # "RECALLED"
      /\ c.output \in AssetId \ DOMAIN assets
  BY <1>1, AcceptedFacts, CommandPayload DEF Transforming
<1>3. old \in Asset /\ StatusesAgree(old)
  BY <1>0, <1>2 DEF TypeOK
<1>4. TxId \in Nat
  BY <1>0 DEF LedgerType, TxId
<1>5. c.asset \in AssetId /\ c.quantity \in Quantity /\ c.packageSize \in PackageSize
  BY <1>0, <1>1, <1>2, CommandPayload DEF TypeOK
<1>6. ASSUME NEW lifecycle \in {"PROCESSED", "PACKAGED"}, MakeFrom(c, lifecycle)
      PROVE  Makes(c)
  <2> DEFINE output == [owner |-> old.owner, custodian |-> old.custodian,
                        lifecycle |-> lifecycle, compliance |-> old.compliance,
                        sale |-> "NOT_YET_ELIGIBLE", quantity |-> c.quantity,
                        packageSize |-> c.packageSize, anchors |-> {},
                        parents |-> {c.asset}, children |-> {}, createdBy |-> TxId,
                        lastUpdatedBy |-> TxId, stateVersion |-> 1]
             used == [old EXCEPT !.lifecycle = "CONSUMED_IN_TRANSFORMATION",
                                 !.children = old.children \cup {c.output}]
             input == Touch(used)
  <2>1. /\ assets' = [x \in DOMAIN assets \cup {c.output} |->
                         CASE x = c.output -> output
                           [] x = c.asset  -> input
                           [] OTHER        -> assets[x]]
        /\ provenanceEdges' = provenanceEdges \cup
              {[source |-> c.asset, target |-> c.output, transaction |-> TxId]}
    BY <1>6 DEF MakeFrom
  <2> HIDE DEF TxId
  <2>2. /\ output \in Asset
        /\ output.lifecycle = lifecycle /\ output.sale = "NOT_YET_ELIGIBLE"
        /\ output.parents = {c.asset} /\ output.children = {} /\ output.createdBy = TxId
    BY <1>3, <1>4, <1>5 DEF Asset, Lifecycle, SaleEligibility
  <2>3. /\ used \in Asset
        /\ used.lifecycle = "CONSUMED_IN_TRANSFORMATION" /\ used.compliance = old.compliance
        /\ used.sale = old.sale /\ used.parents = old.parents
        /\ used.children = old.children \cup {c.output} /\ used.createdBy = old.createdBy
    BY <1>2, <1>3 DEF Asset, Lifecycle
  <2> HIDE DEF output, used
  <2>4. /\ input \in Asset
        /\ input.lifecycle = used.lifecycle /\ input.compliance = used.compliance
        /\ input.sale = used.sale /\ input.parents = used.parents
        /\ input.children = used.children /\ input.createdBy = used.createdBy
    BY <1>0, <2>3, TouchType
  <2> HIDE DEF input
  <2>5. /\ output.lifecycle # "RECALLED" /\ StatusesAgree(output)
        /\ input.lifecycle # "RECALLED" /\ StatusesAgree(input)
    BY <1>2, <1>3, <2>2, <2>3, <2>4 DEF StatusesAgree
  <2>6. /\ input.parents = old.parents /\ input.children = old.children \cup {c.output}
        /\ input.createdBy = old.createdBy
    BY <2>3, <2>4
  <2> QED
    BY <1>2, <2>1, <2>2, <2>4, <2>5, <2>6 DEF Makes
<1> QED
  BY <1>6 DEF TransformBatch, PackageBatch

\* The extent of a recall is closed under "was made into", whatever the graph.
LEMMA ReachableIsClosed ==
    ASSUME NEW root, NEW made, NEW S,
           \A e \in made : e.target \in S
    PROVE  ClosedUnder(Reachable(root, made, S), made)
  BY DEF ClosedUnder, Reachable

LEMMA ReachableHasRoot ==
    ASSUME NEW root, NEW made, NEW S, root \in S
    PROVE  root \in Reachable(root, made, S)
  BY DEF Reachable

\* A recall marks exactly its scope and leaves the rest of the world alone.
Recalls(c) ==
    LET scope == RecallScope(c.asset, provenanceEdges, DOMAIN assets)
    IN  /\ DOMAIN assets' = DOMAIN assets
        /\ assets' \in [DOMAIN assets -> Asset]
        /\ \A x \in DOMAIN assets :
              IF x \in scope
              THEN /\ assets'[x].lifecycle = "RECALLED"
                   /\ assets'[x].compliance = "RECALLED"
                   /\ assets'[x].sale = "PROHIBITED"
                   /\ assets'[x].parents = assets[x].parents
                   /\ assets'[x].children = assets[x].children
                   /\ assets'[x].createdBy = assets[x].createdBy
                   /\ assets'[x] = [assets[x] EXCEPT
                                       !.lifecycle = "RECALLED",
                                       !.compliance = "RECALLED",
                                       !.sale = "PROHIBITED",
                                       !.lastUpdatedBy = assets'[x].lastUpdatedBy,
                                       !.stateVersion = assets'[x].stateVersion]
              ELSE assets'[x] = assets[x]
        /\ UNCHANGED provenanceEdges

LEMMA RecallEvent ==
    ASSUME TypeOK, NEW c \in Command, RecallBatch(c)
    PROVE  Recalls(c)
<1> DEFINE scope == RecallScope(c.asset, provenanceEdges, DOMAIN assets)
           marked(x) == [assets[x] EXCEPT !.lifecycle = "RECALLED",
                                          !.compliance = "RECALLED",
                                          !.sale = "PROHIBITED"]
<1>0. TypeOK /\ LedgerType
  BY DEF TypeOK, LedgerType
<1>1. /\ assets' = [x \in DOMAIN assets |->
                       IF x \in scope THEN Touch(marked(x)) ELSE assets[x]]
      /\ UNCHANGED provenanceEdges
  BY DEF RecallBatch
<1> HIDE DEF scope
<1>2. ASSUME NEW x \in DOMAIN assets
      PROVE  /\ Touch(marked(x)) \in Asset
             /\ Touch(marked(x)).lifecycle = "RECALLED"
             /\ Touch(marked(x)).compliance = "RECALLED"
             /\ Touch(marked(x)).sale = "PROHIBITED"
             /\ Touch(marked(x)).parents = assets[x].parents
             /\ Touch(marked(x)).children = assets[x].children
             /\ Touch(marked(x)).createdBy = assets[x].createdBy
  <2>1. assets[x] \in Asset
    BY <1>0 DEF TypeOK
  <2> DEFINE new == marked(x)
  <2>2. /\ new \in Asset
        /\ new.lifecycle = "RECALLED" /\ new.compliance = "RECALLED"
        /\ new.sale = "PROHIBITED" /\ new.parents = assets[x].parents
        /\ new.children = assets[x].children /\ new.createdBy = assets[x].createdBy
    BY <2>1 DEF Asset, Lifecycle, Compliance, SaleEligibility
  <2> HIDE DEF new
  <2>3. Touch(new) \in Asset /\ Touch(new).lifecycle = "RECALLED"
        /\ Touch(new).compliance = "RECALLED" /\ Touch(new).sale = "PROHIBITED"
        /\ Touch(new).parents = assets[x].parents /\ Touch(new).children = assets[x].children
        /\ Touch(new).createdBy = assets[x].createdBy
    BY <1>0, <2>2, TouchType
  <2> QED
    BY <2>3 DEF new
<1>6. ASSUME NEW x \in DOMAIN assets
      PROVE  Touch(marked(x)) = [assets[x] EXCEPT
                                    !.lifecycle = "RECALLED",
                                    !.compliance = "RECALLED",
                                    !.sale = "PROHIBITED",
                                    !.lastUpdatedBy = Touch(marked(x)).lastUpdatedBy,
                                    !.stateVersion = Touch(marked(x)).stateVersion]
  <2>1. assets[x] \in Asset
    BY <1>0 DEF TypeOK
  <2> QED
    BY <2>1 DEF Touch, Asset
<1> HIDE DEF marked
<1>3. \A x \in DOMAIN assets : assets[x] \in Asset
  BY <1>0 DEF TypeOK
<1>4. /\ DOMAIN assets' = DOMAIN assets
      /\ \A x \in DOMAIN assets :
            assets'[x] = IF x \in scope THEN Touch(marked(x)) ELSE assets[x]
  BY <1>1
<1>5. assets' \in [DOMAIN assets -> Asset]
  BY <1>1, <1>2, <1>3
<1> QED
  BY <1>1, <1>2, <1>4, <1>5, <1>6 DEF Recalls, scope

\* A creation puts one new asset without lineage into the world.
Creates(c) ==
    \E asset \in Asset :
        /\ c.output \in AssetId \ DOMAIN assets
        /\ assets' = WithAsset(c.output, asset)
        /\ asset.lifecycle # "RECALLED"
        /\ StatusesAgree(asset)
        /\ asset.parents = {} /\ asset.children = {} /\ asset.createdBy = TxId
        /\ UNCHANGED provenanceEdges

LEMMA CreatingEvent ==
    ASSUME TypeOK, NEW c \in Command, CreateBatch(c)
    PROVE  Creates(c)
<1> DEFINE new == [owner |-> c.producer, custodian |-> c.producer, lifecycle |-> "CREATED",
                   compliance |-> "PENDING_CERTIFICATION", sale |-> "NOT_YET_ELIGIBLE",
                   quantity |-> c.quantity, packageSize |-> c.packageSize, anchors |-> {},
                   parents |-> {}, children |-> {}, createdBy |-> TxId,
                   lastUpdatedBy |-> TxId, stateVersion |-> 1]
<1>1. c.type = "CREATE_BATCH" /\ Accepted(c)
  BY DEF CreateBatch
<1>2. c.output \in AssetId \ DOMAIN assets
  BY <1>1, AcceptedFacts, CommandPayload
<1>3. TxId \in Nat
  BY DEF TypeOK, TxId
<1>4. c.producer \in OrganizationId /\ c.quantity \in Quantity /\ c.packageSize \in PackageSize
  BY <1>1, CommandPayload
<1>5. assets' = WithAsset(c.output, new) /\ UNCHANGED provenanceEdges
  BY DEF CreateBatch
<1> HIDE DEF TxId
<1>6. /\ new \in Asset
      /\ new.lifecycle = "CREATED" /\ new.compliance = "PENDING_CERTIFICATION"
      /\ new.parents = {} /\ new.children = {} /\ new.createdBy = TxId
  BY <1>3, <1>4 DEF Asset, Lifecycle, Compliance, SaleEligibility
<1> HIDE DEF new
<1> QED
  BY <1>2, <1>5, <1>6 DEF Creates, StatusesAgree

-----------------------------------------------------------------------------
(* The inductive invariant *)

StatusInv == \A a \in DOMAIN assets : StatusesAgree(assets[a])

\* Edges join assets of the world.
EdgesInv ==
    \A e \in provenanceEdges : e.source \in DOMAIN assets /\ e.target \in DOMAIN assets

\* Nothing descends from a recalled asset without being recalled.
FrozenInv ==
    \A e \in provenanceEdges :
        assets[e.source].lifecycle = "RECALLED" => assets[e.target].lifecycle = "RECALLED"

RecallInv == TypeOK /\ StatusInv /\ EdgesInv /\ FrozenInv

\* What a step does to the world, one alternative per kind of event.
WorldStep ==
    \/ UNCHANGED <<assets, provenanceEdges>>
    \/ \E c \in Command : TouchesOne(c) \/ Creates(c) \/ Makes(c) \/ Recalls(c)

LEMMA StepKinds ==
    ASSUME ConfigurationAssumption, TypeOK, StatusInv, [Next]_vars
    PROVE  WorldStep
<1>1. CASE UNCHANGED vars
  BY <1>1 DEF vars, world, WorldStep
<1>2. CASE SealPendingTransactions
  BY <1>2 DEF SealPendingTransactions, world, WorldStep
<1>3. ASSUME NEW c \in Submittable, Accept(c) \/ RejectCommand(c)
      PROVE  WorldStep
  <2>1. c \in Command
    BY DEF ConfigurationAssumption
  <2>2. CASE RejectCommand(c)
    BY <2>2 DEF RejectCommand, world, WorldStep
  <2>3. CASE CreateBatch(c)
    BY <2>1, <2>3, CreatingEvent DEF WorldStep
  <2>4. CASE TransformBatch(c) \/ PackageBatch(c)
    BY <2>1, <2>4, MakingEvents DEF WorldStep, StatusInv
  <2>5. CASE RecallBatch(c)
    BY <2>1, <2>5, RecallEvent DEF WorldStep
  <2>6. CASE RecordCorrection(c) /\ c.target.kind # "ASSET_FIELD"
    BY <2>6 DEF RecordCorrection, WorldStep
  <2>7. CASE \/ AnchorDocument(c)
             \/ IssueCertificate(c)
             \/ TransferOwnership(c)
             \/ TransferCustody(c)
             \/ RecordTransportCondition(c)
             \/ ReceiveBatch(c)
             \/ DispatchBatch(c)
             \/ RecordCorrection(c) /\ c.target.kind = "ASSET_FIELD"
    BY <2>1, <2>7, TouchingEvents DEF WorldStep, StatusInv
  <2> QED
    BY <1>3, <2>2, <2>3, <2>4, <2>5, <2>6, <2>7 DEF Accept
<1> QED
  BY <1>1, <1>2, <1>3 DEF Next

\* Anchors change only when a document is anchored.
AnchorsType ==
    /\ DOMAIN documentAnchors \subseteq AnchorId
    /\ documentAnchors \in [DOMAIN documentAnchors -> Anchor]

LEMMA AnchorsStep ==
    ASSUME ConfigurationAssumption, AnchorsType, [Next]_vars
    PROVE  AnchorsType'
<1>1. ASSUME NEW c \in Submittable, AnchorDocument(c)
      PROVE  AnchorsType'
  <2> DEFINE new == [documentType |-> c.documentType, issuer |-> c.issuer,
                     expiresAt |-> c.expiresAt]
  <2>1. c \in Command /\ c.type = "ANCHOR_DOCUMENT"
    BY <1>1 DEF ConfigurationAssumption, AnchorDocument
  <2>2. c.anchor \in AnchorId /\ new \in Anchor
    BY <2>1, CommandPayload DEF Anchor
  <2>3. documentAnchors' = [x \in DOMAIN documentAnchors \cup {c.anchor} |->
                               IF x = c.anchor THEN new ELSE documentAnchors[x]]
    BY <1>1 DEF AnchorDocument
  <2> HIDE DEF new
  <2> QED
    BY <2>2, <2>3 DEF AnchorsType
<1>2. CASE UNCHANGED documentAnchors
  BY <1>2 DEF AnchorsType
<1>3. \/ UNCHANGED documentAnchors
      \/ \E c \in Submittable : AnchorDocument(c)
  BY DEF Next, Accept, vars, world, RejectCommand, SealPendingTransactions, CreateBatch,
         IssueCertificate, TransferOwnership, TransferCustody, RecordTransportCondition,
         ReceiveBatch, RecordCorrection, TransformBatch, PackageBatch, DispatchBatch,
         RecallBatch
<1> QED
  BY <1>1, <1>2, <1>3

\* The ordering half of the state stays well typed.
LEMMA LedgerStep ==
    ASSUME ConfigurationAssumption, TypeOK, [Next]_vars
    PROVE  LedgerType'
<1>1. ASSUME NEW c \in Submittable, Accept(c) \/ RejectCommand(c)
      PROVE  LedgerType'
  <2>1. c \in Command
    BY DEF ConfigurationAssumption
  <2>2. CASE RejectCommand(c)
    BY <2>1, <2>2, RejectType
  <2>3. CASE Accept(c)
    <3>1. Order(c)
      BY <2>3 DEF Accept, Accepted, CreateBatch, AnchorDocument, IssueCertificate,
            TransferOwnership, TransferCustody, RecordTransportCondition, ReceiveBatch,
            RecordCorrection, TransformBatch, PackageBatch, DispatchBatch, RecallBatch
    <3> QED
      BY <2>1, <3>1, OrderType
  <2> QED
    BY <1>1, <2>2, <2>3
<1>2. CASE SealPendingTransactions
  BY <1>2, SealPendingType
<1>3. CASE UNCHANGED vars
  BY <1>3 DEF vars, TypeOK, LedgerType
<1> QED
  BY <1>1, <1>2, <1>3 DEF Next

LEMMA RecallInvInit == Init => RecallInv
<1> SUFFICES ASSUME Init
             PROVE  RecallInv
  OBVIOUS
<1>1. /\ assets = <<>> /\ DOMAIN assets = {}
      /\ documentAnchors = <<>> /\ DOMAIN documentAnchors = {}
      /\ provenanceEdges = {} /\ transactions = <<>> /\ pending = <<>> /\ blocks = <<>>
  BY DEF Init
<1>2. assets \in [DOMAIN assets -> Asset] /\ documentAnchors \in [DOMAIN documentAnchors -> Anchor]
  BY <1>1
<1>3. transactions \in Seq(Transaction) /\ pending \in Seq(Nat) /\ blocks \in Seq(Seq(Nat))
  BY <1>1
<1>4. TypeOK
  BY <1>1, <1>2, <1>3 DEF TypeOK
<1> QED
  BY <1>1, <1>4 DEF RecallInv, StatusInv, EdgesInv, FrozenInv

\* The part of the invariant that speaks of assets and edges.
WorldInv ==
    /\ DOMAIN assets \subseteq AssetId
    /\ assets \in [DOMAIN assets -> Asset]
    /\ provenanceEdges \subseteq Edge
    /\ StatusInv
    /\ EdgesInv
    /\ FrozenInv

LEMMA WorldStepPreserves ==
    ASSUME RecallInv, WorldStep
    PROVE  WorldInv'
<1> DEFINE made == provenanceEdges
<1>1. WorldInv /\ TxId \in Nat
  BY DEF RecallInv, TypeOK, WorldInv, TxId
<1>2. CASE UNCHANGED <<assets, provenanceEdges>>
  BY <1>1, <1>2 DEF WorldInv, StatusInv, EdgesInv, FrozenInv, StatusesAgree
<1>3. ASSUME NEW c \in Command, TouchesOne(c)
      PROVE  WorldInv'
  <2>1. PICK asset \in Asset :
           /\ c.asset \in DOMAIN assets
           /\ assets[c.asset].lifecycle # "RECALLED"
           /\ assets' = WithAsset(c.asset, asset)
           /\ asset.lifecycle # "RECALLED"
           /\ StatusesAgree(asset)
           /\ UNCHANGED provenanceEdges
    BY <1>3 DEF TouchesOne
  <2>2. /\ DOMAIN assets' = DOMAIN assets
        /\ assets' \in [DOMAIN assets' -> Asset]
        /\ assets'[c.asset] = asset
        /\ \A x \in DOMAIN assets : x # c.asset => assets'[x] = assets[x]
    BY <1>1, <2>1 DEF WorldInv, WithAsset
  <2>3. StatusInv'
    BY <1>1, <2>1, <2>2 DEF WorldInv, StatusInv, StatusesAgree
  <2>4. EdgesInv'
    BY <1>1, <2>1, <2>2 DEF WorldInv, EdgesInv
  <2>5. FrozenInv'
    BY <1>1, <2>1, <2>2 DEF WorldInv, EdgesInv, FrozenInv
  <2> QED
    BY <1>1, <2>1, <2>2, <2>3, <2>4, <2>5 DEF WorldInv
<1>4. ASSUME NEW c \in Command, Creates(c)
      PROVE  WorldInv'
  <2>1. PICK asset \in Asset :
           /\ c.output \in AssetId \ DOMAIN assets
           /\ assets' = WithAsset(c.output, asset)
           /\ asset.lifecycle # "RECALLED"
           /\ StatusesAgree(asset)
           /\ UNCHANGED provenanceEdges
    BY <1>4 DEF Creates
  <2>2. /\ DOMAIN assets' = DOMAIN assets \cup {c.output}
        /\ assets' \in [DOMAIN assets' -> Asset]
        /\ assets'[c.output] = asset
        /\ \A x \in DOMAIN assets : assets'[x] = assets[x]
    BY <1>1, <2>1 DEF WorldInv, WithAsset
  <2>3. StatusInv'
    BY <1>1, <2>1, <2>2 DEF WorldInv, StatusInv, StatusesAgree
  <2>4. EdgesInv'
    BY <1>1, <2>1, <2>2 DEF WorldInv, EdgesInv
  <2>5. FrozenInv'
    BY <1>1, <2>1, <2>2 DEF WorldInv, EdgesInv, FrozenInv
  <2> QED
    BY <1>1, <2>1, <2>2, <2>3, <2>4, <2>5 DEF WorldInv
<1>5. ASSUME NEW c \in Command, Makes(c)
      PROVE  WorldInv'
  <2> DEFINE new == [source |-> c.asset, target |-> c.output, transaction |-> TxId]
  <2>1. PICK output \in Asset, input \in Asset :
           /\ c.asset \in DOMAIN assets
           /\ c.output \in AssetId \ DOMAIN assets
           /\ assets[c.asset].lifecycle # "RECALLED"
           /\ assets' = [x \in DOMAIN assets \cup {c.output} |->
                            CASE x = c.output -> output
                              [] x = c.asset  -> input
                              [] OTHER        -> assets[x]]
           /\ output.lifecycle # "RECALLED" /\ StatusesAgree(output)
           /\ input.lifecycle # "RECALLED" /\ StatusesAgree(input)
           /\ provenanceEdges' = provenanceEdges \cup {new}
    BY <1>5 DEF Makes
  <2>2. /\ DOMAIN assets' = DOMAIN assets \cup {c.output}
        /\ assets'[c.output] = output
        /\ assets'[c.asset] = input
        /\ \A x \in DOMAIN assets : x # c.asset => assets'[x] = assets[x]
    BY <2>1
  <2>3. assets' \in [DOMAIN assets' -> Asset] /\ DOMAIN assets' \subseteq AssetId
    BY <1>1, <2>1 DEF WorldInv
  <2>4. StatusInv'
    BY <1>1, <2>1, <2>2 DEF WorldInv, StatusInv, StatusesAgree
  <2>5. new \in Edge /\ new.source = c.asset /\ new.target = c.output
    BY <1>1, <2>1 DEF Edge, WorldInv
  <2> HIDE DEF new
  <2>6. EdgesInv'
    BY <1>1, <2>1, <2>2, <2>5 DEF WorldInv, EdgesInv
  <2>7. FrozenInv'
    BY <1>1, <2>1, <2>2, <2>5 DEF WorldInv, EdgesInv, FrozenInv
  <2> QED
    BY <1>1, <2>1, <2>3, <2>4, <2>5, <2>6, <2>7 DEF WorldInv
<1>6. ASSUME NEW c \in Command, Recalls(c)
      PROVE  WorldInv'
  <2> DEFINE scope == RecallScope(c.asset, provenanceEdges, DOMAIN assets)
  <2>1. /\ DOMAIN assets' = DOMAIN assets
        /\ assets' \in [DOMAIN assets -> Asset]
        /\ \A x \in DOMAIN assets :
              IF x \in scope
              THEN /\ assets'[x].lifecycle = "RECALLED"
                   /\ assets'[x].compliance = "RECALLED"
                   /\ assets'[x].sale = "PROHIBITED"
              ELSE assets'[x] = assets[x]
        /\ UNCHANGED provenanceEdges
    BY <1>6 DEF Recalls
  <2>2. ClosedUnder(scope, provenanceEdges)
    BY <1>1, ReachableIsClosed DEF WorldInv, EdgesInv, RecallScope
  <2> HIDE DEF scope
  <2>3. StatusInv'
    BY <1>1, <2>1 DEF WorldInv, StatusInv, StatusesAgree
  <2>4. EdgesInv'
    BY <1>1, <2>1 DEF WorldInv, EdgesInv
  <2>5. FrozenInv'
    BY <1>1, <2>1, <2>2 DEF WorldInv, EdgesInv, FrozenInv, ClosedUnder
  <2> QED
    BY <1>1, <2>1, <2>3, <2>4, <2>5 DEF WorldInv
<1> QED
  BY <1>2, <1>3, <1>4, <1>5, <1>6 DEF WorldStep

LEMMA RecallInvStep ==
    ASSUME ConfigurationAssumption, RecallInv, [Next]_vars
    PROVE  RecallInv'
<1>1. TypeOK /\ StatusInv
  BY DEF RecallInv
<1>2. WorldInv'
  BY <1>1, StepKinds, WorldStepPreserves
<1>3. LedgerType'
  BY <1>1, LedgerStep
<1>4. AnchorsType'
  BY <1>1, AnchorsStep DEF TypeOK, AnchorsType
<1> QED
  BY <1>2, <1>3, <1>4 DEF RecallInv, TypeOK, WorldInv, LedgerType, AnchorsType

THEOREM RecallInvariant == Spec => []RecallInv
<1>1. RecallInv /\ [Next]_vars => RecallInv'
  BY ConfigurationAssumption, RecallInvStep
<1> QED
  BY <1>1, RecallInvInit, PTL DEF Spec

\* For every registry, command vocabulary and block size the ledger's state is
\* well typed (domain-state.ts reduce, ledger-engine.ts submitCommand).
THEOREM TypeCorrect == Spec => []TypeOK
  BY RecallInvariant, PTL DEF RecallInv

\* A recall reaches every descendant and nothing descends from recalled goods
\* afterwards, whatever the provenance graph (domain-state.ts BATCH_RECALLED).
THEOREM RecallIsComplete == Spec => []RecallReachesDescendants
<1>1. RecallInv => RecallReachesDescendants
  BY DEF RecallInv, StatusInv, StatusesAgree, FrozenInv, RecallReachesDescendants
<1> QED
  BY <1>1, RecallInvariant, PTL

\* A record rebuilt from its own bookkeeping fields is that record.
LEMMA SameAsset ==
    ASSUME NEW asset \in Asset
    PROVE  asset = [asset EXCEPT !.lastUpdatedBy = asset.lastUpdatedBy,
                                 !.stateVersion = asset.stateVersion]
  BY DEF Asset

LEMMA FrozenStep ==
    ASSUME RecallInv, WorldStep,
           NEW a \in DOMAIN assets, assets[a].lifecycle = "RECALLED"
    PROVE  assets'[a] = [assets[a] EXCEPT
                            !.lastUpdatedBy = assets'[a].lastUpdatedBy,
                            !.stateVersion = assets'[a].stateVersion]
<1>1. assets[a] \in Asset /\ StatusesAgree(assets[a])
  BY DEF RecallInv, TypeOK, StatusInv
<1>2. CASE assets'[a] = assets[a]
  BY <1>1, <1>2, SameAsset
<1>3. ASSUME NEW c \in Command, TouchesOne(c) \/ Creates(c) \/ Makes(c)
      PROVE  assets'[a] = assets[a]
  <2>1. CASE TouchesOne(c)
    BY <2>1 DEF TouchesOne, WithAsset
  <2>2. CASE Creates(c)
    BY <2>2 DEF Creates, WithAsset
  <2>3. CASE Makes(c)
    BY <2>3 DEF Makes
  <2> QED
    BY <1>3, <2>1, <2>2, <2>3
<1>4. ASSUME NEW c \in Command, Recalls(c)
      PROVE  assets'[a] = [assets[a] EXCEPT
                            !.lastUpdatedBy = assets'[a].lastUpdatedBy,
                            !.stateVersion = assets'[a].stateVersion]
  <2>1. \/ assets'[a] = assets[a]
        \/ assets'[a] = [assets[a] EXCEPT
                            !.lifecycle = "RECALLED",
                            !.compliance = "RECALLED",
                            !.sale = "PROHIBITED",
                            !.lastUpdatedBy = assets'[a].lastUpdatedBy,
                            !.stateVersion = assets'[a].stateVersion]
    BY <1>4 DEF Recalls
  <2>2. /\ assets[a].lifecycle = "RECALLED" /\ assets[a].compliance = "RECALLED"
        /\ assets[a].sale = "PROHIBITED"
    BY <1>1 DEF StatusesAgree
  <2> DEFINE by == assets'[a].lastUpdatedBy
             version == assets'[a].stateVersion
  <2>3. [assets[a] EXCEPT !.lifecycle = "RECALLED", !.compliance = "RECALLED",
                          !.sale = "PROHIBITED", !.lastUpdatedBy = by,
                          !.stateVersion = version]
          = [assets[a] EXCEPT !.lastUpdatedBy = by, !.stateVersion = version]
    <3> HIDE DEF by, version
    <3> QED
      BY <1>1, <2>2 DEF Asset
  <2> QED
    BY <1>2, <2>1, <2>3
<1> QED
  BY <1>2, <1>3, <1>4 DEF WorldStep

\* Recalled goods are frozen for good (asset-rules.ts BATCH_NOT_RECALLED with the
\* recall event): no command and no seal changes anything of them but the
\* bookkeeping of a repeated recall.
THEOREM RecalledGoodsAreFrozen == Spec => RecalledStaysFrozen
<1>1. RecallInv /\ [Next]_vars =>
         \A a \in DOMAIN assets :
            assets[a].lifecycle = "RECALLED" =>
               assets'[a] = [assets[a] EXCEPT
                                !.lastUpdatedBy = assets'[a].lastUpdatedBy,
                                !.stateVersion = assets'[a].stateVersion]
  BY ConfigurationAssumption, StepKinds, FrozenStep DEF RecallInv
<1> QED
  BY <1>1, RecallInvariant, PTL DEF Spec, RecalledStaysFrozen

-----------------------------------------------------------------------------
(* The record *)

\* What waits in the queue is in the record, and has not been decided.
PendingIsOrdered ==
    \A k \in DOMAIN pending :
        /\ pending[k] \in DOMAIN transactions
        /\ transactions[pending[k]].status = "ORDERED"

\* What a step leaves of the transactions txs when it makes them into new.
Sticks(txs, new) ==
    /\ Len(txs) <= Len(new)
    /\ \A i \in 1..Len(txs) :
          /\ new[i].command = txs[i].command
          /\ new[i].endorsers = txs[i].endorsers
          /\ txs[i].status # "ORDERED" => new[i] = txs[i]
          /\ txs[i].status = "ORDERED" => new[i].status \in {"ORDERED", "COMMITTED"}

LEMMA SticksToItself ==
    ASSUME NEW txs \in Seq(Transaction)
    PROVE  Sticks(txs, txs)
<1>1. Len(txs) \in Nat
  OBVIOUS
<1> QED
  BY <1>1 DEF Sticks

\* Sealing decides what is in the queue and nothing else.
LEMMA SealSticks ==
    ASSUME blocks \in Seq(Seq(Nat)), ConfigurationAssumption,
           NEW txs \in Seq(Transaction), NEW p \in Seq(Nat), Seal(txs, p),
           \A k \in DOMAIN p : p[k] \in DOMAIN txs /\ txs[p[k]].status = "ORDERED"
    PROVE  /\ Sticks(txs, transactions')
           /\ Len(transactions') = Len(txs)
           /\ \A i \in 1..Len(txs) :
                 IF \E k \in DOMAIN p : p[k] = i
                 THEN transactions'[i].status = "COMMITTED"
                 ELSE transactions'[i] = txs[i]
           /\ pending' = <<>>
           /\ \A b \in DOMAIN blocks : blocks'[b] = blocks[b]
<1> DEFINE n == Len(txs)
           number(i) == Len(blocks) + 1 + ((Position(p, i) - 1) \div MaxTransactionsPerBlock)
<1>1. n \in Nat /\ DOMAIN txs = 1..n /\ \A i \in 1..n : txs[i] \in Transaction
  BY SequenceIsFunction
<1>2. Len(transactions') = n
  BY SealType
<1>3. ASSUME NEW i \in 1..n, \E k \in DOMAIN p : p[k] = i
      PROVE  /\ transactions'[i].command = txs[i].command
             /\ transactions'[i].endorsers = txs[i].endorsers
             /\ transactions'[i].status = "COMMITTED"
             /\ txs[i].status = "ORDERED"
  <2>1. transactions'[i] = [txs[i] EXCEPT !.status = "COMMITTED", !.block = number(i)]
    BY <1>1, <1>3 DEF Seal
  <2> HIDE DEF number
  <2> QED
    BY <1>1, <1>3, <2>1 DEF Transaction
<1>4. ASSUME NEW i \in 1..n, ~\E k \in DOMAIN p : p[k] = i
      PROVE  transactions'[i] = txs[i]
  BY <1>1, <1>4 DEF Seal
<1>5. Sticks(txs, transactions')
  BY <1>1, <1>2, <1>3, <1>4 DEF Sticks
<1>6. \A b \in DOMAIN blocks : blocks'[b] = blocks[b]
  <2> DEFINE more == Batches(p)
  <2>1. more \in Seq(Seq(Nat)) /\ blocks' = blocks \o more
    BY BatchesType DEF Seal
  <2> HIDE DEF more
  <2> QED
    BY <2>1
<1>7. pending' = <<>>
  BY DEF Seal
<1> QED
  BY <1>2, <1>3, <1>4, <1>5, <1>6, <1>7

\* An accepted command is put behind the record, and decided at once when the
\* queue is sealed.
LEMMA OrderSticks ==
    ASSUME ConfigurationAssumption, TypeOK, PendingIsOrdered, NEW c \in Command, Order(c)
    PROVE  /\ Sticks(transactions, transactions')
           /\ Len(transactions') = TxId
           /\ transactions'[TxId].command = c
           /\ transactions'[TxId].status \in {"ORDERED", "COMMITTED"}
           /\ pending' = <<>> => transactions'[TxId].status = "COMMITTED"
           /\ \A b \in DOMAIN blocks : blocks'[b] = blocks[b]
           /\ PendingIsOrdered'
<1> DEFINE new == [command |-> c, status |-> "ORDERED",
                   endorsers |-> RequiredEndorsers(c), block |-> 0]
           ordered == Append(transactions, new)
           queue == Append(pending, Len(transactions) + 1)
           n == Len(transactions)
<1>1. new \in Transaction /\ new.command = c /\ new.status = "ORDERED"
  BY EndorsersAreOrganizations DEF Transaction
<1> HIDE DEF new
<1>2. /\ n \in Nat /\ TxId = n + 1 /\ DOMAIN transactions = 1..n
      /\ transactions \in Seq(Transaction) /\ pending \in Seq(Nat) /\ blocks \in Seq(Seq(Nat))
  BY DEF TypeOK, TxId
<1>3. /\ ordered \in Seq(Transaction) /\ Len(ordered) = n + 1
      /\ ordered[n + 1] = new /\ \A i \in 1..n : ordered[i] = transactions[i]
  BY <1>1, <1>2
<1>4. /\ queue \in Seq(Nat) /\ Len(queue) = Len(pending) + 1 /\ queue[Len(queue)] = n + 1
      /\ Len(queue) \in DOMAIN queue
      /\ \A k \in DOMAIN queue : k = Len(queue) \/ (k \in DOMAIN pending /\ queue[k] = pending[k])
  BY <1>2
<1> HIDE DEF ordered, queue, n
<1>5. \A k \in DOMAIN queue : queue[k] \in 1..(n + 1) /\ ordered[queue[k]].status = "ORDERED"
  <2> TAKE k \in DOMAIN queue
  <2>1. CASE k = Len(queue)
    BY <1>1, <1>2, <1>3, <1>4, <2>1
  <2>2. CASE k \in DOMAIN pending /\ queue[k] = pending[k]
    <3>1. pending[k] \in 1..n /\ transactions[pending[k]].status = "ORDERED"
      BY <1>2, <2>2 DEF PendingIsOrdered
    <3> QED
      BY <1>2, <1>3, <2>2, <3>1
  <2> QED
    BY <1>4, <2>1, <2>2
<1>6. Sticks(transactions, ordered)
  BY <1>2, <1>3 DEF Sticks, n
<1>7. CASE Seal(ordered, queue)
  <2>1. DOMAIN ordered = 1..(n + 1)
    BY <1>2, <1>3
  <2>2. /\ Sticks(ordered, transactions')
        /\ Len(transactions') = n + 1
        /\ \A i \in 1..(n + 1) :
              IF \E k \in DOMAIN queue : queue[k] = i
              THEN transactions'[i].status = "COMMITTED"
              ELSE transactions'[i] = ordered[i]
        /\ pending' = <<>>
        /\ \A b \in DOMAIN blocks : blocks'[b] = blocks[b]
    <3>1. \A k \in DOMAIN queue : queue[k] \in DOMAIN ordered /\ ordered[queue[k]].status = "ORDERED"
      BY <1>5, <2>1
    <3>2. /\ Sticks(ordered, transactions')
          /\ Len(transactions') = Len(ordered)
          /\ \A i \in 1..Len(ordered) :
                IF \E k \in DOMAIN queue : queue[k] = i
                THEN transactions'[i].status = "COMMITTED"
                ELSE transactions'[i] = ordered[i]
          /\ pending' = <<>>
          /\ \A b \in DOMAIN blocks : blocks'[b] = blocks[b]
      BY <1>2, <1>3, <1>4, <1>7, <3>1, SealSticks
    <3> QED
      BY <1>3, <3>2
  <2>3. n + 1 \in 1..(n + 1) /\ \A i \in 1..n : i \in 1..(n + 1)
    BY <1>2
  <2>4. transactions'[n + 1].status = "COMMITTED" /\ transactions'[n + 1].command = c
    BY <1>1, <1>3, <1>4, <2>2, <2>3 DEF Sticks
  <2>5. Sticks(transactions, transactions')
    <3>1. \A i \in 1..n :
             /\ transactions'[i].command = transactions[i].command
             /\ transactions'[i].endorsers = transactions[i].endorsers
             /\ transactions[i].status # "ORDERED" => transactions'[i] = transactions[i]
             /\ transactions[i].status = "ORDERED" =>
                   transactions'[i].status \in {"ORDERED", "COMMITTED"}
      BY <1>3, <2>2, <2>3 DEF Sticks
    <3>2. n <= Len(transactions')
      BY <1>2, <2>2
    <3> QED
      BY <3>1, <3>2 DEF Sticks, n
  <2>6. PendingIsOrdered'
    BY <2>2 DEF PendingIsOrdered
  <2> QED
    BY <1>2, <2>2, <2>4, <2>5, <2>6
<1>8. CASE transactions' = ordered /\ pending' = queue /\ UNCHANGED blocks
  <2>1. PendingIsOrdered'
    BY <1>2, <1>3, <1>5, <1>8 DEF PendingIsOrdered
  <2>2. pending' # <<>>
    BY <1>4, <1>8
  <2> QED
    BY <1>1, <1>2, <1>3, <1>6, <1>8, <2>1, <2>2
<1> QED
  BY <1>7, <1>8 DEF Order, new, ordered, queue

\* Every step adds to the record and never edits it.
LEMMA RecordStep ==
    ASSUME ConfigurationAssumption, TypeOK, PendingIsOrdered, [Next]_vars
    PROVE  /\ Sticks(transactions, transactions')
           /\ \A b \in DOMAIN blocks : blocks'[b] = blocks[b]
           /\ PendingIsOrdered'
<1>1. CASE UNCHANGED vars
  BY <1>1, SticksToItself DEF vars, TypeOK, PendingIsOrdered
<1>2. CASE SealPendingTransactions
  <2>1. /\ Sticks(transactions, transactions') /\ pending' = <<>>
        /\ \A b \in DOMAIN blocks : blocks'[b] = blocks[b]
    BY <1>2, SealSticks DEF SealPendingTransactions, TypeOK, PendingIsOrdered
  <2> QED
    BY <2>1 DEF PendingIsOrdered
<1>3. ASSUME NEW c \in Submittable, RejectCommand(c)
      PROVE  /\ Sticks(transactions, transactions')
             /\ \A b \in DOMAIN blocks : blocks'[b] = blocks[b]
             /\ PendingIsOrdered'
  <2> DEFINE n == Len(transactions)
             new == [command |-> c, status |-> "REJECTED", endorsers |-> {}, block |-> 0]
  <2>1. transactions' = Append(transactions, new) /\ UNCHANGED <<pending, blocks>>
    BY <1>3 DEF RejectCommand
  <2>2. n \in Nat /\ DOMAIN transactions = 1..n /\ transactions \in Seq(Transaction)
    BY DEF TypeOK
  <2> HIDE DEF new
  <2>3. Len(transactions') = n + 1 /\ DOMAIN transactions' = 1..(n + 1)
        /\ \A i \in 1..n : transactions'[i] = transactions[i]
    BY <2>1, <2>2
  <2>4. Sticks(transactions, transactions')
    BY <2>2, <2>3 DEF Sticks
  <2>5. PendingIsOrdered'
    BY <2>1, <2>2, <2>3 DEF PendingIsOrdered
  <2> QED
    BY <2>1, <2>4, <2>5
<1>4. ASSUME NEW c \in Submittable, Accept(c)
      PROVE  /\ Sticks(transactions, transactions')
             /\ \A b \in DOMAIN blocks : blocks'[b] = blocks[b]
             /\ PendingIsOrdered'
  <2>1. c \in Command
    BY DEF ConfigurationAssumption
  <2>2. Order(c)
    BY <1>4 DEF Accept, Accepted, CreateBatch, AnchorDocument, IssueCertificate,
          TransferOwnership, TransferCustody, RecordTransportCondition, ReceiveBatch,
          RecordCorrection, TransformBatch, PackageBatch, DispatchBatch, RecallBatch
  <2> QED
    BY <2>1, <2>2, OrderSticks
<1> QED
  BY <1>1, <1>2, <1>3, <1>4 DEF Next
-----------------------------------------------------------------------------
(* The world *)

IsFlagged(asset) == asset.compliance = "INSPECTION_REQUIRED"

\* What an accepted command does to the assets that exist, to flags and to
\* quantities, and what it brings into existence.
Keeps(c) ==
    \A x \in DOMAIN assets :
        /\ x \in DOMAIN assets'
        /\ IsFlagged(assets[x]) =>
              assets'[x].compliance \in {"INSPECTION_REQUIRED", "RECALLED"}
        /\ assets'[x].quantity =
              IF c.type = "RECORD_CORRECTION" /\ c.target = AssetQuantity(x)
              THEN [assets[x].quantity EXCEPT !.amount = c.corrected.amount]
              ELSE assets[x].quantity

Adds(c) ==
    /\ \A x \in DOMAIN assets' \ DOMAIN assets :
          x \in Produced(c) /\ assets'[x].quantity = c.quantity
    /\ \A e \in provenanceEdges' \ provenanceEdges :
          assets'[e.target].compliance = assets[e.source].compliance

\* An event that touches one asset.
LEMMA TouchedKeeps ==
    ASSUME TypeOK, NEW c \in Command, NEW asset \in Asset,
           c.asset \in DOMAIN assets, assets' = WithAsset(c.asset, Touch(asset)),
           IsFlagged(assets[c.asset]) => IsFlagged(asset),
           asset.quantity =
              IF c.type = "RECORD_CORRECTION" /\ c.target = AssetQuantity(c.asset)
              THEN [assets[c.asset].quantity EXCEPT !.amount = c.corrected.amount]
              ELSE assets[c.asset].quantity,
           c.type = "RECORD_CORRECTION" => \A x \in DOMAIN assets :
                                               c.target = AssetQuantity(x) => x = c.asset,
           UNCHANGED provenanceEdges
    PROVE  Keeps(c) /\ Adds(c)
<1> DEFINE new == Touch(asset)
<1>1. new.compliance = asset.compliance /\ new.quantity = asset.quantity
  BY TouchType DEF TypeOK, LedgerType
<1> HIDE DEF new
<1>2. /\ DOMAIN assets' = DOMAIN assets
      /\ assets'[c.asset] = new
      /\ \A x \in DOMAIN assets : x # c.asset => assets'[x] = assets[x]
  BY DEF WithAsset, new
<1>3. ASSUME NEW x \in DOMAIN assets, x # c.asset
      PROVE  /\ assets'[x] = assets[x]
             /\ ~(c.type = "RECORD_CORRECTION" /\ c.target = AssetQuantity(x))
  BY <1>2, <1>3
<1>4. Keeps(c)
  <2> SUFFICES ASSUME NEW x \in DOMAIN assets
               PROVE  /\ x \in DOMAIN assets'
                      /\ IsFlagged(assets[x]) =>
                            assets'[x].compliance \in {"INSPECTION_REQUIRED", "RECALLED"}
                      /\ assets'[x].quantity =
                            IF c.type = "RECORD_CORRECTION" /\ c.target = AssetQuantity(x)
                            THEN [assets[x].quantity EXCEPT !.amount = c.corrected.amount]
                            ELSE assets[x].quantity
    BY DEF Keeps
  <2>1. CASE x = c.asset
    BY <1>1, <1>2, <2>1 DEF IsFlagged
  <2>2. CASE x # c.asset
    BY <1>2, <1>3, <2>2 DEF IsFlagged
  <2> QED
    BY <2>1, <2>2
<1>5. Adds(c)
  BY <1>2 DEF Adds
<1> QED
  BY <1>4, <1>5

LEMMA TouchingKeeps ==
    ASSUME TypeOK, NEW c \in Command,
           \/ AnchorDocument(c)
           \/ IssueCertificate(c)
           \/ TransferOwnership(c)
           \/ TransferCustody(c)
           \/ RecordTransportCondition(c)
           \/ ReceiveBatch(c)
           \/ DispatchBatch(c)
    PROVE  Keeps(c) /\ Adds(c)
<1> DEFINE old == assets[c.asset]
<1>1. /\ c.type \notin {"CREATE_BATCH", "RECALL_BATCH", "RECORD_CORRECTION"}
      /\ Accepted(c)
  BY DEF AnchorDocument, IssueCertificate, TransferOwnership, TransferCustody,
         RecordTransportCondition, ReceiveBatch, DispatchBatch
<1>2. c.asset \in DOMAIN assets /\ old \in Asset
  BY <1>1, AcceptedFacts DEF TypeOK
<1>3. UNCHANGED provenanceEdges
  BY DEF AnchorDocument, IssueCertificate, TransferOwnership, TransferCustody,
         RecordTransportCondition, ReceiveBatch, DispatchBatch
<1>4. ASSUME NEW asset \in Asset, assets' = WithAsset(c.asset, Touch(asset)),
             IsFlagged(old) => IsFlagged(asset), asset.quantity = old.quantity
      PROVE  Keeps(c) /\ Adds(c)
  BY <1>1, <1>2, <1>3, <1>4, TouchedKeeps
<1>5. CASE AnchorDocument(c)
  <2> DEFINE new == [old EXCEPT !.anchors = old.anchors \cup {c.anchor}]
  <2>1. c.anchor \in AnchorId /\ assets' = WithAsset(c.asset, Touch(new))
    BY <1>5, CommandPayload DEF AnchorDocument
  <2>2. new \in Asset /\ new.compliance = old.compliance /\ new.quantity = old.quantity
    BY <1>2, <2>1 DEF Asset
  <2> HIDE DEF new
  <2> QED
    BY <1>4, <2>1, <2>2 DEF IsFlagged
<1>6. CASE IssueCertificate(c)
  <2> DEFINE compliance == IF old.compliance = "INSPECTION_REQUIRED"
                           THEN old.compliance ELSE "COMPLIANT"
             new == [old EXCEPT !.compliance = compliance, !.lifecycle = "CERTIFIED"]
  <2>1. /\ compliance \in {"INSPECTION_REQUIRED", "COMPLIANT"}
        /\ IsFlagged(old) => compliance = "INSPECTION_REQUIRED"
        /\ assets' = WithAsset(c.asset, Touch(new))
    BY <1>6 DEF IssueCertificate, IsFlagged
  <2> HIDE DEF compliance
  <2>2. new \in Asset /\ new.compliance = compliance /\ new.quantity = old.quantity
    BY <1>2, <2>1 DEF Asset, Compliance, Lifecycle
  <2> HIDE DEF new
  <2> QED
    BY <1>4, <2>1, <2>2 DEF IsFlagged
<1>7. CASE TransferOwnership(c)
  <2> DEFINE new == [old EXCEPT !.owner = c.to]
  <2>1. c.to \in OrganizationId /\ assets' = WithAsset(c.asset, Touch(new))
    BY <1>7, CommandPayload DEF TransferOwnership, Outgoing
  <2>2. new \in Asset /\ new.compliance = old.compliance /\ new.quantity = old.quantity
    BY <1>2, <2>1 DEF Asset
  <2> HIDE DEF new
  <2> QED
    BY <1>4, <2>1, <2>2 DEF IsFlagged
<1>8. CASE TransferCustody(c)
  <2> DEFINE new == [old EXCEPT !.custodian = c.to, !.lifecycle = "IN_TRANSIT"]
  <2>1. c.to \in OrganizationId /\ assets' = WithAsset(c.asset, Touch(new))
    BY <1>8, CommandPayload DEF TransferCustody, Outgoing
  <2>2. new \in Asset /\ new.compliance = old.compliance /\ new.quantity = old.quantity
    BY <1>2, <2>1 DEF Asset, Lifecycle
  <2> HIDE DEF new
  <2> QED
    BY <1>4, <2>1, <2>2 DEF IsFlagged
<1>9. CASE RecordTransportCondition(c)
  <2> DEFINE compliance == IF c.humidityPercent > c.allowedMaximumHumidityPercent
                           THEN "INSPECTION_REQUIRED" ELSE old.compliance
             new == [old EXCEPT !.compliance = compliance]
  <2>1. compliance \in {"INSPECTION_REQUIRED", old.compliance}
        /\ assets' = WithAsset(c.asset, Touch(new))
    BY <1>9 DEF RecordTransportCondition
  <2> HIDE DEF compliance
  <2>2. new \in Asset /\ new.compliance = compliance /\ new.quantity = old.quantity
    BY <1>2, <2>1 DEF Asset, Compliance
  <2> HIDE DEF new
  <2> QED
    BY <1>4, <2>1, <2>2 DEF IsFlagged
<1>10. CASE ReceiveBatch(c)
  <2> DEFINE new == [old EXCEPT !.custodian = c.to, !.lifecycle = "RECEIVED"]
  <2>1. c.to \in OrganizationId /\ assets' = WithAsset(c.asset, Touch(new))
    BY <1>10, CommandPayload DEF ReceiveBatch
  <2>2. new \in Asset /\ new.compliance = old.compliance /\ new.quantity = old.quantity
    BY <1>2, <2>1 DEF Asset, Lifecycle
  <2> HIDE DEF new
  <2> QED
    BY <1>4, <2>1, <2>2 DEF IsFlagged
<1>11. CASE DispatchBatch(c)
  <2> DEFINE new == [old EXCEPT !.owner = c.to, !.custodian = c.to,
                                !.lifecycle = "AVAILABLE_FOR_SALE", !.sale = "ELIGIBLE"]
  <2>1. c.to \in OrganizationId /\ assets' = WithAsset(c.asset, Touch(new))
    BY <1>11, CommandPayload DEF DispatchBatch, Outgoing
  <2>2. new \in Asset /\ new.compliance = old.compliance /\ new.quantity = old.quantity
    BY <1>2, <2>1 DEF Asset, Lifecycle, SaleEligibility
  <2> HIDE DEF new
  <2> QED
    BY <1>4, <2>1, <2>2 DEF IsFlagged
<1> QED
  BY <1>5, <1>6, <1>7, <1>8, <1>9, <1>10, <1>11

\* A correction changes the quantity of the asset it names, or of none.
LEMMA CorrectionKeeps ==
    ASSUME TypeOK, NEW c \in Command, RecordCorrection(c)
    PROVE  Keeps(c) /\ Adds(c)
<1>1. c.type = "RECORD_CORRECTION" /\ Accepted(c) /\ UNCHANGED provenanceEdges
  BY DEF RecordCorrection
<1>2. c.asset \in DOMAIN assets /\ assets[c.asset] \in Asset
  BY <1>1, AcceptedFacts DEF TypeOK
<1>3. c.target \in Target /\ c.corrected \in Quantity
  BY <1>1 DEF Command
<1>4. CASE c.target.kind = "ASSET_FIELD"
  <2> DEFINE new == [assets[c.asset] EXCEPT !.quantity.amount = c.corrected.amount]
  <2>1. c.target.id = c.asset
    BY <1>1, <1>4 DEF Accepted, IsValid, CorrectionRules
  <2>2. c.target = AssetQuantity(c.asset)
    BY <1>3, <1>4, <2>1 DEF Target, AssetQuantity
  <2>3. assets' = WithAsset(c.asset, Touch(new))
    BY <1>4 DEF RecordCorrection
  <2>4. new \in Asset /\ new.compliance = assets[c.asset].compliance
        /\ new.quantity = [assets[c.asset].quantity EXCEPT !.amount = c.corrected.amount]
    BY <1>2, <1>3 DEF Asset, Quantity
  <2>5. \A x \in DOMAIN assets : c.target = AssetQuantity(x) => x = c.asset
    BY <2>1 DEF AssetQuantity
  <2> HIDE DEF new
  <2> QED
    BY <1>1, <1>2, <2>2, <2>3, <2>4, <2>5, TouchedKeeps DEF IsFlagged
<1>5. CASE c.target.kind # "ASSET_FIELD"
  <2>1. assets' = assets
    BY <1>5 DEF RecordCorrection
  <2>2. \A x : c.target # AssetQuantity(x)
    BY <1>5 DEF AssetQuantity
  <2> QED
    BY <1>1, <2>1, <2>2 DEF Keeps, Adds, IsFlagged
<1> QED
  BY <1>4, <1>5

\* Goods made out of other goods take over their flag; the input keeps its own.
LEMMA MakingKeeps ==
    ASSUME TypeOK, NEW c \in Command, TransformBatch(c) \/ PackageBatch(c)
    PROVE  Keeps(c) /\ Adds(c)
<1> DEFINE old == assets[c.asset]
           edge == [source |-> c.asset, target |-> c.output, transaction |-> TxId]
<1>1. c.type \in Transforming /\ Accepted(c) /\ Produced(c) = {c.output}
  BY DEF TransformBatch, PackageBatch, Transforming, Produced
<1>2. c.asset \in DOMAIN assets /\ c.output \notin DOMAIN assets /\ old \in Asset
  <2>1. c.type # "CREATE_BATCH" /\ c.type \in {"CREATE_BATCH"} \cup Transforming
    BY <1>1 DEF Transforming
  <2> QED
    BY <1>1, <2>1, AcceptedFacts DEF TypeOK
<1>3. PICK lifecycle : MakeFrom(c, lifecycle)
  BY DEF TransformBatch, PackageBatch
<1> DEFINE output == [owner |-> old.owner, custodian |-> old.custodian,
                      lifecycle |-> lifecycle, compliance |-> old.compliance,
                      sale |-> "NOT_YET_ELIGIBLE", quantity |-> c.quantity,
                      packageSize |-> c.packageSize, anchors |-> {},
                      parents |-> {c.asset}, children |-> {}, createdBy |-> TxId,
                      lastUpdatedBy |-> TxId, stateVersion |-> 1]
           consumed == [old EXCEPT !.lifecycle = "CONSUMED_IN_TRANSFORMATION",
                                   !.children = @ \cup {c.output}]
           input == Touch(consumed)
<1>4. output.compliance = old.compliance /\ output.quantity = c.quantity
  OBVIOUS
<1>5. input.compliance = old.compliance /\ input.quantity = old.quantity
  <2>1. c.output \in AssetId
    BY <1>1, CommandPayload DEF Transforming
  <2>2. consumed \in Asset /\ consumed.compliance = old.compliance
        /\ consumed.quantity = old.quantity
    BY <1>2, <2>1 DEF Asset, Lifecycle
  <2> HIDE DEF consumed
  <2> QED
    BY <2>2, TouchType DEF TypeOK, LedgerType
<1>6. /\ assets' = [x \in DOMAIN assets \cup {c.output} |->
                       CASE x = c.output -> output
                         [] x = c.asset  -> input
                         [] OTHER        -> assets[x]]
      /\ provenanceEdges' = provenanceEdges \cup {edge}
  BY <1>3 DEF MakeFrom
<1> HIDE DEF output, input
<1>7. /\ DOMAIN assets' = DOMAIN assets \cup {c.output}
      /\ assets'[c.output] = output /\ assets'[c.asset] = input
      /\ \A x \in DOMAIN assets : x # c.asset => assets'[x] = assets[x]
  BY <1>2, <1>6
<1>8. c.type # "RECORD_CORRECTION"
  BY <1>1 DEF Transforming
<1>9. Keeps(c)
  BY <1>5, <1>7, <1>8 DEF Keeps, IsFlagged
<1>10. Adds(c)
  <2>1. edge.source = c.asset /\ edge.target = c.output
    OBVIOUS
  <2> HIDE DEF edge
  <2> QED
    BY <1>1, <1>4, <1>6, <1>7, <2>1 DEF Adds
<1> QED
  BY <1>9, <1>10

LEMMA CreationKeeps ==
    ASSUME TypeOK, NEW c \in Command, CreateBatch(c)
    PROVE  Keeps(c) /\ Adds(c)
<1> DEFINE new == [owner |-> c.producer, custodian |-> c.producer, lifecycle |-> "CREATED",
                   compliance |-> "PENDING_CERTIFICATION", sale |-> "NOT_YET_ELIGIBLE",
                   quantity |-> c.quantity, packageSize |-> c.packageSize, anchors |-> {},
                   parents |-> {}, children |-> {}, createdBy |-> TxId,
                   lastUpdatedBy |-> TxId, stateVersion |-> 1]
<1>1. /\ c.type = "CREATE_BATCH" /\ Accepted(c) /\ Produced(c) = {c.output}
      /\ UNCHANGED provenanceEdges
  BY DEF CreateBatch, Produced
<1>2. c.output \notin DOMAIN assets
  BY <1>1, AcceptedFacts
<1>3. assets' = WithAsset(c.output, new) /\ new.quantity = c.quantity
  BY DEF CreateBatch
<1> HIDE DEF new
<1>4. /\ DOMAIN assets' = DOMAIN assets \cup {c.output} /\ assets'[c.output] = new
      /\ \A x \in DOMAIN assets : assets'[x] = assets[x]
  BY <1>2, <1>3 DEF WithAsset
<1> QED
  BY <1>1, <1>3, <1>4 DEF Keeps, Adds, IsFlagged

LEMMA RecallKeeps ==
    ASSUME TypeOK, NEW c \in Command, RecallBatch(c)
    PROVE  Keeps(c) /\ Adds(c)
<1>1. c.type = "RECALL_BATCH" /\ Recalls(c)
  BY RecallEvent DEF RecallBatch
<1>2. DOMAIN assets' = DOMAIN assets /\ UNCHANGED provenanceEdges
  BY <1>1 DEF Recalls
<1>3. ASSUME NEW x \in DOMAIN assets
      PROVE  /\ IsFlagged(assets[x]) =>
                   assets'[x].compliance \in {"INSPECTION_REQUIRED", "RECALLED"}
             /\ assets'[x].quantity = assets[x].quantity
  <2>1. assets[x] \in Asset
    BY DEF TypeOK
  <2>2. CASE assets'[x] = assets[x]
    BY <2>2 DEF IsFlagged
  <2>3. CASE assets'[x] # assets[x]
    <3> DEFINE by == assets'[x].lastUpdatedBy
               version == assets'[x].stateVersion
    <3>1. /\ assets'[x].compliance = "RECALLED"
          /\ assets'[x] = [assets[x] EXCEPT !.lifecycle = "RECALLED",
                                            !.compliance = "RECALLED",
                                            !.sale = "PROHIBITED",
                                            !.lastUpdatedBy = by, !.stateVersion = version]
      BY <1>1, <2>3 DEF Recalls
    <3> HIDE DEF by, version
    <3>2. assets'[x].quantity = assets[x].quantity
      BY <2>1, <3>1 DEF Asset
    <3> QED
      BY <3>1, <3>2
  <2> QED
    BY <2>2, <2>3
<1> QED
  BY <1>1, <1>2, <1>3 DEF Keeps, Adds

LEMMA AcceptKeeps ==
    ASSUME TypeOK, NEW c \in Command, Accept(c)
    PROVE  Keeps(c) /\ Adds(c)
  BY TouchingKeeps, CorrectionKeeps, MakingKeeps, CreationKeeps, RecallKeeps DEF Accept

-----------------------------------------------------------------------------
(* Nothing is forgotten *)

LEMMA FlagsStep ==
    ASSUME ConfigurationAssumption, TypeOK, [Next]_vars
    PROVE  FlagsStick
<1>1. CASE UNCHANGED <<assets, provenanceEdges>>
  BY <1>1 DEF FlagsStick
<1>2. ASSUME NEW c \in Submittable, Accept(c) PROVE FlagsStick
  <2>1. Keeps(c) /\ Adds(c)
    BY <1>2, AcceptKeeps DEF ConfigurationAssumption
  <2> QED
    BY <2>1 DEF Keeps, Adds, IsFlagged, FlagsStick
<1> QED
  BY <1>1, <1>2 DEF Next, RejectCommand, SealPendingTransactions, vars, world

LEMMA PendingInvariant == Spec => [](TypeOK /\ PendingIsOrdered)
<1>1. Init => PendingIsOrdered
  BY DEF Init, PendingIsOrdered
<1>2. TypeOK /\ PendingIsOrdered /\ [Next]_vars => PendingIsOrdered'
  BY ConfigurationAssumption, RecordStep
<1> QED
  BY <1>1, <1>2, TypeCorrect, PTL DEF Spec

\* An open inspection is never cleared and passes on to what is made of the
\* goods, and the record is only ever added to, for every registry, every
\* vocabulary of commands and both ways of sealing (domain-state.ts reduce,
\* ledger-engine.ts submitCommand and sealPendingTransactions).
THEOREM TheLedgerForgetsNothing == Spec => NothingIsForgotten
<1>1. TypeOK /\ PendingIsOrdered /\ [Next]_vars => FlagsStick /\ RecordSticks
  <2> SUFFICES ASSUME TypeOK, PendingIsOrdered, [Next]_vars
               PROVE  FlagsStick /\ RecordSticks
    OBVIOUS
  <2>1. FlagsStick
    BY ConfigurationAssumption, FlagsStep
  <2>2. Sticks(transactions, transactions') /\ \A b \in DOMAIN blocks : blocks'[b] = blocks[b]
    BY ConfigurationAssumption, RecordStep
  <2>3. DOMAIN transactions = 1..Len(transactions)
    BY DEF TypeOK
  <2> QED
    BY <2>1, <2>2, <2>3 DEF RecordSticks, Sticks
<1> QED
  BY <1>1, PendingInvariant, PTL DEF Spec, NothingIsForgotten

-----------------------------------------------------------------------------
(* Lineage *)

\* Every asset was made by the transaction it names, and what a transaction of
\* the record makes names that transaction.
Made ==
    /\ \A a \in DOMAIN assets :
          /\ assets[a].createdBy \in DOMAIN transactions
          /\ transactions[assets[a].createdBy].status # "REJECTED"
          /\ a \in Produced(transactions[assets[a].createdBy].command)
    /\ \A i \in DOMAIN transactions :
          transactions[i].status # "REJECTED" =>
             \A a \in Produced(transactions[i].command) :
                a \in DOMAIN assets /\ assets[a].createdBy = i

\* The transactions a step leaves as they are, as a reader of the record sees them.
LEMMA KeptTransactions ==
    ASSUME NEW txs \in Seq(Transaction), NEW new \in Seq(Transaction), Sticks(txs, new)
    PROVE  \A i \in DOMAIN txs :
              /\ i \in DOMAIN new
              /\ new[i].command = txs[i].command
              /\ new[i].status = "REJECTED" <=> txs[i].status = "REJECTED"
<1>1. /\ Len(txs) \in Nat /\ DOMAIN txs = 1..Len(txs)
      /\ Len(new) \in Nat /\ DOMAIN new = 1..Len(new)
      /\ \A i \in DOMAIN txs : txs[i] \in Transaction
  BY SequenceIsFunction
<1>2. Len(txs) <= Len(new)
  BY DEF Sticks
<1>3. \A i \in DOMAIN txs : i \in DOMAIN new
  BY <1>1, <1>2
<1> QED
  BY <1>1, <1>3 DEF Sticks

\* The record an accepted command leaves.
Recorded(c) ==
    /\ DOMAIN transactions' = DOMAIN transactions \cup {TxId}
    /\ TxId \notin DOMAIN transactions /\ TxId \in Nat
    /\ \A i \in DOMAIN transactions :
          /\ i < TxId
          /\ transactions'[i].command = transactions[i].command
          /\ transactions'[i].status = "REJECTED" <=> transactions[i].status = "REJECTED"
    /\ transactions'[TxId].command = c
    /\ transactions'[TxId].status # "REJECTED"

LEMMA AcceptRecords ==
    ASSUME ConfigurationAssumption, TypeOK, PendingIsOrdered, NEW c \in Command, Order(c)
    PROVE  Recorded(c)
<1>1. transactions \in Seq(Transaction) /\ transactions' \in Seq(Transaction)
  BY OrderType DEF TypeOK, LedgerType
<1>2. /\ Len(transactions) \in Nat /\ DOMAIN transactions = 1..Len(transactions)
      /\ DOMAIN transactions' = 1..Len(transactions')
  BY <1>1, SequenceIsFunction
<1>3. /\ Sticks(transactions, transactions')
      /\ Len(transactions') = TxId
      /\ transactions'[TxId].command = c
      /\ transactions'[TxId].status \in {"ORDERED", "COMMITTED"}
  BY OrderSticks
<1>4. /\ DOMAIN transactions' = DOMAIN transactions \cup {TxId}
      /\ TxId \notin DOMAIN transactions /\ TxId \in Nat
      /\ \A i \in DOMAIN transactions : i < TxId
  BY <1>2, <1>3 DEF TxId
<1>5. \A i \in DOMAIN transactions :
         /\ transactions'[i].command = transactions[i].command
         /\ transactions'[i].status = "REJECTED" <=> transactions[i].status = "REJECTED"
  BY <1>1, <1>3, KeptTransactions
<1> QED
  BY <1>3, <1>4, <1>5 DEF Recorded

\* A step that makes nothing, and changes no lineage.
MakesNothing ==
    /\ DOMAIN assets' = DOMAIN assets
    /\ \A x \in DOMAIN assets :
          /\ assets'[x].parents = assets[x].parents
          /\ assets'[x].children = assets[x].children
          /\ assets'[x].createdBy = assets[x].createdBy
    /\ UNCHANGED provenanceEdges
    /\ \A i \in DOMAIN transactions :
          /\ i \in DOMAIN transactions'
          /\ transactions'[i].command = transactions[i].command
          /\ transactions'[i].status = "REJECTED" <=> transactions[i].status = "REJECTED"
    /\ \A i \in DOMAIN transactions' \ DOMAIN transactions :
          transactions'[i].status = "REJECTED" \/ Produced(transactions'[i].command) = {}

LEMMA LineageKept ==
    ASSUME Made, LineageIsConsistent, MakesNothing
    PROVE  Made' /\ LineageIsConsistent'
<1>1. ASSUME NEW a \in DOMAIN assets'
      PROVE  /\ assets'[a].createdBy \in DOMAIN transactions'
             /\ transactions'[assets'[a].createdBy].status # "REJECTED"
             /\ a \in Produced(transactions'[assets'[a].createdBy].command)
  BY DEF Made, MakesNothing
<1>2. ASSUME NEW i \in DOMAIN transactions', transactions'[i].status # "REJECTED",
             NEW a \in Produced(transactions'[i].command)
      PROVE  a \in DOMAIN assets' /\ assets'[a].createdBy = i
  <2>1. i \in DOMAIN transactions
    BY <1>2 DEF MakesNothing
  <2>2. transactions[i].status # "REJECTED" /\ a \in Produced(transactions[i].command)
    BY <1>2, <2>1 DEF MakesNothing
  <2> QED
    BY <2>1, <2>2 DEF Made, MakesNothing
<1>3. ASSUME NEW a \in DOMAIN assets'
      PROVE  /\ assets'[a].parents = {e.source : e \in {f \in provenanceEdges' : f.target = a}}
             /\ assets'[a].children = {e.target : e \in {f \in provenanceEdges' : f.source = a}}
             /\ Cardinality(assets'[a].parents) <= 1
  BY DEF LineageIsConsistent, MakesNothing
<1>4. ASSUME NEW e \in provenanceEdges'
      PROVE  /\ {e.source, e.target} \subseteq DOMAIN assets'
             /\ assets'[e.target].createdBy = e.transaction
             /\ assets'[e.source].createdBy < e.transaction
             /\ transactions'[assets'[e.source].createdBy].command.at
                   <= transactions'[e.transaction].command.at
  <2>1. /\ e \in provenanceEdges
        /\ e.source \in DOMAIN assets /\ e.target \in DOMAIN assets
        /\ assets[e.target].createdBy = e.transaction
        /\ assets[e.source].createdBy < e.transaction
        /\ transactions[assets[e.source].createdBy].command.at
              <= transactions[e.transaction].command.at
    BY <1>4 DEF LineageIsConsistent, MakesNothing
  <2>2. assets[e.source].createdBy \in DOMAIN transactions
        /\ e.transaction \in DOMAIN transactions
    BY <2>1 DEF Made
  <2> QED
    BY <2>1, <2>2 DEF MakesNothing
<1>5. Made'
  BY <1>1, <1>2 DEF Made
<1> QED
  BY <1>3, <1>4, <1>5 DEF LineageIsConsistent

\* A step that makes the asset c.output: out of nothing, or out of c.asset.
MakesOne(c) ==
    /\ Recorded(c)
    /\ Produced(c) = {c.output}
    /\ c.output \notin DOMAIN assets
    /\ DOMAIN assets' = DOMAIN assets \cup {c.output}
    /\ \A x \in DOMAIN assets :
          /\ assets'[x].parents = assets[x].parents
          /\ assets'[x].createdBy = assets[x].createdBy
    /\ assets'[c.output].children = {}
    /\ assets'[c.output].createdBy = TxId

\* What lineage needs of a step that makes one asset, whatever it is made of.
LEMMA MadeOne ==
    ASSUME Made, NEW c, MakesOne(c)
    PROVE  Made'
<1>1. ASSUME NEW a \in DOMAIN assets'
      PROVE  /\ assets'[a].createdBy \in DOMAIN transactions'
             /\ transactions'[assets'[a].createdBy].status # "REJECTED"
             /\ a \in Produced(transactions'[assets'[a].createdBy].command)
  <2>1. CASE a = c.output
    BY <2>1 DEF MakesOne, Recorded
  <2>2. CASE a \in DOMAIN assets
    BY <2>2 DEF Made, MakesOne, Recorded
  <2> QED
    BY <2>1, <2>2 DEF MakesOne
<1>2. ASSUME NEW i \in DOMAIN transactions', transactions'[i].status # "REJECTED",
             NEW a \in Produced(transactions'[i].command)
      PROVE  a \in DOMAIN assets' /\ assets'[a].createdBy = i
  <2>1. CASE i = TxId
    BY <1>2, <2>1 DEF MakesOne, Recorded
  <2>2. CASE i \in DOMAIN transactions
    <3>1. transactions[i].status # "REJECTED" /\ a \in Produced(transactions[i].command)
      BY <1>2, <2>2 DEF MakesOne, Recorded
    <3>2. a \in DOMAIN assets /\ assets[a].createdBy = i
      BY <2>2, <3>1 DEF Made
    <3> QED
      BY <3>2 DEF MakesOne
  <2> QED
    BY <2>1, <2>2 DEF MakesOne, Recorded
<1> QED
  BY <1>1, <1>2 DEF Made

\* The edges there are keep telling the truth when one asset is made.
LEMMA OldEdges ==
    ASSUME Made, LineageIsConsistent, NEW c, MakesOne(c), NEW e \in provenanceEdges
    PROVE  /\ {e.source, e.target} \subseteq DOMAIN assets'
           /\ assets'[e.target].createdBy = e.transaction
           /\ assets'[e.source].createdBy < e.transaction
           /\ transactions'[assets'[e.source].createdBy].command.at
                 <= transactions'[e.transaction].command.at
<1>1. /\ e.source \in DOMAIN assets /\ e.target \in DOMAIN assets
      /\ assets[e.target].createdBy = e.transaction
      /\ assets[e.source].createdBy < e.transaction
      /\ transactions[assets[e.source].createdBy].command.at
            <= transactions[e.transaction].command.at
  BY DEF LineageIsConsistent
<1>2. assets[e.source].createdBy \in DOMAIN transactions /\ e.transaction \in DOMAIN transactions
  BY <1>1 DEF Made
<1> QED
  BY <1>1, <1>2 DEF MakesOne, Recorded

\* Goods out of nothing stand alone in the graph.
LEMMA CreatedAlone ==
    ASSUME Made, LineageIsConsistent, EdgesInv, NEW c, MakesOne(c),
           assets'[c.output].parents = {},
           \A x \in DOMAIN assets : assets'[x].children = assets[x].children,
           UNCHANGED provenanceEdges
    PROVE  LineageIsConsistent'
<1>1. ASSUME NEW a \in DOMAIN assets'
      PROVE  /\ assets'[a].parents = {e.source : e \in {f \in provenanceEdges' : f.target = a}}
             /\ assets'[a].children = {e.target : e \in {f \in provenanceEdges' : f.source = a}}
             /\ Cardinality(assets'[a].parents) <= 1
  <2>1. CASE a = c.output
    <3>1. \A f \in provenanceEdges : f.target # a /\ f.source # a
      BY <2>1 DEF MakesOne, EdgesInv
    <3>2. assets'[a].parents = {} /\ assets'[a].children = {}
      BY <2>1 DEF MakesOne
    <3>3. Cardinality({}) = 0
      BY FS_EmptySet
    <3> QED
      BY <3>1, <3>2, <3>3
  <2>2. CASE a \in DOMAIN assets
    <3>1. assets'[a].parents = assets[a].parents /\ assets'[a].children = assets[a].children
      BY <2>2 DEF MakesOne
    <3> QED
      BY <2>2, <3>1 DEF LineageIsConsistent
  <2> QED
    BY <2>1, <2>2 DEF MakesOne
<1>2. \A e \in provenanceEdges' :
         /\ {e.source, e.target} \subseteq DOMAIN assets'
         /\ assets'[e.target].createdBy = e.transaction
         /\ assets'[e.source].createdBy < e.transaction
         /\ transactions'[assets'[e.source].createdBy].command.at
               <= transactions'[e.transaction].command.at
  BY OldEdges
<1> QED
  BY <1>1, <1>2 DEF LineageIsConsistent

\* Goods out of other goods: one edge more, and the lists say so.
LEMMA MadeFrom ==
    ASSUME Made, LineageIsConsistent, EdgesInv, NEW c, MakesOne(c),
           c.asset \in DOMAIN assets, c.at \in Nat,
           \A i \in History(c.asset) : transactions[i].command.at <= c.at,
           assets'[c.output].parents = {c.asset},
           assets'[c.asset].children = assets[c.asset].children \cup {c.output},
           \A x \in DOMAIN assets \ {c.asset} : assets'[x].children = assets[x].children,
           provenanceEdges' = provenanceEdges \cup
               {[source |-> c.asset, target |-> c.output, transaction |-> TxId]}
    PROVE  LineageIsConsistent'
<1> DEFINE new == [source |-> c.asset, target |-> c.output, transaction |-> TxId]
<1>1. /\ new.source = c.asset /\ new.target = c.output /\ new.transaction = TxId
      /\ provenanceEdges' = provenanceEdges \cup {new}
  OBVIOUS
<1> HIDE DEF new
<1>2. c.asset # c.output
      /\ \A f \in provenanceEdges : f.source \in DOMAIN assets /\ f.target \in DOMAIN assets
  BY DEF MakesOne, EdgesInv
<1>3. ASSUME NEW a \in DOMAIN assets'
      PROVE  /\ assets'[a].parents = {e.source : e \in {f \in provenanceEdges' : f.target = a}}
             /\ assets'[a].children = {e.target : e \in {f \in provenanceEdges' : f.source = a}}
             /\ Cardinality(assets'[a].parents) <= 1
  <2>1. CASE a = c.output
    <3>1. {f \in provenanceEdges' : f.target = a} = {new}
          /\ {f \in provenanceEdges' : f.source = a} = {}
      BY <1>1, <1>2, <2>1 DEF MakesOne
    <3>2. assets'[a].parents = {c.asset} /\ assets'[a].children = {}
      BY <2>1 DEF MakesOne
    <3>3. Cardinality({c.asset}) = 1
      BY FS_Singleton
    <3> QED
      BY <1>1, <3>1, <3>2, <3>3
  <2>2. CASE a \in DOMAIN assets
    <3>1. /\ {f \in provenanceEdges' : f.target = a} = {f \in provenanceEdges : f.target = a}
          /\ assets'[a].parents = assets[a].parents
      BY <1>1, <2>2 DEF MakesOne
    <3>2. assets[a].parents = {e.source : e \in {f \in provenanceEdges : f.target = a}}
          /\ assets[a].children = {e.target : e \in {f \in provenanceEdges : f.source = a}}
          /\ Cardinality(assets[a].parents) <= 1
      BY <2>2 DEF LineageIsConsistent
    <3>3. assets'[a].children = {e.target : e \in {f \in provenanceEdges' : f.source = a}}
      <4>1. CASE a = c.asset
        <5>1. {f \in provenanceEdges' : f.source = a}
                = {f \in provenanceEdges : f.source = a} \cup {new}
          BY <1>1, <4>1
        <5>2. {e.target : e \in {f \in provenanceEdges' : f.source = a}}
                = {e.target : e \in {f \in provenanceEdges : f.source = a}} \cup {c.output}
          BY <1>1, <5>1
        <5> QED
          BY <3>2, <4>1, <5>2
      <4>2. CASE a # c.asset
        <5>1. {f \in provenanceEdges' : f.source = a} = {f \in provenanceEdges : f.source = a}
          BY <1>1, <4>2
        <5> QED
          BY <2>2, <3>2, <4>2, <5>1
      <4> QED
        BY <4>1, <4>2
    <3> QED
      BY <3>1, <3>2, <3>3
  <2> QED
    BY <2>1, <2>2 DEF MakesOne
<1>4. ASSUME NEW e \in provenanceEdges'
      PROVE  /\ {e.source, e.target} \subseteq DOMAIN assets'
             /\ assets'[e.target].createdBy = e.transaction
             /\ assets'[e.source].createdBy < e.transaction
             /\ transactions'[assets'[e.source].createdBy].command.at
                   <= transactions'[e.transaction].command.at
  <2>1. CASE e \in provenanceEdges
    BY <2>1, OldEdges
  <2>2. CASE e = new
    <3> DEFINE made == assets[c.asset].createdBy
    <3>1. /\ made \in DOMAIN transactions
          /\ made \in History(c.asset)
      BY DEF Made, History
    <3>2. transactions[made].command.at <= c.at /\ made < TxId
      BY <3>1 DEF MakesOne, Recorded
    <3>3. assets'[c.asset].createdBy = made /\ assets'[c.output].createdBy = TxId
      BY DEF MakesOne
    <3>4. transactions'[made].command = transactions[made].command
          /\ transactions'[TxId].command = c
      BY <3>1 DEF MakesOne, Recorded
    <3>5. {c.asset, c.output} \subseteq DOMAIN assets'
      BY DEF MakesOne
    <3> HIDE DEF made
    <3> QED
      BY <1>1, <2>2, <3>2, <3>3, <3>4, <3>5
  <2> QED
    BY <1>1, <1>4, <2>1, <2>2
<1> QED
  BY <1>3, <1>4 DEF LineageIsConsistent

LineageInv == RecallInv /\ PendingIsOrdered /\ Made /\ LineageIsConsistent

LEMMA MakingLineage ==
    ASSUME ConfigurationAssumption, LineageInv, NEW c \in Command,
           TransformBatch(c) \/ PackageBatch(c)
    PROVE  Made' /\ LineageIsConsistent'
<1>1. /\ Accepted(c) /\ Produced(c) = {c.output} /\ Subjects(c) = {c.asset} /\ Makes(c)
      /\ TypeOK /\ EdgesInv
  BY MakingEvents DEF LineageInv, RecallInv, StatusInv, TransformBatch, PackageBatch,
                      Transforming, Produced, Subjects
<1>2. Recorded(c)
  BY <1>1, AcceptRecords DEF Accepted, LineageInv
<1>3. c.at \in Nat /\ \A i \in History(c.asset) : transactions[i].command.at <= c.at
  BY <1>1, CommandContext DEF Accepted, IsValid, SequenceRules, Time
<1>4. /\ MakesOne(c) /\ c.asset \in DOMAIN assets
      /\ assets'[c.output].parents = {c.asset}
      /\ assets'[c.asset].children = assets[c.asset].children \cup {c.output}
      /\ \A x \in DOMAIN assets \ {c.asset} : assets'[x].children = assets[x].children
      /\ provenanceEdges' = provenanceEdges \cup
            {[source |-> c.asset, target |-> c.output, transaction |-> TxId]}
  <2>1. PICK output \in Asset, input \in Asset :
           /\ c.asset \in DOMAIN assets
           /\ c.output \in AssetId \ DOMAIN assets
           /\ assets' = [x \in DOMAIN assets \cup {c.output} |->
                            CASE x = c.output -> output
                              [] x = c.asset  -> input
                              [] OTHER        -> assets[x]]
           /\ output.parents = {c.asset} /\ output.children = {} /\ output.createdBy = TxId
           /\ input.parents = assets[c.asset].parents
           /\ input.children = assets[c.asset].children \cup {c.output}
           /\ input.createdBy = assets[c.asset].createdBy
           /\ provenanceEdges' = provenanceEdges \cup
                 {[source |-> c.asset, target |-> c.output, transaction |-> TxId]}
    BY <1>1 DEF Makes
  <2> HIDE DEF TxId
  <2>2. /\ DOMAIN assets' = DOMAIN assets \cup {c.output}
        /\ assets'[c.output] = output
        /\ assets'[c.asset] = input
        /\ \A x \in DOMAIN assets : x # c.asset => assets'[x] = assets[x]
    BY <2>1
  <2> QED
    BY <1>1, <1>2, <2>1, <2>2 DEF MakesOne
<1> QED
  BY <1>1, <1>3, <1>4, MadeOne, MadeFrom DEF LineageInv

LEMMA CreatingLineage ==
    ASSUME ConfigurationAssumption, LineageInv, NEW c \in Command, CreateBatch(c)
    PROVE  Made' /\ LineageIsConsistent'
<1>1. /\ Accepted(c) /\ Produced(c) = {c.output} /\ Creates(c) /\ TypeOK /\ EdgesInv
  BY CreatingEvent DEF LineageInv, RecallInv, CreateBatch, Produced
<1>2. Recorded(c)
  BY <1>1, AcceptRecords DEF Accepted, LineageInv
<1>3. /\ MakesOne(c) /\ assets'[c.output].parents = {}
      /\ \A x \in DOMAIN assets : assets'[x].children = assets[x].children
      /\ UNCHANGED provenanceEdges
  <2>1. PICK asset \in Asset :
           /\ c.output \in AssetId \ DOMAIN assets
           /\ assets' = WithAsset(c.output, asset)
           /\ asset.parents = {} /\ asset.children = {} /\ asset.createdBy = TxId
           /\ UNCHANGED provenanceEdges
    BY <1>1 DEF Creates
  <2>2. /\ DOMAIN assets' = DOMAIN assets \cup {c.output}
        /\ assets'[c.output] = asset
        /\ \A x \in DOMAIN assets : assets'[x] = assets[x]
    BY <2>1 DEF WithAsset
  <2> QED
    BY <1>1, <1>2, <2>1, <2>2 DEF MakesOne
<1> QED
  BY <1>1, <1>3, MadeOne, CreatedAlone DEF LineageInv

\* The events that make nothing.
LEMMA KeepingLineage ==
    ASSUME ConfigurationAssumption, LineageInv, NEW c \in Command, Accept(c),
           ~CreateBatch(c), ~TransformBatch(c), ~PackageBatch(c)
    PROVE  MakesNothing
<1>1. TypeOK /\ \A a \in DOMAIN assets : StatusesAgree(assets[a])
  BY DEF LineageInv, RecallInv, StatusInv
<1>2. Accepted(c) /\ Produced(c) = {}
  BY DEF Accept, AnchorDocument, IssueCertificate, TransferOwnership, TransferCustody,
         RecordTransportCondition, ReceiveBatch, RecordCorrection, DispatchBatch, RecallBatch,
         Produced, Transforming
<1>3. Recorded(c)
  BY <1>1, <1>2, AcceptRecords DEF Accepted, LineageInv
<1>4. ASSUME TouchesOne(c)
      PROVE  MakesNothing
  <2>1. PICK asset \in Asset :
           /\ c.asset \in DOMAIN assets
           /\ assets' = WithAsset(c.asset, asset)
           /\ asset.parents = assets[c.asset].parents
           /\ asset.children = assets[c.asset].children
           /\ asset.createdBy = assets[c.asset].createdBy
           /\ UNCHANGED provenanceEdges
    BY <1>4 DEF TouchesOne
  <2>2. /\ DOMAIN assets' = DOMAIN assets /\ assets'[c.asset] = asset
        /\ \A x \in DOMAIN assets : x # c.asset => assets'[x] = assets[x]
    BY <2>1 DEF WithAsset
  <2> QED
    BY <1>2, <1>3, <2>1, <2>2 DEF MakesNothing, Recorded
<1>5. CASE Recalls(c)
  BY <1>2, <1>3, <1>5 DEF MakesNothing, Recorded, Recalls
<1>6. CASE RecordCorrection(c) /\ c.target.kind # "ASSET_FIELD"
  <2>1. UNCHANGED <<assets, provenanceEdges>>
    BY <1>6 DEF RecordCorrection
  <2> QED
    BY <1>2, <1>3, <2>1 DEF MakesNothing, Recorded
<1> QED
  BY <1>1, <1>4, <1>5, <1>6, TouchingEvents, RecallEvent DEF Accept

LEMMA LineageStep ==
    ASSUME ConfigurationAssumption, LineageInv, [Next]_vars
    PROVE  Made' /\ LineageIsConsistent'
<1>1. /\ TypeOK /\ PendingIsOrdered /\ Made /\ LineageIsConsistent
      /\ transactions \in Seq(Transaction) /\ transactions' \in Seq(Transaction)
  BY LedgerStep DEF LineageInv, RecallInv, TypeOK, LedgerType
<1>2. /\ Len(transactions) \in Nat /\ DOMAIN transactions = 1..Len(transactions)
      /\ Len(transactions') \in Nat /\ DOMAIN transactions' = 1..Len(transactions')
  BY <1>1, SequenceIsFunction
<1>3. \A i \in DOMAIN transactions :
         /\ i \in DOMAIN transactions'
         /\ transactions'[i].command = transactions[i].command
         /\ transactions'[i].status = "REJECTED" <=> transactions[i].status = "REJECTED"
  BY <1>1, RecordStep, KeptTransactions
<1>4. CASE UNCHANGED vars
  BY <1>1, <1>4, LineageKept DEF MakesNothing, vars, world
<1>5. CASE SealPendingTransactions
  <2>1. Len(transactions') = Len(transactions) /\ UNCHANGED <<assets, provenanceEdges>>
    BY <1>1, <1>5, SealType DEF SealPendingTransactions, world, TypeOK
  <2> QED
    BY <1>1, <1>2, <1>3, <2>1, LineageKept DEF MakesNothing
<1>6. ASSUME NEW c \in Submittable, RejectCommand(c)
      PROVE  Made' /\ LineageIsConsistent'
  <2> DEFINE n == Len(transactions)
             new == [command |-> c, status |-> "REJECTED", endorsers |-> {}, block |-> 0]
  <2>1. transactions' = Append(transactions, new) /\ UNCHANGED <<assets, provenanceEdges>>
    BY <1>6 DEF RejectCommand, world
  <2>2. new.status = "REJECTED"
    OBVIOUS
  <2> HIDE DEF new
  <2>3. Len(transactions') = n + 1 /\ transactions'[n + 1].status = "REJECTED"
    BY <1>1, <2>1, <2>2
  <2>4. \A i \in DOMAIN transactions' \ DOMAIN transactions : i = n + 1
    BY <1>2, <2>3
  <2> QED
    BY <1>1, <1>3, <2>1, <2>3, <2>4, LineageKept DEF MakesNothing
<1>7. ASSUME NEW c \in Submittable, Accept(c)
      PROVE  Made' /\ LineageIsConsistent'
  <2>1. c \in Command
    BY DEF ConfigurationAssumption
  <2>2. CASE CreateBatch(c)
    BY <2>1, <2>2, CreatingLineage
  <2>3. CASE TransformBatch(c) \/ PackageBatch(c)
    BY <2>1, <2>3, MakingLineage
  <2>4. CASE ~CreateBatch(c) /\ ~TransformBatch(c) /\ ~PackageBatch(c)
    BY <1>1, <1>7, <2>1, <2>4, KeepingLineage, LineageKept
  <2> QED
    BY <2>2, <2>3, <2>4
<1> QED
  BY <1>4, <1>5, <1>6, <1>7 DEF Next

LEMMA LineageInvariant == Spec => []LineageInv
<1>1. Init => Made /\ LineageIsConsistent
  <2> SUFFICES ASSUME Init
               PROVE  Made /\ LineageIsConsistent
    OBVIOUS
  <2>1. DOMAIN assets = {} /\ DOMAIN transactions = {} /\ provenanceEdges = {}
    BY DEF Init
  <2> QED
    BY <2>1 DEF Made, LineageIsConsistent
<1>2. LineageInv /\ [Next]_vars => Made' /\ LineageIsConsistent'
  BY ConfigurationAssumption, LineageStep
<1> QED
  BY <1>1, <1>2, RecallInvariant, PendingInvariant, PTL DEF Spec, LineageInv

\* The edges, the parent and child lists and the creating transactions tell one
\* story, whatever is submitted and however it is sealed (domain-state.ts
\* BATCH_CREATED, BATCH_TRANSFORMED and BATCH_PACKAGED).
THEOREM LineageTellsOneStory == Spec => []LineageIsConsistent
  BY LineageInvariant, PTL DEF LineageInv

-----------------------------------------------------------------------------
(* Effective values *)

\* Every set of numbers has a least one: the form of induction used below.
LEMMA LeastNumber ==
    ASSUME NEW T, T \subseteq Nat, T # {}
    PROVE  \E x \in T : \A y \in T : x <= y
<1> DEFINE R == {p \in Nat \X Nat : p[1] < p[2]}
<1>1. OpToRel(<, Nat) = R
  BY DEF OpToRel
<1>2. IsWellFoundedOn(R, Nat)
  BY <1>1, NatLessThanWellFounded
<1>3. \A m, n \in Nat : <<m, n>> \notin R => n <= m
  OBVIOUS
<1> HIDE DEF R
<1>4. PICK x \in T : \A y \in T : ~(<<y, x>> \in R)
  BY <1>2, WFMin
<1> QED
  BY <1>3, <1>4

\* Transaction tx is a committed correction of target, whose value transaction o set.
Corrects(tx, target, o) ==
    /\ tx.status = "COMMITTED"
    /\ tx.command.type = "RECORD_CORRECTION"
    /\ tx.command.target = target
    /\ tx.command.correctionOf = o

\* The value after transaction tx of a target whose value was v before it.
After(tx, target, o, v) ==
    IF Corrects(tx, target, o) /\ IsCoherent(tx.command, v) THEN tx.command.corrected ELSE v

First(txs, target, o) == CHOOSE v \in ValuesIn(txs[o].command, target) : TRUE

\* f holds the value of target after each of the first n transactions of txs.
Chain(txs, target, o, n, f) ==
    f = [k \in 0..n |-> IF k = 0 THEN First(txs, target, o)
                                 ELSE After(txs[k], target, o, f[k - 1])]

LEMMA ChainExists ==
    ASSUME NEW txs, NEW target, NEW o, NEW n \in Nat
    PROVE  \E f : Chain(txs, target, o, n, f)
<1> DEFINE T == {m \in Nat : ~\E f : Chain(txs, target, o, m, f)}
<1> SUFFICES ASSUME T # {}
             PROVE  FALSE
  OBVIOUS
<1>1. PICK m \in T : \A y \in T : m <= y
  BY LeastNumber
<1>2. CASE m = 0
  <2> DEFINE f == [k \in 0..0 |-> First(txs, target, o)]
  <2>1. Chain(txs, target, o, 0, f)
    BY DEF Chain
  <2> QED
    BY <1>1, <1>2, <2>1
<1>3. CASE m # 0
  <2>1. m - 1 \in Nat /\ m - 1 \notin T
    BY <1>1, <1>3
  <2>2. PICK f : Chain(txs, target, o, m - 1, f)
    BY <2>1
  <2> DEFINE g == [k \in 0..m |-> IF k = m THEN After(txs[m], target, o, f[m - 1]) ELSE f[k]]
  <2>3. ASSUME NEW k \in 0..m
        PROVE  g[k] = IF k = 0 THEN First(txs, target, o)
                               ELSE After(txs[k], target, o, g[k - 1])
    <3>1. CASE k = m
      BY <1>3, <2>1, <3>1
    <3>2. CASE k # m
      <4>1. k \in 0..(m - 1) /\ (k # 0 => k - 1 \in 0..(m - 1))
        BY <3>2
      <4>2. f[k] = IF k = 0 THEN First(txs, target, o)
                            ELSE After(txs[k], target, o, f[k - 1])
        BY <2>2, <4>1 DEF Chain
      <4> QED
        BY <3>2, <4>1, <4>2
    <3> QED
      BY <3>1, <3>2
  <2>4. Chain(txs, target, o, m, g)
    BY <2>3 DEF Chain
  <2> QED
    BY <2>4
<1> QED
  BY <1>2, <1>3

\* Chains over records that agree, for the target, on their first n transactions
\* agree that far.
LEMMA ChainsAgree ==
    ASSUME NEW txs, NEW new, NEW target, NEW o, NEW n \in Nat, NEW m \in Nat, n <= m,
           NEW f, Chain(txs, target, o, n, f), NEW g, Chain(new, target, o, m, g),
           First(new, target, o) = First(txs, target, o),
           \A k \in 1..n : \A v : After(new[k], target, o, v) = After(txs[k], target, o, v)
    PROVE  \A k \in 0..n : g[k] = f[k]
<1> DEFINE T == {k \in 0..n : g[k] # f[k]}
<1> SUFFICES ASSUME T # {}
             PROVE  FALSE
  OBVIOUS
<1>1. PICK k \in T : \A y \in T : k <= y
  <2>1. T \subseteq Nat
    OBVIOUS
  <2> QED
    BY <2>1, LeastNumber
<1>2. /\ k \in 0..n /\ k \in 0..m
      /\ f[k] = IF k = 0 THEN First(txs, target, o) ELSE After(txs[k], target, o, f[k - 1])
      /\ g[k] = IF k = 0 THEN First(new, target, o) ELSE After(new[k], target, o, g[k - 1])
  BY DEF Chain
<1>3. k # 0
  BY <1>1, <1>2
<1>4. k - 1 \in 0..n /\ k - 1 \notin T
  BY <1>1, <1>2, <1>3
<1>5. g[k - 1] = f[k - 1]
  BY <1>4
<1>6. k \in 1..n
  BY <1>2, <1>3
<1> QED
  BY <1>1, <1>2, <1>3, <1>5, <1>6

\* A target that no transaction corrects keeps its first value.
LEMMA ChainUncorrected ==
    ASSUME NEW txs, NEW target, NEW o, NEW n \in Nat, NEW f, Chain(txs, target, o, n, f),
           \A k \in 1..n : ~Corrects(txs[k], target, o)
    PROVE  f[n] = First(txs, target, o)
<1> DEFINE T == {k \in 0..n : f[k] # First(txs, target, o)}
<1> SUFFICES ASSUME T # {}
             PROVE  FALSE
  OBVIOUS
<1>1. PICK k \in T : \A y \in T : k <= y
  <2>1. T \subseteq Nat
    OBVIOUS
  <2> QED
    BY <2>1, LeastNumber
<1>2. /\ k \in 0..n
      /\ f[k] = IF k = 0 THEN First(txs, target, o) ELSE After(txs[k], target, o, f[k - 1])
  BY DEF Chain
<1>3. k # 0
  BY <1>1, <1>2
<1>4. k - 1 \in 0..n /\ k - 1 \notin T
  BY <1>1, <1>2, <1>3
<1>5. f[k - 1] = First(txs, target, o)
  BY <1>4
<1>6. k \in 1..n
  BY <1>2, <1>3
<1> QED
  BY <1>1, <1>2, <1>3, <1>5, <1>6 DEF After

\* The effective value is the end of such a chain; so it is in the next state.
LEMMA EffectiveIsChain ==
    ASSUME Len(transactions) \in Nat, NEW target
    PROVE  \E f : /\ Chain(transactions, target, OriginalTransaction(target), Len(transactions), f)
                  /\ EffectiveValue(target) = f[Len(transactions)]
<1> DEFINE o == OriginalTransaction(target)
           n == Len(transactions)
           f == CHOOSE g : Chain(transactions, target, o, n, g)
<1>1. Chain(transactions, target, o, n, f)
  BY ChainExists
<1>2. EffectiveValue(target) = f[n]
  BY Zenon DEF Chain, First, After, Corrects, EffectiveValue, IsCommittedCorrection
<1> QED
  BY <1>1, <1>2

LEMMA NextEffectiveIsChain ==
    ASSUME Len(transactions') \in Nat, NEW target
    PROVE  \E f : /\ Chain(transactions', target, OriginalTransaction(target)',
                           Len(transactions'), f)
                  /\ EffectiveValue(target)' = f[Len(transactions')]
<1> DEFINE o == OriginalTransaction(target)'
           n == Len(transactions')
           f == CHOOSE g : Chain(transactions', target, o, n, g)
<1>1. Chain(transactions', target, o, n, f)
  BY ChainExists
<1>2. EffectiveValue(target)' = f[n]
  BY Zenon DEF Chain, First, After, Corrects, EffectiveValue, IsCommittedCorrection
<1> QED
  BY <1>1, <1>2

\* One more transaction carries the effective value one step on.
LEMMA NextEffectiveValue ==
    ASSUME Len(transactions) \in Nat, Len(transactions') \in Nat,
           Len(transactions) <= Len(transactions'),
           \A k \in 1..Len(transactions) : transactions'[k] = transactions[k],
           NEW target, NEW o \in 1..Len(transactions),
           OriginalTransaction(target) = o, OriginalTransaction(target)' = o
    PROVE  /\ Len(transactions') = Len(transactions) =>
                 EffectiveValue(target)' = EffectiveValue(target)
           /\ Len(transactions') = Len(transactions) + 1 =>
                 EffectiveValue(target)' = After(transactions'[Len(transactions')], target, o,
                                                 EffectiveValue(target))
<1> DEFINE n == Len(transactions)
           m == Len(transactions')
           old == EffectiveValue(target)
           value == EffectiveValue(target)'
<1>1. PICK f : Chain(transactions, target, o, n, f) /\ old = f[n]
  BY EffectiveIsChain
<1>2. PICK g : Chain(transactions', target, o, m, g) /\ value = g[m]
  BY NextEffectiveIsChain
<1>3. First(transactions', target, o) = First(transactions, target, o)
  BY DEF First
<1>4. \A k \in 1..n : \A v : After(transactions'[k], target, o, v)
                               = After(transactions[k], target, o, v)
  OBVIOUS
<1>5. g[n] = f[n]
  <2>1. \A k \in 0..n : g[k] = f[k]
    BY <1>1, <1>2, <1>3, <1>4, ChainsAgree
  <2> QED
    BY <2>1
<1> HIDE DEF n, m, old, value
<1>6. CASE m = n + 1
  <2>1. g[m] = After(transactions'[m], target, o, g[m - 1])
    BY <1>2, <1>6 DEF Chain, n, m
  <2>2. m - 1 = n
    BY <1>6 DEF n, m
  <2> QED
    BY <1>1, <1>2, <1>5, <1>6, <2>1, <2>2 DEF n, m, old, value
<1> QED
  BY <1>1, <1>2, <1>5, <1>6 DEF n, m, old, value

-----------------------------------------------------------------------------
(* Quantities *)

\* A ledger that decides a command as soon as it has accepted it.
SealsAtOnce == BlockCommitMode = "IMMEDIATE" \/ MaxTransactionsPerBlock = 1

Decided ==
    /\ pending = <<>>
    /\ \A i \in DOMAIN transactions : transactions[i].status # "ORDERED"

\* A correction is of an earlier transaction.
CorrectionsLookBack ==
    \A i \in DOMAIN transactions :
        /\ transactions[i].status # "REJECTED"
        /\ transactions[i].command.type = "RECORD_CORRECTION"
        => transactions[i].command.correctionOf < i

\* A ledger that seals at once leaves the whole record as it was, and adds to it
\* at most one transaction.
RecordGrows ==
    /\ Len(transactions) \in Nat /\ Len(transactions') \in Nat
    /\ DOMAIN transactions = 1..Len(transactions)
    /\ DOMAIN transactions' = 1..Len(transactions')
    /\ Len(transactions') \in {Len(transactions), Len(transactions) + 1}
    /\ \A k \in 1..Len(transactions) : transactions'[k] = transactions[k]

LEMMA DecidedPrefix ==
    ASSUME Decided, transactions \in Seq(Transaction), transactions' \in Seq(Transaction),
           Sticks(transactions, transactions'),
           Len(transactions') \in {Len(transactions), Len(transactions) + 1}
    PROVE  RecordGrows
<1>1. /\ Len(transactions) \in Nat /\ Len(transactions') \in Nat
      /\ DOMAIN transactions = 1..Len(transactions)
      /\ DOMAIN transactions' = 1..Len(transactions')
  BY SequenceIsFunction
<1>2. \A k \in 1..Len(transactions) : transactions'[k] = transactions[k]
  BY <1>1 DEF Decided, Sticks
<1> QED
  BY <1>1, <1>2 DEF RecordGrows

LEMMA AcceptDecides ==
    ASSUME ConfigurationAssumption, SealsAtOnce, TypeOK, PendingIsOrdered, Decided,
           NEW c \in Command, Order(c)
    PROVE  /\ RecordGrows
           /\ Len(transactions') = Len(transactions) + 1
           /\ transactions'[Len(transactions')].command = c
           /\ transactions'[Len(transactions')].status = "COMMITTED"
           /\ pending' = <<>>
<1> DEFINE ordered == Append(transactions, [command |-> c, status |-> "ORDERED",
                              endorsers |-> RequiredEndorsers(c), block |-> 0])
           queue == Append(pending, Len(transactions) + 1)
<1>1. Len(queue) = 1
  BY DEF Decided
<1>2. Seal(ordered, queue)
  <2> HIDE DEF ordered, queue
  <2>1. IF BlockCommitMode = "IMMEDIATE" \/ Len(queue) >= MaxTransactionsPerBlock
        THEN Seal(ordered, queue)
        ELSE transactions' = ordered /\ pending' = queue /\ UNCHANGED blocks
    BY DEF Order, ordered, queue
  <2> QED
    BY <1>1, <2>1 DEF SealsAtOnce
<1>3. pending' = <<>>
  BY <1>2 DEF Seal
<1>4. /\ Sticks(transactions, transactions') /\ Len(transactions') = TxId
      /\ transactions'[TxId].command = c /\ transactions'[TxId].status = "COMMITTED"
  BY <1>3, OrderSticks
<1>5. transactions \in Seq(Transaction) /\ transactions' \in Seq(Transaction)
  BY OrderType DEF TypeOK, LedgerType
<1>6. RecordGrows
  BY <1>4, <1>5, DecidedPrefix DEF TxId
<1> QED
  BY <1>3, <1>4, <1>6 DEF TxId

LEMMA RejectGrows ==
    ASSUME TypeOK, Decided, NEW c \in Command, RejectCommand(c)
    PROVE  /\ RecordGrows
           /\ Len(transactions') = Len(transactions) + 1
           /\ transactions'[Len(transactions')].status = "REJECTED"
           /\ UNCHANGED <<assets, pending>>
<1> DEFINE n == Len(transactions)
           new == [command |-> c, status |-> "REJECTED", endorsers |-> {}, block |-> 0]
<1>1. transactions' = Append(transactions, new) /\ UNCHANGED <<assets, pending>>
  BY DEF RejectCommand, world
<1>2. new \in Transaction /\ new.status = "REJECTED"
  BY DEF Transaction
<1> HIDE DEF new
<1>3. n \in Nat /\ DOMAIN transactions = 1..n /\ transactions \in Seq(Transaction)
  BY DEF TypeOK
<1>4. Len(transactions') = n + 1 /\ DOMAIN transactions' = 1..(n + 1)
      /\ transactions'[n + 1] = new /\ \A k \in 1..n : transactions'[k] = transactions[k]
  BY <1>1, <1>2, <1>3
<1> QED
  BY <1>1, <1>2, <1>3, <1>4 DEF RecordGrows

\* Sealing an empty queue leaves the record alone, as a step that does nothing does.
LEMMA IdleGrows ==
    ASSUME ConfigurationAssumption, TypeOK, PendingIsOrdered, Decided,
           SealPendingTransactions \/ UNCHANGED vars
    PROVE  /\ RecordGrows
           /\ Len(transactions') = Len(transactions)
           /\ pending' = <<>>
           /\ UNCHANGED assets
<1>1. transactions \in Seq(Transaction) /\ blocks \in Seq(Seq(Nat)) /\ pending \in Seq(Nat)
  BY DEF TypeOK
<1>2. CASE SealPendingTransactions
  <2>1. Seal(transactions, pending) /\ UNCHANGED assets
    BY <1>2 DEF SealPendingTransactions, world
  <2>2. /\ Sticks(transactions, transactions') /\ Len(transactions') = Len(transactions)
        /\ pending' = <<>>
    BY <1>1, <2>1, SealSticks DEF PendingIsOrdered
  <2>3. transactions' \in Seq(Transaction)
    BY <1>1, <2>1, SealType
  <2> QED
    BY <1>1, <2>1, <2>2, <2>3, DecidedPrefix
<1>3. CASE UNCHANGED vars
  <2>1. UNCHANGED <<transactions, pending, assets>>
    BY <1>3 DEF vars, world
  <2> QED
    BY <1>1, <2>1, SticksToItself, DecidedPrefix DEF Decided
<1> QED
  BY <1>2, <1>3

\* The value of an existing asset was set by the transaction that made it.
OriginalsKnown ==
    \A a \in DOMAIN assets :
        /\ Originals(AssetQuantity(a)) = {assets[a].createdBy}
        /\ OriginalTransaction(AssetQuantity(a)) = assets[a].createdBy
        /\ assets[a].createdBy \in 1..Len(transactions)
        /\ a \in Produced(transactions[assets[a].createdBy].command)

LEMMA OriginalsAreKnown ==
    ASSUME TypeOK, Made, Decided
    PROVE  OriginalsKnown
<1> SUFFICES ASSUME NEW a \in DOMAIN assets
             PROVE  /\ Originals(AssetQuantity(a)) = {assets[a].createdBy}
                    /\ OriginalTransaction(AssetQuantity(a)) = assets[a].createdBy
                    /\ assets[a].createdBy \in 1..Len(transactions)
                    /\ a \in Produced(transactions[assets[a].createdBy].command)
  BY DEF OriginalsKnown
<1> DEFINE o == assets[a].createdBy
           target == AssetQuantity(a)
<1>1. /\ DOMAIN transactions = 1..Len(transactions) /\ Len(transactions) \in Nat
      /\ \A i \in DOMAIN transactions : transactions[i] \in Transaction
  BY SequenceIsFunction DEF TypeOK
<1>2. /\ o \in DOMAIN transactions /\ transactions[o].status # "REJECTED"
      /\ a \in Produced(transactions[o].command)
  BY DEF Made
<1>3. \A i \in DOMAIN transactions : transactions[i].status \in {"REJECTED", "COMMITTED"}
  BY <1>1 DEF Transaction, Decided
<1>4. \A i : ValuesIn(transactions[i].command, target) # {}
               <=> a \in Produced(transactions[i].command)
  BY DEF ValuesIn, AssetQuantity
<1>5. \A i \in DOMAIN transactions :
         transactions[i].status = "COMMITTED" /\ a \in Produced(transactions[i].command) => i = o
  BY DEF Made
<1> HIDE DEF o, target
<1>6. Originals(target) = {o}
  BY <1>2, <1>3, <1>4, <1>5 DEF Originals
<1>7. o \in Nat
  BY <1>1, <1>2
<1>8. OriginalTransaction(target) = o
  BY <1>6, <1>7 DEF OriginalTransaction
<1> QED
  BY <1>1, <1>2, <1>6, <1>8 DEF o, target

QuantityInv ==
    \A a \in DOMAIN assets : assets[a].quantity = EffectiveValue(AssetQuantity(a))

RecordInv ==
    /\ LineageInv /\ Decided /\ CorrectionsLookBack /\ OriginalsKnown

LEMMA DecidedStep ==
    ASSUME ConfigurationAssumption, SealsAtOnce, RecordInv, [Next]_vars
    PROVE  Decided' /\ CorrectionsLookBack'
<1>1. TypeOK /\ PendingIsOrdered /\ Decided /\ CorrectionsLookBack
  BY DEF RecordInv, LineageInv, RecallInv
<1>2. ASSUME RecordGrows, Len(transactions') = Len(transactions), pending' = <<>>
      PROVE  Decided' /\ CorrectionsLookBack'
  BY <1>1, <1>2 DEF Decided, CorrectionsLookBack, RecordGrows
<1>3. ASSUME RecordGrows, Len(transactions') = Len(transactions) + 1, pending' = <<>>,
             transactions'[Len(transactions')].status # "ORDERED",
             \/ transactions'[Len(transactions')].status = "REJECTED"
             \/ transactions'[Len(transactions')].command.type # "RECORD_CORRECTION"
             \/ transactions'[Len(transactions')].command.correctionOf \in DOMAIN transactions
      PROVE  Decided' /\ CorrectionsLookBack'
  <2> DEFINE n == Len(transactions)
  <2>1. /\ n \in Nat /\ DOMAIN transactions = 1..n /\ DOMAIN transactions' = 1..(n + 1)
        /\ \A k \in 1..n : transactions'[k] = transactions[k]
    BY <1>3 DEF RecordGrows
  <2>2. \A k \in 1..(n + 1) : k \in 1..n \/ k = n + 1
    BY <2>1
  <2>3. Decided'
    BY <1>1, <1>3, <2>1, <2>2 DEF Decided
  <2>4. ASSUME NEW k \in DOMAIN transactions', transactions'[k].status # "REJECTED",
               transactions'[k].command.type = "RECORD_CORRECTION"
        PROVE  transactions'[k].command.correctionOf < k
    <3>1. CASE k \in 1..n
      BY <1>1, <2>1, <2>4, <3>1 DEF CorrectionsLookBack
    <3>2. CASE k = n + 1
      <4>1. transactions'[k].command.correctionOf \in 1..n
        BY <1>3, <2>1, <2>4, <3>2
      <4> QED
        BY <2>1, <3>2, <4>1
    <3> QED
      BY <2>1, <2>2, <3>1, <3>2
  <2> QED
    BY <2>3, <2>4 DEF CorrectionsLookBack
<1>4. CASE SealPendingTransactions \/ UNCHANGED vars
  BY <1>1, <1>2, <1>4, IdleGrows
<1>5. ASSUME NEW c \in Submittable, RejectCommand(c)
      PROVE  Decided' /\ CorrectionsLookBack'
  <2>1. /\ RecordGrows /\ Len(transactions') = Len(transactions) + 1
        /\ transactions'[Len(transactions')].status = "REJECTED" /\ UNCHANGED pending
    BY <1>1, <1>5, RejectGrows DEF ConfigurationAssumption
  <2> QED
    BY <1>1, <1>3, <2>1 DEF Decided
<1>6. ASSUME NEW c \in Submittable, Accept(c)
      PROVE  Decided' /\ CorrectionsLookBack'
  <2>1. c \in Command
    BY DEF ConfigurationAssumption
  <2>2. Accepted(c)
    BY <1>6 DEF Accept, CreateBatch, AnchorDocument, IssueCertificate,
          TransferOwnership, TransferCustody, RecordTransportCondition, ReceiveBatch,
          RecordCorrection, TransformBatch, PackageBatch, DispatchBatch, RecallBatch
  <2>3. Order(c) /\ (c.type = "RECORD_CORRECTION" => c.correctionOf \in DOMAIN transactions)
    BY <2>2 DEF Accepted, IsValid, CorrectionRules
  <2>4. /\ RecordGrows /\ Len(transactions') = Len(transactions) + 1 /\ pending' = <<>>
        /\ transactions'[Len(transactions')].command = c
        /\ transactions'[Len(transactions')].status = "COMMITTED"
    BY <1>1, <2>1, <2>3, AcceptDecides
  <2> QED
    BY <1>3, <2>3, <2>4
<1> QED
  BY <1>4, <1>5, <1>6 DEF Next

LEMMA RecordInvariant == SealsAtOnce => (Spec => []RecordInv)
<1> SUFFICES ASSUME SealsAtOnce
             PROVE  Spec => []RecordInv
  OBVIOUS
<1> DEFINE I == LineageInv /\ Decided /\ CorrectionsLookBack
<1>1. Init => Decided /\ CorrectionsLookBack
  BY DEF Init, Decided, CorrectionsLookBack
<1>2. I => OriginalsKnown
  BY OriginalsAreKnown DEF LineageInv, RecallInv
<1>3. I /\ [Next]_vars => Decided' /\ CorrectionsLookBack'
  BY <1>2, ConfigurationAssumption, DecidedStep DEF RecordInv
<1> QED
  BY <1>1, <1>2, <1>3, LineageInvariant, PTL DEF Spec, RecordInv

\* The effective value of an asset the step does not make.
LEMMA OldEffectiveValue ==
    ASSUME RecordInv, RecordInv', RecordGrows, NEW a \in DOMAIN assets, a \in DOMAIN assets',
           assets'[a].createdBy = assets[a].createdBy
    PROVE  LET target == AssetQuantity(a)
           IN  /\ Len(transactions') = Len(transactions) =>
                     EffectiveValue(target)' = EffectiveValue(target)
               /\ Len(transactions') = Len(transactions) + 1 =>
                     EffectiveValue(target)' =
                         After(transactions'[Len(transactions')], target,
                               OriginalTransaction(target), EffectiveValue(target))
<1> DEFINE target == AssetQuantity(a)
           o == assets[a].createdBy
<1>1. o \in 1..Len(transactions) /\ OriginalTransaction(target) = o
  BY DEF RecordInv, OriginalsKnown
<1>2. OriginalTransaction(target)' = o
  BY DEF RecordInv, OriginalsKnown, AssetQuantity
<1>3. /\ Len(transactions) \in Nat /\ Len(transactions') \in Nat
      /\ Len(transactions) <= Len(transactions')
      /\ \A k \in 1..Len(transactions) : transactions'[k] = transactions[k]
  <2> DEFINE n == Len(transactions)
             m == Len(transactions')
  <2>1. n \in Nat /\ m \in {n, n + 1}
    BY DEF RecordGrows
  <2> HIDE DEF n, m
  <2>2. n <= m
    BY <2>1
  <2> QED
    BY <2>2 DEF RecordGrows, n, m
<1> HIDE DEF o, target
<1> QED
  BY <1>1, <1>2, <1>3, NextEffectiveValue DEF target

\* The effective value of goods that have just come into existence.
LEMMA NewEffectiveValue ==
    ASSUME RecordInv', Len(transactions') \in Nat, NEW a \in DOMAIN assets',
           DOMAIN transactions' = 1..Len(transactions'),
           assets'[a].createdBy = Len(transactions')
    PROVE  EffectiveValue(AssetQuantity(a))' = transactions'[Len(transactions')].command.quantity
<1> DEFINE target == AssetQuantity(a)
           m == Len(transactions')
           c == transactions'[m].command
<1>1. OriginalTransaction(target)' = m /\ a \in Produced(c)
  BY DEF RecordInv, OriginalsKnown, AssetQuantity
<1>2. \A k \in 1..m : ~Corrects(transactions'[k], target, m)
  <2> TAKE k \in 1..m
  <2>1. /\ transactions'[k].status # "REJECTED"
        /\ transactions'[k].command.type = "RECORD_CORRECTION"
        => transactions'[k].command.correctionOf < k
    BY DEF RecordInv, CorrectionsLookBack
  <2>2. SUFFICES ASSUME Corrects(transactions'[k], target, m)
                 PROVE  FALSE
    OBVIOUS
  <2>3. transactions'[k].command.correctionOf < k /\ transactions'[k].command.correctionOf = m
    BY <2>1, <2>2 DEF Corrects
  <2> QED
    BY <2>3
<1>3. PICK f : Chain(transactions', target, m, m, f) /\ EffectiveValue(target)' = f[m]
  BY <1>1, NextEffectiveIsChain
<1>4. f[m] = First(transactions', target, m)
  BY <1>2, <1>3, ChainUncorrected
<1>5. ValuesIn(c, target) = {c.quantity}
  BY <1>1 DEF ValuesIn, AssetQuantity
<1>6. First(transactions', target, m) = c.quantity
  BY <1>5 DEF First
<1> QED
  BY <1>3, <1>4, <1>6

LEMMA AcceptedQuantities ==
    ASSUME ConfigurationAssumption, SealsAtOnce, RecordInv, RecordInv', QuantityInv,
           NEW c \in Command, Accept(c), NEW a \in DOMAIN assets'
    PROVE  assets'[a].quantity = EffectiveValue(AssetQuantity(a))'
<1> DEFINE target == AssetQuantity(a)
           old == EffectiveValue(target)
           m == Len(transactions')
<1>1. TypeOK /\ PendingIsOrdered /\ Decided /\ Made /\ Made'
  BY DEF RecordInv, LineageInv, RecallInv
<1>2. Keeps(c) /\ Adds(c)
  BY <1>1, AcceptKeeps
<1>3. Accepted(c) /\ Order(c)
  BY DEF Accept, Accepted, CreateBatch, AnchorDocument, IssueCertificate,
         TransferOwnership, TransferCustody, RecordTransportCondition, ReceiveBatch,
         RecordCorrection, TransformBatch, PackageBatch, DispatchBatch, RecallBatch
<1>4. /\ RecordGrows /\ m = Len(transactions) + 1
      /\ transactions'[m].command = c /\ transactions'[m].status = "COMMITTED"
  BY <1>1, <1>3, AcceptDecides
<1>5. m \in DOMAIN transactions' /\ m \in Nat /\ DOMAIN transactions' = 1..m
  <2>1. Len(transactions) \in Nat /\ m \in Nat /\ DOMAIN transactions' = 1..m
    BY <1>4 DEF RecordGrows
  <2> QED
    BY <1>4, <2>1
<1>6. CASE a \notin DOMAIN assets
  <2>1. a \in Produced(c) /\ assets'[a].quantity = c.quantity
    BY <1>2, <1>6 DEF Adds
  <2>2. assets'[a].createdBy = m
    BY <1>1, <1>4, <1>5, <2>1 DEF Made
  <2> QED
    BY <1>4, <1>5, <2>1, <2>2, NewEffectiveValue
<1>7. CASE a \in DOMAIN assets
  <2>1. assets'[a].createdBy = assets[a].createdBy
    <3> DEFINE o == assets[a].createdBy
    <3>1. /\ o \in DOMAIN transactions /\ transactions[o].status # "REJECTED"
          /\ a \in Produced(transactions[o].command)
      BY <1>1, <1>7 DEF Made
    <3>2. o \in DOMAIN transactions' /\ transactions'[o] = transactions[o]
      <4>1. /\ Len(transactions) \in Nat /\ o \in 1..Len(transactions)
            /\ transactions'[o] = transactions[o]
        BY <1>4, <3>1 DEF RecordGrows
      <4> QED
        BY <1>4, <1>5, <4>1
    <3> HIDE DEF o
    <3> QED
      BY <1>1, <3>1, <3>2 DEF Made, o
  <2>2. EffectiveValue(target)' = After(transactions'[m], target, OriginalTransaction(target), old)
    BY <1>4, <1>7, <2>1, OldEffectiveValue
  <2>3. assets[a].quantity = old /\ assets[a].quantity \in Quantity
    BY <1>1, <1>7 DEF QuantityInv, TypeOK, Asset
  <2> HIDE DEF old, m
  <2>4. CASE c.type = "RECORD_CORRECTION" /\ c.target = target
    <3>1. OriginalTransaction(target) = c.correctionOf /\ IsCoherent(c, old)
      BY <1>3, <2>4 DEF Accepted, IsValid, CorrectionRules, old
    <3>2. EffectiveValue(target)' = c.corrected
      BY <1>4, <2>2, <2>4, <3>1 DEF After, Corrects
    <3>3. assets'[a].quantity = [old EXCEPT !.amount = c.corrected.amount]
      BY <1>2, <1>7, <2>3, <2>4 DEF Keeps
    <3>4. c.corrected \in Quantity /\ c.corrected.unit = old.unit
      BY <2>4, <3>1, CommandPayload DEF IsCoherent
    <3>5. [old EXCEPT !.amount = c.corrected.amount] = c.corrected
      BY <2>3, <3>4 DEF Quantity
    <3> QED
      BY <3>2, <3>3, <3>5
  <2>5. CASE ~(c.type = "RECORD_CORRECTION" /\ c.target = target)
    <3>1. EffectiveValue(target)' = old
      BY <1>4, <2>2, <2>5 DEF After, Corrects
    <3>2. assets'[a].quantity = assets[a].quantity
      BY <1>2, <1>7, <2>5 DEF Keeps
    <3> QED
      BY <2>3, <3>1, <3>2
  <2> QED
    BY <2>4, <2>5
<1> QED
  BY <1>6, <1>7

LEMMA IdleQuantities ==
    ASSUME RecordInv, RecordInv', QuantityInv, RecordGrows, UNCHANGED assets,
           \/ Len(transactions') = Len(transactions)
           \/ /\ Len(transactions') = Len(transactions) + 1
              /\ transactions'[Len(transactions')].status = "REJECTED"
    PROVE  QuantityInv'
<1> SUFFICES ASSUME NEW a \in DOMAIN assets'
             PROVE  assets'[a].quantity = EffectiveValue(AssetQuantity(a))'
  BY DEF QuantityInv, AssetQuantity
<1> DEFINE target == AssetQuantity(a)
<1>1. a \in DOMAIN assets /\ assets'[a] = assets[a]
  OBVIOUS
<1>2. EffectiveValue(target)' = EffectiveValue(target)
  <2>1. CASE Len(transactions') = Len(transactions)
    BY <1>1, <2>1, OldEffectiveValue
  <2>2. CASE /\ Len(transactions') = Len(transactions) + 1
             /\ transactions'[Len(transactions')].status = "REJECTED"
    <3> DEFINE new == transactions'[Len(transactions')]
    <3>1. EffectiveValue(target)' = After(new, target, OriginalTransaction(target),
                                          EffectiveValue(target))
      BY <1>1, <2>2, OldEffectiveValue
    <3>2. ~Corrects(new, target, OriginalTransaction(target))
      BY <2>2 DEF Corrects
    <3> QED
      BY <3>1, <3>2 DEF After
  <2> QED
    BY <2>1, <2>2
<1> QED
  BY <1>1, <1>2 DEF QuantityInv

LEMMA QuantityStep ==
    ASSUME ConfigurationAssumption, SealsAtOnce, RecordInv, RecordInv', QuantityInv, [Next]_vars
    PROVE  QuantityInv'
<1>1. TypeOK /\ PendingIsOrdered /\ Decided
  BY DEF RecordInv, LineageInv, RecallInv
<1>2. CASE SealPendingTransactions \/ UNCHANGED vars
  BY <1>1, <1>2, IdleGrows, IdleQuantities
<1>3. ASSUME NEW c \in Submittable, RejectCommand(c)
      PROVE  QuantityInv'
  BY <1>1, <1>3, RejectGrows, IdleQuantities DEF ConfigurationAssumption
<1>4. ASSUME NEW c \in Submittable, Accept(c)
      PROVE  QuantityInv'
  <2>1. c \in Command
    BY DEF ConfigurationAssumption
  <2>2. \A a \in DOMAIN assets' : assets'[a].quantity = EffectiveValue(AssetQuantity(a))'
    BY <1>4, <2>1, AcceptedQuantities
  <2> QED
    BY <2>2 DEF QuantityInv, AssetQuantity
<1> QED
  BY <1>2, <1>3, <1>4 DEF Next

\* In a ledger that seals at once, the world state and the record agree at every
\* moment: lineage, and each quantity with the corrections of it folded over what
\* the goods were made as (domain-state.ts reduce, correction-rules.ts
\* resolveEffectiveCorrectionValue).  A ledger that seals at stage boundaries
\* applies a correction before the record counts it, so there the two differ in
\* between; its lineage agrees all the same (LineageTellsOneStory).
THEOREM TheWorldMatchesTheRecord == SealsAtOnce => (Spec => []StateMatchesRecord)
<1> SUFFICES ASSUME SealsAtOnce
             PROVE  Spec => []StateMatchesRecord
  OBVIOUS
<1>1. RecordInv /\ Init => QuantityInv
  <2> SUFFICES ASSUME Init
               PROVE  QuantityInv
    OBVIOUS
  <2>1. DOMAIN assets = {}
    BY DEF Init
  <2> QED
    BY <2>1 DEF QuantityInv
<1>2. RecordInv /\ RecordInv' /\ QuantityInv /\ [Next]_vars => QuantityInv'
  BY ConfigurationAssumption, QuantityStep
<1>3. RecordInv /\ QuantityInv => StateMatchesRecord
  BY DEF RecordInv, LineageInv, QuantityInv, StateMatchesRecord, QuantityIsEffectiveValue
<1> QED
  BY <1>1, <1>2, <1>3, RecordInvariant, PTL DEF Spec

-----------------------------------------------------------------------------
(* Walking the record *)

\* Assets found but not scanned to the end.
Queued ==
    {frontier[i] : i \in DOMAIN frontier} \cup {nextFrontier[i] : i \in DOMAIN nextFrontier}

\* Everything visited is reachable; an edge that leaves a visited asset has been
\* followed unless its asset is still queued; a followed edge ends in a visited
\* asset.
WalkInv ==
    /\ WalkTypeOK
    /\ rootAssetId \in visited
    /\ Queued \subseteq visited
    /\ \A S \in SUBSET Goods :
          rootAssetId \in S /\ ClosedUnder(S, Oriented) => visited \subseteq S
    /\ \A e \in edges : From(e) \in visited => From(e) \in Queued \/ e \in usedEdges
    /\ \A e \in usedEdges : Neighbour(e) \in visited

LEMMA EndsOfEdges ==
    ASSUME WalkTypeOK, NEW e \in edges
    PROVE  From(e) \in Goods /\ Neighbour(e) \in Goods
  BY DEF WalkTypeOK, From, Neighbour

LEMMA HeadOfFrontier ==
    ASSUME NEW S, NEW s \in Seq(S), s # <<>>
    PROVE  /\ Head(s) = s[1] /\ 1 \in DOMAIN s
           /\ Tail(s) \in Seq(S)
           /\ {s[i] : i \in DOMAIN s} = {Head(s)} \cup {Tail(s)[i] : i \in DOMAIN Tail(s)}
<1>1. /\ Head(s) = s[1] /\ 1 \in DOMAIN s /\ Tail(s) \in Seq(S)
      /\ Len(s) \in Nat /\ Len(s) > 0 /\ DOMAIN s = 1..Len(s)
      /\ DOMAIN Tail(s) = 1..(Len(s) - 1)
      /\ \A i \in 1..(Len(s) - 1) : Tail(s)[i] = s[i + 1]
  OBVIOUS
<1>2. ASSUME NEW i \in DOMAIN s
      PROVE  s[i] = Head(s) \/ \E j \in DOMAIN Tail(s) : s[i] = Tail(s)[j]
  <2>1. CASE i = 1
    BY <1>1, <2>1
  <2>2. CASE i # 1
    <3>1. i - 1 \in 1..(Len(s) - 1) /\ Tail(s)[i - 1] = s[i]
      BY <1>1, <2>2
    <3> QED
      BY <1>1, <3>1
  <2> QED
    BY <2>1, <2>2
<1>3. ASSUME NEW j \in DOMAIN Tail(s)
      PROVE  \E i \in DOMAIN s : s[i] = Tail(s)[j]
  <2>1. j + 1 \in DOMAIN s /\ s[j + 1] = Tail(s)[j]
    BY <1>1
  <2> QED
    BY <2>1
<1>4. \E i \in DOMAIN s : s[i] = Head(s)
  BY <1>1
<1> DEFINE all == {s[i] : i \in DOMAIN s}
           rest == {Tail(s)[i] : i \in DOMAIN Tail(s)}
<1>5. all \subseteq {Head(s)} \cup rest
  BY <1>2
<1>6. {Head(s)} \cup rest \subseteq all
  BY <1>3, <1>4
<1>7. all = {Head(s)} \cup rest
  BY <1>5, <1>6
<1> QED
  BY <1>1, <1>7

LEMMA AppendedElements ==
    ASSUME NEW S, NEW s \in Seq(S), NEW x \in S
    PROVE  /\ Append(s, x) \in Seq(S)
           /\ {Append(s, x)[i] : i \in DOMAIN Append(s, x)} = {s[i] : i \in DOMAIN s} \cup {x}
<1>1. /\ Append(s, x) \in Seq(S) /\ Len(s) \in Nat /\ DOMAIN s = 1..Len(s)
      /\ DOMAIN Append(s, x) = 1..(Len(s) + 1)
      /\ \A i \in 1..Len(s) : Append(s, x)[i] = s[i]
      /\ Append(s, x)[Len(s) + 1] = x
  OBVIOUS
<1>2. Len(s) + 1 \in DOMAIN Append(s, x)
  BY <1>1
<1>3. \A i \in 1..(Len(s) + 1) : i \in 1..Len(s) \/ i = Len(s) + 1
  BY <1>1
<1> QED
  BY <1>1, <1>2, <1>3

LEMMA WalkInvInit == WalkInit => WalkInv
<1> SUFFICES ASSUME WalkInit
             PROVE  WalkInv
  OBVIOUS
<1>1. edges \subseteq [source : Goods, target : Goods]
  BY DEF WalkInit, Graphs, Pairs
<1>2. /\ frontier = <<rootAssetId>> /\ nextFrontier = <<>> /\ rootAssetId \in Goods
      /\ visited = {rootAssetId} /\ usedEdges = {} /\ reached = <<>> /\ depth = 0
      /\ direction \in {"FORWARD", "BACKWARD"}
  BY DEF WalkInit
<1>3. WalkTypeOK
  BY <1>1, <1>2 DEF WalkTypeOK
<1>4. Queued = {rootAssetId}
  BY <1>2 DEF Queued
<1> QED
  BY <1>2, <1>3, <1>4 DEF WalkInv

LEMMA ScanEdgeKeeps ==
    ASSUME WalkInv, NEW e \in edges, ScanEdge(e)
    PROVE  WalkInv'
<1>1. /\ WalkTypeOK /\ e \in Unscanned(Head(frontier)) /\ frontier # <<>>
      /\ usedEdges' = usedEdges \cup {e}
      /\ edges' = edges /\ direction' = direction /\ rootAssetId' = rootAssetId
      /\ frontier' = frontier /\ depth' = depth
  BY DEF WalkInv, ScanEdge, inputs
<1>2. From(e) \in Goods /\ Neighbour(e) \in Goods
  BY <1>1, EndsOfEdges
<1>3. From(e) = Head(frontier) /\ Head(frontier) \in Queued
  <2>1. From(e) = Head(frontier)
    BY <1>1 DEF Unscanned
  <2>2. Head(frontier) = frontier[1] /\ 1 \in DOMAIN frontier
    BY <1>1, HeadOfFrontier DEF WalkTypeOK
  <2> QED
    BY <2>1, <2>2 DEF Queued
<1>4. From(e) \in visited
  BY <1>3 DEF WalkInv
<1>5. /\ \A f : From(f)' = From(f) /\ Neighbour(f)' = Neighbour(f)
      /\ Oriented' = Oriented
  BY <1>1 DEF From, Neighbour, Oriented
<1>6. /\ visited' = visited \cup {Neighbour(e)}
      /\ Queued' = Queued \cup (visited' \ visited)
      /\ WalkTypeOK'
  <2>1. CASE Neighbour(e) \in visited
    BY <1>1, <2>1 DEF ScanEdge, WalkTypeOK, Queued
  <2>2. CASE Neighbour(e) \notin visited
    <3>1. /\ visited' = visited \cup {Neighbour(e)}
          /\ reached' = Append(reached, Neighbour(e))
          /\ nextFrontier' = Append(nextFrontier, Neighbour(e))
      BY <2>2 DEF ScanEdge
    <3>2. /\ nextFrontier' \in Seq(Goods) /\ reached' \in Seq(Goods)
          /\ {nextFrontier'[i] : i \in DOMAIN nextFrontier'}
                = {nextFrontier[i] : i \in DOMAIN nextFrontier} \cup {Neighbour(e)}
      <4>1. nextFrontier \in Seq(Goods) /\ reached \in Seq(Goods)
        BY <1>1 DEF WalkTypeOK
      <4> DEFINE longer == Append(nextFrontier, Neighbour(e))
      <4>2. /\ longer \in Seq(Goods)
            /\ {longer[i] : i \in DOMAIN longer}
                  = {nextFrontier[i] : i \in DOMAIN nextFrontier} \cup {Neighbour(e)}
        BY <1>2, <4>1, AppendedElements
      <4>3. reached' \in Seq(Goods)
        BY <1>2, <3>1, <4>1
      <4>4. nextFrontier' = longer
        BY <3>1
      <4> HIDE DEF longer
      <4> QED
        BY <4>2, <4>3, <4>4
    <3>3. Queued' = Queued \cup {Neighbour(e)}
      BY <1>1, <3>2 DEF Queued
    <3>4. WalkTypeOK'
      BY <1>1, <1>2, <3>1, <3>2 DEF WalkTypeOK
    <3> QED
      BY <2>2, <3>1, <3>3, <3>4
  <2> QED
    BY <2>1, <2>2
<1>7. ASSUME NEW S \in SUBSET Goods, rootAssetId \in S, ClosedUnder(S, Oriented)
      PROVE  visited' \subseteq S
  <2>1. visited \subseteq S
    BY <1>7 DEF WalkInv
  <2>2. [source |-> From(e), target |-> Neighbour(e)] \in Oriented
    BY DEF Oriented
  <2>3. Neighbour(e) \in S
    BY <1>4, <1>7, <2>1, <2>2 DEF ClosedUnder
  <2> QED
    BY <1>6, <2>1, <2>3
<1>8. \A f \in edges : From(f) \in visited' => From(f) \in Queued' \/ f \in usedEdges'
  BY <1>1, <1>6 DEF WalkInv
<1>9. \A f \in usedEdges' : Neighbour(f) \in visited'
  BY <1>1, <1>6 DEF WalkInv
<1>10. rootAssetId \in visited' /\ Queued' \subseteq visited'
  BY <1>6 DEF WalkInv
<1> QED
  BY <1>1, <1>5, <1>6, <1>7, <1>8, <1>9, <1>10 DEF WalkInv

LEMMA LeaveAssetKeeps ==
    ASSUME WalkInv, LeaveAsset
    PROVE  WalkInv'
<1>1. /\ WalkTypeOK /\ Unscanned(Head(frontier)) = {} /\ frontier # <<>>
      /\ frontier' = Tail(frontier)
      /\ edges' = edges /\ direction' = direction /\ rootAssetId' = rootAssetId
      /\ visited' = visited /\ usedEdges' = usedEdges /\ nextFrontier' = nextFrontier
      /\ reached' = reached /\ depth' = depth
  BY DEF WalkInv, LeaveAsset, inputs
<1>2. /\ \A f : From(f)' = From(f) /\ Neighbour(f)' = Neighbour(f)
      /\ Oriented' = Oriented
  BY <1>1 DEF From, Neighbour, Oriented
<1>3. /\ Tail(frontier) \in Seq(Goods)
      /\ Queued = Queued' \cup {Head(frontier)}
  <2>1. frontier \in Seq(Goods)
    BY <1>1 DEF WalkTypeOK
  <2>2. /\ Tail(frontier) \in Seq(Goods)
        /\ {frontier[i] : i \in DOMAIN frontier}
              = {Head(frontier)} \cup {Tail(frontier)[i] : i \in DOMAIN Tail(frontier)}
    BY <1>1, <2>1, HeadOfFrontier
  <2> QED
    BY <1>1, <2>2 DEF Queued
<1>4. WalkTypeOK'
  BY <1>1, <1>3 DEF WalkTypeOK
<1>5. ASSUME NEW f \in edges, From(f) \in visited
      PROVE  From(f) \in Queued' \/ f \in usedEdges
  <2>1. CASE From(f) = Head(frontier)
    BY <1>1, <2>1 DEF Unscanned
  <2>2. CASE From(f) # Head(frontier)
    BY <1>3, <1>5, <2>2 DEF WalkInv
  <2> QED
    BY <2>1, <2>2
<1> QED
  BY <1>1, <1>2, <1>3, <1>4, <1>5 DEF WalkInv

LEMMA NextLevelKeeps ==
    ASSUME WalkInv, NextLevel
    PROVE  WalkInv'
<1>1. /\ WalkTypeOK /\ frontier = <<>> /\ nextFrontier' = <<>> /\ frontier' = nextFrontier
      /\ edges' = edges /\ direction' = direction /\ rootAssetId' = rootAssetId
      /\ visited' = visited /\ usedEdges' = usedEdges
      /\ reached' = reached /\ depth' = depth + 1
  BY DEF WalkInv, NextLevel, inputs
<1>2. /\ \A f : From(f)' = From(f) /\ Neighbour(f)' = Neighbour(f)
      /\ Oriented' = Oriented
  BY <1>1 DEF From, Neighbour, Oriented
<1>3. Queued' = Queued
  BY <1>1 DEF Queued
<1>4. WalkTypeOK'
  BY <1>1 DEF WalkTypeOK
<1> QED
  BY <1>1, <1>2, <1>3, <1>4 DEF WalkInv

LEMMA StutterKeeps ==
    ASSUME WalkInv, UNCHANGED walk
    PROVE  WalkInv'
  BY DEF WalkInv, WalkTypeOK, Queued, From, Neighbour, Oriented, walk, inputs

THEOREM WalkInvariant == WalkSpec => []WalkInv
<1>1. WalkInv /\ [WalkNext]_walk => WalkInv'
  BY ScanEdgeKeeps, LeaveAssetKeeps, NextLevelKeeps, StutterKeeps DEF WalkNext
<1> QED
  BY <1>1, WalkInvInit, PTL DEF WalkSpec

\* Whatever the recorded graph (branching, merging or cyclic), when the walk of
\* trace.ts traverse returns it has visited the reachable assets and no other.
THEOREM WalkIsExact == WalkSpec => []VisitedIsReachable
<1>1. WalkInv => VisitedIsReachable
  <2> SUFFICES ASSUME WalkInv, IsDone
               PROVE  visited = Reachable(rootAssetId, Oriented, Goods)
    BY DEF VisitedIsReachable
  <2>1. Queued = {}
    BY DEF IsDone, Queued
  <2>2. visited \in SUBSET Goods /\ rootAssetId \in visited
    BY DEF WalkInv, WalkTypeOK
  <2>3. ClosedUnder(visited, Oriented)
    <3>1. \A e \in edges : From(e) \in visited => Neighbour(e) \in visited
      BY <2>1 DEF WalkInv
    <3> QED
      BY <3>1 DEF ClosedUnder, Oriented
  <2>4. Reachable(rootAssetId, Oriented, Goods) \subseteq visited
    BY <2>2, <2>3 DEF Reachable
  <2>5. visited \subseteq Reachable(rootAssetId, Oriented, Goods)
    BY <2>2 DEF WalkInv, Reachable
  <2> QED
    BY <2>4, <2>5
<1> QED
  BY <1>1, WalkInvariant, PTL

-----------------------------------------------------------------------------
(* The chain and its verifier *)

Hashed ==
    [quantity : Quantities, status : {"ORDERED", "COMMITTED"}, block : Nat,
     transactionHash : Nat \X Quantities]

BlockFields == {"blockNumber", "previousBlockHash", "transactionIds", "blockHash"}

Holds(block, i) == \E k \in DOMAIN block.transactionIds : block.transactionIds[k] = i

\* A block as it was sealed: numbered, linked and hashed, of transactions that say they
\* are in it, each once.
IsSealed(txs, chain, b) ==
    /\ chain[b] = [f \in BlockFields |-> chain[b][f]]
    /\ chain[b].blockNumber = b
    /\ chain[b].previousBlockHash = ExpectedPreviousHash(chain, b)
    /\ chain[b].blockHash = RecomputedBlockHash(txs, chain[b])
    /\ \A k \in DOMAIN chain[b].transactionIds :
          /\ chain[b].transactionIds[k] \in DOMAIN txs
          /\ IsPlaced(txs, b, chain[b].transactionIds[k])
    /\ \A k, j \in DOMAIN chain[b].transactionIds :
          chain[b].transactionIds[k] = chain[b].transactionIds[j] => k = j

\* What is ordered is hashed; what waits to be sealed is the end of the order, and all
\* before it is in the block it names.
IsLedger(txs, chain) ==
    /\ txs \in Seq(Hashed)
    /\ \E S : chain \in Seq(S)
    /\ \E m \in 0..Len(txs) : \A i \in DOMAIN txs : txs[i].status = "ORDERED" <=> i > m
    /\ \A i \in DOMAIN txs :
          /\ TransactionMatches(txs, i)
          /\ txs[i].status = "COMMITTED" =>
                txs[i].block \in DOMAIN chain /\ Holds(chain[txs[i].block], i)
    /\ \A b \in DOMAIN chain : IsSealed(txs, chain, b)

WithEdit(txs, i, q) == [txs EXCEPT ![i].quantity = q]
WithForgery(txs, i, q) ==
    [WithEdit(txs, i, q) EXCEPT ![i].transactionHash = TransactionHash(i, q)]

\* The clone is the ledger but for the edit and for what was forged to hide it.
CloneIs(q) ==
    LET b == hashed[edited].block
        forged == WithForgery(hashed, edited, q)
    IN  /\ step = "AFTER_EDIT" =>
              copy = [transactions |-> WithEdit(hashed, edited, q), blocks |-> sealed]
        /\ step = "AFTER_FORGING_TRANSACTION" =>
              copy = [transactions |-> forged, blocks |-> sealed]
        /\ step = "AFTER_FORGING_BLOCK" =>
              copy = [transactions |-> forged,
                      blocks |-> [sealed EXCEPT ![b].blockHash =
                                     RecomputedBlockHash(forged, sealed[b])]]

IsDemonstrating == step # "NOT_STARTED"

ChainInv ==
    /\ IsLedger(hashed, sealed)
    /\ step \in {"NOT_STARTED", "AFTER_EDIT", "AFTER_FORGING_TRANSACTION",
                 "AFTER_FORGING_BLOCK"}
    /\ IsDemonstrating =>
          /\ edited \in DOMAIN hashed
          /\ hashed[edited].status = "COMMITTED"
          /\ \E q \in Quantities : q # hashed[edited].quantity /\ CloneIs(q)

LEMMA SeqWidens ==
    ASSUME NEW S, NEW T, NEW s \in Seq(S), S \subseteq T
    PROVE  s \in Seq(T)
OBVIOUS

LEMMA AppendedAt ==
    ASSUME NEW S, NEW s \in Seq(S), NEW e
    PROVE  /\ Len(s) \in Nat /\ DOMAIN s = 1..Len(s)
           /\ Len(Append(s, e)) = Len(s) + 1
           /\ DOMAIN Append(s, e) = 1..(Len(s) + 1)
           /\ \A i \in DOMAIN s : Append(s, e)[i] = s[i]
           /\ Append(s, e)[Len(s) + 1] = e
           /\ Append(s, e) \in Seq(S \cup {e})
<1> s \in Seq(S \cup {e})
  BY SeqWidens
<1> QED
  BY AppendProperties

\* A transaction is found in the block that holds it and in no other.
LEMMA OneBlockEach ==
    ASSUME NEW txs, NEW chain, IsLedger(txs, chain), NEW i \in DOMAIN txs,
           NEW b \in DOMAIN chain
    PROVE  Holds(chain[b], i) <=> IsPlaced(txs, b, i)
BY DEF IsLedger, IsSealed, Holds, IsPlaced

\* No false alarm: what was hashed, linked and sealed verifies.
LEMMA LedgerVerifies ==
    ASSUME NEW txs, NEW chain, IsLedger(txs, chain)
    PROVE  Verifies(txs, chain)
<1>1. ASSUME NEW b \in DOMAIN chain
      PROVE  b \notin InvalidBlocks(txs, chain)
  <2>1. IsSealed(txs, chain, b) /\ \A i \in DOMAIN txs : TransactionMatches(txs, i)
    BY DEF IsLedger
  <2> QED
    BY <2>1 DEF IsSealed, InvalidBlocks
<1>2. ASSUME NEW i \in DOMAIN txs
      PROVE  i \notin InvalidTransactions(txs, chain)
  <2>1. TransactionMatches(txs, i)
    BY DEF IsLedger
  <2>2. ASSUME NEW b \in DOMAIN chain, NEW k \in DOMAIN chain[b].transactionIds,
               chain[b].transactionIds[k] = i
        PROVE  /\ IsPlaced(txs, b, i)
               /\ \A c \in DOMAIN chain : \A j \in DOMAIN chain[c].transactionIds :
                     chain[c].transactionIds[j] = i => <<c, j>> = <<b, k>>
    <3>1. IsPlaced(txs, b, i)
      BY <2>2 DEF IsLedger, IsSealed
    <3>2. ASSUME NEW c \in DOMAIN chain, NEW j \in DOMAIN chain[c].transactionIds,
                 chain[c].transactionIds[j] = i
          PROVE  c = b /\ j = k
      <4>1. IsPlaced(txs, c, i)
        BY <3>2 DEF IsLedger, IsSealed
      <4>2. c = b
        BY <3>1, <4>1 DEF IsPlaced
      <4> QED
        BY <2>2, <3>2, <4>2 DEF IsLedger, IsSealed
    <3> QED
      BY <3>1, <3>2
  <2>3. txs[i].status = "COMMITTED" =>
            \E b \in DOMAIN chain : \E k \in DOMAIN chain[b].transactionIds :
                chain[b].transactionIds[k] = i
    BY DEF IsLedger, Holds
  <2> QED
    BY <2>1, <2>2, <2>3 DEF InvalidTransactions
<1>3. InvalidBlocks(txs, chain) \subseteq DOMAIN chain
      /\ InvalidTransactions(txs, chain) \subseteq DOMAIN txs
  BY DEF InvalidBlocks, InvalidTransactions
<1> QED
  BY <1>1, <1>2, <1>3 DEF Verifies

-----------------------------------------------------------------------------
(* Ordering and sealing *)

LEMMA OrderedIsLedger ==
    ASSUME NEW txs, NEW chain, IsLedger(txs, chain), NEW q \in Quantities
    PROVE  IsLedger(Append(txs, [quantity |-> q, status |-> "ORDERED", block |-> 0,
                                 transactionHash |-> TransactionHash(Len(txs) + 1, q)]),
                    chain)
<1> DEFINE tx == [quantity |-> q, status |-> "ORDERED", block |-> 0,
                  transactionHash |-> TransactionHash(Len(txs) + 1, q)]
           next == Append(txs, tx)
<1>0. txs \in Seq(Hashed) /\ Len(txs) \in Nat
  BY DEF IsLedger
<1>1. tx \in Hashed
  BY <1>0 DEF Hashed, TransactionHash
<1>2. /\ next \in Seq(Hashed) /\ DOMAIN txs = 1..Len(txs)
      /\ DOMAIN next = 1..(Len(txs) + 1) /\ Len(next) = Len(txs) + 1
      /\ \A i \in DOMAIN txs : next[i] = txs[i]
      /\ next[Len(txs) + 1] = tx
  <2> Hashed \cup {tx} = Hashed
    BY <1>1
  <2> QED
    BY <1>0, AppendedAt
<1>3. tx.status = "ORDERED" /\ tx.quantity = q
      /\ tx.transactionHash = TransactionHash(Len(txs) + 1, q)
  OBVIOUS
<1> HIDE DEF tx, next
<1>4. \E m \in 0..Len(next) : \A i \in DOMAIN next : next[i].status = "ORDERED" <=> i > m
  <2>1. PICK m \in 0..Len(txs) :
            \A i \in DOMAIN txs : txs[i].status = "ORDERED" <=> i > m
    BY DEF IsLedger
  <2>2. m \in 0..Len(next)
    BY <2>1, <1>0, <1>2
  <2>3. ASSUME NEW i \in DOMAIN next
        PROVE  next[i].status = "ORDERED" <=> i > m
    <3>1. CASE i \in DOMAIN txs
      BY <3>1, <2>1, <1>2
    <3>2. CASE i = Len(txs) + 1
      BY <3>2, <2>1, <1>0, <1>2, <1>3
    <3> QED
      BY <3>1, <3>2, <1>0, <1>2
  <2> QED
    BY <2>2, <2>3
<1>5. ASSUME NEW i \in DOMAIN next
      PROVE  /\ TransactionMatches(next, i)
             /\ next[i].status = "COMMITTED" =>
                    next[i].block \in DOMAIN chain /\ Holds(chain[next[i].block], i)
  <2>1. CASE i \in DOMAIN txs
    BY <2>1, <1>2 DEF IsLedger, TransactionMatches
  <2>2. CASE i = Len(txs) + 1
    BY <2>2, <1>2, <1>3 DEF TransactionMatches
  <2> QED
    BY <2>1, <2>2, <1>0, <1>2
<1>6. ASSUME NEW b \in DOMAIN chain
      PROVE  IsSealed(next, chain, b)
  <2>0. IsSealed(txs, chain, b)
    BY DEF IsLedger
  <2>1. \A k \in DOMAIN chain[b].transactionIds :
           /\ chain[b].transactionIds[k] \in DOMAIN txs
           /\ next[chain[b].transactionIds[k]] = txs[chain[b].transactionIds[k]]
    BY <2>0, <1>2 DEF IsSealed
  <2>2. HashesIn(next, chain[b].transactionIds) = HashesIn(txs, chain[b].transactionIds)
    BY <2>1 DEF HashesIn
  <2>3. RecomputedBlockHash(next, chain[b]) = RecomputedBlockHash(txs, chain[b])
    BY <2>2 DEF RecomputedBlockHash
  <2>4. DOMAIN txs \subseteq DOMAIN next
    BY <1>0, <1>2
  <2>5. \A k \in DOMAIN chain[b].transactionIds :
           /\ chain[b].transactionIds[k] \in DOMAIN next
           /\ IsPlaced(next, b, chain[b].transactionIds[k])
    BY <2>0, <2>1, <2>4 DEF IsSealed, IsPlaced
  <2> QED
    BY <2>0, <2>3, <2>5 DEF IsSealed
<1>7. IsLedger(next, chain)
  BY <1>2, <1>4, <1>5, <1>6 DEF IsLedger
<1> QED
  BY <1>7 DEF next, tx

\* What is pending is the end of the order: Seal counts it and takes as many from the end.
LEMMA PendingIsTheEnd ==
    ASSUME NEW txs, NEW chain, IsLedger(txs, chain)
    PROVE  /\ Cardinality(PendingIn(txs)) \in Nat
           /\ Len(txs) - Cardinality(PendingIn(txs)) \in 0..Len(txs)
           /\ \A i \in DOMAIN txs :
                 i \in PendingIn(txs) <=> i > Len(txs) - Cardinality(PendingIn(txs))
<1>0. txs \in Seq(Hashed) /\ Len(txs) \in Nat /\ DOMAIN txs = 1..Len(txs)
  BY DEF IsLedger
<1>1. PICK m \in 0..Len(txs) : \A i \in DOMAIN txs : txs[i].status = "ORDERED" <=> i > m
  BY DEF IsLedger
<1>2. PendingIn(txs) = (m + 1)..Len(txs)
  BY <1>0, <1>1 DEF PendingIn
<1>3. Cardinality(PendingIn(txs)) = Len(txs) - m
  <2>1. Cardinality((m + 1)..Len(txs)) =
            IF m + 1 > Len(txs) THEN 0 ELSE Len(txs) - (m + 1) + 1
    <3>1. m + 1 \in Int /\ Len(txs) \in Int
      BY <1>0, <1>1
    <3> QED
      BY <3>1, FS_Interval
  <2> QED
    BY <1>0, <1>1, <1>2, <2>1
<1> QED
  BY <1>0, <1>1, <1>2, <1>3

LEMMA CommittedTransaction ==
    ASSUME NEW tx \in Hashed, NEW n \in Nat
    PROVE  LET done == [tx EXCEPT !.status = "COMMITTED", !.block = n]
           IN  /\ done \in Hashed
               /\ done.quantity = tx.quantity /\ done.transactionHash = tx.transactionHash
               /\ done.status = "COMMITTED" /\ done.block = n
BY DEF Hashed

LEMMA SealedIsLedger ==
    ASSUME NEW txs, IsLedger(txs, sealed), SealChain(txs)
    PROVE  IsLedger(hashed', sealed')
<1> DEFINE waiting == PendingIn(txs)
           size == Cardinality(PendingIn(txs))
           first == Len(txs) - size
           ids == [k \in 1..size |-> first + k]
           number == Len(sealed) + 1
           new == [blockNumber |-> number, previousBlockHash |-> LastHash(sealed),
                   transactionIds |-> ids,
                   blockHash |-> BlockHash(number, LastHash(sealed), HashesIn(txs, ids))]
           next == [i \in DOMAIN txs |->
                      IF i \in waiting
                      THEN [txs[i] EXCEPT !.status = "COMMITTED", !.block = number]
                      ELSE txs[i]]
<1>1. hashed' = next /\ sealed' = Append(sealed, new)
  BY DEF SealChain
<1>2. /\ txs \in Seq(Hashed) /\ Len(txs) \in Nat /\ DOMAIN txs = 1..Len(txs)
      /\ \A i \in DOMAIN txs : txs[i] \in Hashed
  BY DEF IsLedger
<1>3. PICK S : sealed \in Seq(S)
  BY DEF IsLedger
<1>4. /\ Len(sealed) \in Nat /\ DOMAIN sealed = 1..Len(sealed)
      /\ DOMAIN Append(sealed, new) = 1..number
      /\ \A b \in DOMAIN sealed : Append(sealed, new)[b] = sealed[b]
      /\ Append(sealed, new)[number] = new
      /\ Append(sealed, new) \in Seq(S \cup {new})
  <2> HIDE DEF new
  <2> QED
    BY <1>3, AppendedAt
<1>5. /\ size \in Nat /\ first \in 0..Len(txs)
      /\ \A i \in DOMAIN txs : i \in waiting <=> i > first
  BY PendingIsTheEnd
<1>6. /\ DOMAIN ids = 1..size /\ \A k \in DOMAIN ids : ids[k] = first + k
      /\ \A k \in DOMAIN ids : ids[k] \in waiting
      /\ \A k, j \in DOMAIN ids : ids[k] = ids[j] => k = j
      /\ \A i \in waiting : \E k \in DOMAIN ids : ids[k] = i
  <2>1. DOMAIN ids = 1..size /\ \A k \in DOMAIN ids : ids[k] = first + k
    OBVIOUS
  <2>2. \A i : i \in waiting <=> i \in 1..Len(txs) /\ i > first
    BY <1>2, <1>5 DEF PendingIn
  <2>3. first = Len(txs) - size
    OBVIOUS
  <2> HIDE DEF waiting, size, first, ids
  <2>4. \A k \in DOMAIN ids : ids[k] \in waiting
    BY <1>2, <1>5, <2>1, <2>2, <2>3
  <2>5. \A k, j \in DOMAIN ids : ids[k] = ids[j] => k = j
    BY <1>2, <1>5, <2>1
  <2>6. ASSUME NEW i \in waiting
        PROVE  \E k \in DOMAIN ids : ids[k] = i
    <3>1. i - first \in 1..size /\ first + (i - first) = i
      BY <1>2, <1>5, <2>2, <2>3
    <3> QED
      BY <3>1, <2>1
  <2> QED
    BY <2>1, <2>4, <2>5, <2>6
<1>7. /\ DOMAIN next = DOMAIN txs
      /\ \A i \in DOMAIN txs :
            /\ next[i] \in Hashed
            /\ next[i].quantity = txs[i].quantity
            /\ next[i].transactionHash = txs[i].transactionHash
            /\ i \in waiting => next[i].status = "COMMITTED" /\ next[i].block = number
            /\ i \notin waiting => next[i] = txs[i]
            /\ next[i].status = "COMMITTED"
  <2>1. ASSUME NEW i \in DOMAIN txs
        PROVE  /\ next[i] \in Hashed
               /\ next[i].quantity = txs[i].quantity
               /\ next[i].transactionHash = txs[i].transactionHash
               /\ i \in waiting => next[i].status = "COMMITTED" /\ next[i].block = number
               /\ i \notin waiting => next[i] = txs[i]
    <3>1. CASE i \in waiting
      <4>1. next[i] = [txs[i] EXCEPT !.status = "COMMITTED", !.block = number]
        BY <3>1
      <4>2. number \in Nat /\ txs[i] \in Hashed
        BY <1>2, <1>4
      <4> DEFINE done == [txs[i] EXCEPT !.status = "COMMITTED", !.block = number]
      <4> HIDE DEF next, waiting, number
      <4>3. /\ done \in Hashed
            /\ done.quantity = txs[i].quantity
            /\ done.transactionHash = txs[i].transactionHash
            /\ done.status = "COMMITTED" /\ done.block = number
        BY <4>2, CommittedTransaction
      <4>4. next[i] = done
        BY <4>1
      <4> HIDE DEF done
      <4> QED
        BY <3>1, <4>3, <4>4
    <3>2. CASE i \notin waiting
      BY <1>2, <3>2
    <3> QED
      BY <3>1, <3>2
  <2>2. \A i \in DOMAIN txs : i \notin waiting => txs[i].status = "COMMITTED"
    BY <1>2 DEF PendingIn, Hashed
  <2>3. DOMAIN next = DOMAIN txs
    OBVIOUS
  <2> HIDE DEF next, waiting
  <2> QED
    BY <2>1, <2>2, <2>3
<1>8. /\ new.blockNumber = number /\ new.previousBlockHash = LastHash(sealed)
      /\ new.transactionIds = ids
      /\ new.blockHash = BlockHash(number, LastHash(sealed), HashesIn(txs, ids))
      /\ new = [f \in BlockFields |-> new[f]]
  BY DEF BlockFields
<1>9. next \in Seq(Hashed) /\ Len(next) = Len(txs)
  <2> HIDE DEF next
  <2>1. next = [i \in 1..Len(txs) |-> next[i]]
    BY <1>2 DEF next
  <2> QED
    BY <1>2, <1>7, <2>1
<1>10. \A is : (\A k \in DOMAIN is : is[k] \in DOMAIN txs) =>
            HashesIn(next, is) = HashesIn(txs, is)
  <2> HIDE DEF next
  <2> QED
    BY <1>7 DEF HashesIn
<1>11. number = Len(sealed) + 1
  OBVIOUS
<1>12. \A i \in waiting : i \in DOMAIN txs /\ txs[i].status = "ORDERED"
  BY DEF PendingIn
<1> DEFINE chain == Append(sealed, new)
<1> HIDE DEF waiting, size, first, ids, number, new, next, chain
<1>13. /\ DOMAIN chain = 1..number
       /\ \A b \in DOMAIN sealed : chain[b] = sealed[b]
       /\ chain[number] = new
       /\ chain \in Seq(S \cup {new})
  BY <1>4 DEF chain
<1>14. DOMAIN sealed \subseteq DOMAIN chain /\ number \in DOMAIN chain
  BY <1>4, <1>11, <1>13
<1>15. \A i \in DOMAIN next :
          /\ TransactionMatches(next, i)
          /\ next[i].status = "COMMITTED" =>
                next[i].block \in DOMAIN chain /\ Holds(chain[next[i].block], i)
  <2> SUFFICES ASSUME NEW i \in DOMAIN next
               PROVE  /\ TransactionMatches(next, i)
                      /\ next[i].block \in DOMAIN chain /\ Holds(chain[next[i].block], i)
    OBVIOUS
  <2>0. i \in DOMAIN txs
    BY <1>7
  <2>1. TransactionMatches(next, i)
    BY <1>7, <2>0 DEF IsLedger, TransactionMatches
  <2>2. CASE i \in waiting
    <3>1. next[i].block = number /\ chain[number] = new
      BY <2>0, <2>2, <1>7, <1>13
    <3>2. Holds(new, i)
      BY <2>2, <1>6, <1>8 DEF Holds
    <3> QED
      BY <2>1, <3>1, <3>2, <1>14
  <2>3. CASE i \notin waiting
    <3>1. next[i] = txs[i] /\ txs[i].status = "COMMITTED"
      BY <1>7, <2>0, <2>3
    <3> QED
      BY <2>0, <2>1, <3>1, <1>13, <1>14 DEF IsLedger
  <2> QED
    BY <2>1, <2>2, <2>3
<1>16. ASSUME NEW b \in DOMAIN chain
       PROVE  IsSealed(next, chain, b)
  <2>1. CASE b \in DOMAIN sealed
    <3>0. IsSealed(txs, sealed, b) /\ chain[b] = sealed[b]
      BY <2>1, <1>13 DEF IsLedger
    <3>1. ExpectedPreviousHash(chain, b) = ExpectedPreviousHash(sealed, b)
      BY <2>1, <1>4, <1>13 DEF ExpectedPreviousHash
    <3>2. RecomputedBlockHash(next, chain[b]) = RecomputedBlockHash(txs, sealed[b])
      BY <3>0, <1>10 DEF RecomputedBlockHash, IsSealed
    <3>3. \A k \in DOMAIN sealed[b].transactionIds :
             /\ sealed[b].transactionIds[k] \in DOMAIN next
             /\ IsPlaced(next, b, sealed[b].transactionIds[k])
      <4> SUFFICES ASSUME NEW k \in DOMAIN sealed[b].transactionIds
                   PROVE  /\ sealed[b].transactionIds[k] \in DOMAIN next
                          /\ IsPlaced(next, b, sealed[b].transactionIds[k])
        OBVIOUS
      <4>1. /\ sealed[b].transactionIds[k] \in DOMAIN txs
            /\ IsPlaced(txs, b, sealed[b].transactionIds[k])
        BY <3>0 DEF IsSealed
      <4>2. sealed[b].transactionIds[k] \notin waiting
        BY <4>1, <1>12 DEF IsPlaced
      <4> QED
        BY <4>1, <4>2, <1>7 DEF IsPlaced
    <3>4. /\ sealed[b] = [f \in BlockFields |-> sealed[b][f]]
          /\ sealed[b].blockNumber = b
          /\ sealed[b].previousBlockHash = ExpectedPreviousHash(sealed, b)
          /\ sealed[b].blockHash = RecomputedBlockHash(txs, sealed[b])
          /\ \A k, j \in DOMAIN sealed[b].transactionIds :
                sealed[b].transactionIds[k] = sealed[b].transactionIds[j] => k = j
      BY <3>0 DEF IsSealed
    <3> QED
      BY <3>0, <3>1, <3>2, <3>3, <3>4 DEF IsSealed
  <2>2. CASE b = number
    <3>0. chain[b] = new
      BY <2>2, <1>13
    <3>1. ExpectedPreviousHash(chain, b) = LastHash(sealed)
      <4>1. CASE Len(sealed) = 0
        BY <4>1, <2>2, <1>3, <1>11 DEF ExpectedPreviousHash, LastHash
      <4>2. CASE Len(sealed) # 0
        <5>1. b # 1 /\ b - 1 = Len(sealed) /\ Len(sealed) \in DOMAIN sealed /\ sealed # <<>>
          BY <4>2, <2>2, <1>3, <1>4, <1>11
        <5> QED
          BY <5>1, <1>13 DEF ExpectedPreviousHash, LastHash
      <4> QED
        BY <4>1, <4>2
    <3>2. HashesIn(next, ids) = HashesIn(txs, ids)
      BY <1>6, <1>10, <1>12
    <3>3. RecomputedBlockHash(next, new) = new.blockHash
      BY <3>2, <1>8 DEF RecomputedBlockHash
    <3>4. \A k \in DOMAIN ids : ids[k] \in DOMAIN next /\ IsPlaced(next, b, ids[k])
      BY <1>6, <1>7, <1>12, <2>2 DEF IsPlaced
    <3> QED
      BY <2>2, <3>0, <3>1, <3>3, <3>4, <1>6, <1>8 DEF IsSealed
  <2> QED
    BY <2>1, <2>2, <1>4, <1>11, <1>13
<1>17. \E m \in 0..Len(next) : \A i \in DOMAIN next : next[i].status = "ORDERED" <=> i > m
  <2>1. \A i \in DOMAIN next : ~ next[i].status = "ORDERED" /\ ~ i > Len(next)
    BY <1>2, <1>7, <1>9
  <2>2. Len(next) \in 0..Len(next)
    BY <1>2, <1>9
  <2> QED
    BY <2>1, <2>2
<1>18. IsLedger(next, chain)
  BY <1>9, <1>13, <1>15, <1>16, <1>17 DEF IsLedger
<1> QED
  BY <1>1, <1>18 DEF chain

-----------------------------------------------------------------------------
(* The demonstration *)

LEMMA EditedRecord ==
    ASSUME NEW txs \in Seq(Hashed), NEW i \in DOMAIN txs, NEW q \in Quantities
    PROVE  /\ DOMAIN WithEdit(txs, i, q) = DOMAIN txs
           /\ DOMAIN WithForgery(txs, i, q) = DOMAIN txs
           /\ WithEdit(txs, i, q)[i].quantity = q
           /\ WithForgery(txs, i, q)[i].quantity = q
           /\ WithEdit(txs, i, q)[i].transactionHash = txs[i].transactionHash
           /\ WithForgery(txs, i, q)[i].transactionHash = TransactionHash(i, q)
           /\ \A j \in DOMAIN txs :
                 /\ j # i => /\ WithEdit(txs, i, q)[j] = txs[j]
                             /\ WithForgery(txs, i, q)[j] = txs[j]
                 /\ WithEdit(txs, i, q)[j].status = txs[j].status
                 /\ WithEdit(txs, i, q)[j].block = txs[j].block
                 /\ WithForgery(txs, i, q)[j].status = txs[j].status
                 /\ WithForgery(txs, i, q)[j].block = txs[j].block
<1> DEFINE edit == [txs[i] EXCEPT !.quantity = q]
           forged == [edit EXCEPT !.transactionHash = TransactionHash(i, q)]
<1>1. txs[i] \in Hashed /\ DOMAIN txs = 1..Len(txs) /\ Len(txs) \in Nat
  OBVIOUS
<1>2. /\ edit \in Hashed
      /\ edit.quantity = q /\ edit.transactionHash = txs[i].transactionHash
      /\ edit.status = txs[i].status /\ edit.block = txs[i].block
  BY <1>1 DEF Hashed
<1>3. WithEdit(txs, i, q) = [txs EXCEPT ![i] = edit]
  BY DEF WithEdit
<1> HIDE DEF edit
<1>4. /\ forged.quantity = edit.quantity
      /\ forged.transactionHash = TransactionHash(i, q)
      /\ forged.status = edit.status /\ forged.block = edit.block
  BY <1>2 DEF Hashed
<1>5. WithForgery(txs, i, q) = [WithEdit(txs, i, q) EXCEPT ![i] = forged]
  BY <1>3 DEF WithForgery
<1> HIDE DEF forged
<1> QED
  BY <1>1, <1>2, <1>3, <1>4, <1>5

\* The block of the edited transaction is the one that holds it.
LEMMA TheEditedBlock ==
    ASSUME IsLedger(hashed, sealed), edited \in DOMAIN hashed,
           hashed[edited].status = "COMMITTED"
    PROVE  /\ EditedBlock = hashed[edited].block
           /\ EditedBlock \in DOMAIN sealed
           /\ Holds(sealed[EditedBlock], edited)
           /\ \A b \in DOMAIN sealed : Holds(sealed[b], edited) => b = EditedBlock
<1>1. hashed[edited].block \in DOMAIN sealed /\ Holds(sealed[hashed[edited].block], edited)
  BY DEF IsLedger
<1>2. ASSUME NEW b \in DOMAIN sealed, Holds(sealed[b], edited)
      PROVE  b = hashed[edited].block
  BY <1>2, OneBlockEach DEF IsPlaced
<1>3. EditedBlock = CHOOSE b \in DOMAIN sealed : Holds(sealed[b], edited)
  BY DEF EditedBlock, Holds
<1> QED
  BY <1>1, <1>2, <1>3

\* The verifier looks at nothing of a transaction but where it is, what it carries and its
\* digest, so what the chain says of a clone of the transactions is known.
LEMMA PlacesAreKept ==
    ASSUME IsLedger(hashed, sealed), NEW txs, DOMAIN txs = DOMAIN hashed,
           \A i \in DOMAIN txs :
               txs[i].status = hashed[i].status /\ txs[i].block = hashed[i].block
    PROVE  /\ InvalidTransactions(txs, sealed) =
                   {i \in DOMAIN txs :
                       (\E b \in DOMAIN sealed : Holds(sealed[b], i)) /\ ~TransactionMatches(txs, i)}
           /\ \A b \in DOMAIN sealed : \A k \in DOMAIN sealed[b].transactionIds :
                 /\ sealed[b].transactionIds[k] \in DOMAIN txs
                 /\ IsPlaced(txs, b, sealed[b].transactionIds[k])
<1>1. ASSUME NEW b \in DOMAIN sealed, NEW k \in DOMAIN sealed[b].transactionIds
      PROVE  /\ sealed[b].transactionIds[k] \in DOMAIN txs
             /\ IsPlaced(txs, b, sealed[b].transactionIds[k])
  <2>1. IsSealed(hashed, sealed, b)
    BY DEF IsLedger
  <2> QED
    BY <2>1 DEF IsSealed, IsPlaced
<1>2. ASSUME NEW i \in DOMAIN txs, txs[i].status = "COMMITTED"
      PROVE  \E b \in DOMAIN sealed : \E k \in DOMAIN sealed[b].transactionIds :
                 sealed[b].transactionIds[k] = i
  BY <1>2 DEF IsLedger, Holds
<1>3. ASSUME NEW b \in DOMAIN sealed, NEW k \in DOMAIN sealed[b].transactionIds,
             NEW c \in DOMAIN sealed, NEW j \in DOMAIN sealed[c].transactionIds,
             sealed[b].transactionIds[k] = sealed[c].transactionIds[j]
      PROVE  c = b /\ j = k
  <2>1. c = b
    BY <1>1, <1>3 DEF IsPlaced
  <2>2. IsSealed(hashed, sealed, b)
    BY DEF IsLedger
  <2> QED
    BY <1>3, <2>1, <2>2 DEF IsSealed
<1>4. ASSUME NEW i \in DOMAIN txs
      PROVE  i \in InvalidTransactions(txs, sealed) <=>
                 (\E b \in DOMAIN sealed : Holds(sealed[b], i)) /\ ~TransactionMatches(txs, i)
  BY <1>1, <1>2, <1>3 DEF InvalidTransactions, Holds
<1> QED
  BY <1>1, <1>4 DEF InvalidTransactions

LEMMA EditIsFound ==
    ASSUME IsLedger(hashed, sealed), edited \in DOMAIN hashed,
           hashed[edited].status = "COMMITTED",
           NEW q \in Quantities, q # hashed[edited].quantity
    PROVE  LET txs == WithEdit(hashed, edited, q)
           IN  /\ InvalidTransactions(txs, sealed) = {edited}
               /\ InvalidBlocks(txs, sealed) = {EditedBlock}
<1> DEFINE txs == WithEdit(hashed, edited, q)
<1>0. hashed \in Seq(Hashed)
  BY DEF IsLedger
<1>1. /\ DOMAIN txs = DOMAIN hashed
      /\ txs[edited].quantity = q
      /\ txs[edited].transactionHash = hashed[edited].transactionHash
      /\ \A j \in DOMAIN hashed :
            /\ j # edited => txs[j] = hashed[j]
            /\ txs[j].status = hashed[j].status /\ txs[j].block = hashed[j].block
  BY <1>0, EditedRecord
<1> HIDE DEF txs
<1>2. \A i \in DOMAIN txs : TransactionMatches(txs, i) <=> i # edited
  <2>1. ASSUME NEW i \in DOMAIN hashed
        PROVE  hashed[i].transactionHash = <<i, hashed[i].quantity>>
    BY DEF IsLedger, TransactionMatches, TransactionHash
  <2>2. \A i \in DOMAIN txs : i # edited => TransactionMatches(txs, i)
    BY <1>1, <2>1 DEF TransactionMatches, TransactionHash
  <2>3. ~TransactionMatches(txs, edited)
    BY <1>1, <2>1 DEF TransactionMatches, TransactionHash
  <2> QED
    BY <1>1, <2>2, <2>3
<1>3. /\ InvalidTransactions(txs, sealed) =
              {i \in DOMAIN txs :
                  (\E b \in DOMAIN sealed : Holds(sealed[b], i)) /\ ~TransactionMatches(txs, i)}
      /\ \A b \in DOMAIN sealed : \A k \in DOMAIN sealed[b].transactionIds :
            /\ sealed[b].transactionIds[k] \in DOMAIN txs
            /\ IsPlaced(txs, b, sealed[b].transactionIds[k])
  BY <1>1, PlacesAreKept
<1>4. /\ EditedBlock \in DOMAIN sealed /\ Holds(sealed[EditedBlock], edited)
      /\ \A b \in DOMAIN sealed : Holds(sealed[b], edited) => b = EditedBlock
  BY TheEditedBlock
<1>5. InvalidTransactions(txs, sealed) = {edited}
  BY <1>1, <1>2, <1>3, <1>4
<1>6. ASSUME NEW b \in DOMAIN sealed
      PROVE  b \in InvalidBlocks(txs, sealed) <=> b = EditedBlock
  <2>1. IsSealed(hashed, sealed, b)
    BY DEF IsLedger
  <2>2. HashesIn(txs, sealed[b].transactionIds) = HashesIn(hashed, sealed[b].transactionIds)
    <3>1. \A k \in DOMAIN sealed[b].transactionIds :
             txs[sealed[b].transactionIds[k]].transactionHash =
                 hashed[sealed[b].transactionIds[k]].transactionHash
      BY <1>1, <1>3
    <3> QED
      BY <3>1 DEF HashesIn
  <2>3. RecomputedBlockHash(txs, sealed[b]) = sealed[b].blockHash
    BY <2>1, <2>2 DEF IsSealed, RecomputedBlockHash
  <2>4. b \in InvalidBlocks(txs, sealed) <=> Holds(sealed[b], edited)
    BY <1>2, <1>3, <2>1, <2>3 DEF InvalidBlocks, Holds, IsSealed
  <2> QED
    BY <1>4, <2>4
<1>7. InvalidBlocks(txs, sealed) = {EditedBlock}
  BY <1>4, <1>6 DEF InvalidBlocks
<1> QED
  BY <1>5, <1>7 DEF txs

\* A forged digest of the transaction changes what its block is made of, and of no other.
LEMMA ForgeryShows ==
    ASSUME IsLedger(hashed, sealed), edited \in DOMAIN hashed,
           hashed[edited].status = "COMMITTED",
           NEW q \in Quantities, q # hashed[edited].quantity,
           NEW b \in DOMAIN sealed
    PROVE  RecomputedBlockHash(WithForgery(hashed, edited, q), sealed[b]) = sealed[b].blockHash
               <=> b # EditedBlock
<1> DEFINE txs == WithForgery(hashed, edited, q)
           ids == sealed[b].transactionIds
<1>0. hashed \in Seq(Hashed)
  BY DEF IsLedger
<1>1. /\ txs[edited].transactionHash = TransactionHash(edited, q)
      /\ \A j \in DOMAIN hashed : j # edited => txs[j] = hashed[j]
  BY <1>0, EditedRecord
<1>2. IsSealed(hashed, sealed, b)
  BY DEF IsLedger
<1>3. sealed[b].blockHash =
          BlockHash(sealed[b].blockNumber, sealed[b].previousBlockHash, HashesIn(hashed, ids))
  BY <1>2 DEF IsSealed, RecomputedBlockHash
<1>4. RecomputedBlockHash(txs, sealed[b]) =
          BlockHash(sealed[b].blockNumber, sealed[b].previousBlockHash, HashesIn(txs, ids))
  BY DEF RecomputedBlockHash
<1>5. \A k \in DOMAIN ids : ids[k] \in DOMAIN hashed
  BY <1>2 DEF IsSealed
<1>6. Holds(sealed[b], edited) <=> b = EditedBlock
  BY TheEditedBlock
<1> HIDE DEF txs
<1>7. CASE b # EditedBlock
  <2>1. \A k \in DOMAIN ids : txs[ids[k]] = hashed[ids[k]]
    BY <1>1, <1>5, <1>6, <1>7 DEF Holds
  <2>2. HashesIn(txs, ids) = HashesIn(hashed, ids)
    BY <2>1 DEF HashesIn
  <2> QED
    BY <1>3, <1>4, <1>7, <2>2 DEF txs
<1>8. CASE b = EditedBlock
  <2>1. PICK k \in DOMAIN ids : ids[k] = edited
    BY <1>6, <1>8 DEF Holds
  <2>2. HashesIn(txs, ids)[k] = <<edited, q>>
    BY <1>1, <2>1 DEF HashesIn, TransactionHash
  <2>3. HashesIn(hashed, ids)[k] = <<edited, hashed[edited].quantity>>
    BY <2>1 DEF HashesIn, IsLedger, TransactionMatches, TransactionHash
  <2>4. HashesIn(txs, ids) # HashesIn(hashed, ids)
    BY <2>2, <2>3
  <2>5. BlockHash(sealed[b].blockNumber, sealed[b].previousBlockHash, HashesIn(txs, ids)) #
        BlockHash(sealed[b].blockNumber, sealed[b].previousBlockHash, HashesIn(hashed, ids))
    BY <2>4 DEF BlockHash
  <2> QED
    BY <1>3, <1>4, <1>8, <2>5 DEF txs
<1> QED
  BY <1>7, <1>8

LEMMA ForgedMatches ==
    ASSUME IsLedger(hashed, sealed), edited \in DOMAIN hashed, NEW q \in Quantities
    PROVE  LET txs == WithForgery(hashed, edited, q)
           IN  \A i \in DOMAIN txs : TransactionMatches(txs, i)
<1> DEFINE txs == WithForgery(hashed, edited, q)
<1>0. hashed \in Seq(Hashed)
  BY DEF IsLedger
<1>1. /\ DOMAIN txs = DOMAIN hashed
      /\ txs[edited].quantity = q
      /\ txs[edited].transactionHash = TransactionHash(edited, q)
      /\ \A j \in DOMAIN hashed : j # edited => txs[j] = hashed[j]
  BY <1>0, EditedRecord
<1> HIDE DEF txs
<1>2. \A i \in DOMAIN txs : TransactionMatches(txs, i)
  BY <1>1 DEF IsLedger, TransactionMatches
<1> QED
  BY <1>2 DEF txs

LEMMA ForgeryIsFound ==
    ASSUME IsLedger(hashed, sealed), edited \in DOMAIN hashed,
           hashed[edited].status = "COMMITTED",
           NEW q \in Quantities, q # hashed[edited].quantity
    PROVE  LET txs == WithForgery(hashed, edited, q)
           IN  /\ InvalidTransactions(txs, sealed) = {}
               /\ InvalidBlocks(txs, sealed) = {EditedBlock}
<1> DEFINE txs == WithForgery(hashed, edited, q)
<1>0. hashed \in Seq(Hashed)
  BY DEF IsLedger
<1>1. /\ DOMAIN txs = DOMAIN hashed
      /\ \A j \in DOMAIN hashed :
            txs[j].status = hashed[j].status /\ txs[j].block = hashed[j].block
  BY <1>0, EditedRecord
<1>2. \A i \in DOMAIN txs : TransactionMatches(txs, i)
  BY ForgedMatches
<1>3. \A b \in DOMAIN sealed :
          RecomputedBlockHash(txs, sealed[b]) = sealed[b].blockHash <=> b # EditedBlock
  BY ForgeryShows
<1>4. EditedBlock \in DOMAIN sealed
  BY TheEditedBlock
<1> HIDE DEF txs
<1>5. /\ InvalidTransactions(txs, sealed) =
              {i \in DOMAIN txs :
                  (\E b \in DOMAIN sealed : Holds(sealed[b], i)) /\ ~TransactionMatches(txs, i)}
      /\ \A b \in DOMAIN sealed : \A k \in DOMAIN sealed[b].transactionIds :
            /\ sealed[b].transactionIds[k] \in DOMAIN txs
            /\ IsPlaced(txs, b, sealed[b].transactionIds[k])
  BY <1>1, PlacesAreKept
<1>6. ASSUME NEW b \in DOMAIN sealed
      PROVE  b \in InvalidBlocks(txs, sealed) <=> b = EditedBlock
  <2>1. IsSealed(hashed, sealed, b)
    BY DEF IsLedger
  <2> QED
    BY <1>2, <1>3, <1>5, <2>1 DEF InvalidBlocks, IsSealed
<1>7. InvalidBlocks(txs, sealed) = {EditedBlock}
  BY <1>4, <1>6 DEF InvalidBlocks
<1>8. InvalidTransactions(txs, sealed) = {}
  BY <1>2, <1>5
<1> QED
  BY <1>7, <1>8 DEF txs

LEMMA ForgedBlockMovesOn ==
    ASSUME IsLedger(hashed, sealed), edited \in DOMAIN hashed,
           hashed[edited].status = "COMMITTED",
           NEW q \in Quantities, q # hashed[edited].quantity
    PROVE  LET txs == WithForgery(hashed, edited, q)
               hash == RecomputedBlockHash(txs, sealed[EditedBlock])
           IN  InvalidBlocks(txs, [sealed EXCEPT ![EditedBlock].blockHash = hash])
                   = {EditedBlock + 1} \cap DOMAIN sealed
<1> DEFINE txs == WithForgery(hashed, edited, q)
           hash == RecomputedBlockHash(txs, sealed[EditedBlock])
           block == [sealed[EditedBlock] EXCEPT !.blockHash = hash]
           chain == [sealed EXCEPT ![EditedBlock] = block]
<1>0. hashed \in Seq(Hashed) /\ DOMAIN sealed = 1..Len(sealed) /\ Len(sealed) \in Nat
  BY DEF IsLedger
<1>1. /\ DOMAIN txs = DOMAIN hashed
      /\ \A j \in DOMAIN hashed :
            txs[j].status = hashed[j].status /\ txs[j].block = hashed[j].block
  BY <1>0, EditedRecord
<1>2. \A i \in DOMAIN txs : TransactionMatches(txs, i)
  BY ForgedMatches
<1>3. \A b \in DOMAIN sealed :
          RecomputedBlockHash(txs, sealed[b]) = sealed[b].blockHash <=> b # EditedBlock
  BY ForgeryShows
<1>4. EditedBlock \in DOMAIN sealed
  BY TheEditedBlock
<1>5. sealed[EditedBlock] = [f \in BlockFields |-> sealed[EditedBlock][f]]
  BY <1>4 DEF IsLedger, IsSealed
<1>6. /\ block.blockNumber = sealed[EditedBlock].blockNumber
      /\ block.previousBlockHash = sealed[EditedBlock].previousBlockHash
      /\ block.transactionIds = sealed[EditedBlock].transactionIds
      /\ block.blockHash = hash
  <2> HIDE DEF hash
  <2> QED
    BY <1>5 DEF BlockFields
<1> HIDE DEF block
<1>7. /\ DOMAIN chain = DOMAIN sealed
      /\ chain[EditedBlock] = block
      /\ \A b \in DOMAIN sealed : b # EditedBlock => chain[b] = sealed[b]
  BY <1>4
<1>8. hash # sealed[EditedBlock].blockHash
  BY <1>3, <1>4
<1>9. \A b \in DOMAIN sealed : \A k \in DOMAIN sealed[b].transactionIds :
         /\ sealed[b].transactionIds[k] \in DOMAIN txs
         /\ IsPlaced(txs, b, sealed[b].transactionIds[k])
  BY <1>1, PlacesAreKept
<1>10. hash = RecomputedBlockHash(txs, block)
  BY <1>6 DEF RecomputedBlockHash
<1> HIDE DEF txs, hash, chain
<1>11. ASSUME NEW b \in DOMAIN sealed
       PROVE  b \in InvalidBlocks(txs, chain) <=> b = EditedBlock + 1
  <2>1. IsSealed(hashed, sealed, b)
    BY DEF IsLedger
  <2>2. /\ chain[b].blockNumber = b
        /\ chain[b].previousBlockHash = ExpectedPreviousHash(sealed, b)
        /\ chain[b].transactionIds = sealed[b].transactionIds
    BY <1>6, <1>7, <2>1 DEF IsSealed
  <2>3. RecomputedBlockHash(txs, chain[b]) = chain[b].blockHash
    BY <1>3, <1>6, <1>7, <1>10
  <2>4. ExpectedPreviousHash(chain, b) = ExpectedPreviousHash(sealed, b) <=>
            b # EditedBlock + 1
    <3>1. CASE b = 1
      BY <3>1, <1>0, <1>4 DEF ExpectedPreviousHash
    <3>2. CASE b # 1
      <4>1. b - 1 \in DOMAIN sealed /\ (b - 1 = EditedBlock <=> b = EditedBlock + 1)
        BY <3>2, <1>0, <1>4
      <4>2. chain[b - 1].blockHash = sealed[b - 1].blockHash <=> b - 1 # EditedBlock
        BY <4>1, <1>6, <1>7, <1>8
      <4> QED
        BY <3>2, <4>1, <4>2 DEF ExpectedPreviousHash
    <3> QED
      BY <3>1, <3>2
  <2>5. b \in InvalidBlocks(txs, chain) <=>
            chain[b].previousBlockHash # ExpectedPreviousHash(chain, b)
    BY <1>2, <1>7, <1>9, <2>2, <2>3 DEF InvalidBlocks
  <2> QED
    BY <2>2, <2>4, <2>5
<1>12. InvalidBlocks(txs, chain) = {EditedBlock + 1} \cap DOMAIN sealed
  BY <1>7, <1>11 DEF InvalidBlocks
<1> QED
  BY <1>12 DEF txs, hash, block, chain

-----------------------------------------------------------------------------
(* The invariant *)

LEMMA ChainStarts == ChainInit => ChainInv
<1> SUFFICES ASSUME ChainInit PROVE ChainInv
  OBVIOUS
<1>1. hashed = <<>> /\ sealed = <<>> /\ step = "NOT_STARTED"
  BY DEF ChainInit
<1>2. IsLedger(<<>>, <<>>)
  <2>1. <<>> \in Seq(Hashed) /\ <<>> \in Seq({}) /\ Len(<<>>) = 0 /\ DOMAIN <<>> = {}
    OBVIOUS
  <2>2. \E m \in 0..Len(<<>>) : \A i \in DOMAIN <<>> : <<>>[i].status = "ORDERED" <=> i > m
    BY <2>1
  <2> QED
    BY <2>1, <2>2 DEF IsLedger
<1> QED
  BY <1>1, <1>2 DEF ChainInv, IsDemonstrating

LEMMA ChainSteps == ChainInv /\ [ChainNext]_integrity => ChainInv'
<1> SUFFICES ASSUME ChainInv, [ChainNext]_integrity PROVE ChainInv'
  OBVIOUS
<1> USE DEF IsDemonstrating
<1>0. IsLedger(hashed, sealed)
  BY DEF ChainInv
<1>1. ASSUME NEW q \in Quantities, OrderTransaction(q)
      PROVE  ChainInv'
  <2> DEFINE txs == Append(hashed, [quantity |-> q, status |-> "ORDERED", block |-> 0,
                                    transactionHash |-> TransactionHash(Len(hashed) + 1, q)])
  <2>1. IsLedger(txs, sealed)
    BY <1>0, OrderedIsLedger
  <2>2. step = "NOT_STARTED" /\ step' = step
        /\ (SealChain(txs) \/ (hashed' = txs /\ sealed' = sealed))
    BY <1>1 DEF OrderTransaction
  <2>3. IsLedger(hashed', sealed')
    <3> HIDE DEF txs
    <3>1. CASE SealChain(txs)
      BY <2>1, <3>1, SealedIsLedger
    <3>2. CASE hashed' = txs /\ sealed' = sealed
      BY <2>1, <3>2
    <3> QED
      BY <2>2, <3>1, <3>2
  <2> QED
    BY <2>2, <2>3 DEF ChainInv
<1>2. ASSUME SealWhatIsLeft
      PROVE  ChainInv'
  <2>1. step = "NOT_STARTED" /\ step' = step /\ SealChain(hashed)
    BY <1>2 DEF SealWhatIsLeft
  <2>2. IsLedger(hashed', sealed')
    BY <1>0, <2>1, SealedIsLedger
  <2> QED
    BY <2>1, <2>2 DEF ChainInv
<1>3. ASSUME NEW i \in DOMAIN hashed, NEW q \in Quantities, EditQuantity(i, q)
      PROVE  ChainInv'
  <2>1. /\ hashed[i].status = "COMMITTED" /\ q # hashed[i].quantity
        /\ step' = "AFTER_EDIT" /\ edited' = i
        /\ copy' = [transactions |-> WithEdit(hashed, i, q), blocks |-> sealed]
        /\ hashed' = hashed /\ sealed' = sealed
    BY <1>3 DEF EditQuantity, WithEdit, ledger
  <2>2. CloneIs(q)'
    BY <2>1 DEF CloneIs
  <2> QED
    BY <1>0, <2>1, <2>2 DEF ChainInv
<1>4. ASSUME step = "AFTER_EDIT" \/ step = "AFTER_FORGING_TRANSACTION",
             hashed' = hashed, sealed' = sealed, edited' = edited,
             IsDemonstrating', step' \in {"AFTER_FORGING_TRANSACTION", "AFTER_FORGING_BLOCK"},
             \A q \in Quantities : CloneIs(q) => CloneIs(q)'
      PROVE  ChainInv'
  <2>1. PICK q \in Quantities : q # hashed[edited].quantity /\ CloneIs(q)
    BY <1>4 DEF ChainInv
  <2> QED
    BY <1>0, <1>4, <2>1 DEF ChainInv
<1>5. ASSUME ForgeTransaction
      PROVE  ChainInv'
  <2>1. /\ step = "AFTER_EDIT" /\ step' = "AFTER_FORGING_TRANSACTION"
        /\ hashed' = hashed /\ sealed' = sealed /\ edited' = edited
        /\ copy' = [copy EXCEPT !.transactions[edited].transactionHash =
                       TransactionHash(edited, copy.transactions[edited].quantity)]
    BY <1>5 DEF ForgeTransaction, ledger
  <2>2. ASSUME NEW q \in Quantities, CloneIs(q)
        PROVE  CloneIs(q)'
    <3>1. copy = [transactions |-> WithEdit(hashed, edited, q), blocks |-> sealed]
      BY <2>1, <2>2 DEF CloneIs
    <3>2. WithEdit(hashed, edited, q)[edited].quantity = q
      BY <2>1, EditedRecord DEF ChainInv, IsLedger
    <3>3. copy' = [transactions |-> WithForgery(hashed, edited, q), blocks |-> sealed]
      BY <2>1, <3>1, <3>2 DEF WithForgery
    <3> QED
      BY <2>1, <3>3 DEF CloneIs
  <2> QED
    BY <1>4, <2>1, <2>2
<1>6. ASSUME ForgeBlock
      PROVE  ChainInv'
  <2>1. /\ step = "AFTER_FORGING_TRANSACTION" /\ step' = "AFTER_FORGING_BLOCK"
        /\ hashed' = hashed /\ sealed' = sealed /\ edited' = edited
        /\ copy' = [copy EXCEPT !.blocks[EditedBlock].blockHash =
                       RecomputedBlockHash(copy.transactions, copy.blocks[EditedBlock])]
    BY <1>6 DEF ForgeBlock, ledger
  <2>2. EditedBlock = hashed[edited].block
    BY <1>0, <2>1, TheEditedBlock DEF ChainInv
  <2>3. ASSUME NEW q \in Quantities, CloneIs(q)
        PROVE  CloneIs(q)'
    <3>1. copy = [transactions |-> WithForgery(hashed, edited, q), blocks |-> sealed]
      BY <2>1, <2>3 DEF CloneIs
    <3> DEFINE b == hashed[edited].block
               forged == WithForgery(hashed, edited, q)
    <3>2. copy' = [transactions |-> forged,
                   blocks |-> [sealed EXCEPT ![b].blockHash =
                                  RecomputedBlockHash(forged, sealed[b])]]
      BY <2>1, <2>2, <3>1
    <3> QED
      BY <2>1, <3>2 DEF CloneIs
  <2> QED
    BY <1>4, <2>1, <2>3
<1>7. ASSUME Finish
      PROVE  ChainInv'
  BY <1>0, <1>7 DEF Finish, ChainInv, ledger
<1>8. CASE UNCHANGED integrity
  BY <1>8 DEF ChainInv, CloneIs, integrity, ledger
<1> QED
  BY <1>1, <1>2, <1>3, <1>5, <1>6, <1>7, <1>8 DEF ChainNext

LEMMA ChainInvariant == ChainSpec => []ChainInv
BY ChainStarts, ChainSteps, PTL DEF ChainSpec

\* In a chain of any length and with blocks of any size: no false alarm, an edit is found
\* in its transaction and block, a forged transaction digest in the block, a forged block
\* digest in the next block's link and nowhere else (verifyIntegrity, demonstrateTamper).
THEOREM TamperingIsLocated == ChainSpec => []EditIsLocated
<1>1. ChainInv => EditIsLocated
  <2> SUFFICES ASSUME ChainInv PROVE EditIsLocated
    OBVIOUS
  <2>1. Verifies(hashed, sealed)
    BY LedgerVerifies DEF ChainInv
  <2>2. CASE step = "AFTER_EDIT"
    <3>1. PICK q \in Quantities : q # hashed[edited].quantity /\ CloneIs(q)
      BY <2>2 DEF ChainInv, IsDemonstrating
    <3>2. copy.transactions = WithEdit(hashed, edited, q) /\ copy.blocks = sealed
      BY <2>2, <3>1 DEF CloneIs
    <3> QED
      BY <2>1, <2>2, <3>1, <3>2, EditIsFound DEF ChainInv, IsDemonstrating, EditIsLocated
  <2>3. CASE step = "AFTER_FORGING_TRANSACTION"
    <3>1. PICK q \in Quantities : q # hashed[edited].quantity /\ CloneIs(q)
      BY <2>3 DEF ChainInv, IsDemonstrating
    <3>2. copy.transactions = WithForgery(hashed, edited, q) /\ copy.blocks = sealed
      BY <2>3, <3>1 DEF CloneIs
    <3> QED
      BY <2>1, <2>3, <3>1, <3>2, ForgeryIsFound DEF ChainInv, IsDemonstrating, EditIsLocated
  <2>4. CASE step = "AFTER_FORGING_BLOCK"
    <3>1. PICK q \in Quantities : q # hashed[edited].quantity /\ CloneIs(q)
      BY <2>4 DEF ChainInv, IsDemonstrating
    <3>2. EditedBlock = hashed[edited].block
      BY <2>4, TheEditedBlock DEF ChainInv, IsDemonstrating
    <3> DEFINE forged == WithForgery(hashed, edited, q)
               chain == [sealed EXCEPT ![EditedBlock].blockHash =
                            RecomputedBlockHash(forged, sealed[EditedBlock])]
    <3>3. copy.transactions = forged /\ copy.blocks = chain
      BY <2>4, <3>1, <3>2 DEF CloneIs
    <3>4. InvalidBlocks(forged, chain) = {EditedBlock + 1} \cap DOMAIN sealed
      BY <2>4, <3>1, ForgedBlockMovesOn DEF ChainInv, IsDemonstrating
    <3> HIDE DEF forged, chain
    <3> QED
      BY <2>1, <2>4, <3>3, <3>4 DEF EditIsLocated
  <2>5. CASE step = "NOT_STARTED"
    BY <2>1, <2>5 DEF EditIsLocated
  <2> QED
    BY <2>2, <2>3, <2>4, <2>5 DEF ChainInv
<1> QED
  BY <1>1, ChainInvariant, PTL
=============================================================================
