------------------------------ MODULE MCLedger ------------------------------
(***************************************************************************)
(* Small instances of Ledger, with one vocabulary of commands for each     *)
(* question, and of what is read off the record: the walk through its      *)
(* graph and the verification of its chain.                                *)
(***************************************************************************)
EXTENDS Ledger, Traversal, Integrity, TLC

Organization(type, actions) ==
    [type |-> type, isActive |-> TRUE, authorizedActions |-> actions]

\* src/scenarios/coffee-traceability/organizations.ts
MCOrganizations ==
    "coop" :> Organization("PRODUCER",
        {"CREATE_BATCH", "TRANSFER_CUSTODY", "TRANSFER_OWNERSHIP", "ANCHOR_DOCUMENT",
         "DISPATCH_BATCH"}) @@
    "certifier" :> Organization("CERTIFIER", {"ISSUE_CERTIFICATE", "ANCHOR_DOCUMENT"}) @@
    "carrier" :> Organization("LOGISTICS_PROVIDER",
        {"RECORD_TRANSPORT_CONDITION", "TRANSFER_CUSTODY", "ANCHOR_DOCUMENT",
         "DISPATCH_BATCH"}) @@
    "processor" :> Organization("PROCESSOR",
        {"RECEIVE_BATCH", "RECORD_CORRECTION", "TRANSFORM_BATCH", "PACKAGE_BATCH",
         "TRANSFER_OWNERSHIP", "TRANSFER_CUSTODY"}) @@
    "distributor" :> Organization("DISTRIBUTOR",
        {"RECEIVE_BATCH", "DISPATCH_BATCH", "TRANSFER_OWNERSHIP", "TRANSFER_CUSTODY"}) @@
    "retailer" :> Organization("RETAILER", {"RECEIVE_BATCH"}) @@
    "regulator" :> Organization("REGULATOR", {"RECALL_BATCH"}) @@
    "unrecognized" :> [type |-> "CERTIFIER", isActive |-> FALSE, authorizedActions |-> {}]

MCOrganizationIds == DOMAIN MCOrganizations \cup {"stranger"}

\* One authorized actor for every organization, named after it.
MCActors == [o \in DOMAIN MCOrganizations |-> [organization |-> o, isAuthorized |-> TRUE]]
MCActorIds == MCOrganizationIds
MCAssets == {"green", "roasted", "packs", "blend"}
MCAnchors == {"certificate", "manifest"}

KG(n) == [amount |-> n, unit |-> "KG"]

Create(a, at) ==
    [type |-> "CREATE_BATCH", actor |-> "coop", org |-> "coop", at |-> at, output |-> a,
     producer |-> "coop", quantity |-> KG(2), packageSize |-> None]
Custody(a, from, to, at) ==
    [type |-> "TRANSFER_CUSTODY", actor |-> from, org |-> from, at |-> at, asset |-> a,
     from |-> from, to |-> to, alsoTransfersOwnership |-> FALSE]
Ownership(a, from, to, at) ==
    [type |-> "TRANSFER_OWNERSHIP", actor |-> from, org |-> from, at |-> at, asset |-> a,
     from |-> from, to |-> to]
Dispatch(a, from, to, at) == [Ownership(a, from, to, at) EXCEPT !.type = "DISPATCH_BATCH"]
Receive(a, to, n, at) ==
    [type |-> "RECEIVE_BATCH", actor |-> to, org |-> to, at |-> at, asset |-> a, to |-> to,
     quantity |-> KG(n)]
Transform(a, b, n, at) ==
    [type |-> "TRANSFORM_BATCH", actor |-> "processor", org |-> "processor", at |-> at,
     asset |-> a, output |-> b, quantity |-> KG(n), packageSize |-> None]
Package(a, b, n, at) ==
    [Transform(a, b, n, at) EXCEPT !.type = "PACKAGE_BATCH", !.packageSize = 500,
                                   !.quantity = [amount |-> n, unit |-> "UNIT"]]
Recall(a, at) ==
    [type |-> "RECALL_BATCH", actor |-> "regulator", org |-> "regulator", at |-> at,
     asset |-> a]
Humidity(a, percent, at) ==
    [type |-> "RECORD_TRANSPORT_CONDITION", actor |-> "carrier", org |-> "carrier",
     at |-> at, asset |-> a, humidityPercent |-> percent,
     allowedMaximumHumidityPercent |-> 12]
AnchorCertificate(a, issuer, expires, at) ==
    [type |-> "ANCHOR_DOCUMENT", actor |-> issuer, org |-> issuer, at |-> at, asset |-> a,
     anchor |-> "certificate", documentType |-> "QUALITY_CERTIFICATE",
     metadataKind |-> "QUALITY_CERTIFICATE", declaredQuantity |-> KG(1),
     isHashPresent |-> TRUE, issuer |-> issuer, expiresAt |-> expires]
AnchorManifest(a, n, at) ==
    [AnchorCertificate(a, "carrier", None, at) EXCEPT
        !.anchor = "manifest", !.documentType = "SHIPPING_MANIFEST",
        !.metadataKind = "SHIPPING_MANIFEST", !.declaredQuantity = KG(n)]
Certify(a, issuer, at) ==
    [type |-> "ISSUE_CERTIFICATE", actor |-> issuer, org |-> issuer, at |-> at,
     asset |-> a, anchor |-> "certificate", issuer |-> issuer]
Correct(a, i, target, old, new) ==
    [type |-> "RECORD_CORRECTION", actor |-> "processor", org |-> "processor", at |-> 3,
     asset |-> a, correctionOf |-> i, target |-> target, incorrect |-> KG(old),
     corrected |-> KG(new), isReasonGiven |-> TRUE]
Manifest == [kind |-> "DOCUMENT_METADATA_FIELD", id |-> "manifest"]

\* Lineage and recall: two lines of goods, one of them two steps deep, and a
\* recall of any of them at any point.
RecallCommands ==
    {Create("green", 1), Create("blend", 1),
     Custody("green", "coop", "processor", 1), Custody("roasted", "processor", "coop", 2),
     Transform("green", "roasted", 2, 2), Package("roasted", "packs", 4, 2),
     Ownership("roasted", "coop", "distributor", 2),
     Dispatch("packs", "coop", "retailer", 3),
     Recall("green", 3), Recall("roasted", 3), Recall("packs", 3)}

\* Transport and certification: excursions, clean readings, certificates before
\* and after them, a certificate from an unrecognized issuer, a receipt.
TransportCommands ==
    {Create("green", 1), Custody("green", "coop", "carrier", 1),
     Custody("green", "carrier", "processor", 2),
     Humidity("green", 14, 2), Humidity("green", 10, 2),
     AnchorCertificate("green", "certifier", 3, 1), AnchorCertificate("green", "unrecognized", 3, 1),
     Certify("green", "certifier", 2), Certify("green", "certifier", 3),
     Receive("green", "processor", 1, 2), Receive("green", "processor", 3, 2),
     Transform("green", "roasted", 1, 2)}

\* Corrections of an asset's quantity and of a manifest's declared quantity.
CorrectionCommands ==
    {Create("green", 1), AnchorManifest("green", 2, 1), Recall("green", 3)}
    \cup {Correct("green", 1, AssetQuantity("green"), p[1], p[2]) :
             p \in {<<2, 1>>, <<2, 3>>, <<1, 3>>, <<3, 2>>}}
    \cup {Correct("green", i, Manifest, p[1], p[2]) : i \in {2, 3}, p \in {<<2, 1>>, <<1, 2>>}}

\* What is reported of goods and what corrects the report.
EvidenceCommands == TransportCommands \cup CorrectionCommands

\* A batch sent straight to the processor, who transforms it before booking it in.
ConsumptionCommands ==
    {Create("green", 1), Custody("green", "coop", "processor", 1),
     Receive("green", "processor", 2, 2),
     Transform("green", "roasted", 2, 2), Transform("green", "blend", 2, 3)}
-----------------------------------------------------------------------------
(* One behaviour asks one question: what a recall reaches, of a ledger that *)
(* seals at stage boundaries; what reports and corrections amount to, of    *)
(* one that commits at once; what a walk through any graph of the assets    *)
(* returns; or what the verifier says of a chain that was tampered with.    *)

VARIABLE question

Evidence ==
    INSTANCE Ledger WITH Submittable <- EvidenceCommands, MaxTransactionsPerBlock <- 1,
                         BlockCommitMode <- "IMMEDIATE", MaxTransactions <- 6

NoWalk ==
    /\ edges = {} /\ direction = "FORWARD" /\ rootAssetId = "green"
    /\ visited = {"green"} /\ reached = <<>> /\ usedEdges = {}
    /\ frontier = <<>> /\ nextFrontier = <<>> /\ depth = 0

MCInit ==
    /\ Init
    /\ ChainInit
    /\ \/ question = "provenance" /\ WalkInit
       \/ question \in {"recall", "evidence", "tampering"} /\ NoWalk

MCNext ==
    /\ \/ question = "recall" /\ Next /\ UNCHANGED <<walk, integrity>>
       \/ question = "evidence" /\ Evidence!Next /\ UNCHANGED <<walk, integrity>>
       \/ question = "provenance" /\ WalkNext /\ UNCHANGED <<vars, integrity>>
       \/ question = "tampering" /\ ChainNext /\ UNCHANGED <<vars, walk>>
    /\ UNCHANGED question

\* A walk is one synchronous call: it keeps running until it returns.
MCSpec ==
    /\ MCInit
    /\ [][MCNext]_<<question, vars, walk, integrity>>
    /\ WF_walk(question = "provenance" /\ WalkNext)

\* A walk that is asked for returns, and what it lists is listed by distance.
WalkReturns == question = "provenance" => WalkTerminates
=============================================================================
