CONSTANTS
    Handler = {h1, h2}
    Staff = {ann, eve}
    Admin = {ann}
    Nobody = Nobody
    MaxVersion = 4
    MaxOffers = 2
    MaxContractVersion = 2
    Server = {s1, s2}
    MaxRowVersion = 3
    MaxFiles = 3
    Signer = {r1, r2}
    Document = {d1, d2}
    NoDocument = NoDocument
SPECIFICATION DeskSpec
SYMMETRY Symmetry
INVARIANTS
    DeskTypeOK
    WonDealIsSettled
    ContractRestsOnAcceptedOffer
    ContractHasHistory
    RepairLeavesNamedObjects
    NamedObjectExists
    SignedDocumentIsAttested
PROPERTIES
    CaseTakenOnlyByAdmin
    DealIsVersionedRecord
    FinalStateIsUndoneOnlyUnseen
