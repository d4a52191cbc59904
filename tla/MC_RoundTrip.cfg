CONSTANTS
    w = w
    ann = ann
    Ann = Ann
    bob = bob
    card1 = card1
    card2 = card2
    mail1 = mail1
    cvv1 = cvv1
    Word <- MCWord
    Value <- MCValue
    PdType <- MCPdType
    TypeOf <- MCTypeOf
    Canon <- MCCanon
    KindOf <- MCKindStrict
    Shape <- MCShape
    Kept <- Mails
    Inputs <- MCInputs
    OwnToken <- MCOwnToken
    MaxLen = 3
    MaxReply = 3
SPECIFICATION Spec
CHECK_DEADLOCK FALSE
INVARIANTS TypeOK NumberingAgrees CitedPlaceholdersRestored ExactReplyRestored
