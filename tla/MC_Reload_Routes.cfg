CONSTANTS
    crm = crm
    erp = erp
    strct = strct
    chat = chat
    strict = strict
    cards = cards
    address = address
    street = street
    phone = phone
    r1 = r1
    Absent = Absent
    Unreadable = Unreadable
    PdType = {address, street, phone}
    Mask = {"placeholder", "partial"}
    Rule = {r1}
    Filter = {"bank"}
    ProfileName = {strict, cards, strct}
    System = {crm, erp}
    Route = {chat}
    Address = address
    AddressParts = {street}
    Admin = {"post"}
    Request = {"request"}
    MaxEdits = 2
    Initial <- MCInitial
    Edited <- MCEditedRoutes
SPECIFICATION Spec
INVARIANTS RawOnlyIfBypassed
