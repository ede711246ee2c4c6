SPECIFICATION Spec
CONSTANTS
    Tabs = {"t1", "t2"}
    Submits = {s1, s2}
    Owner <- MCOwner
    Texts = {"AL", "bo"}
    Names = {"al", "bo"}
    Canonical <- MCCanonical
    Passwords = {"pw1", "pw2"}
    Entries <- MCEntries
    Accounts <- MCAccounts
    LegacyLogins <- MCLegacyLogins
    NoToken = NoToken
    NoJob = NoJob
    MaxEpoch = 1
INVARIANTS
    TypeOK
    OneAccountPerName
    ShownIsOwner
    SignedOutMeansOut
PROPERTY
    PagesSettle
