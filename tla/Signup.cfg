SPECIFICATION FairSpec
CONSTANTS
    Threads = {t1, t2}
    NoThread = NoThread
    NoRow = NoRow
    NoJob = NoJob
    root = root
    ann = ann
    ben = ben
    cat = cat
    c1 = c1
    c2 = c2
    UserIds = {root, ann, ben, cat}
    AdminIds = {root}
    Emails = {root, ann, ben, cat}
    Names = {root, ann, ben, cat}
    Codes = {c1, c2}
    Dated = {c1}
    Applications <- MCApplications
    MaxUses <- MCMaxUses
    Grant = 1
    MaxRestarts = 1
INVARIANTS TypeOK InviteUsesCounted UsersWhole HousesBounded HouseWithinLedger TokensAreForUsers
PROPERTIES SignupsEnd
