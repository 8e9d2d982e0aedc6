\* One member whose album the bot handles as two tasks, and one API thread: two
\* challenges, two photos, two files.
SPECIFICATION Spec
CONSTANTS
    User = {u1}
    Photo = {p1, p2}
    Key = {k1, k2}
    Text = {"text"}
    Api = {a1}
    Bot = {b1, b2}
    Worker = {}
    MaxVerifs = 2
    MaxPhotos = 1
    Requests = {"verification", "moderate", "delete", "cleanup", "photo"}
    Decisions = {"APPROVED", "REVISION_REQUIRED"}
    BotFails = FALSE
    NoUser = NoUser
    NoKey = NoKey
SYMMETRY Symmetry
INVARIANTS TypeOK AwaitingMediaIsEmpty CustodyInv OneRowPerFile
PROPERTIES FilesInCustody OnlyDueFilesDeleted
