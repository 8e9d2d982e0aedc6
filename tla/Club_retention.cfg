\* The retention worker under fairness, a bot that may fail at any point: media is in
\* the end deleted, and only the media that is due.
SPECIFICATION FairSpec
CONSTANTS
    User = {u1}
    Photo = {p1}
    Key = {k1, k2}
    Text = {"text"}
    Api = {a1}
    Bot = {b1}
    Worker = {w1}
    MaxVerifs = 1
    MaxPhotos = 1
    Requests = {"verification", "moderate", "delete"}
    Decisions = {"REVISION_REQUIRED"}
    BotFails = TRUE
    NoUser = NoUser
    NoKey = NoKey
INVARIANTS DueInv
PROPERTIES ExpiredMediaIsDeleted DeletedPhotosAreDeleted FilesInCustody OnlyDueFilesDeleted PhotosAreKept
