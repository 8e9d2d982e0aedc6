\* A profile form is handled while the account is deleted.
SPECIFICATION Spec
CONSTANTS
    User = {u1}
    Photo = {}
    Key = {}
    Text = {"text", "other"}
    Api = {a1, a2}
    Bot = {}
    Worker = {}
    MaxVerifs = 0
    MaxPhotos = 1
    Requests = {"profile", "delete"}
    Decisions = {}
    BotFails = FALSE
    NoUser = NoUser
    NoKey = NoKey
INVARIANTS DeletionErasesProfile
CHECK_DEADLOCK FALSE
