\* A handler has loaded the account when staff bans the member.
SPECIFICATION Spec
CONSTANTS
    User = {u1}
    Photo = {}
    Key = {k1}
    Text = {"text"}
    Api = {a1}
    Bot = {b1}
    Worker = {}
    MaxVerifs = 1
    MaxPhotos = 1
    Requests = {"verification", "moderate"}
    Decisions = {"REVISION_REQUIRED", "BANNED"}
    BotFails = FALSE
    NoUser = NoUser
    NoKey = NoKey
PROPERTIES BanStands
CHECK_DEADLOCK FALSE
