\* Two API threads and the bot race over the row and the profile of one member.
SPECIFICATION Spec
CONSTANTS
    User = {u1}
    Photo = {}
    Key = {}
    Text = {"text"}
    Api = {a1, a2}
    Bot = {b1}
    Worker = {}
    MaxVerifs = 0
    MaxPhotos = 1
    Requests = {"profile", "visibility", "reveal", "delete", "moderate"}
    Decisions = {"APPROVED", "BANNED"}
    BotFails = FALSE
    NoUser = NoUser
    NoKey = NoKey
SYMMETRY Symmetry
INVARIANTS DeletedIsUnlinked CreatedHasProfile
PROPERTIES FlagsAreTheMembers DecisionsStand
