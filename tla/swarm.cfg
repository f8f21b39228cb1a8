CONSTANTS
    c1 = c1
    c2 = c2
    u = u
    d = d
    Challenges = {c1, c2}
    Users = {u}
    Default = d
    Garbled = {c2}
    MaxCreates = 2
    MaxRestarts = 1
    MaxSwitches = 1
SPECIFICATION Spec
INVARIANTS InvitesStayValid RunsWhatWasAsked SettledSeedsStay
CHECK_DEADLOCK FALSE
