SPECIFICATION FairSpec
CONSTANTS
    Users = {"ana", "bob"}
    Desks = {"k1", "k2"}
    Patches <- MCPatches
    MaxFlows = 2
    MaxFaults = 1
    NoOne = "no one"
    MaxBytes = 1
CHECK_DEADLOCK FALSE
INVARIANTS AccountsAgree SessionIsHonest LinksAreWhole
PROPERTY RenewalEnds
