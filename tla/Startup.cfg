CONSTANTS
    i1 = i1
    i2 = i2
    c1 = c1
    c2 = c2
    k1 = k1
    k2 = k2
    None = None
    Person = Person
    Configured = spelled
    Canonical = folded
    Instances <- TwoInstances
    Configs <- Rollout
    Clients <- TwoClients
    Secrets = {"s", "t"}
    Rests = {"x", "y"}
    Keys <- TwoKeys
    MaxCrashes = 1
SPECIFICATION FairSpec
INVARIANTS ReadyWhenServing OneAdministrator PasswordHandedOver ServesItsClients
PROPERTY StartsServe
