\* One lost answer between the registration of the vCenter and of the SSO.
SPECIFICATION Spec
CONSTANTS
    PowerOn = TRUE
    Options <- WithSso
    WaitBudget = 1
    ReadyBudget = 1
    Faults = {"conn", "lost", "crash"}
    MaxFaults = 1
INVARIANTS
    SsoIsRegistered
