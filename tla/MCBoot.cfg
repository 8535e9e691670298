SPECIFICATION BootSpec
CONSTANTS
    Processes = {p1, p2}
    Versions = 2
    Statements <- MCStatements
    RoleRows = {r1}
    SettingRows = {s1}
    Deaths = 1
    Names = {"admin", "eve"}
    Passwords = {w1}
    Roles = {"Admin", "ManageUsers"}
    Clients = {c1, c2}
    Seeders = {q1, q2}
    FormSaves = {f1, f2}
    PodSaves = {g1}
    FormKeys = {"timezone", "blogtitle"}
    Inert = {"usetweetbacks"}
    Seeded = "seed"
INVARIANTS
    ServesComplete
    RolesWereGranted
    SomebodyIsLeft
    SnapshotFollows
PROPERTIES
    SeedingChangesNobody
    StartedServes
CHECK_DEADLOCK FALSE
