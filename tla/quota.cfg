SPECIFICATION FairSpec
CONSTANTS
    Quotas = {"q1", "q2"}
    Orders = {"o1", "o2"}
    NamespaceOf <- TwoNamespaces
    MaxReplicas = 1
    Cpus = {1}
    QuotaSpecs <- VariousSpecs
    MaxChanges = 3
    MaxFaults = 1
INVARIANTS
    TypeOK
PROPERTIES
    SerialAdmission
    SettledAdmission
    OnlyStaleListsAdd
    StatusSettles
CHECK_DEADLOCK FALSE
