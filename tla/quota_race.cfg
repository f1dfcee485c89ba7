SPECIFICATION PresetSpec
CONSTANTS
    Quotas = {"q1"}
    Orders = {"o1", "o2"}
    NamespaceOf <- TwoNamespaces
    MaxReplicas = 1
    Cpus = {1}
    QuotaSpecs <- OneSpec
    MaxChanges = 2
    MaxFaults = 0
INVARIANTS
    QuotaRespected
CHECK_DEADLOCK FALSE
