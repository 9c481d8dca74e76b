SPECIFICATION MCSpec
CONSTANTS
    None = None
    ann = ann
    k1 = k1
    k2 = k2
    k3 = k3
    Topics = {"report", "gates", "kyc", "rent", "votes", "history", "fraud", "diagnostics", "proxy", "operators",
              "orgs", "codes", "payu", "pincode", "escrow", "visits", "sightings", "assistant"}
SYMMETRY MCSymmetry
CHECK_DEADLOCK FALSE
INVARIANTS ReportsCanBeTrusted RecordsAreTheirs HoldersAreServed PaymentsAreScreened FailuresAreFound
