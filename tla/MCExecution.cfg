CONSTANTS
    a = a
    b = b
    p1 = p1
    p2 = p2
    Venue <- MCVenue
    NoVenue = NoVenue
    MaxReservations = 4
    InitialCapital <- MCInitialCapital
    Amount <- MCAmount
    Plan <- MCPlan
    PlanOf <- MCPlanOf
    VenueOf <- MCVenueOf
    Quantity <- MCQuantity
    MaxDebit <- MCMaxDebit
    Dependency <- MCDependency
    CertificateCapital <- MCCertificateCapital
    MaxCapital <- MCMaxCapital
    MaxUnresolved = 3
    c = c
    d = d
    Id <- MCId
    OrderId <- MCOrderId
    Plans <- MCPlans
    Leg = {1, 2, 3}
    Templates <- MCTemplates
    Limits <- MCLimits
    None = None
    Price <- MCPrice
    Size <- MCSize
    TickSize <- MCTickSize
    MaxGeneration = 3
    Snapshots <- MCSnapshots
    Deltas <- MCDeltas
    CompilerVenue <- MCVenue
SPECIFICATION Spec
INVARIANTS
    TypesOK LockedPlanIsHedged ReservationFollowsOrder
    DeployedIsAttributed ExposureWithinLimit
    AcceptedIsExecutable ProposalIsTight ProposalIsLargest ValidBookIsAligned
PROPERTIES
    KeepsSilos RolledBackPlanStaysAbsent
CHECK_DEADLOCK FALSE
