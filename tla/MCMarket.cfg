CONSTANTS
    a = a  b = b
    None = None  Refused = Refused  NoReport = NoReport
    Price <- MCPrice  Size <- MCSize  TickSize <- MCTickSize
    GeminiTick = 2  MaxGeneration = 2  MaxEvents = 4  SingleEventUpdates = TRUE
    Venue <- MCVenue  NoVenue = NoVenue  MaxReservations = 2
    InitialCapital <- MCInitialCapital  Amount <- MCAmount
    Requests <- MCRequests
    PromotionVenue <- MCVenue  Leg = {1, 2}  State <- MCState  Winning <- MCWinning
    Payout <- MCPayout  PriceTick <- MCPriceTick  QuantityScale = 2  CollateralScale = 8
    Offers <- MCOffers  LaterOffers <- MCLaterOffers  Quantities = {1, 2, 3}
    Placements <- MCPlacements  Scopes = {"SAME", "OTHER_LEGS"}  MaxAge = 1  MaxTime = 2
    Absent = Absent  Rejected = Rejected  Thrown = Thrown
    HedgeScale = 2  FeeRateScale = 4  LevelChoices <- MCLevelChoices
    Checkpoints <- MCCheckpoints  Capacities <- MCCapacities  Premiums <- MCPremiums
    PayoutPerUnit = 8  NoQuote = NoQuote  HedgeRefused = HedgeRefused
SPECIFICATION Spec
INVARIANTS
    ValidBookIsFaithful ReservedIsBacked WalkIsBest RoundTripGainsNothing
    CertifiedCanBeReplayed PositionKeepsCertificate CurveIsBest
CHECK_DEADLOCK FALSE
