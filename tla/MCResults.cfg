SPECIFICATION SessionSpec
CONSTANTS
    Nodes <- MCNodes
    Limits <- MCLimits
    Upstreams <- MCUpstreams
    Effects = {5, 6}
    NoEffect = NoEffect
    NoQuestion = NoQuestion
INVARIANTS
    ClaimsAreTrue
    NothingHiddenUntold
    EffectIsTheOutcomes
    NothingHiddenDisclosed
PROPERTIES
    LargerLimitShowsMore
    SurfacesAgree
    EffectsAgree
