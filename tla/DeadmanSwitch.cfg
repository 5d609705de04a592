SPECIFICATION Spec
CONSTANTS
    Triggers <- MixedTriggers
    Phases <- ThreePhases
    Grace = 3
    MaxNap = 2
    MaxArms = 2
INVARIANT OneUnstopped
PROPERTIES DisarmedInTimeSurvives DisarmStops ViolationDestroys
