SPECIFICATION Spec
CONSTANTS
    Users <- MCUsers
    Matches <- MCMatches
    seat <- MCSeat
    Achievements <- MCAchievements
    needs <- MCNeeds
    startStreak <- MCStartStreak
    MaxEvents = 0
INVARIANT PointsAsReported
CHECK_DEADLOCK FALSE
