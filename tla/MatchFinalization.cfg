SPECIFICATION FairSpec
CONSTANTS
    Users <- MCUsers
    Matches <- MCMatches
    seat <- MCSeat
    Achievements <- MCAchievements
    needs <- MCNeeds
    startStreak <- MCStartStreak
    MaxEvents = 1
INVARIANTS TypeOK PointsAddUp MintsAreBadges
PROPERTY FinalizationEnds
CHECK_DEADLOCK FALSE
