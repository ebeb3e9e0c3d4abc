SPECIFICATION Spec
CONSTANTS
    SmallBlind = 1
    BigBlind = 2
    Hero = "hero"
    Setups <- MCSetups
    Tournaments <- MCTournaments
    Threshold <- MCThreshold
    Repeats = 30
    Stacks <- MCStacks
    WeekDays = 7
    MonthDays = 30
    Gap = 30
INVARIANT ShovesAreCounted
