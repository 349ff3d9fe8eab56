SPECIFICATION Spec
CONSTANTS
    Leader = Leader
    Teammates = {t1}
    MaxTeammates = 1
    MaxTexts = 2
    MaxMessages = 2
PROPERTIES
    EveryMessageTaken
    TeamComesToRest
    WakesOnlyARestingTeam
CHECK_DEADLOCK FALSE
