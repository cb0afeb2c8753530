SPECIFICATION JoinedSpec
CONSTANTS
    Users = {u1}
    Groups = {1, 2}
    GroupTerms <- EditedTerms
    Priorities = {1}
    MaxGroupWrites = 3
    Lag = 1
    Horizon = 3
PROPERTIES
    RemoveAllSeesJoins
CHECK_DEADLOCK FALSE
