\* A bot with two messages and a kernel that may die once a day.
SPECIFICATION LiveSpec
CONSTANTS
    MaxUpdate = 2
    MaxFault = 1
INVARIANT BriefOnce
PROPERTIES RoutedInTurn DownIsReported
