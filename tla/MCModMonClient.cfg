\* the broker goes away
SPECIFICATION MonSpec
CONSTANTS
    Capacity = 1
    StackDepth = 4
PROPERTIES WaitsAndTriesAgain
