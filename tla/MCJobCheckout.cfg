SPECIFICATION CheckoutSpec
CONSTANTS
    page = page
    draft = draft
    main = main
    mine = mine
    theme = theme
    stray = stray
    Default = main
    Mine = mine
    Theme = theme
    Stray = stray
    NoBranch = NoBranch
    Paths <- MCPaths
    NewDirs <- MCNewDirs
    Wanders <- Anywhere
    Stageable <- MCPaths
    MaxJobs = 2
    MaxCommits = 2
    MaxEdits = 1
INVARIANT CheckoutSafety
PROPERTIES BaselineSpared OwnedIsNotSwept
CHECK_DEADLOCK FALSE
