CONSTANTS
    Strings = TRUE
    Truthiness = FALSE
    Packages <- MCPackages
    MaxRounds = 6
    MaxUnfit = 1
SPECIFICATION Spec
INVARIANT PrunedPackageBehaves
