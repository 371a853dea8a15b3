CONSTANTS
    Strings = FALSE
    Truthiness = FALSE
    Packages <- MCPackages
    MaxRounds = 6
    MaxUnfit = 1
SPECIFICATION Spec
INVARIANTS RewritesAFixpoint PrunedPackageBehaves
