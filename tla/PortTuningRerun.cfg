SPECIFICATION Spec
CONSTANTS
    Queues = {0, 1, 2}
    Backed = {0, 1}
    Stacks = {"xdp", "pmd", "vfio", "bifurcated"}
    FaultyRuns = {FALSE}
    MaxRuns = 3
INVARIANT NoItrOnEveryStack
