SPECIFICATION Spec
CONSTANTS
    tool = tool
    agent = agent
    rival = rival
    watcher = watcher
    Plugins <- MCPlugins
    Resources <- MCResources
    Provides <- MCProvides
    Requires <- MCRequires
    Conflicts <- MCConflicts
    Targets <- MCTargets
    Procs = {g1, g2}
    Free = Free
    MaxMounts = 2
SYMMETRY ProcSymmetry
INVARIANTS NoUseAfterClose RefsExact CompositionValid StorageOutlivesWork NothingLeaks
CHECK_DEADLOCK FALSE
