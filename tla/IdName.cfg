\* id of a process whose real and effective users differ.
SPECIFICATION Spec
CONSTANTS
    Uids = {0, 1}
    Gids = {0}
    NULL = null
    MaxChanges = 0
INVARIANT EffectiveName
CHECK_DEADLOCK FALSE
