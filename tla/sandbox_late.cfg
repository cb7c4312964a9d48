SPECIFICATION SandboxSpec
CONSTANTS
  MaxBlocks = 4
  MaxRestarts = 1
  MaxEditor = 0
INVARIANT SilentOnlyIfLate
CHECK_DEADLOCK FALSE
