SPECIFICATION Spec
CONSTANT MaxIterations = 12
INVARIANT CrashRecovery
