SPECIFICATION IndexSpec
CONSTANTS RootFiles={"f"}
MaxIndexEvents=2
INVARIANT SettledIsComplete
CHECK_DEADLOCK FALSE
