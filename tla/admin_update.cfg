SPECIFICATION Spec
CONSTANT MaxFaults = 1
INVARIANT AdminMayUpdate
