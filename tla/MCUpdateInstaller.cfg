SPECIFICATION Spec
CONSTANT Release = {1, 2}
INVARIANTS TypeOK NothingIsLost SuccessIsWhole DllGoesFirst
CHECK_DEADLOCK FALSE
