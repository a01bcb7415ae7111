SPECIFICATION Spec
CONSTANT ProtectDisclosure = TRUE
CHECK_DEADLOCK FALSE
INVARIANT GoodbyeIsSpoken
