CONSTANTS
    NONE = NONE
SPECIFICATION Spec
\* a handler returns once it has written its response
CHECK_DEADLOCK FALSE
INVARIANT ContentTypeAsSet
