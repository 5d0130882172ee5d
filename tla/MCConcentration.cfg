\* A section whose figures were admitted, and that the page calls unavailable.
SPECIFICATION Spec
CONSTANT Missing = Missing
INVARIANT AdmittedIsShown
CHECK_DEADLOCK FALSE
