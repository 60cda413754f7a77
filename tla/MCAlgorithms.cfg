SPECIFICATION Spec
INVARIANTS SpansSound WindowsSound  ValuesAreWhole
CHECK_DEADLOCK FALSE
