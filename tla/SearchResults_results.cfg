SPECIFICATION Spec
CONSTANTS
  Pages <- MCPages
  Terms <- MCTerms
INVARIANTS FocusIsSeen UpUndoesDown
PROPERTY FirstPressIgnored
