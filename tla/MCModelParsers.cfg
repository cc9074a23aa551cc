SPECIFICATION Spec
CONSTANT Grammars <- ModelGrammars
INVARIANTS TypeOK SameGraph SameTypeData SameDefaults SameBoundaries SameHandlers SameLanes
           RefusesOverwritten SameDecisions SameItems
CHECK_DEADLOCK FALSE
