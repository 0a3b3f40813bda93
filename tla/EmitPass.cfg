SPECIFICATION Spec
CONSTANT Programs <- MCPrograms
INVARIANTS FlowPreserved EmittedOnce NeverStuck
PROPERTIES StepsCount PassEnds
CHECK_DEADLOCK FALSE
