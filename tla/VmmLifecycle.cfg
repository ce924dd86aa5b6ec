CONSTANT NumVms = 2
SPECIFICATION FairSpec
INVARIANTS DescriptorOpen AllBuiltFirst
PROPERTIES EndedByLastThread LastDeathNoticed CallAnswered
CHECK_DEADLOCK FALSE
