SPECIFICATION Spec
CONSTANT Inputs <- MCInputs
INVARIANT EntriesMatchHeadings
INVARIANT PagesHonest
INVARIANT LinesOnce
CHECK_DEADLOCK FALSE
