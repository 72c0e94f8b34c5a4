\* Three runs, so that a run meets what two earlier ones left behind.  The
\* workflow may stop: after the last run nobody pushes.
CONSTANTS
    MaxRuns = 3
    MaxHead = 2
    None = None
SPECIFICATION Spec
CHECK_DEADLOCK FALSE
INVARIANTS TypeOK FitToServe SplitHasCause FullTrafficVetted RollbackRestores
