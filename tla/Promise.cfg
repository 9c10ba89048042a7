\* Chains, lists, async functions, finally(), rejections and callbacks that throw.
SPECIFICATION FairSpec
CONSTANTS
    Programs <- AllPrograms
INVARIANTS
    OneWayToSettle NothingStuck ReactionsKept OutcomesMatch UnhandledReported
PROPERTIES SettledForGood ReactionsRun
CHECK_DEADLOCK FALSE
