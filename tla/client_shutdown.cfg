\* The four loops of one client, exceptions and cancellation at any point.
SPECIFICATION Spec
INVARIANTS SemaphoresBalanced
PROPERTIES LoopsEnd
CHECK_DEADLOCK FALSE
