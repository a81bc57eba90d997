SPECIFICATION LoopSpec
CONSTANTS
  Operands = {"rhokp"}
  MaxUid = 2
  MaxGen = 1
  MaxTrouble = 2
  MaxBackoff = 0
INVARIANTS TypeOK FinalizerInv FinalizerBeforeObjects CleanDeletion
PROPERTIES CreatedForLiveCR FinalizerKeptWhileLive ImplementsLifecycle DeletionCompletes
CHECK_DEADLOCK FALSE
