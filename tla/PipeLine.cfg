\* Three nodes, the middle one of two workers, and two tasks;
\* the function of the middle node may hang.
SPECIFICATION FairSpec
CONSTANTS NumNodes = 3
          n_worker_ <- MCWorkers
          NumTasks = 2
          MayHang = {2}
INVARIANTS PopsWhatItProcessed OneHolder NoHoldAndWait OvertakenOnlyInHand KeepsOrder
PROPERTIES ImplementsTaskFlow EveryTaskLeaves
