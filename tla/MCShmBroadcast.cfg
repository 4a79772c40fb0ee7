CONSTANTS n_reader = 2
          max_chunks = 2
          MaxObjects = 4
SPECIFICATION FairRingSpec
INVARIANTS ReaderOwnsChunk
PROPERTIES ImplementsBroadcast ObjectsArrive
