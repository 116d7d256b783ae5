SPECIFICATION MCSpec
INVARIANTS GgufSound MemoryHeld EngineLoaded KernelsExact
