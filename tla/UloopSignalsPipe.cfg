SPECIFICATION Spec
CONSTANT MaxDepth = 2
INVARIANT SigpipeRestored
