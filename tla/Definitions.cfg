INIT Init
NEXT Next
CHECK_DEADLOCK FALSE
INVARIANT CompiledPipelinesAreSound
INVARIANT BoundariesHold
INVARIANT SanitizingHolds
INVARIANT FiguresHold
INVARIANT MatrixHolds
INVARIANT LayersKeepTheirOrder
INVARIANT ContextAndPatchHold
INVARIANT ListingsStayWithTheKey
