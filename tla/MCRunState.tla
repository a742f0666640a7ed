----------------------------- MODULE MCRunState -----------------------------
EXTENDS RunState
CONSTANTS x, y
MCSymbols == {x, y}
Screen(sel, pool, settled) == [selected |-> sel, pool |-> pool, settled |-> settled]
MCScreens ==
    {Screen({x, y}, "sufficient", TRUE), Screen({x}, "sufficient", TRUE),
     Screen({y}, "sufficient", FALSE), Screen({x}, "pending", TRUE),
     Screen({}, "none_qualify", TRUE), Screen({}, "sufficient", TRUE)}
=============================================================================
