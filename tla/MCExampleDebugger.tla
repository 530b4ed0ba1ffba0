------------------------- MODULE MCExampleDebugger -------------------------
EXTENDS ExampleDebugger

\* The input ends early, suffices, or has a line that takes two buffers.
MCInputs == {<<>>, <<1>>, <<1, 1>>, <<2, 1>>, <<1, 2>>}
=============================================================================
