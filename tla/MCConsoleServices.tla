------------------------- MODULE MCConsoleServices -------------------------
EXTENDS ConsoleServices

\* The settings' folder, a file in it, one in a folder in it, named before, and one
\* in another folder.
MCPlan == <<[folders |-> <<"config">>, file |-> FALSE],
            [folders |-> <<"config">>, file |-> TRUE],
            [folders |-> <<"config", "aprs">>, file |-> FALSE],
            [folders |-> <<"config", "aprs">>, file |-> TRUE],
            [folders |-> <<"plugin">>, file |-> TRUE]>>
=============================================================================
