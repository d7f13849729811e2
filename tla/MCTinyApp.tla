----------------------------- MODULE MCTinyApp -----------------------------
EXTENDS TinyApp

\* Among them the last item of the longest table, and one that the two tables
\* number differently.
MCNames == {<<"status", "battery">>, <<"info", "name">>, <<"env", "spl_peak">>,
            <<"hvac", "target">>, <<"hvac", "fan_speed">>}

\* Bytes that could be taken for headers are among them.
MCValues == [n \in {1, 2, 4} |-> CASE n = 1 -> {0, 255}
                                   [] n = 2 -> {256 * 63 + 193}
                                   [] n = 4 -> {256^3 * 63 + 255}]

MCStrings == {<<>>, <<63>>, <<192, 2>>}
=============================================================================
