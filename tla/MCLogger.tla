------------------------------ MODULE MCLogger ------------------------------
EXTENDS Logger

CONSTANTS m, n, k, r   \* glyphs: two of messages, two of prefixes

MCTitle == <<m>>
MCPrefixOf == [l \in Levels |-> IF l = INFO THEN <<>> ELSE IF l = WARN THEN <<r>> ELSE <<k, r>>]
MCMessages == {<<>>, <<m, Newline>>, <<m, n, m, n>>}
MCSetPlaces == {<<0, 0>>, <<Width - 1, Height - 1>>, <<Width, 0>>}
=============================================================================
