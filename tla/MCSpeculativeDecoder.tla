------------------------ MODULE MCSpeculativeDecoder ------------------------
EXTENDS SpeculativeDecoder

CONSTANTS a, b, nl

MCTokens == {a, b, nl}

\* any token after any context: sampled decoding
AnyToken(seq) == MCTokens

\* greedy decoding of a model that alternates
Alternating(seq) == IF Len(seq) % 2 = 0 THEN {a} ELSE {b}
=============================================================================
