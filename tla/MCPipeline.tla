----------------------------- MODULE MCPipeline -----------------------------
EXTENDS Pipeline, TLC

CONSTANTS w1, w2

OneMsg == {1}
TwoMsgs == {1, 2}
OneWorker == {w1}
TwoWorkers == {w1, w2}

\* A tap, a typed answer, a tap, in the order decide asks for them.
MCButtons == {"payment", "large_amount"}
MCTexts == {"price"}
MCRank == [payment |-> 1, price |-> 2, large_amount |-> 3]

\* Complete sentences, sentences that need an answer or all three, and noise.
MCParses == {{}, {"payment"}, {"price"}, {"payment", "price", "large_amount"}, Junk}

\* A complete sentence, and one whose question the next message answers.
FewParses == {{}, {"price"}}

TextOnly == {"text"}
AnyKind == Kinds

\* Where the outside world is called.
ExternalCalls == {"stt", "post"}

SymWorkers == Permutations(TwoWorkers)
=============================================================================
