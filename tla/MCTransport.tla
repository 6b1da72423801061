----------------------------- MODULE MCTransport -----------------------------
EXTENDS Transport

CONSTANTS w1

MCWorkers == {w1}
MCUpdates == 1 .. 2
MCSimulated == {3}
MCJobs == 1 .. 3

\* A note and a text, also processed inline, the text perhaps an answer; a
\* note with a raising update behind it; and a simulated message.
MCTraffic == {[inline |-> TRUE, kind |-> <<"voice", "text">>, simulated |-> {}],
              [inline |-> FALSE, kind |-> <<"voice", "poison">>, simulated |-> {}],
              [inline |-> FALSE, kind |-> <<"poison", "poison">>, simulated |-> {3}]}
=============================================================================
