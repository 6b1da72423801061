--------------------------- MODULE MCUnderstanding ---------------------------
(***************************************************************************)
(* Sentences put together from phrases, and two models that may say        *)
(* anything: an invented customer and number, or one with another role.    *)
(***************************************************************************)
EXTENDS Understanding

Who == {<<>>, <<"ramesh", "ko">>, <<"suresh", "bhai", "se">>, <<"ramesh", "aur", "suresh", "ne">>}
HowMuch == {<<>>, <<"2", "kg", "500", "g">>, <<"do", "kg", "ek", "packet">>}
What == {<<>>, <<"chawal">>}
Price == {<<>>, <<"pachas", "rupaye", "kg">>, <<"ek", "sau", "ke", "bhav">>, <<"ek", "hazaar", "dhai", "sau", "rupaye">>,
          <<"teen", "paanch">>}
Verb == {<<>>, <<"udhaar", "liya">>, <<"chukaya">>, <<"aaya">>, <<"cash">>}

Phrases == {w \o h \o t \o p \o v : w \in Who, h \in HowMuch, t \in What, p \in Price, v \in Verb}
Others == {<<"sawa", "sau", "rupaye">>, <<"sawa", "kg", "chawal", "udhaar">>, <<"sau", "sau">>,
           <<"ramesh", "do", "rupaye">>, <<"paune", "do", "sau", "rupaye", "jama">>, <<"saade", "kg">>,
           <<"do", "packet", "nan">>, <<"chawal", "kitna">>, <<"sawa", "hazaar">>,
           <<"zyada", "nikla", "chawal", "2", "kg">>, <<"ek", "sau", "do", "sau", "rupaye">>,
           <<"teen", "hazaar", "do", "hazaar">>, <<"hazaar">>, <<"sau", "ek", "do">>, <<"ramesh", "ne", "suresh", "ko", "sau", "rupaye">>,
           <<"saade", "teen", "kg", "chawal", "kharab">>, <<"0", "kg", "chawal">>, <<"ek", "sau", "bees", "rupaye">>,
           <<"2", "kg", "500", "g", "chawal", "dhai", "rupaye", "kg">>, <<"2", "kg", "500", "g", "chawal", "rupaye">>,
           <<"ramesh", "ne", "do", "kg", "chawal", "chukaya">>, <<"2", "kg", "chawal", "kitna">>,
           <<"ramesh", "ko", "2", "kg", "pachas", "rupaye">>, <<"paune", "0", "kg", "chawal", "udhaar">>,
           <<"ek", "packet", "chota", "lal", "chawal">>, <<"500", "hazaar", "rupaye", "jama">>,
           <<"2", "kg", "dhai", "packet", "paune", "0">>}
MCUtterances == Phrases \cup Others

MCVocabulary == {"chawal"}
MCNames == {"ramesh", "suresh"}
MCSoundsLike(w, h) == w = "rames" /\ h = "ramesh"

MCTooLong(m) == Cardinality(m) > 2

MCExtractions ==
    [type : {Nothing, "CREDIT_SALE", "CASH_SALE", "CREDIT_REPAYMENT"}, customer : {{"rames"}, {"mohan"}},
     product : {{"chawal"}}, quantity : {Absent, 2000, 7000, 50000}, unit : {"kg"}, total : {Absent, 50000, 500000},
     price : {Absent, 2000, 50000}, priceUnit : {Nothing}, direction : {Nothing}, flags : {{}}, question : {FALSE}]
    \cup {Unparsed}
=============================================================================
