------------------------------- MODULE Promise -------------------------------
(***************************************************************************)
(* What the pipeline promises of a message, whatever workers, crashes,     *)
(* retries, taps and answers do: it is heard once, and then either booked, *)
(* by one entry, or refused, with none; after that its fate is sealed.     *)
(* One transaction books at most one message, and may refuse others with   *)
(* it: an answer refuses its own message while it books the one it         *)
(* answers, and the reaper refuses several.                                *)
(***************************************************************************)
EXTENDS Naturals

CONSTANT Msgs

VARIABLES
    fate,       \* what became of each message
    entries     \* transactions rows booked for it

Fates == {"unheard", "open", "booked", "refused"}

Init ==
    /\ fate = [m \in Msgs |-> "unheard"]
    /\ entries = [m \in Msgs |-> 0]

Hear(m) ==
    /\ fate[m] = "unheard"
    /\ fate' = [fate EXCEPT ![m] = "open"]
    /\ UNCHANGED entries

Book(m, refused) ==
    /\ \A n \in refused \cup {m} : fate[n] = "open"
    /\ m \notin refused
    /\ fate' = [n \in Msgs |-> IF n = m THEN "booked"
                               ELSE IF n \in refused THEN "refused" ELSE fate[n]]
    /\ entries' = [entries EXCEPT ![m] = @ + 1]

Refuse(refused) ==
    /\ \A n \in refused : fate[n] = "open"
    /\ fate' = [n \in Msgs |-> IF n \in refused THEN "refused" ELSE fate[n]]
    /\ UNCHANGED entries

Next ==
    \/ \E m \in Msgs : Hear(m)
    \/ \E refused \in SUBSET Msgs : Refuse(refused) \/ \E m \in Msgs : Book(m, refused)

Spec == Init /\ [][Next]_<<fate, entries>>
=============================================================================
