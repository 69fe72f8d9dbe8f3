--------------------------- MODULE RemedyPromise ---------------------------
(***************************************************************************)
(* What oto promises about a Remedy, with no job, lock, lease, sweep or    *)
(* clock in sight: people consent, one claim is made once enough different *)
(* people have, the write Tool is called at most once and only under that  *)
(* claim, and the verdict that is recorded never contradicts the call.     *)
(***************************************************************************)
EXTENDS Naturals, FiniteSets

CONSTANT People

VARIABLES
    need,       \* how many different people must consent
    consent,    \* who has
    phase,      \* where the Remedy stands
    sends       \* how often the write Tool was called

vars == <<need, consent, phase, sends>>

\* unsent: over, and nothing was ever sent; unknown: over, and nobody can say.
Verdicts == {"done", "answered", "unknown", "unsent"}
Phases   == {"open", "claimed"} \cup Verdicts

Init ==
    /\ need \in 1..2
    /\ consent = {}
    /\ phase = "open"
    /\ sends = 0

Consent ==
    /\ phase = "open"
    /\ \E p \in People \ consent : consent' = consent \cup {p}
    /\ UNCHANGED <<need, phase, sends>>

Drop ==
    /\ phase = "open"
    /\ phase' = "unsent"
    /\ UNCHANGED <<need, consent, sends>>

Claim ==
    /\ phase = "open"
    /\ Cardinality(consent) >= need
    /\ phase' = "claimed"
    /\ UNCHANGED <<need, consent, sends>>

\* A claim given up on as unknown may still be on its way to the Tool.
Send ==
    /\ phase \in {"claimed", "unknown"}
    /\ sends = 0
    /\ sends' = 1
    /\ UNCHANGED <<need, consent, phase>>

Conclude ==
    /\ phase = "claimed"
    /\ \E v \in Verdicts :
         /\ v \in {"done", "answered"} => sends = 1
         /\ v = "unsent" => sends = 0
         /\ phase' = v
    /\ UNCHANGED <<need, consent, sends>>

Next == Consent \/ Drop \/ Claim \/ Send \/ Conclude

Spec == Init /\ [][Next]_vars
=============================================================================
