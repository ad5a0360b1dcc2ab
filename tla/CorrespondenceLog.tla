-------------------------- MODULE CorrespondenceLog --------------------------
(***************************************************************************)
(* What a case promises the services that merge correspondence into it:    *)
(* a log that only grows.  A call may record its entry, at most Bound      *)
(* times, until it has ended, and afterwards nothing adds or removes it.   *)
(***************************************************************************)
EXTENDS Naturals

CONSTANTS Entries,   \* the correspondence, one for each call
          Bound      \* how often one call may record it

VARIABLES log,    \* how many times each entry is recorded
          open    \* the calls that have not ended

Init == log = [e \in Entries |-> 0] /\ open = Entries

\* The call may end with the step that records its entry, or go on.
Record(e) ==
    /\ e \in open
    /\ log[e] < Bound
    /\ log' = [log EXCEPT ![e] = @ + 1]
    /\ open' \in {open, open \ {e}}

End(e) == open' = open \ {e} /\ UNCHANGED log

Next == \E e \in Entries : Record(e) \/ End(e)

Spec == Init /\ [][Next]_<<log, open>>
=============================================================================
