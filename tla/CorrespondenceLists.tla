------------------------- MODULE CorrespondenceLists -------------------------
(***************************************************************************)
(* The lists of correspondence in a case.  Every writer appends the new    *)
(* correspondence and calls sort(Comparator.reverseOrder()), a stable sort *)
(* on Correspondence.compareTo, which orders by the time of sending.  That *)
(* time has the granularity of a minute, so ties are ordinary.             *)
(***************************************************************************)
EXTENDS Integers, Sequences, FiniteSets, Functions

CONSTANTS Correspondences,   \* the correspondence that may be merged
          SentOn             \* when each was sent

ASSUME SentOnAssumption == SentOn \in [Correspondences -> Int]

(***************************************************************************)
(* Index i of list s is placed before index j: sent later, or sent at the  *)
(* same time and already ahead of it in the list.                          *)
(***************************************************************************)
Precedes(s, i, j) ==
    \/ SentOn[s[i]] > SentOn[s[j]]
    \/ SentOn[s[i]] = SentOn[s[j]] /\ i < j

Predecessors(s, j) == {i \in 1..Len(s) : Precedes(s, i, j)}
Rank(s, j) == Cardinality(Predecessors(s, j)) + 1

\* The index of s whose entry the sort puts at position p.
IndexAt(s, p) == CHOOSE i \in 1..Len(s) : Rank(s, i) = p

SortNewestFirst(s) == [p \in 1..Len(s) |-> s[IndexAt(s, p)]]

Appended(s, new) == s \o new   \* mutant: the sort is forgotten

\* buildCorrespondenceList, and the same three lines of the other merges.
AppendNewestFirst(s, new) == SortNewestFirst(s \o new)

IsNewestFirst(s) ==
    \A p, q \in 1..Len(s) : p < q => SentOn[s[p]] >= SentOn[s[q]]

Occurrences(s, c) == Cardinality({i \in 1..Len(s) : s[i] = c})
=============================================================================
