----------------------------- MODULE VersionHistory -----------------------------
(***************************************************************************)
(* What x-version-of promises of the identities of an application, without *)
(* saying how: every identity has a history, a sequence of approved        *)
(* versions that only grows at its end, one version at a time.  The end of *)
(* the history is the current version.  An identity with a history is      *)
(* never deleted.                                                          *)
(***************************************************************************)
EXTENDS Naturals, Sequences

CONSTANTS Identities, Versions

VARIABLES
  history,  \* history[i]: the approved versions of i, oldest first
  kept      \* kept[i]: the identity has not been deleted

Init ==
  /\ history = [i \in Identities |-> <<>>]
  /\ kept = [i \in Identities |-> TRUE]

Approve(i, v) ==
  /\ kept[i]
  /\ \A j \in Identities : \A n \in 1..Len(history[j]) : history[j][n] # v
  /\ history' = [history EXCEPT ![i] = Append(@, v)]
  /\ UNCHANGED kept

Remove(i) ==
  /\ kept[i] /\ history[i] = <<>>
  /\ kept' = [kept EXCEPT ![i] = FALSE]
  /\ UNCHANGED history

Next == \E i \in Identities : Remove(i) \/ \E v \in Versions : Approve(i, v)

Spec == Init /\ [][Next]_<<history, kept>>
================================================================================
