----------------------------- MODULE LaggingCopy -----------------------------
(***************************************************************************)
(* What a screen promises that shows numbers of a server: each number is   *)
(* one the server had, at a time that is never before the time of the      *)
(* number it replaces.  Nothing is said of when it is refreshed.           *)
(***************************************************************************)
EXTENDS Naturals

CONSTANTS
  Keys,     \* what the server counts
  Batches,  \* sets of keys that are refreshed together
  None      \* nothing is shown yet

VARIABLES
  server,   \* the revision of the server's number, per key
  shown     \* the revision of the number on display, per key

Init ==
  /\ server = [k \in Keys |-> 0]
  /\ shown = [k \in Keys |-> None]

\* The number of k changes on the server.
Change(k) ==
  /\ server' = [server EXCEPT ![k] = @ + 1]
  /\ UNCHANGED shown

\* The numbers of the keys in b are replaced by no older ones.
Refresh(b) ==
  /\ UNCHANGED server
  /\ shown' \in [Keys -> Nat \cup {None}]
  /\ \A k \in Keys \ b : shown'[k] = shown[k]
  /\ \A k \in b : /\ shown'[k] # None
                  /\ shown'[k] <= server[k]
                  /\ shown[k] # None => shown'[k] >= shown[k]

Next ==
  \/ \E k \in Keys : Change(k)
  \/ \E b \in Batches : Refresh(b)

Spec == Init /\ [][Next]_<<server, shown>>
=============================================================================
