---------------------------- MODULE RoundContract ----------------------------
(***************************************************************************)
(* What the launcher promises about raw rows and retained results, without *)
(* files, processes or crashes: the safety invariants of                   *)
(* docs/runtime-contract.md and the decision of ADR-0003.  RoundLifecycle  *)
(* implements it.                                                          *)
(***************************************************************************)
CONSTANTS Rounds, Policies, NoPolicy

VARIABLES
    raw,      \* rounds of which raw rows are held
    pin,      \* the policy such a round is bound to; NoPolicy for a legacy one
    results,  \* the retained results of a round: the policy they were made with
    checked,  \* rounds with raw rows whose results were stored and read back
    asked     \* rounds the operator asked to discard

cvars == <<raw, pin, results, checked, asked>>

Init ==
    /\ raw \subseteq Rounds
    /\ pin = [r \in Rounds |-> NoPolicy]
    /\ results = [r \in Rounds |-> NoPolicy]
    /\ checked = {} /\ asked = {}

(* Rows arrive for a round that had none; its policy is fixed from now on. *)
Collect(r) ==
    /\ r \notin raw /\ raw' = raw \cup {r}
    /\ \E p \in Policies : pin' = [pin EXCEPT ![r] = p]
    /\ UNCHANGED <<results, checked, asked>>

(* Only held rows give results, only under the policy the round is bound   *)
(* to, and only while no other round has results.                          *)
Publish(r) ==
    /\ r \in raw
    /\ \A x \in Rounds \ {r} : results[x] = NoPolicy
    /\ \E p \in Policies :
          /\ pin[r] \in {NoPolicy, p}
          /\ results' = [results EXCEPT ![r] = p]
    /\ UNCHANGED <<raw, pin, checked, asked>>

Check(r) ==
    /\ r \in raw /\ results[r] # NoPolicy
    /\ checked' = checked \cup {r}
    /\ UNCHANGED <<raw, pin, results, asked>>

(* Raw rows go only after their results were checked or on request.        *)
Erase(r) ==
    /\ r \in raw /\ r \in checked \cup asked
    /\ raw' = raw \ {r} /\ checked' = checked \ {r}
    /\ pin' = [pin EXCEPT ![r] = NoPolicy]
    /\ UNCHANGED <<results, asked>>

Delete(r) ==
    /\ results[r] # NoPolicy
    /\ results' = [results EXCEPT ![r] = NoPolicy]
    /\ UNCHANGED <<raw, pin, checked, asked>>

AskDiscard(r) == asked' = {r} /\ UNCHANGED <<raw, pin, results, checked>>
DiscardEnds   == asked' = {}  /\ UNCHANGED <<raw, pin, results, checked>>

Next ==
    \/ \E r \in Rounds :
          Collect(r) \/ Publish(r) \/ Check(r) \/ Erase(r) \/ Delete(r) \/ AskDiscard(r)
    \/ DiscardEnds

Spec == Init /\ [][Next]_cvars
=============================================================================
