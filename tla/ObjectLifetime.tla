-------------------------- MODULE ObjectLifetime --------------------------
(***************************************************************************)
(* What a reference-counted object that must be closed promises its users: *)
(* claims come from claims only, so an object nobody claims is never used  *)
(* again; it is then given back exactly once, provided it was closed.  An  *)
(* object left without a claim before it was closed stays for ever.        *)
(***************************************************************************)
CONSTANT Claimants     \* who may have a claim: a call, a reference, an operation

VARIABLES
  claims,              \* the claims that exist now
  closed,              \* the object was closed
  gone                 \* the object was given back

vars == <<claims, closed, gone>>

Init == claims \in (SUBSET Claimants) \ {{}} /\ closed = FALSE /\ gone = FALSE

\* Whoever has a claim may use the object: make and drop claims, close it.
Use ==
  /\ claims # {} /\ ~gone
  /\ claims' \in SUBSET Claimants
  /\ closed' \in BOOLEAN /\ (closed => closed')
  /\ UNCHANGED gone

Reclaim ==
  /\ claims = {} /\ closed /\ ~gone
  /\ gone' = TRUE
  /\ UNCHANGED <<claims, closed>>

Next == Use \/ Reclaim

Spec == Init /\ [][Next]_vars

FairSpec == Spec /\ WF_vars(Reclaim)

=============================================================================
