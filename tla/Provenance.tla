----------------------------- MODULE Provenance -----------------------------
(***************************************************************************)
(* What the provenance graph of the ledger means, as a pure definition.    *)
(* An edge says that its target was made out of its source.  The ledger    *)
(* reads a recall's extent off this graph; module TraceForward shows that  *)
(* the breadth-first walk in the code computes exactly these sets.         *)
(***************************************************************************)

\* A set of assets closed under "was made into".
ClosedUnder(S, edges) ==
    \A e \in edges : e.source \in S => e.target \in S

\* Everything reachable from root, root included: what lies in every closed
\* set of assets that holds root.
Reachable(root, edges, assets) ==
    {a \in assets : \A S \in SUBSET assets :
                        (root \in S /\ ClosedUnder(S, edges)) => a \in S}

\* Mutant: the recall stops at the direct products of the source.
RecallScopeDirectOnly(source, edges, assets) ==
    {a \in assets : a = source \/ \E e \in edges : e.source = source /\ e.target = a}

\* The assets a recall of source affects: the source, if the ledger knows it,
\* and every descendant of it.
RecallScope(source, edges, assets) == Reachable(source, edges, assets)
=============================================================================
