------------------------------- MODULE MCSync -------------------------------
EXTENDS Sync, TLC

Symmetry == Permutations(Doc) \cup Permutations(Actor)

\* The names of the actors do not matter: one choice of the first ones, where
\* symmetry cannot be used.
FirstActors == CHOOSE f \in [Doc -> Actor] : \A d, e \in Doc : f[d] = f[e] => d = e

SyncInitOnce == SyncInit /\ \A d \in Doc : doc[d].actor = FirstActors[d]

FairSyncOnce == SyncInitOnce /\ [][SyncNext]_syncVars /\ Fairness

=============================================================================
