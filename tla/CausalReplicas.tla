--------------------------- MODULE CausalReplicas ---------------------------
(***************************************************************************)
(* What the change history of a set of documents promises, without queues, *)
(* heads, sequence numbers, transactions or bytes: each document is a set  *)
(* of changes that only grows and is closed under causality, and a change  *)
(* comes after everything its document contained when it was made.         *)
(***************************************************************************)
CONSTANT Doc

VARIABLES
    made,    \* the changes made so far
    before,  \* the causal order: all pairs <<x, y>> with x before y
    replica  \* replica[d]: the changes that document d contains

Complete(d) == \A p \in before : p[2] \in replica[d] => p[1] \in replica[d]

Init == made = {} /\ before = {} /\ replica = [d \in Doc |-> {}]

\* Every document but e has the changes that base gives it, and e has more.
Grow(e, base) ==
    /\ \A f \in Doc : base[f] \subseteq replica'[f]
    /\ \A f \in Doc \ {e} : replica'[f] = base[f]
    /\ replica'[e] \subseteq made'
    /\ Complete(e)'

\* Changes reach document e, in a causally complete way.
Receive(e) == Grow(e, replica) /\ UNCHANGED <<made, before>>

\* A call closes the transaction of document d, which makes change x, and may
\* also bring changes to a document.
Make(d, e, x) ==
    /\ made' = made \cup {x}
    /\ Grow(e, [replica EXCEPT ![d] = @ \cup {x}])
    /\ before' = before \cup (replica[d] \X {x})

Next ==
    \/ \E e \in Doc : Receive(e)
    \/ \E d, e \in Doc, x \in made' \ made : Make(d, e, x)

Spec == Init /\ [][Next]_<<made, before, replica>>

=============================================================================
