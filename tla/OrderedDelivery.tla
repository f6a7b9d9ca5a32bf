-------------------------- MODULE OrderedDelivery --------------------------
(***************************************************************************)
(* What the required-delivery mailbox of a client connection promises: the *)
(* effects a connection was promised reach its instance in the order of the *)
(* daemon turns that promised them, each at most once, and none is lost     *)
(* unless its producer withdrew it or the connection was revoked.           *)
(***************************************************************************)
EXTENDS Sequences

CONSTANTS Conns,    \* connections
          Effects   \* view transitions, closes and commands

VARIABLES
    promised,   \* [Conns -> Seq(Effects)]: reserved and not yet run
    ran,        \* [Conns -> Seq(Effects)]: run by the instance, in this order
    withdrawn,  \* effects their producer gave up, or applied itself
    revoked     \* connections that may lose what they were promised

vars == <<promised, ran, withdrawn, revoked>>

Init ==
    /\ promised = [k \in Conns |-> <<>>]
    /\ ran = [k \in Conns |-> <<>>]
    /\ withdrawn = {}
    /\ revoked = {}

IsNew(e) ==
    \A k \in Conns :
        /\ \A i \in DOMAIN promised[k] : promised[k][i] # e
        /\ \A i \in DOMAIN ran[k] : ran[k][i] # e

Promise(k, e) ==
    /\ IsNew(e)
    /\ e \notin withdrawn
    /\ promised' = [promised EXCEPT ![k] = Append(@, e)]
    /\ UNCHANGED <<ran, withdrawn, revoked>>

Withdraw(e) ==
    /\ withdrawn' = withdrawn \cup {e}
    /\ UNCHANGED <<promised, ran, revoked>>

\* Effects are revoked with their connection, which may still be promised more.
Revoke(k) ==
    /\ revoked' = revoked \cup {k}
    /\ UNCHANGED <<promised, ran, withdrawn>>

Run(k) ==
    /\ promised[k] # <<>>
    /\ Head(promised[k]) \notin withdrawn
    /\ promised' = [promised EXCEPT ![k] = Tail(@)]
    /\ ran' = [ran EXCEPT ![k] = Append(@, Head(promised[k]))]
    /\ UNCHANGED <<withdrawn, revoked>>

Skip(k) ==
    /\ promised[k] # <<>>
    /\ Head(promised[k]) \in withdrawn \/ k \in revoked
    /\ promised' = [promised EXCEPT ![k] = Tail(@)]
    /\ UNCHANGED <<ran, withdrawn, revoked>>

Next ==
    \/ \E e \in Effects : Withdraw(e) \/ \E k \in Conns : Promise(k, e)
    \/ \E k \in Conns : Revoke(k) \/ Run(k) \/ Skip(k)

Spec == Init /\ [][Next]_vars
=============================================================================
