---------------------------- MODULE ContentStore ----------------------------
(***************************************************************************)
(* What the layer store and the checkpoints promise together: both only    *)
(* grow.  A digest names one content for ever, and a published checkpoint  *)
(* shows the same files for ever.                                          *)
(***************************************************************************)
CONSTANTS Digests, Ids, Contents, Views, None

VARIABLES
    store,  \* digest -> content
    names   \* checkpoint id -> the files it shows

Init ==
    /\ store = [d \in Digests |-> None]
    /\ names = [i \in Ids |-> None]

Put(d, c) ==
    /\ store[d] = None
    /\ store' = [store EXCEPT ![d] = c]
    /\ UNCHANGED names

Publish(i, v) ==
    /\ names[i] = None
    /\ names' = [names EXCEPT ![i] = v]
    /\ UNCHANGED store

Next ==
    \/ \E d \in Digests, c \in Contents : Put(d, c)
    \/ \E i \in Ids, v \in Views : Publish(i, v)

Spec == Init /\ [][Next]_<<store, names>>

=============================================================================
