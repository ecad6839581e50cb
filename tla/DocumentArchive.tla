---------------------------- MODULE DocumentArchive ----------------------------
(***************************************************************************)
(* What the PDF archive promises, without files, requests or crashes: a    *)
(* report number stands for one document. Publishing gives a number its    *)
(* document, delivering hands a published document to a client, and only   *)
(* the outside world (a damaged or replaced disk) may set a number free.   *)
(***************************************************************************)
CONSTANTS Ids,      \* report numbers (UUIDs)
          Docs      \* documents (PDF byte strings)

VARIABLES published,   \* published[i]: documents that ever stood under number i
          delivered,   \* delivered[i]: documents clients received as number i
          damaged      \* numbers whose stored files the outside world touched

vars == <<published, delivered, damaged>>

Init ==
    /\ published = [i \in Ids |-> {}]
    /\ delivered = [i \in Ids |-> {}]
    /\ damaged = {}

\* A number is given a document once; after damage it may be given another.
Publish(i, d) ==
    /\ published[i] = {} \/ i \in damaged
    /\ published' = [published EXCEPT ![i] = @ \cup {d}]
    /\ UNCHANGED <<delivered, damaged>>

Deliver(i, d) ==
    /\ d \in published[i]
    /\ delivered' = [delivered EXCEPT ![i] = @ \cup {d}]
    /\ UNCHANGED <<published, damaged>>

Damage(i) ==
    /\ damaged' = damaged \cup {i}
    /\ UNCHANGED <<published, delivered>>

Next ==
    \E i \in Ids :
        \/ Damage(i)
        \/ \E d \in Docs : Publish(i, d) \/ Deliver(i, d)

Spec == Init /\ [][Next]_vars
================================================================================
