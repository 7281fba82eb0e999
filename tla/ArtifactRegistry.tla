---------------------------- MODULE ArtifactRegistry ----------------------------
(***************************************************************************)
(* What the artifact services promise, whoever uploads, reconciles or      *)
(* crashes: a content is announced, its bytes may arrive, and it is        *)
(* decided once, published only when the bytes are there; the versions     *)
(* of a dataset or model are numbered 1, 2, 3, ... without a gap, each     *)
(* references a published content, and a content is at most one model      *)
(* version (ADR 010, ADR 013).                                             *)
(***************************************************************************)
EXTENDS Integers

CONSTANTS
    None,
    Contents,
    Kinds,
    Numbers

VARIABLES
    status,         \* of each content
    stored,         \* contents whose bytes are there
    catalogue       \* of each dataset and model: number -> content

registryVars == <<status, stored, catalogue>>

RegistryInit ==
    /\ status = [c \in Contents |-> "NONE"]
    /\ stored = {}
    /\ catalogue = [k \in Kinds |-> [n \in Numbers |-> None]]

Decide(c, from, to) ==
    /\ status[c] = from
    /\ status' = [status EXCEPT ![c] = to]
    /\ UNCHANGED <<stored, catalogue>>

Announce(c) == Decide(c, "NONE", "PENDING")

\* Bytes arrive for a content that was announced, perhaps too late.
Arrive(c) ==
    /\ status[c] # "NONE"
    /\ stored' = stored \cup {c}
    /\ UNCHANGED <<status, catalogue>>

Publish(c) == c \in stored /\ Decide(c, "PENDING", "UPLOADED")

\* Bytes that did arrive may be overlooked.
Reject(c) == Decide(c, "PENDING", "FAILED")

\* n is the number after the last one given.
IsNext(k, n) == \A m \in Numbers : catalogue[k][m] # None <=> m < n

AddVersion(k, n, c) ==
    /\ status[c] = "UPLOADED"
    /\ IsNext(k, n)
    /\ k = "model" => \A m \in Numbers : catalogue[k][m] # c
    /\ catalogue' = [catalogue EXCEPT ![k] = [@ EXCEPT ![n] = c]]
    /\ UNCHANGED <<status, stored>>

RegistryNext ==
    \E c \in Contents :
        \/ Announce(c) \/ Arrive(c) \/ Publish(c) \/ Reject(c)
        \/ \E k \in Kinds, n \in Numbers : AddVersion(k, n, c)

RegistrySpec == RegistryInit /\ [][RegistryNext]_registryVars
=============================================================================
