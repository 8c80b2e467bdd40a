-------------------------- MODULE MCKnowledgeIndex --------------------------
(* Instances of KnowledgeIndex for TLC. *)
EXTENDS KnowledgeIndex, TLC

CONSTANTS t1, t2, c1, c2

\* All documents hash to the same shard of the coordinator: the worst case.
MCShardOf == [d \in Docs |-> CHOOSE s \in Shards : TRUE]

\* One extractor and one configuration give two chunks, the others one.
MCSize == [t \in Texts |-> [c \in Configs |-> IF t = t1 /\ c = c1 THEN 2 ELSE 1]]

\* Identities are only compared.
IdSymmetry == Permutations(Ids)

IdWorkerSymmetry == Permutations(Ids) \cup Permutations(Workers)
=============================================================================
