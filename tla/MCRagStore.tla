----------------------------- MODULE MCRagStore -----------------------------
(* An instance of RagStore: the shared collection, a skill with retrieval  *)
(* and a skill without it.                                                 *)
EXTENDS RagStore, TLC

(* The uuids of chunks and the requests are interchangeable: each is only  *)
(* compared with others of its kind.                                       *)
ChunkAndRequestSymmetry == Permutations(Ids) \cup Permutations(Requests)
=============================================================================
