------------------------------ MODULE RagStore ------------------------------
(***************************************************************************)
(* Documents of the RAG pipeline: RAGEngine (rag/engine.py) over           *)
(* ChromaVectorStore (rag/vectorstore.py), the table documents             *)
(* (database/repository.py) and the requests of api/documents.py.          *)
(*                                                                         *)
(* Chunks are names. The answer of a search is chosen by score and top_k   *)
(* from the chunks of one collection; the choice is left out. An operation *)
(* on a collection is one step, it awaits nothing once the embeddings are  *)
(* there; every commit is a step of its own. The application builds the    *)
(* engine without a repository, other users with one: both are initial     *)
(* states.                                                                 *)
(***************************************************************************)
EXTENDS Naturals, FiniteSets

CONSTANTS
  Ids,          \* the uuids of chunks
  Scopes,       \* the values of skill_name, None among them
  None,
  Global,       \* the scope "global"
  RagSkills,    \* the scopes that are skills with retrieval, _SKILLS_WITH_RAG
  Requests,     \* requests served at a time
  MaxChunks,    \* bound on the chunks of a document
  MaxRestarts   \* bound on the restarts of the server

ASSUME RagAssumption ==
  /\ {None, Global} \subseteq Scopes /\ None # Global
  /\ RagSkills \subseteq Scopes \ {None}
  /\ "unused" \notin Scopes
  /\ MaxChunks \in Nat \ {0} /\ MaxRestarts \in Nat

VARIABLES
  _repo,          \* the engine has a repository
  _client,        \* "none", "memory" or "chroma"
  _collections,   \* name -> the kind of the cached collection
  dict,           \* name -> the chunks of its dictionary
  chroma,         \* name -> the chunks of its collection on disk
  documents,      \* the table
  request,        \* request -> what it has still to do to which rows
  home,           \* history: chunk -> the collection it was ingested for
  acked,          \* history: chunks whose ingestion was answered since the start
  gone,           \* history: chunks reported deleted from their scope
  torn,           \* history: chunks deleted before their row was there, or whose
                  \* row could not be deleted
  restarts

vars == <<_repo, _client, _collections, dict, chroma, documents, request, home,
          acked, gone, torn, restarts>>

(* No name at all, the empty one and "global" share a collection. *)
_collection_name(s) == IF s = None THEN Global ELSE s

Names == Scopes \ {None}
Idle == [todo |-> "none", rows |-> {}, chunks |-> {}]

Unused == {d \in Ids : home[d] = "unused"}

-----------------------------------------------------------------------------
(* ChromaVectorStore *)

\* faulty variant: the client is made again for every collection
InitEveryTime == {"memory", "chroma"}

(* The clients _lazy_init may leave: chromadb may be missing or fail. *)
_lazy_init == IF _client = "none" THEN {"memory", "chroma"} ELSE {_client}

\* faulty variant: the dictionary that stands in for a collection is not kept
KeepChromaOnly(n, kind) ==
  _collections' = [_collections EXCEPT ![n] = IF kind = "chroma" THEN kind ELSE @]

Keep(n, kind) == _collections' = [_collections EXCEPT ![n] = kind]

(* The collection n is of this kind. When Chroma does not give it, a        *)
(* dictionary takes its place for as long as the server runs.               *)
_get_collection(n, kind) ==
  \/ /\ _collections[n] = kind
     /\ UNCHANGED <<_client, _collections>>
  \/ /\ _collections[n] = "none"
     /\ _client' \in _lazy_init
     /\ kind = "chroma" => _client' = "chroma"
     /\ Keep(n, kind)

Kinds == {"dict", "chroma"}

Stored(n, kind) == IF kind = "dict" THEN dict[n] ELSE chroma[n]

Store(n, kind, S) ==
  IF kind = "dict" THEN dict' = [dict EXCEPT ![n] = S] /\ UNCHANGED chroma
                   ELSE chroma' = [chroma EXCEPT ![n] = S] /\ UNCHANGED dict

(* The answers of one search: the chunks that are ranked, or nothing, when  *)
(* the query raises in Chroma. The caller cannot tell the two apart.        *)
similarity_search(n, kind) ==
  {[failed |-> FALSE, ranked |-> Stored(n, kind)]}
  \cup IF kind = "chroma" THEN {[failed |-> TRUE, ranked |-> {}]} ELSE {}

\* faulty variant: what pop returned is not looked at
AlwaysTrue(n, kind, d) == {TRUE}

(* What delete_document may return: Chroma knows no missing chunk. *)
Deleted(n, kind, d) == IF kind = "dict" THEN {d \in dict[n]} ELSE {TRUE, FALSE}

-----------------------------------------------------------------------------
(* RAGEngine *)

(* add_documents stores all chunks at once or raises; the repository, if   *)
(* there is one, gets one row after the other.                             *)
ingest_text(q, S, s) ==
  LET n == _collection_name(s)
  IN /\ request[q] = Idle
     /\ S # {} /\ S \subseteq Unused /\ Cardinality(S) <= MaxChunks
     /\ \E kind \in Kinds :
          /\ _get_collection(n, kind)
          /\ Store(n, kind, Stored(n, kind) \cup S)
     /\ home' = [d \in Ids |-> IF d \in S THEN n ELSE home[d]]
     /\ IF _repo
        THEN /\ request' = [request EXCEPT ![q] =
                              [todo |-> "create", rows |-> S, chunks |-> S]]
             /\ UNCHANGED acked
        ELSE acked' = acked \cup S /\ UNCHANGED request
     /\ UNCHANGED <<_repo, documents, gone, torn, restarts>>

(* A commit that fails ends the request; its chunks stay in the store. *)
create_document(q) ==
  /\ request[q].todo = "create"
  /\ \/ \E d \in request[q].rows :
          LET rest == request[q].rows \ {d}
          IN /\ documents' = documents \cup {d}
             /\ request' = [request EXCEPT ![q] =
                              IF rest = {} THEN Idle ELSE [@ EXCEPT !.rows = rest]]
             /\ acked' = IF rest = {} THEN acked \cup request[q].chunks ELSE acked
     \/ /\ request' = [request EXCEPT ![q] = Idle]
        /\ UNCHANGED <<documents, acked>>
  /\ UNCHANGED <<_repo, _client, _collections, dict, chroma, home, gone, torn,
                 restarts>>

(* The chunks a client may have heard of. *)
Known == acked \cup gone \cup documents \cup
         UNION {Stored(n, k) : n \in Names, k \in Kinds}

RowPending(d) ==
  \E q \in Requests : request[q].todo = "create" /\ d \in request[q].rows

\* faulty variant: a chunk found deleted from the store keeps its row
NoSecondStep(q, d, deleted) == UNCHANGED request

SecondStep(q, d, deleted) ==
  request' = IF deleted /\ _repo
             THEN [request EXCEPT ![q] =
                     [todo |-> "delete", rows |-> {d}, chunks |-> {d}]]
             ELSE request

(* The collection is the one the client names, not the chunk's. *)
delete_document(q, d, s) ==
  LET n == _collection_name(s)
  IN /\ request[q] = Idle
     /\ d \in Known
     /\ \E kind \in Kinds :
          /\ _get_collection(n, kind)
          /\ \E deleted \in Deleted(n, kind, d) :
               /\ Store(n, kind, IF deleted THEN Stored(n, kind) \ {d}
                                 ELSE Stored(n, kind))
               /\ SecondStep(q, d, deleted)
               /\ IF deleted /\ home[d] = n
                  THEN /\ gone' = gone \cup {d}
                       /\ torn' = IF RowPending(d) THEN torn \cup {d} ELSE torn
                  ELSE UNCHANGED <<gone, torn>>
     /\ UNCHANGED <<_repo, documents, home, acked, restarts>>

(* delete_document of the repository; the commit may fail. *)
delete_row(q) ==
  /\ request[q].todo = "delete"
  /\ request' = [request EXCEPT ![q] = Idle]
  /\ \/ documents' = documents \ request[q].rows /\ UNCHANGED torn
     \/ torn' = torn \cup request[q].rows /\ UNCHANGED documents
  /\ UNCHANGED <<_repo, _client, _collections, dict, chroma, home, acked, gone,
                 restarts>>

(* retrieve and get_document_count change nothing but the cache.           *)
retrieve(s) ==
  /\ \E kind \in Kinds : _get_collection(_collection_name(s), kind)
  /\ UNCHANGED <<_repo, dict, chroma, documents, request, home, acked, gone,
                 torn, restarts>>

(* A skill without retrieval gets nothing and opens no collection.         *)
retrieve_for_skill(s) == s \in RagSkills /\ retrieve(s)

(* The disk and the table survive. *)
restart ==
  /\ restarts < MaxRestarts
  /\ restarts' = restarts + 1
  /\ _client' = "none"
  /\ _collections' = [n \in Names |-> "none"]
  /\ dict' = [n \in Names |-> {}]
  /\ request' = [q \in Requests |-> Idle]
  /\ acked' = {}
  /\ UNCHANGED <<_repo, chroma, documents, home, gone, torn>>

-----------------------------------------------------------------------------

Init ==
  /\ _repo \in BOOLEAN
  /\ _client = "none"
  /\ _collections = [n \in Names |-> "none"]
  /\ dict = [n \in Names |-> {}]
  /\ chroma = [n \in Names |-> {}]
  /\ documents = {}
  /\ request = [q \in Requests |-> Idle]
  /\ home = [d \in Ids |-> "unused"]
  /\ acked = {} /\ gone = {} /\ torn = {}
  /\ restarts = 0

Next ==
  \/ \E q \in Requests :
       \/ \E S \in SUBSET Ids, s \in Scopes : ingest_text(q, S, s)
       \/ create_document(q)
       \/ \E d \in Ids, s \in Scopes : delete_document(q, d, s)
       \/ delete_row(q)
  \/ \E s \in Scopes : retrieve(s) \/ retrieve_for_skill(s)
  \/ restart

Spec == Init /\ [][Next]_vars

-----------------------------------------------------------------------------

(* The state is well formed; a process without Chroma caches dictionaries  *)
(* only.                                                                   *)
TypeOK ==
  /\ _repo \in BOOLEAN
  /\ _client \in {"none", "memory", "chroma"}
  /\ _collections \in [Names -> {"none"} \cup Kinds]
  /\ dict \in [Names -> SUBSET Ids] /\ chroma \in [Names -> SUBSET Ids]
  /\ documents \subseteq Ids
  /\ request \in [Requests -> [todo : {"none", "create", "delete"},
                               rows : SUBSET Ids, chunks : SUBSET Ids]]
  /\ home \in [Ids -> Names \cup {"unused"}]
  /\ acked \subseteq Ids /\ gone \subseteq Ids /\ torn \subseteq Ids
  /\ restarts \in 0..MaxRestarts
  /\ \A n \in Names :
       /\ _collections[n] # "none" => _client # "none"
       /\ _collections[n] = "chroma" => _client = "chroma"

(* The kinds the collection n is found to be of when it is asked for next. *)
Opens(n) ==
  {k \in Kinds : \/ _collections[n] = k
                 \/ /\ _collections[n] = "none"
                    /\ k = "chroma" => "chroma" \in _lazy_init}

(* What a search of the scope s may answer now. *)
Answers(s) ==
  LET n == _collection_name(s)
  IN UNION {similarity_search(n, k) : k \in Opens(n)}

Live(s) == {d \in acked \ gone : home[d] = _collection_name(s)}

(* Whatever Chroma refuses in between, a document that was ingested since  *)
(* the server started is among what a search of its scope ranks until it   *)
(* is deleted from there, and a chunk of another scope never is: of every  *)
(* search whose query does not raise, be it retrieve or, for a skill with  *)
(* retrieval, retrieve_for_skill. Any other skill is answered nothing.     *)
IngestedIsFound ==
  \A s \in Scopes : \A r \in Answers(s) :
    /\ r.failed \/ Live(s) \subseteq r.ranked
    /\ \A d \in r.ranked : home[d] = _collection_name(s)

(* A chunk that was reported deleted from its own scope does not come      *)
(* back: not from the disk, not after a restart, not from the collection   *)
(* or the dictionary that the process did not use.                         *)
DeletedStaysDeleted ==
  \A d \in gone, n \in Names, k \in Kinds : d \notin Stored(n, k)

(* The table lists no chunk the store has lost, unless the process was     *)
(* restarted, its deletion is half done or failed half way, or overtook    *)
(* its ingestion.                                                          *)
RowsHaveChunks ==
  restarts = 0 =>
    \A d \in documents :
      \/ \E k \in Kinds : d \in Stored(home[d], k)
      \/ d \in torn
      \/ \E q \in Requests : request[q].todo = "delete" /\ d \in request[q].rows
=============================================================================
