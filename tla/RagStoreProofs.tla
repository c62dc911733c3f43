--------------------------- MODULE RagStoreProofs ---------------------------
(***************************************************************************)
(* Theorems about RagStore, for any number of chunks, scopes, requests and *)
(* restarts.                                                               *)
(***************************************************************************)
EXTENDS RagStore, TLAPS

LEMMA NameOfScope ==
  /\ \A s \in Scopes : _collection_name(s) \in Names
  /\ "unused" \notin Names
BY RagAssumption DEF _collection_name, Names

(* What an operation on a collection does to the cache and the store.      *)
CacheTypes ==
  /\ _client \in {"none", "memory", "chroma"}
  /\ _collections \in [Names -> {"none"} \cup Kinds]
  /\ \A n \in Names :
       /\ _collections[n] # "none" => _client # "none"
       /\ _collections[n] = "chroma" => _client = "chroma"

StoreTypes ==
  /\ dict \in [Names -> SUBSET Ids]
  /\ chroma \in [Names -> SUBSET Ids]

LEMMA CacheStep ==
  ASSUME CacheTypes, NEW n \in Names, NEW kind \in Kinds,
         _get_collection(n, kind)
  PROVE  /\ CacheTypes'
         /\ _collections'[n] = kind
         /\ _collections[n] \in {"none", kind}
         /\ \A m \in Names : _collections[m] # "none"
                               => _collections'[m] = _collections[m]
<1>1. CASE _collections[n] = kind /\ UNCHANGED <<_client, _collections>>
  BY <1>1 DEF CacheTypes
<1>2. CASE /\ _collections[n] = "none"
           /\ _client' \in _lazy_init
           /\ kind = "chroma" => _client' = "chroma"
           /\ Keep(n, kind)
  <2>1. _client' \in {"memory", "chroma"} /\ (_client # "none" => _client' = _client)
    BY <1>2 DEF _lazy_init, CacheTypes
  <2>2. /\ _collections' \in [Names -> {"none"} \cup Kinds]
        /\ \A m \in Names : _collections'[m] = IF m = n THEN kind ELSE _collections[m]
    BY <1>2 DEF Keep, CacheTypes
  <2>. QED  BY <1>2, <2>1, <2>2 DEF CacheTypes, Kinds
<1>. QED  BY <1>1, <1>2 DEF _get_collection

LEMMA StoreStep ==
  ASSUME StoreTypes, NEW n \in Names, NEW kind \in Kinds,
         NEW S \in SUBSET Ids, Store(n, kind, S)
  PROVE  /\ StoreTypes'
         /\ kind = "dict" => /\ chroma' = chroma
                             /\ dict'[n] = S
         /\ kind = "chroma" => /\ dict' = dict
                               /\ chroma'[n] = S
         /\ \A m \in Names \ {n} : dict'[m] = dict[m] /\ chroma'[m] = chroma[m]
BY DEF Store, StoreTypes, Kinds

-----------------------------------------------------------------------------
(* The state is well formed *)

RequestTypes ==
  request \in [Requests -> [todo : {"none", "create", "delete"},
                            rows : SUBSET Ids, chunks : SUBSET Ids]]

HistoryTypes ==
  /\ home \in [Ids -> Names \cup {"unused"}]
  /\ acked \subseteq Ids /\ gone \subseteq Ids /\ torn \subseteq Ids

LEMMA IdleTypes ==
  Idle \in [todo : {"none", "create", "delete"}, rows : SUBSET Ids,
            chunks : SUBSET Ids]
BY DEF Idle

LEMMA TypeParts ==
  TypeOK <=> /\ _repo \in BOOLEAN /\ documents \subseteq Ids
             /\ restarts \in 0..MaxRestarts
             /\ CacheTypes /\ StoreTypes /\ RequestTypes /\ HistoryTypes
BY DEF TypeOK, CacheTypes, StoreTypes, RequestTypes, HistoryTypes

LEMMA TypeStep ==
  ASSUME TypeOK, [Next]_vars
  PROVE  TypeOK'
<1> DEFINE Rest == /\ _repo \in BOOLEAN /\ documents \subseteq Ids
                   /\ restarts \in 0..MaxRestarts
<1>0. Rest /\ CacheTypes /\ StoreTypes /\ RequestTypes /\ HistoryTypes
  BY TypeParts
<1>00. ASSUME Rest', CacheTypes', StoreTypes', RequestTypes', HistoryTypes'
       PROVE  TypeOK'
  BY <1>00 DEF TypeOK, CacheTypes, StoreTypes, RequestTypes, HistoryTypes
<1> USE NameOfScope, IdleTypes
<1>1. ASSUME NEW q \in Requests, NEW S \in SUBSET Ids, NEW s \in Scopes,
             ingest_text(q, S, s)
      PROVE  TypeOK'
  <2> DEFINE n == _collection_name(s)
  <2>0. n \in Names  OBVIOUS
  <2>1. PICK kind \in Kinds :
          _get_collection(n, kind) /\ Store(n, kind, Stored(n, kind) \cup S)
    BY <1>1 DEF ingest_text
  <2>2. Stored(n, kind) \cup S \in SUBSET Ids
    BY <1>0, <2>0 DEF Stored, StoreTypes
  <2> HIDE DEF n
  <2>3. CacheTypes' /\ StoreTypes'
    BY <1>0, <2>0, <2>1, <2>2, CacheStep, StoreStep
  <2>4. Rest'  BY <1>0, <1>1 DEF ingest_text
  <2>5. RequestTypes'
    BY <1>0, <1>1 DEF ingest_text, RequestTypes
  <2>6. HistoryTypes'
    BY <1>0, <1>1, <2>0 DEF ingest_text, HistoryTypes, n
  <2>. QED  BY <1>00, <2>3, <2>4, <2>5, <2>6
<1>2. ASSUME NEW q \in Requests, create_document(q) PROVE TypeOK'
  <2>1. CacheTypes' /\ StoreTypes'
    BY <1>0, <1>2 DEF create_document, CacheTypes, StoreTypes
  <2>2. request[q].rows \subseteq Ids /\ request[q].chunks \subseteq Ids
    BY <1>0 DEF RequestTypes
  <2>3. Rest' /\ HistoryTypes'
    BY <1>0, <1>2, <2>2 DEF create_document, HistoryTypes
  <2>4. RequestTypes'
    BY <1>0, <1>2, <2>2 DEF create_document, RequestTypes
  <2>. QED  BY <1>00, <2>1, <2>3, <2>4
<1>3. ASSUME NEW q \in Requests, NEW d \in Ids, NEW s \in Scopes,
             delete_document(q, d, s)
      PROVE  TypeOK'
  <2> DEFINE n == _collection_name(s)
  <2>0. n \in Names  OBVIOUS
  <2>1. PICK kind \in Kinds, deleted \in BOOLEAN :
          /\ _get_collection(n, kind)
          /\ Store(n, kind, IF deleted THEN Stored(n, kind) \ {d}
                            ELSE Stored(n, kind))
          /\ SecondStep(q, d, deleted)
    BY <1>3 DEF delete_document, Deleted
  <2>2. (IF deleted THEN Stored(n, kind) \ {d} ELSE Stored(n, kind)) \in SUBSET Ids
    BY <1>0, <2>0 DEF Stored, StoreTypes
  <2> HIDE DEF n
  <2>3. CacheTypes' /\ StoreTypes'
    BY <1>0, <2>0, <2>1, <2>2, CacheStep, StoreStep
  <2>4. Rest' /\ HistoryTypes'
    BY <1>0, <1>3 DEF delete_document, HistoryTypes
  <2>5. RequestTypes'
    BY <1>0, <2>1 DEF SecondStep, RequestTypes
  <2>. QED  BY <1>00, <2>3, <2>4, <2>5
<1>4. ASSUME NEW q \in Requests, delete_row(q) PROVE TypeOK'
  <2>1. CacheTypes' /\ StoreTypes'
    BY <1>0, <1>4 DEF delete_row, CacheTypes, StoreTypes
  <2>2. request[q].rows \subseteq Ids
    BY <1>0 DEF RequestTypes
  <2>3. Rest' /\ HistoryTypes' /\ RequestTypes'
    BY <1>0, <1>4, <2>2 DEF delete_row, HistoryTypes, RequestTypes
  <2>. QED  BY <1>00, <2>1, <2>3
<1>5. ASSUME NEW s \in Scopes, retrieve(s) PROVE TypeOK'
  <2>1. PICK kind \in Kinds : _get_collection(_collection_name(s), kind)
    BY <1>5 DEF retrieve
  <2>2. CacheTypes'
    BY <1>0, <2>1, CacheStep
  <2>3. Rest' /\ HistoryTypes' /\ RequestTypes' /\ StoreTypes'
    BY <1>0, <1>5 DEF retrieve, HistoryTypes, RequestTypes, StoreTypes
  <2>. QED  BY <1>00, <2>2, <2>3
<1>6. CASE restart
  <2>1. CacheTypes' /\ StoreTypes' /\ RequestTypes' /\ HistoryTypes'
    BY <1>0, <1>6
    DEF restart, CacheTypes, StoreTypes, RequestTypes, HistoryTypes, Kinds
  <2>2. Rest'
    BY <1>0, <1>6, RagAssumption DEF restart
  <2>. QED  BY <1>00, <2>1, <2>2
<1>7. CASE UNCHANGED vars
  BY <1>0, <1>00, <1>7
  DEF vars, CacheTypes, StoreTypes, RequestTypes, HistoryTypes
<1>. QED  BY <1>1, <1>2, <1>3, <1>4, <1>5, <1>6, <1>7 DEF Next, retrieve_for_skill

(* Every state is well formed, and a process that has no Chroma caches     *)
(* nothing but dictionaries.                                               *)
THEOREM TypeCorrect == Spec => []TypeOK
<1>1. Init => TypeOK
  BY RagAssumption DEF Init, TypeOK, Idle, Names, Kinds
<1>2. TypeOK /\ [Next]_vars => TypeOK'
  BY TypeStep
<1>. QED  BY <1>1, <1>2, PTL DEF Spec

-----------------------------------------------------------------------------
(* What was deleted stays deleted *)

(* A chunk is stored in one place only, in the collection it was ingested  *)
(* for; a dictionary holds something only as long as the process uses it,  *)
(* so that no operation goes to the collection on disk meanwhile.          *)
StoreInv ==
  /\ \A n \in Names :
       /\ \A d \in dict[n] \cup chroma[n] : home[d] = n
       /\ dict[n] \cap chroma[n] = {}
       /\ dict[n] # {} => _collections[n] = "dict"
  /\ \A d \in gone : home[d] # "unused"
  /\ \A d \in gone, n \in Names : d \notin dict[n] /\ d \notin chroma[n]

LEMMA StoreInvStep ==
  ASSUME TypeOK, StoreInv, [Next]_vars
  PROVE  StoreInv'
<1>0. CacheTypes /\ StoreTypes /\ HistoryTypes
  BY TypeParts
<1> USE NameOfScope
<1>1. ASSUME NEW q \in Requests, NEW S \in SUBSET Ids, NEW s \in Scopes,
             ingest_text(q, S, s)
      PROVE  StoreInv'
  <2> DEFINE n == _collection_name(s)
  <2>0. n \in Names  OBVIOUS
  <2>1. PICK kind \in Kinds :
          _get_collection(n, kind) /\ Store(n, kind, Stored(n, kind) \cup S)
    BY <1>1 DEF ingest_text
  <2>2. Stored(n, kind) \cup S \in SUBSET Ids
    BY <1>0, <2>0 DEF Stored, StoreTypes
  <2>3. /\ \A d \in S : home[d] = "unused"
        /\ home' = [d \in Ids |-> IF d \in S THEN n ELSE home[d]]
        /\ gone' = gone
    BY <1>1 DEF ingest_text, Unused
  <2> HIDE DEF n
  <2>4. /\ _collections'[n] = kind
        /\ _collections[n] \in {"none", kind}
        /\ \A m \in Names : _collections[m] # "none"
                              => _collections'[m] = _collections[m]
    BY <1>0, <2>0, <2>1, CacheStep
  <2>5. /\ kind = "dict" => chroma' = chroma /\ dict'[n] = dict[n] \cup S
        /\ kind = "chroma" => dict' = dict /\ chroma'[n] = chroma[n] \cup S
        /\ \A m \in Names \ {n} : dict'[m] = dict[m] /\ chroma'[m] = chroma[m]
    BY <1>0, <2>0, <2>1, <2>2, StoreStep DEF Stored
  <2>6. \A m \in Names : dict[m] \subseteq Ids /\ chroma[m] \subseteq Ids
    BY <1>0 DEF StoreTypes
  <2>7. gone \subseteq Ids
    BY <1>0 DEF HistoryTypes
  <2>8. ASSUME NEW m \in Names
        PROVE  /\ \A d \in dict'[m] \cup chroma'[m] : home'[d] = m
               /\ dict'[m] \cap chroma'[m] = {}
               /\ dict'[m] # {} => _collections'[m] = "dict"
               /\ \A d \in gone' : d \notin dict'[m] /\ d \notin chroma'[m]
    <3>1. CASE m = n /\ kind = "dict"
      BY <2>0, <2>3, <2>4, <2>5, <2>6, <3>1 DEF StoreInv
    <3>2. CASE m = n /\ kind = "chroma"
      BY <2>0, <2>3, <2>4, <2>5, <2>6, <3>2 DEF StoreInv
    <3>3. CASE m # n
      BY <2>0, <2>3, <2>4, <2>5, <2>6, <3>3 DEF StoreInv
    <3>. QED  BY <3>1, <3>2, <3>3 DEF Kinds
  <2>9. \A d \in gone' : home'[d] # "unused"
    BY <2>0, <2>3, <2>7 DEF StoreInv
  <2>. QED  BY <2>8, <2>9 DEF StoreInv
<1>2. ASSUME NEW q \in Requests, create_document(q) PROVE StoreInv'
  BY <1>2 DEF create_document, StoreInv
<1>3. ASSUME NEW q \in Requests, NEW d \in Ids, NEW s \in Scopes,
             delete_document(q, d, s)
      PROVE  StoreInv'
  <2> DEFINE n == _collection_name(s)
             Left(k, b) == IF b THEN Stored(n, k) \ {d} ELSE Stored(n, k)
  <2>0. n \in Names  OBVIOUS
  <2>1. PICK kind \in Kinds, deleted \in BOOLEAN :
          /\ _get_collection(n, kind)
          /\ kind = "dict" => deleted = (d \in dict[n])
          /\ Store(n, kind, Left(kind, deleted))
          /\ gone' = IF deleted /\ home[d] = n THEN gone \cup {d} ELSE gone
    BY <1>3 DEF delete_document, Deleted
  <2>2. home' = home  BY <1>3 DEF delete_document
  <2>3. /\ Left(kind, deleted) \in SUBSET Ids
        /\ kind = "dict" =>
             Left(kind, deleted) = IF deleted THEN dict[n] \ {d} ELSE dict[n]
        /\ kind = "chroma" =>
             Left(kind, deleted) = IF deleted THEN chroma[n] \ {d} ELSE chroma[n]
    BY <1>0, <2>0 DEF Stored, StoreTypes
  <2> HIDE DEF n, Left
  <2>4. /\ _collections'[n] = kind
        /\ _collections[n] \in {"none", kind}
        /\ \A m \in Names : _collections[m] # "none"
                              => _collections'[m] = _collections[m]
    BY <1>0, <2>0, <2>1, CacheStep
  <2>5. /\ kind = "dict" => /\ chroma' = chroma
                            /\ dict'[n] = IF deleted THEN dict[n] \ {d} ELSE dict[n]
        /\ kind = "chroma" => /\ dict' = dict
                              /\ chroma'[n] = IF deleted THEN chroma[n] \ {d}
                                              ELSE chroma[n]
        /\ \A m \in Names \ {n} : dict'[m] = dict[m] /\ chroma'[m] = chroma[m]
    <3>1. /\ kind = "dict" => chroma' = chroma /\ dict'[n] = Left(kind, deleted)
          /\ kind = "chroma" => dict' = dict /\ chroma'[n] = Left(kind, deleted)
          /\ \A m \in Names \ {n} : dict'[m] = dict[m] /\ chroma'[m] = chroma[m]
      BY <1>0, <2>0, <2>1, <2>3, StoreStep
    <3>. QED  BY <2>3, <3>1
  <2>6. /\ kind \in {"dict", "chroma"}
        /\ kind = "chroma" => dict[n] = {}
    BY <2>0, <2>4 DEF StoreInv, Kinds
  <2>7. ASSUME NEW m \in Names
        PROVE  /\ dict'[m] \subseteq dict[m] /\ chroma'[m] \subseteq chroma[m]
               /\ dict'[m] # {} => _collections'[m] = "dict"
    <3>1. dict'[m] \subseteq dict[m] /\ chroma'[m] \subseteq chroma[m]
      BY <2>0, <2>5, <2>6
    <3>2. dict[m] # {} => _collections'[m] = "dict"
      BY <2>4 DEF StoreInv
    <3>. QED  BY <3>1, <3>2
  <2>8. ASSUME gone' # gone, NEW m \in Names
        PROVE  d \notin dict'[m] /\ d \notin chroma'[m]
    <3>1. deleted /\ home[d] = n
      BY <2>1, <2>8
    <3>2. d \notin dict'[n] /\ d \notin chroma'[n]
      BY <2>0, <2>1, <2>5, <2>6, <3>1 DEF StoreInv
    <3>3. m # n => d \notin dict[m] /\ d \notin chroma[m]
      BY <3>1 DEF StoreInv
    <3>. QED  BY <2>7, <3>2, <3>3
  <2>9. gone' # gone => gone' = gone \cup {d} /\ home[d] = n
    BY <2>1
  <2>. QED  BY <2>0, <2>2, <2>7, <2>8, <2>9 DEF StoreInv
<1>4. ASSUME NEW q \in Requests, delete_row(q) PROVE StoreInv'
  BY <1>4 DEF delete_row, StoreInv
<1>5. ASSUME NEW s \in Scopes, retrieve(s) PROVE StoreInv'
  <2>1. PICK kind \in Kinds : _get_collection(_collection_name(s), kind)
    BY <1>5 DEF retrieve
  <2>2. \A m \in Names : _collections[m] # "none"
                           => _collections'[m] = _collections[m]
    BY <1>0, <2>1, CacheStep
  <2>. QED  BY <1>5, <2>2 DEF retrieve, StoreInv
<1>6. CASE restart
  BY <1>6 DEF restart, StoreInv
<1>7. CASE UNCHANGED vars
  BY <1>7 DEF vars, StoreInv
<1>. QED  BY <1>1, <1>2, <1>3, <1>4, <1>5, <1>6, <1>7 DEF Next, retrieve_for_skill

(* Whatever Chroma refuses, however often the server restarts and however  *)
(* deletions overlap ingestions: a chunk that was reported deleted from    *)
(* its own scope is stored nowhere any more.                               *)
THEOREM DeletedIsGone == Spec => []DeletedStaysDeleted
<1>1. Init => StoreInv
  BY DEF Init, StoreInv
<1>2. TypeOK /\ StoreInv /\ [Next]_vars => StoreInv'
  BY StoreInvStep
<1>3. StoreInv => DeletedStaysDeleted
  BY DEF StoreInv, DeletedStaysDeleted, Stored, Kinds
<1>. QED  BY <1>1, <1>2, <1>3, TypeCorrect, PTL DEF Spec

-----------------------------------------------------------------------------
(* What was ingested is found *)

(* How an operation on a collection changes what is stored where. *)
LEMMA IngestEffect ==
  ASSUME TypeOK, NEW q \in Requests, NEW S \in SUBSET Ids, NEW s \in Scopes,
         ingest_text(q, S, s), NEW n, n = _collection_name(s)
  PROVE  /\ n \in Names
         /\ \E kind \in Kinds : /\ _collections'[n] = kind
                                /\ S \subseteq Stored(n, kind)'
         /\ \A m \in Names : _collections[m] # "none"
                               => _collections'[m] = _collections[m]
         /\ \A m \in Names, k \in Kinds : Stored(m, k) \subseteq Stored(m, k)'
<1>0. CacheTypes /\ StoreTypes
  BY TypeParts
<1>1. n \in Names  BY NameOfScope
<1>2. PICK kind \in Kinds :
        _get_collection(n, kind) /\ Store(n, kind, Stored(n, kind) \cup S)
  BY DEF ingest_text
<1>3. Stored(n, kind) \cup S \in SUBSET Ids
  BY <1>0, <1>1 DEF Stored, StoreTypes
<1>4. /\ _collections'[n] = kind
      /\ \A m \in Names : _collections[m] # "none"
                            => _collections'[m] = _collections[m]
  BY <1>0, <1>1, <1>2, CacheStep
<1>5. /\ kind = "dict" => chroma' = chroma /\ dict'[n] = dict[n] \cup S
      /\ kind = "chroma" => dict' = dict /\ chroma'[n] = chroma[n] \cup S
      /\ \A m \in Names \ {n} : dict'[m] = dict[m] /\ chroma'[m] = chroma[m]
  BY <1>0, <1>1, <1>2, <1>3, StoreStep DEF Stored
<1>. QED  BY <1>1, <1>4, <1>5 DEF Stored, Kinds

LEMMA DeleteEffect ==
  ASSUME TypeOK, NEW q \in Requests, NEW d \in Ids, NEW s \in Scopes,
         delete_document(q, d, s), NEW n, n = _collection_name(s)
  PROVE  /\ n \in Names
         /\ \A m \in Names : _collections[m] # "none"
                               => _collections'[m] = _collections[m]
         /\ \A m \in Names, k \in Kinds :
              /\ Stored(m, k) \ {d} \subseteq Stored(m, k)'
              /\ m # n => Stored(m, k) \subseteq Stored(m, k)'
         /\ \E deleted \in BOOLEAN :
              /\ SecondStep(q, d, deleted)
              /\ ~deleted => \A m \in Names, k \in Kinds :
                               Stored(m, k) \subseteq Stored(m, k)'
              /\ IF deleted /\ home[d] = n
                 THEN /\ gone' = gone \cup {d}
                      /\ torn' = IF RowPending(d) THEN torn \cup {d} ELSE torn
                 ELSE UNCHANGED <<gone, torn>>
<1> DEFINE Left(k, b) == IF b THEN Stored(n, k) \ {d} ELSE Stored(n, k)
<1>0. CacheTypes /\ StoreTypes
  BY TypeParts
<1>1. n \in Names  BY NameOfScope
<1>2. PICK kind \in Kinds, deleted \in BOOLEAN :
        /\ _get_collection(n, kind)
        /\ Store(n, kind, Left(kind, deleted))
        /\ SecondStep(q, d, deleted)
        /\ IF deleted /\ home[d] = n
           THEN /\ gone' = gone \cup {d}
                /\ torn' = IF RowPending(d) THEN torn \cup {d} ELSE torn
           ELSE UNCHANGED <<gone, torn>>
  BY DEF delete_document, Deleted
<1>3. /\ Left(kind, deleted) \in SUBSET Ids
      /\ kind = "dict" =>
           Left(kind, deleted) = IF deleted THEN dict[n] \ {d} ELSE dict[n]
      /\ kind = "chroma" =>
           Left(kind, deleted) = IF deleted THEN chroma[n] \ {d} ELSE chroma[n]
  BY <1>0, <1>1 DEF Stored, StoreTypes
<1> HIDE DEF Left
<1>4. \A m \in Names : _collections[m] # "none"
                         => _collections'[m] = _collections[m]
  BY <1>0, <1>1, <1>2, CacheStep
<1>5. /\ kind = "dict" => chroma' = chroma /\ dict'[n] = Left(kind, deleted)
      /\ kind = "chroma" => dict' = dict /\ chroma'[n] = Left(kind, deleted)
      /\ \A m \in Names \ {n} : dict'[m] = dict[m] /\ chroma'[m] = chroma[m]
  BY <1>0, <1>1, <1>2, <1>3, StoreStep
<1>6. \A m \in Names, k \in Kinds :
        /\ Stored(m, k) \ {d} \subseteq Stored(m, k)'
        /\ m # n \/ ~deleted => Stored(m, k) \subseteq Stored(m, k)'
  BY <1>1, <1>3, <1>5 DEF Stored, Kinds
<1>. QED  BY <1>1, <1>2, <1>4, <1>6

Creating(d) ==
  \E q \in Requests : request[q].todo = "create" /\ d \in request[q].chunks

(* A chunk whose ingestion was answered, or has only rows left to write,   *)
(* is in the collection the process uses for its scope.                    *)
FoundInv ==
  \A d \in Ids \ gone :
    d \in acked \/ Creating(d) =>
      \E m \in Names, k \in Kinds :
        home[d] = m /\ _collections[m] = k /\ d \in Stored(m, k)

LEMMA FoundStep ==
  ASSUME TypeOK, FoundInv, [Next]_vars
  PROVE  FoundInv'
<1>0. RequestTypes /\ HistoryTypes
  BY TypeParts
<1> USE NameOfScope
<1>00. "none" \notin Kinds  BY DEF Kinds
<1>1. ASSUME NEW q \in Requests, NEW S \in SUBSET Ids, NEW s \in Scopes,
             ingest_text(q, S, s)
      PROVE  FoundInv'
  <2>0. PICK n : n = _collection_name(s)  OBVIOUS
  <2>1. /\ n \in Names
        /\ \E kind \in Kinds : /\ _collections'[n] = kind
                               /\ S \subseteq Stored(n, kind)'
        /\ \A m \in Names : _collections[m] # "none"
                              => _collections'[m] = _collections[m]
        /\ \A m \in Names, k \in Kinds : Stored(m, k) \subseteq Stored(m, k)'
    BY <1>1, <2>0, IngestEffect
  <2>2. /\ \A d \in S : home[d] = "unused"
        /\ \A d \in Ids : home'[d] = IF d \in S THEN n ELSE home[d]
        /\ gone' = gone
    BY <1>1, <2>0 DEF ingest_text, Unused
  <2>3. \A d \in Ids \ S : d \in acked' \/ Creating(d)' => d \in acked \/ Creating(d)
    BY <1>0, <1>1 DEF ingest_text, RequestTypes, Creating
  <2>3a. ASSUME NEW d \in Ids \ gone', d \in acked' \/ Creating(d)'
         PROVE  \E m \in Names, k \in Kinds :
                  home'[d] = m /\ _collections'[m] = k /\ d \in Stored(m, k)'
    <3>1. CASE d \in S
      BY <2>1, <2>2, <3>1
    <3>2. CASE d \notin S
      <4>1. PICK m \in Names, k \in Kinds :
              home[d] = m /\ _collections[m] = k /\ d \in Stored(m, k)
        BY <2>2, <2>3, <2>3a, <3>2 DEF FoundInv
      <4>2. d \in Stored(m, k)'
        BY <2>1, <4>1
      <4>. QED  BY <1>00, <2>1, <2>2, <3>2, <4>1, <4>2
    <3>. QED  BY <3>1, <3>2
  <2>. QED  BY <2>3a DEF FoundInv
<1>2. ASSUME UNCHANGED <<home, gone, dict, chroma>>,
             \A m \in Names : _collections[m] # "none"
                                => _collections'[m] = _collections[m],
             \A d \in Ids : d \in acked' \/ Creating(d)'
                              => d \in acked \/ Creating(d)
      PROVE  FoundInv'
  BY <1>00, <1>2 DEF FoundInv, Stored
<1>3. ASSUME NEW q \in Requests, create_document(q) PROVE FoundInv'
  BY <1>0, <1>2, <1>3 DEF create_document, RequestTypes, Creating, Idle
<1>4. ASSUME NEW q \in Requests, NEW d \in Ids, NEW s \in Scopes,
             delete_document(q, d, s)
      PROVE  FoundInv'
  <2>0. PICK n : n = _collection_name(s)  OBVIOUS
  <2>1. /\ n \in Names
        /\ \A m \in Names : _collections[m] # "none"
                              => _collections'[m] = _collections[m]
        /\ \A m \in Names, k \in Kinds :
             /\ Stored(m, k) \ {d} \subseteq Stored(m, k)'
             /\ m # n => Stored(m, k) \subseteq Stored(m, k)'
    BY <1>4, <2>0, DeleteEffect
  <2>2. PICK deleted \in BOOLEAN :
          /\ SecondStep(q, d, deleted)
          /\ ~deleted => \A m \in Names, k \in Kinds :
                           Stored(m, k) \subseteq Stored(m, k)'
          /\ IF deleted /\ home[d] = n
             THEN gone' = gone \cup {d} ELSE gone' = gone
    BY <1>4, <2>0, DeleteEffect
  <2>3. /\ UNCHANGED <<home, acked>>
        /\ \A c \in Ids : Creating(c)' => Creating(c)
    BY <1>0, <1>4, <2>2
    DEF delete_document, SecondStep, RequestTypes, Creating
  <2>4. ASSUME NEW c \in Ids \ gone', c \in acked \/ Creating(c)
        PROVE  \E m \in Names, k \in Kinds :
                 home[c] = m /\ _collections'[m] = k /\ c \in Stored(m, k)'
    <3>1. PICK m \in Names, k \in Kinds :
            home[c] = m /\ _collections[m] = k /\ c \in Stored(m, k)
      BY <2>2, <2>4 DEF FoundInv
    <3>2. c \in Stored(m, k)'
      BY <2>1, <2>2, <2>4, <3>1
    <3>. QED  BY <1>00, <2>1, <3>1, <3>2
  <2>. QED  BY <2>3, <2>4 DEF FoundInv
<1>5. ASSUME NEW q \in Requests, delete_row(q) PROVE FoundInv'
  BY <1>0, <1>2, <1>5 DEF delete_row, RequestTypes, Creating, Idle
<1>6. ASSUME NEW s \in Scopes, retrieve(s) PROVE FoundInv'
  <2>1. PICK kind \in Kinds : _get_collection(_collection_name(s), kind)
    BY <1>6 DEF retrieve
  <2>2. \A m \in Names : _collections[m] # "none"
                           => _collections'[m] = _collections[m]
    BY <2>1, CacheStep, TypeParts
  <2>. QED  BY <1>2, <1>6, <2>2 DEF retrieve, Creating
<1>7. CASE restart
  BY <1>7 DEF restart, FoundInv, Creating, Idle
<1>8. CASE UNCHANGED vars
  BY <1>2, <1>8 DEF vars, Creating
<1>. QED  BY <1>1, <1>3, <1>4, <1>5, <1>6, <1>7, <1>8 DEF Next, retrieve_for_skill

(* A document whose ingestion was answered since the server started is     *)
(* among what every search of its scope ranks until it is deleted from it, *)
(* unless the query itself raises, and no search ranks a chunk of another  *)
(* scope: the process never changes the kind of a collection it has        *)
(* opened, whatever Chroma refuses meanwhile.                              *)
THEOREM IngestedFound == Spec => []IngestedIsFound
<1>1. Init => StoreInv /\ FoundInv
  BY DEF Init, StoreInv, FoundInv, Creating, Idle
<1>2. TypeOK /\ StoreInv /\ FoundInv /\ [Next]_vars => StoreInv' /\ FoundInv'
  BY StoreInvStep, FoundStep
<1>3. ASSUME TypeOK, StoreInv, FoundInv PROVE IngestedIsFound
  <2> SUFFICES ASSUME NEW s \in Scopes, NEW r \in Answers(s)
               PROVE  /\ r.failed \/ Live(s) \subseteq r.ranked
                      /\ \A d \in r.ranked : home[d] = _collection_name(s)
    BY DEF IngestedIsFound
  <2>0. PICK n \in Names : n = _collection_name(s)  BY NameOfScope
  <2>1. PICK k \in Opens(n) : r \in similarity_search(n, k)
    BY <2>0 DEF Answers
  <2>2. k \in Kinds /\ _collections[n] \in {k, "none"}
    BY <2>1 DEF Opens
  <2>3. \/ r.failed = FALSE /\ r.ranked = Stored(n, k)
        \/ r.failed = TRUE /\ r.ranked = {}
    BY <2>1 DEF similarity_search
  <2>4. ASSUME NEW d \in Live(s) PROVE d \in Stored(n, k)
    <3>1. d \in Ids \ gone /\ d \in acked /\ home[d] = n
      BY <1>3, <2>0, <2>4 DEF Live, TypeOK
    <3>. QED  BY <1>3, <2>2, <3>1 DEF FoundInv, Kinds
  <2>5. ASSUME NEW d \in Stored(n, k) PROVE home[d] = n
    BY <1>3, <2>2, <2>5 DEF StoreInv, Stored
  <2>. QED  BY <2>0, <2>3, <2>4, <2>5
<1>. QED  BY <1>1, <1>2, <1>3, TypeCorrect, PTL DEF Spec

-----------------------------------------------------------------------------
(* The rows and the store *)

Kept(d) == \E m \in Names, k \in Kinds : home[d] = m /\ d \in Stored(m, k)

Deleting(d) ==
  \E q \in Requests : request[q].todo = "delete" /\ d \in request[q].rows

(* A row to be written is of a chunk that is stored or was deleted before; *)
(* without a repository there is neither a row nor a request for one.      *)
RowsInv ==
  /\ ~_repo => documents = {} /\ \A q \in Requests : request[q] = Idle
  /\ \A d \in Ids : d \in documents \/ RowPending(d) => home[d] # "unused"
  /\ restarts = 0 =>
       /\ \A d \in Ids : RowPending(d) => Kept(d) \/ d \in torn
       /\ \A d \in documents : Kept(d) \/ d \in torn \/ Deleting(d)

(* How a step that leaves the store alone may change the rows.             *)
LEMMA RowsMove ==
  ASSUME TypeOK, RowsInv, UNCHANGED <<_repo, home, dict, chroma, restarts>>,
         torn \subseteq torn',
         \A d \in Ids : RowPending(d)' => RowPending(d),
         \A d \in documents' : d \in documents \/ RowPending(d),
         \A d \in documents' : Deleting(d) => Deleting(d)' \/ d \in torn',
         ~_repo => documents' = {} /\ \A q \in Requests : request'[q] = Idle
  PROVE  RowsInv'
<1>1. \A d \in Ids : Kept(d) => Kept(d)'
  BY DEF Kept, Stored
<1>2. documents \subseteq Ids
  BY DEF TypeOK
<1>3. \A d \in Ids : RowPending(d)' => home'[d] # "unused"
  BY DEF RowsInv
<1>4. \A d \in documents' : home'[d] # "unused"
  BY <1>2, TypeParts DEF RowsInv, RowPending, RequestTypes
<1>5. \A d \in documents' : d \in Ids
  BY <1>2, TypeParts DEF RowPending, RequestTypes
<1>6. ASSUME restarts = 0
      PROVE  /\ \A d \in Ids : RowPending(d)' => Kept(d)' \/ d \in torn'
             /\ \A d \in documents' : Kept(d)' \/ d \in torn' \/ Deleting(d)'
  <2>1. \A d \in Ids : RowPending(d) => Kept(d) \/ d \in torn
    BY <1>6 DEF RowsInv
  <2>2. \A d \in documents : Kept(d) \/ d \in torn \/ Deleting(d)
    BY <1>6 DEF RowsInv
  <2>. QED  BY <1>1, <1>5, <2>1, <2>2
<1>. QED  BY <1>3, <1>4, <1>6 DEF RowsInv

LEMMA RowsStep ==
  ASSUME TypeOK, RowsInv, [Next]_vars
  PROVE  RowsInv'
<1>0. RequestTypes /\ HistoryTypes /\ documents \subseteq Ids
  BY TypeParts
<1> USE NameOfScope
<1>1. ASSUME NEW q \in Requests, NEW S \in SUBSET Ids, NEW s \in Scopes,
             ingest_text(q, S, s)
      PROVE  RowsInv'
  <2>0. PICK n : n = _collection_name(s)  OBVIOUS
  <2>1. /\ n \in Names
        /\ \E kind \in Kinds : S \subseteq Stored(n, kind)'
        /\ \A m \in Names, k \in Kinds : Stored(m, k) \subseteq Stored(m, k)'
    BY <1>1, <2>0, IngestEffect
  <2>2. /\ \A d \in S : home[d] = "unused"
        /\ \A d \in Ids : home'[d] = IF d \in S THEN n ELSE home[d]
        /\ UNCHANGED <<_repo, documents, torn, restarts>>
    BY <1>1, <2>0 DEF ingest_text, Unused
  <2>3. /\ request[q] = Idle
        /\ ~_repo => request' = request
        /\ _repo => request' = [request EXCEPT ![q] =
                                  [todo |-> "create", rows |-> S, chunks |-> S]]
    BY <1>1 DEF ingest_text
  <2>4. /\ \A d \in Ids : RowPending(d)' => RowPending(d) \/ d \in S
        /\ \A d \in Ids : Deleting(d) => Deleting(d)'
    BY <1>0, <2>3 DEF RowPending, Deleting, RequestTypes, Idle
  <2>5. \A d \in S : Kept(d)'
    BY <2>1, <2>2 DEF Kept
  <2>6. ASSUME NEW d \in Ids, home[d] # "unused", Kept(d) PROVE Kept(d)'
    <3>1. PICK m \in Names, k \in Kinds : home[d] = m /\ d \in Stored(m, k)
      BY <2>6 DEF Kept
    <3>2. d \in Stored(m, k)' /\ home'[d] = m
      BY <2>1, <2>2, <2>6, <3>1
    <3>. QED  BY <3>1, <3>2 DEF Kept
  <2>7. \A d \in Ids : d \in documents' \/ RowPending(d)' => home'[d] # "unused"
    BY <2>1, <2>2, <2>4 DEF RowsInv
  <2>8. ASSUME restarts = 0
        PROVE  /\ \A d \in Ids : RowPending(d)' => Kept(d)' \/ d \in torn'
               /\ \A d \in documents' : Kept(d)' \/ d \in torn' \/ Deleting(d)'
    <3>1. \A d \in Ids : RowPending(d) => home[d] # "unused" /\ (Kept(d) \/ d \in torn)
      BY <2>8 DEF RowsInv
    <3>2. \A d \in documents :
            home[d] # "unused" /\ (Kept(d) \/ d \in torn \/ Deleting(d))
      BY <1>0, <2>8 DEF RowsInv
    <3>. QED  BY <1>0, <2>2, <2>4, <2>5, <2>6, <3>1, <3>2
  <2>. QED  BY <2>2, <2>3, <2>7, <2>8 DEF RowsInv
<1>2. ASSUME NEW q \in Requests, create_document(q) PROVE RowsInv'
  <2>1. /\ UNCHANGED <<_repo, home, dict, chroma, restarts, torn>>
        /\ request[q].todo = "create"
    BY <1>2 DEF create_document
  <2>2. _repo
    BY <2>1 DEF RowsInv, Idle
  <2>3. /\ \A d \in documents' : d \in documents \/ RowPending(d)
        /\ \A d \in Ids : RowPending(d)' => RowPending(d)
        /\ \A d \in documents' : Deleting(d) => Deleting(d)'
    BY <1>0, <1>2 DEF create_document, RowPending, Deleting, RequestTypes, Idle
  <2>. QED  BY <2>1, <2>2, <2>3, RowsMove
<1>3. ASSUME NEW q \in Requests, NEW d \in Ids, NEW s \in Scopes,
             delete_document(q, d, s)
      PROVE  RowsInv'
  <2>0. PICK n : n = _collection_name(s)  OBVIOUS
  <2>1. \A m \in Names, k \in Kinds :
          /\ Stored(m, k) \ {d} \subseteq Stored(m, k)'
          /\ m # n => Stored(m, k) \subseteq Stored(m, k)'
    BY <1>3, <2>0, DeleteEffect
  <2>2. PICK deleted \in BOOLEAN :
          /\ SecondStep(q, d, deleted)
          /\ ~deleted => \A m \in Names, k \in Kinds :
                           Stored(m, k) \subseteq Stored(m, k)'
          /\ IF deleted /\ home[d] = n
             THEN torn' = IF RowPending(d) THEN torn \cup {d} ELSE torn
             ELSE torn' = torn
    BY <1>3, <2>0, DeleteEffect
  <2>3. /\ UNCHANGED <<_repo, documents, home, restarts>>
        /\ request[q] = Idle
    BY <1>3 DEF delete_document
  <2>4. /\ ~_repo => request' = request
        /\ \A c \in Ids : RowPending(c)' => RowPending(c)
        /\ \A c \in Ids : Deleting(c) => Deleting(c)'
        /\ deleted /\ _repo => Deleting(d)'
    BY <1>0, <2>2, <2>3
    DEF SecondStep, RowPending, Deleting, RequestTypes, Idle
  <2>5. ASSUME NEW c \in Ids, Kept(c), c # d \/ ~(deleted /\ home[d] = n)
        PROVE  Kept(c)'
    <3>1. PICK m \in Names, k \in Kinds : home[c] = m /\ c \in Stored(m, k)
      BY <2>5 DEF Kept
    <3>2. c \in Stored(m, k)'
      BY <2>1, <2>2, <2>5, <3>1
    <3>. QED  BY <2>3, <3>1, <3>2 DEF Kept
  <2>6. \A c \in Ids : c \in documents' \/ RowPending(c)' => home'[c] # "unused"
    BY <2>3, <2>4 DEF RowsInv
  <2>7. ASSUME restarts = 0
        PROVE  /\ \A c \in Ids : RowPending(c)' => Kept(c)' \/ c \in torn'
               /\ \A c \in documents' : Kept(c)' \/ c \in torn' \/ Deleting(c)'
    <3>1. \A c \in Ids : RowPending(c) => Kept(c) \/ c \in torn
      BY <2>7 DEF RowsInv
    <3>2. \A c \in documents : _repo /\ (Kept(c) \/ c \in torn \/ Deleting(c))
      BY <2>7 DEF RowsInv
    <3>3. torn \subseteq torn'
      BY <2>2
    <3>4. \A c \in Ids : RowPending(c)' => Kept(c)' \/ c \in torn'
      BY <2>2, <2>4, <2>5, <3>1, <3>3
    <3>5. \A c \in documents' : Kept(c)' \/ c \in torn' \/ Deleting(c)'
      BY <1>0, <2>3, <2>4, <2>5, <3>2, <3>3
    <3>. QED  BY <3>4, <3>5
  <2>. QED  BY <2>3, <2>4, <2>6, <2>7 DEF RowsInv
<1>4. ASSUME NEW q \in Requests, delete_row(q) PROVE RowsInv'
  <2>1. /\ UNCHANGED <<_repo, home, dict, chroma, restarts>>
        /\ request[q].todo = "delete"
        /\ torn \subseteq torn' /\ documents' \subseteq documents
    BY <1>4 DEF delete_row
  <2>2. _repo
    BY <2>1 DEF RowsInv, Idle
  <2>3. \A d \in Ids : RowPending(d)' => RowPending(d)
    BY <1>0, <1>4 DEF delete_row, RowPending, RequestTypes, Idle
  <2>4. \A d \in documents' : Deleting(d) => Deleting(d)' \/ d \in torn'
    BY <1>0, <1>4 DEF delete_row, Deleting, RequestTypes, Idle
  <2>. QED  BY <2>1, <2>2, <2>3, <2>4, RowsMove
<1>5. ASSUME NEW s \in Scopes, retrieve(s) PROVE RowsInv'
  BY <1>5 DEF retrieve, RowsInv, RowPending, Deleting, Kept, Stored
<1>6. CASE restart
  <2>1. restarts' # 0
    BY <1>6, RagAssumption DEF restart, TypeOK
  <2>. QED  BY <1>6, <2>1 DEF restart, RowsInv, RowPending, Idle
<1>7. CASE UNCHANGED vars
  BY <1>7 DEF vars, RowsInv, RowPending, Deleting, Kept, Stored
<1>. QED  BY <1>1, <1>2, <1>3, <1>4, <1>5, <1>6, <1>7 DEF Next, retrieve_for_skill

(* Until the server is restarted the table lists no chunk the store has    *)
(* lost, whatever other requests ingest and delete between the two steps   *)
(* of an ingestion or a deletion; the only rows without a chunk are those  *)
(* whose deletion is half done, failed half way or overtook the ingestion. *)
THEOREM RowsAreOfChunks == Spec => []RowsHaveChunks
<1>1. Init => RowsInv
  BY DEF Init, RowsInv, RowPending, Idle
<1>2. TypeOK /\ RowsInv /\ [Next]_vars => RowsInv'
  BY RowsStep
<1>3. RowsInv => RowsHaveChunks
  BY DEF RowsInv, RowsHaveChunks, Kept, Deleting
<1>. QED  BY <1>1, <1>2, <1>3, TypeCorrect, PTL DEF Spec
=============================================================================
