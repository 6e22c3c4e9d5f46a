---------------------------- MODULE MemorySearch ----------------------------
(***************************************************************************)
(* GET /search/memory of the daemon: a sliding-window limit per address    *)
(* and the checks of the handler (daemon/http_search_memory_handler.py),   *)
(* then the search both transports share (engine/search_memory.py), which  *)
(* embeds the query through graphiti's cache (cache/embed_cache.py), lets  *)
(* graphiti_core search, and may put a gate on the true cosine after it.   *)
(*                                                                         *)
(* A step is what a request does from one await to the next.  The vector   *)
(* of a text is the text, the score of an edge is the edge.                *)
(***************************************************************************)
EXTENDS Naturals, Sequences, FiniteSets, SequencesExt, Selection, LruCache

CONSTANTS
    Request,     \* connections; each asks one thing at a time
    Address,     \* remote addresses
    MaxRequests, \* _RATE_LIMIT_REQUESTS
    Window,      \* _RATE_LIMIT_WINDOW_SEC
    MaxKeys,     \* _TokenBucket._MAX_KEYS
    MaxTime,     \* bound on the clock
    Text,        \* queries, newlines replaced
    Edge,
    Scorable,    \* edges with a fact_embedding
    Close,       \* pairs of a query and an edge with a cosine >= the floor
    Asks,        \* per request, what it may ask for
    Limit,       \* per request, its limit
    Overfetch,   \* cosine_gate_overfetch
    Ranked,      \* what graphiti_core may find: edges in the reranker's order
    CacheSize,   \* cache.embed.max_size
    NoVector,    \* an empty vector
    NoScore      \* a row without reranker_score

ASSUME MemorySearchAssumption ==
    /\ MaxRequests \in Nat \ {0} /\ Window \in Nat /\ MaxKeys \in Nat \ {0}
    /\ MaxTime \in Nat /\ CacheSize \in Nat /\ Overfetch \in Nat \ {0}
    /\ Scorable \subseteq Edge /\ Close \subseteq Text \X Edge
    /\ Asks \in [Request -> SUBSET Text] /\ Limit \in [Request -> Nat \ {0}]
    /\ \A f \in Ranked : f \in Seq(Edge) /\ IsInjective(f)
    /\ NoVector \notin Text /\ NoScore \notin Edge /\ Text # {}

VARIABLES
    now,      \* time.monotonic()
    hits,     \* _hits: per tracked address, when it was let in
    order,    \* _keys_in_order: the tracked addresses, oldest entry first
    ready,    \* is ctx.graphiti_instance there
    gated,    \* is cosine_gate_min set
    cache,    \* the embedding cache of the instance
    pc,       \* per request, what it awaits
    query,    \* per request, its query
    vector,   \* per request, query_vector
    found,    \* per request, the edges graphiti_core returned
    scores,   \* per request, their edge_reranker_scores, possibly fewer
    reply,    \* per request, the answer
    accepted  \* per address, what was let in within the window since the
              \* address was last forgotten (history)

limiter == <<now, hits, order, accepted>>
vars == <<limiter, ready, gated, cache, pc, query, vector, found, scores, reply>>

Live == {"probing", "embedding", "searching", "loading"}
Code == {"none", "OK", "RATE_LIMITED", "INVALID", "SEARCH_BACKEND_DOWN",
         "FALKOR_DISCONNECTED", "SEARCH_TIMEOUT", "INTERNAL_ERROR"}

(* gate: was the cosine gate in effect (history).                          *)
NoReply == [code |-> "none", rows |-> <<>>, gate |-> FALSE]

(* What the text and the type of an exception show: a word or a class of   *)
(* the engine's list, a timeout, a word of the handler's list.             *)
Clue == {"backend", "timeout", "word"}

TypeOK ==
    /\ now \in 0..MaxTime
    /\ DOMAIN hits \subseteq Address
    /\ \A a \in DOMAIN hits : hits[a] \in Seq(0..MaxTime)
    /\ order \in Seq(Address)
    /\ ready \in BOOLEAN /\ gated \in BOOLEAN
    /\ cache \in Seq(Text \X (Text \cup {NoVector})) /\ IsWithin(cache, CacheSize)
    /\ pc \in [Request -> {"idle", "done"} \cup Live]
    /\ query \in [Request -> Text]
    /\ vector \in [Request -> Text \cup {NoVector}]
    /\ \A r \in Request :
        /\ found[r] \in Seq(Edge) /\ scores[r] \in Seq(Edge)
        /\ reply[r].code \in Code /\ reply[r].rows \in Seq([edge : Edge,
                                                score : Edge \cup {NoScore}])
    /\ \A a \in Address : accepted[a] \in Seq(0..MaxTime)

Init ==
    /\ now = 0 /\ hits = <<>> /\ order = <<>>
    /\ ready \in BOOLEAN /\ gated \in BOOLEAN
    /\ cache = <<>>
    /\ pc = [r \in Request |-> "idle"]
    /\ query = [r \in Request |-> CHOOSE t \in Text : TRUE]
    /\ vector = [r \in Request |-> NoVector]
    /\ found = [r \in Request |-> <<>>] /\ scores = found
    /\ reply = [r \in Request |-> NoReply]
    /\ accepted = [a \in Address |-> <<>>]

-----------------------------------------------------------------------------
(* The limiter.                                                            *)

(* Mutant: a request exactly one window old is forgotten.                  *)
Recent_Half(s, t) ==
    LET old == CHOOSE n \in 0..Len(s) : /\ \A i \in 1..n : s[i] + Window <= t
                                        /\ n < Len(s) => s[n + 1] + Window > t
    IN  SubSeq(s, old + 1, Len(s))

(* What is left of a deque at t when what is older than the window has     *)
(* been taken off its left end, up to the first hit that is not.           *)
Recent(s, t) ==
    LET old == CHOOSE n \in 0..Len(s) : /\ \A i \in 1..n : s[i] + Window < t
                                        /\ n < Len(s) => s[n + 1] + Window >= t
    IN  SubSeq(s, old + 1, Len(s))

(* A new address takes the place of the oldest entry when the table is     *)
(* full, whether that one is at its limit or not.                          *)
Evicted(a) ==
    IF a \notin DOMAIN hits /\ Cardinality(DOMAIN hits) >= MaxKeys
    THEN ToSet(SubSeq(order, 1, 1)) ELSE {}

Bucket(a) == IF a \in DOMAIN hits THEN Recent(hits[a], now) ELSE <<>>

Allowed(a) == Len(Bucket(a)) < MaxRequests

Record(b) == IF Len(b) < MaxRequests THEN Append(b, now) ELSE b

Enlist(o, a) == IF a \in ToSet(o) THEN o ELSE Append(o, a)

Consume(a) ==
    LET kept == IF Evicted(a) = {} THEN order ELSE Tail(order)
    IN  /\ hits' = [b \in (DOMAIN hits \ Evicted(a)) \cup {a} |->
                        IF b = a THEN Record(Bucket(a)) ELSE hits[b]]
        /\ order' = Enlist(kept, a)
        /\ accepted' = [b \in Address |->
                          IF b \in Evicted(a) THEN <<>>
                          ELSE IF b = a /\ Allowed(a) THEN Append(accepted[a], now)
                          ELSE accepted[b]]

-----------------------------------------------------------------------------
(* The engine.                                                             *)

Fetch(r) == IF gated THEN Limit[r] * Overfetch ELSE Limit[r]

Cut(s, n) == IF Len(s) > n THEN SubSeq(s, 1, n) ELSE s

(* Mutant: the scores are joined by position, after the gate.              *)
Rows_Zipped(r, edges) ==
    [i \in 1..Len(edges) |->
        [edge |-> edges[i],
         score |-> IF i <= Len(scores'[r]) THEN scores'[r][i] ELSE NoScore]]

(* Scores belong to edges, not to positions: they are joined by uuid       *)
(* before the gate drops anything.                                         *)
ScoreOf(r, e) ==
    IF \E i \in 1..Len(scores'[r]) : found'[r][i] = e
    THEN scores'[r][CHOOSE i \in 1..Len(scores'[r]) : found'[r][i] = e]
    ELSE NoScore

Rows(r, edges) ==
    [i \in 1..Len(edges) |-> [edge |-> edges[i], score |-> ScoreOf(r, edges[i])]]

(* The edges with a vector that is close to that of t.                     *)
Near(f, t) ==
    Selected(f, {i \in 1..Len(f) : f[i] \in Scorable /\ <<t, f[i]>> \in Close})

(* Mutant: the result is cut before the gate and not after it.             *)
Passed_CutFirst(r) == Near(Cut(found[r], Limit[r]), vector[r])

(* What the gate lets through, for the vector the request holds.           *)
Passed(r) == Cut(Near(found[r], vector[r]), Limit[r])

Finish(r, rep) ==
    /\ pc' = [pc EXCEPT ![r] = "done"]
    /\ reply' = [reply EXCEPT ![r] = rep]
    /\ vector' = [vector EXCEPT ![r] = NoVector]

Refuse(r, code) == Finish(r, [NoReply EXCEPT !.code = code])

Deliver(r, edges, gate) ==
    Finish(r, [code |-> "OK", rows |-> Rows(r, edges), gate |-> gate])

(* scores_dropped_by_gate of the diagnostics.                              *)
Dropped(r) == Len(found[r]) - Len(reply[r].rows)

Await(r, l) == pc' = [pc EXCEPT ![r] = l] /\ UNCHANGED reply

-----------------------------------------------------------------------------
Tick ==
    /\ now < MaxTime /\ now' = now + 1
    /\ accepted' = [a \in Address |->
                      Selected(accepted[a], {i \in 1..Len(accepted[a]) :
                                                accepted[a][i] + Window >= now'})]
    /\ UNCHANGED <<hits, order, ready, gated, cache>>
    /\ UNCHANGED <<pc, query, vector, found, scores, reply>>

(* The limit comes before every other check: a request that is invalid, or *)
(* meets a daemon without graphiti, has used a place in the window.        *)
Arrive(r, a, t, valid) ==
    /\ pc[r] \in {"idle", "done"}
    /\ Consume(a)
    /\ query' = [query EXCEPT ![r] = t]
    /\ found' = [found EXCEPT ![r] = <<>>]
    /\ scores' = [scores EXCEPT ![r] = <<>>]
    /\ \/ ~Allowed(a) /\ Refuse(r, "RATE_LIMITED")
       \/ Allowed(a) /\ ~valid /\ Refuse(r, "INVALID")
       \/ Allowed(a) /\ valid /\ ~ready /\ Refuse(r, "SEARCH_BACKEND_DOWN")
       \/ /\ Allowed(a) /\ valid /\ ready
          /\ pc' = [pc EXCEPT ![r] = "probing"]
          /\ reply' = [reply EXCEPT ![r] = NoReply]
          /\ UNCHANGED vector
    /\ UNCHANGED <<now, ready, gated, cache>>

(* No answer of the probe within a second is a refusal too.                *)
ProbeRefuses(r) ==
    /\ pc[r] = "probing"
    /\ Refuse(r, "FALKOR_DISCONNECTED")
    /\ UNCHANGED <<limiter, ready, gated, cache, query, found, scores>>

(* The query is embedded by the engine for the gate, else by graphiti_core *)
(* with the same embedder; a cached vector needs no await.                 *)
ProbePasses(r) ==
    /\ pc[r] = "probing"
    /\ cache' = CacheGet(cache, query[r])
    /\ IF Has(cache, query[r])
       THEN /\ vector' = [vector EXCEPT ![r] = Value(cache, query[r])]
            /\ Await(r, "searching")
       ELSE Await(r, "embedding") /\ UNCHANGED vector
    /\ UNCHANGED <<limiter, ready, gated, query, found, scores>>

(* Meanwhile another request may have embedded the same text.              *)
EmbedderAnswers(r, v) ==
    /\ pc[r] = "embedding"
    /\ vector' = [vector EXCEPT ![r] = v]
    /\ cache' = CacheSet(cache, query[r], v, CacheSize)
    /\ Await(r, "searching")
    /\ UNCHANGED <<limiter, ready, gated, query, found, scores>>

SearchAnswers(r, f, n) ==
    /\ pc[r] = "searching" /\ n <= Len(f) /\ Len(f) <= Fetch(r)
    /\ found' = [found EXCEPT ![r] = f]
    /\ scores' = [scores EXCEPT ![r] = SubSeq(f, 1, n)]
    /\ \/ ~gated /\ Deliver(r, f, FALSE)
       \/ gated /\ f = <<>> /\ Deliver(r, f, TRUE)
       \/ gated /\ f # <<>> /\ vector[r] = NoVector /\ Deliver(r, Cut(f, Limit[r]), FALSE)
       \/ gated /\ f # <<>> /\ vector[r] # NoVector
          /\ Await(r, "loading") /\ UNCHANGED vector
    /\ UNCHANGED <<limiter, ready, gated, cache, query>>

VectorsLoaded(r) ==
    /\ pc[r] = "loading"
    /\ UNCHANGED <<found, scores>>
    /\ Deliver(r, Passed(r), TRUE)
    /\ UNCHANGED <<limiter, ready, gated, cache, query>>

(* The gate must never break a search.                                     *)
LoadFails(r) ==
    /\ pc[r] = "loading"
    /\ UNCHANGED <<found, scores>>
    /\ Deliver(r, Cut(found[r], Limit[r]), FALSE)
    /\ UNCHANGED <<limiter, ready, gated, cache, query>>

EngineCode(clues) ==
    IF "backend" \in clues THEN "FALKOR_DISCONNECTED"
    ELSE IF "timeout" \in clues THEN "BACKEND_TIMEOUT" ELSE "INTERNAL_ERROR"

(* The handler looks for its words whatever code is left.                  *)
HandlerCode(clues) ==
    CASE EngineCode(clues) = "FALKOR_DISCONNECTED" -> "FALKOR_DISCONNECTED"
      [] EngineCode(clues) = "BACKEND_TIMEOUT" -> "SEARCH_TIMEOUT"
      [] OTHER -> IF "word" \in clues THEN "FALKOR_DISCONNECTED" ELSE "INTERNAL_ERROR"

(* The embedder or FalkorDB raises in the engine.                          *)
EngineFails(r, clues) ==
    /\ pc[r] \in {"embedding", "searching"}
    /\ Refuse(r, HandlerCode(clues))
    /\ UNCHANGED <<limiter, ready, gated, cache, query, found, scores>>

(* wait_for cancels the engine after _ENGINE_CALL_TIMEOUT_SEC.             *)
EngineTimesOut(r) ==
    /\ pc[r] \in {"embedding", "searching", "loading"}
    /\ Refuse(r, "SEARCH_TIMEOUT")
    /\ found' = [found EXCEPT ![r] = <<>>]
    /\ scores' = [scores EXCEPT ![r] = <<>>]
    /\ UNCHANGED <<limiter, ready, gated, cache, query>>

(* The handler is cancelled: the client goes away, or the daemon ends.     *)
Cancel(r) ==
    /\ pc[r] \in Live
    /\ Refuse(r, "none")
    /\ found' = [found EXCEPT ![r] = <<>>]
    /\ scores' = [scores EXCEPT ![r] = <<>>]
    /\ UNCHANGED <<limiter, ready, gated, cache, query>>

(* The shutdown drops the instance first; a request under way has its own  *)
(* reference.                                                              *)
DropGraphiti ==
    /\ ready /\ ready' = FALSE
    /\ UNCHANGED <<limiter, gated, cache, pc, query, vector, found, scores, reply>>

Next ==
    \/ Tick \/ DropGraphiti
    \/ \E r \in Request :
        \/ \E a \in Address, t \in Asks[r], valid \in BOOLEAN : Arrive(r, a, t, valid)
        \/ ProbeRefuses(r) \/ ProbePasses(r)
        \/ \E v \in {query[r], NoVector} : EmbedderAnswers(r, v)
        \/ \E f \in Ranked, n \in 0..Cardinality(Edge) : SearchAnswers(r, f, n)
        \/ VectorsLoaded(r) \/ LoadFails(r)
        \/ \E clues \in SUBSET Clue : EngineFails(r, clues)
        \/ EngineTimesOut(r) \/ Cancel(r)

Spec == Init /\ [][Next]_vars

-----------------------------------------------------------------------------
(* An address that was not forgotten meanwhile is never let in more than   *)
(* MaxRequests times within a window, and never refused below that: its    *)
(* deque is exactly what was let in within the window, what may push it    *)
(* out knows of it, and the table does not grow beyond its limit (consume, *)
(* _evict_oldest).                                                         *)
RateIsBounded ==
    /\ Cardinality(DOMAIN hits) <= MaxKeys
    /\ \A a \in Address :
        /\ Len(accepted[a]) <= MaxRequests
        /\ \A i \in 1..Len(accepted[a]) : accepted[a][i] + Window >= now
        /\ Bucket(a) = accepted[a]
        /\ a \in ToSet(order) <=> a \in DOMAIN hits

(* A row has the score the reranker gave to its own edge, or none if the   *)
(* score list ended before it, whatever the gate dropped between them      *)
(* (scores_by_uuid).                                                       *)
RowsKeepTheirScores ==
    \A r \in Request : \A i \in 1..Len(reply[r].rows) :
        LET row == reply[r].rows[i]
        IN  row.score = IF row.edge \in ToSet(scores[r]) THEN row.edge ELSE NoScore

(* With the gate in effect the rows are the first edges close to the       *)
(* request's own query, up to its limit, whatever other requests embed     *)
(* meanwhile and the cache holds; without it they are the first edges      *)
(* (_apply_cosine_gate, EmbedCache.create).                                *)
GateIsKept ==
    \A r \in Request :
        LET rep == reply[r]
        IN  rep.code = "OK" =>
                [i \in 1..Len(rep.rows) |-> rep.rows[i].edge]
                    = Cut(IF rep.gate THEN Near(found[r], query[r]) ELSE found[r],
                          Limit[r])

-----------------------------------------------------------------------------
(* What the comments say and the code does not do.                         *)

(* "handler maps by code, not by string fragment"                          *)
(* (http_search_memory_handler.py:339).                                    *)
TypedCodeDecides ==
    \A clues \in SUBSET Clue :
        HandlerCode(clues) = "FALKOR_DISCONNECTED"
            => EngineCode(clues) = "FALKOR_DISCONNECTED"

(* "how many candidates the cosine gate dropped"                           *)
(* (http_search_memory_handler.py:394): the surplus of the over-fetch is   *)
(* counted as well.                                                        *)
DroppedByTheGate ==
    \A r \in Request :
        reply[r].gate =>
            Dropped(r) = Len(SelectSeq(found[r], LAMBDA e :
                ~(e \in Scorable /\ <<query[r], e>> \in Close)))
=============================================================================
