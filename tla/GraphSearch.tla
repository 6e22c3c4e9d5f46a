----------------------------- MODULE GraphSearch ----------------------------
(***************************************************************************)
(* GET /search/graph of the daemon: one coroutine per request walks the    *)
(* graph over a Redis client all requests share (daemon/search_engine.py)  *)
(* and scores what it found with vectors from a client with an LRU cache,  *)
(* a session and a semaphore, shared too (daemon/embedding_client.py).     *)
(* The daemon may be shut down meanwhile (daemon/lifespan.py): it closes   *)
(* both clients before it stops the HTTP server.                           *)
(*                                                                         *)
(* Between two awaits nothing else runs, so a step here is what a request  *)
(* does from one await to the next.  The vector of a text is the text.     *)
(***************************************************************************)
EXTENDS Naturals, Sequences, FiniteSets, SequencesExt, Selection, LruCache

CONSTANTS
    Request,     \* requests that pass validate_request
    Text,        \* facts and queries
    Query,       \* per request, its query
    Facts,        \* per request, the facts the traversal finds, in its order
    Known,       \* the requests of which a seed exists
    Wanted,      \* per request, the facts of the edge types it asks for
    Close,       \* pairs of a query and a fact with a cosine >= min_cosine
    EmbedMax,    \* embed_max_facts, 0 for no cap
    CacheSize,   \* embed_cache_size
    Concurrency, \* embedding_concurrency
    MayGarble,   \* can the embedder answer 200 with a body that is no JSON
    NoVector,    \* a text without a vector
    MaxFlips     \* bound on how often FalkorDB goes down or comes up

ASSUME GraphSearchAssumption ==
    /\ Query \in [Request -> Text] /\ Facts \in [Request -> Seq(Text)]
    /\ Known \subseteq Request /\ Wanted \in [Request -> SUBSET Text]
    /\ Close \subseteq Text \X Text
    /\ NoVector \notin Text
    /\ EmbedMax \in Nat /\ CacheSize \in Nat /\ Concurrency \in Nat \ {0}
    /\ MayGarble \in BOOLEAN /\ MaxFlips \in Nat

VARIABLES
    stage,      \* the daemon: up, or how far its shutdown is
    falkor,     \* does FalkorDB answer within the socket's timeout
    redis,      \* is there a Redis client
    session,    \* the client session in use, 0 for none
    opened,     \* how many sessions were opened; their numbers are 1..opened
    closed,     \* those of them that were closed
    slots,      \* the value of the semaphore
    waiters,    \* the requests that wait for it, in order
    cache,      \* pairs of a text and a vector, least recently used first
    pc,         \* per request, what it awaits
    disturbed,  \* per request, may the Redis command it awaits fail
    vectors,    \* per request, the vectors of its texts
    reply,      \* per request, the answer
    flips

shared == <<redis, session, opened, closed, slots, waiters, cache>>
own == <<pc, disturbed, vectors, reply>>
vars == <<stage, falkor, shared, own, flips>>

Stage == {"up", "closing", "stopping", "stopped", "gone"}
Pc == {"idle", "ping", "probe", "bfs", "waiting", "posted", "done", "cancelled"}
Code == {"none", "OK", "FALKOR_DOWN", "INVALID_CYPHER", "SEED_NOT_FOUND",
         "TRAVERSAL_TIMEOUT", "INTERNAL"}

(* The rows that are embedded, and the query after them.                   *)
Scored(c) ==
    IF EmbedMax > 0 /\ Len(Facts[c]) > EmbedMax
    THEN SubSeq(Facts[c], 1, EmbedMax) ELSE Facts[c]
Texts(c) == Append(Scored(c), Query[c])

Live == {c \in Request : pc[c] \notin {"idle", "done", "cancelled"}}
Commanding == {c \in Request : pc[c] \in {"ping", "probe", "bfs"}}
Open == (1..opened) \ closed

(* A slot is free or used by one request that was posted, and who waits    *)
(* for one is in the queue once (embed: the semaphore).                    *)
SlotsAreCounted ==
    /\ slots \in 0..Concurrency
    /\ slots = Concurrency - Cardinality({c \in Request : pc[c] = "posted"})
    /\ ToSet(waiters) = {c \in Request : pc[c] = "waiting"} /\ IsInjective(waiters)

TypeOK ==
    /\ stage \in Stage /\ falkor \in BOOLEAN /\ redis \in BOOLEAN
    /\ opened \in Nat /\ session \in 0..opened /\ closed \subseteq 1..opened
    /\ SlotsAreCounted
    /\ cache \in Seq(Text \X Text) /\ IsWithin(cache, CacheSize)
    /\ pc \in [Request -> Pc]
    /\ \A c \in Request :
        /\ vectors[c] \in Seq(Text \cup {NoVector})
        /\ reply[c].code \in Code
        /\ (reply[c].code # "none") <=> (pc[c] = "done")
        /\ disturbed[c] \in BOOLEAN /\ (disturbed[c] => c \in Commanding)

NoReply == [code |-> "none", results |-> <<>>, degraded |-> FALSE]

Init ==
    /\ stage = "up" /\ falkor \in BOOLEAN /\ redis = falkor
    /\ session = 1 /\ opened = 1 /\ closed = {}
    /\ slots = Concurrency /\ waiters = <<>> /\ cache = <<>>
    /\ pc = [c \in Request |-> "idle"]
    /\ disturbed = [c \in Request |-> FALSE]
    /\ vectors = [c \in Request |-> <<>>]
    /\ reply = [c \in Request |-> NoReply]
    /\ flips = 0

-----------------------------------------------------------------------------
(* The positions of the texts that must be sent.                           *)
Misses(c) == {i \in 1..Len(vectors[c]) : vectors[c][i] = NoVector}

(* From here on c awaits no Redis command.                                 *)
GoTo(c, l) ==
    /\ pc' = [pc EXCEPT ![c] = l]
    /\ disturbed' = [disturbed EXCEPT ![c] = FALSE]

Finish(c, r) ==
    /\ GoTo(c, "done")
    /\ reply' = [reply EXCEPT ![c] = r]

Refuse(c, code) == Finish(c, [NoReply EXCEPT !.code = code])

(* The facts that are close to q.                                          *)
CloseTo(s, q) == Selected(s, {i \in 1..Len(s) : <<q, s[i]>> \in Close})

(* Mutant: degraded is judged over all rows, embedded or not.              *)
Outcome_AllRows(c, v) ==
    [code |-> "OK",
     results |-> IF NoVector \in ToSet(v) THEN <<>>
                 ELSE CloseTo(Scored(c), Query[c]),
     degraded |-> NoVector \in ToSet(v) \/ Len(Facts[c]) > Len(Scored(c))]

(* Rows get their cosine only if every text has a vector; those without    *)
(* one are dropped.                                                        *)
Outcome(c, v) ==
    LET missing == NoVector \in ToSet(v)
        cosine(i) == <<v[Len(v)], v[i]>>
        near == {i \in 1..Len(Scored(c)) : ~missing /\ cosine(i) \in Close}
    IN  [code |-> "OK", results |-> Selected(Scored(c), near), degraded |-> missing]

(* A command is sent over the Redis client.                                *)
Command(c, l) ==
    /\ pc' = [pc EXCEPT ![c] = l]
    /\ disturbed' = [disturbed EXCEPT ![c] = ~falkor]

NoEmbedding == UNCHANGED <<session, opened, closed, slots, waiters, cache, vectors>>

-----------------------------------------------------------------------------
(* The client is made before it is known to work.                          *)
Arrive(c) ==
    /\ pc[c] = "idle" /\ stage # "gone"
    /\ redis' = TRUE
    /\ Command(c, IF redis THEN "probe" ELSE "ping")
    /\ UNCHANGED <<stage, falkor, reply, flips>> /\ NoEmbedding

PingAnswers(c) ==
    /\ pc[c] = "ping" /\ falkor
    /\ IF redis THEN Command(c, "probe") /\ UNCHANGED reply
                ELSE Refuse(c, "FALKOR_DOWN")
    /\ UNCHANGED <<stage, falkor, redis, flips>> /\ NoEmbedding

PingFails(c) ==
    /\ pc[c] = "ping" /\ disturbed[c]
    /\ redis' = FALSE
    /\ Refuse(c, "FALKOR_DOWN")
    /\ UNCHANGED <<stage, falkor, flips>> /\ NoEmbedding

(* Without a client the next command raises, which reads as FALKOR_DOWN.   *)
ProbeAnswers(c) ==
    /\ pc[c] = "probe" /\ falkor
    /\ IF c \in Known /\ redis THEN Command(c, "bfs") /\ UNCHANGED reply
       ELSE Refuse(c, IF c \in Known THEN "FALKOR_DOWN" ELSE "SEED_NOT_FOUND")
    /\ UNCHANGED <<stage, falkor, redis, flips>> /\ NoEmbedding

(* What a failing command reads as, by the words of the exception: one     *)
(* that was cut off as either, a query FalkorDB could not parse as invalid.*)
(* Other errors of a FalkorDB that is up are left out.                     *)
Failure(c) ==
    {code \in {"FALKOR_DOWN", "INVALID_CYPHER"} :
        disturbed[c] \/ (falkor /\ code = "INVALID_CYPHER")}

CommandFails(c) ==
    /\ pc[c] \in {"probe", "bfs"}
    /\ \E code \in Failure(c) : Refuse(c, code)
    /\ UNCHANGED <<stage, falkor, redis, flips>> /\ NoEmbedding

TraversalTimesOut(c) ==
    /\ pc[c] = "bfs"
    /\ Refuse(c, "TRAVERSAL_TIMEOUT")
    /\ UNCHANGED <<stage, falkor, redis, flips>> /\ NoEmbedding

(* embed() opens a session unless one is open.                             *)
StartSession ==
    IF session \in Open THEN UNCHANGED <<session, opened>>
    ELSE opened' = opened + 1 /\ session' = opened'

(* The traversal answers; embed() looks the texts up and sends the others  *)
(* unless it has to wait for the semaphore.                                *)
TraversalAnswers(c) ==
    /\ pc[c] = "bfs" /\ falkor
    /\ LET found == [i \in 1..Len(Texts(c)) |->
                        IF Has(cache, Texts(c)[i]) THEN Value(cache, Texts(c)[i])
                        ELSE NoVector]
           free == slots > 0 /\ waiters = <<>>
       IN  \/ /\ Facts[c] = <<>>
              /\ Finish(c, [NoReply EXCEPT !.code = "OK"])
              /\ UNCHANGED <<session, opened, cache, vectors, slots, waiters>>
           \/ /\ Facts[c] # <<>> /\ StartSession
              /\ vectors' = [vectors EXCEPT ![c] = found]
              /\ cache' = CacheGets(cache, Texts(c))
              /\ \/ /\ NoVector \notin ToSet(found)
                    /\ Finish(c, Outcome(c, found))
                    /\ UNCHANGED <<slots, waiters>>
                 \/ /\ NoVector \in ToSet(found) /\ free
                    /\ GoTo(c, "posted") /\ slots' = slots - 1
                    /\ UNCHANGED <<reply, waiters>>
                 \/ /\ NoVector \in ToSet(found) /\ ~free
                    /\ GoTo(c, "waiting") /\ waiters' = Append(waiters, c)
                    /\ UNCHANGED <<reply, slots>>
    /\ UNCHANGED <<stage, falkor, redis, closed, flips>>

(* A waiter gets its slot; the session it finds may be gone by then.       *)
Granted(c) ==
    /\ waiters # <<>> /\ c = Head(waiters) /\ slots > 0
    /\ waiters' = Tail(waiters)
    /\ IF session \in Open
       THEN GoTo(c, "posted") /\ slots' = slots - 1 /\ UNCHANGED reply
       ELSE Refuse(c, "INTERNAL") /\ UNCHANGED slots
    /\ UNCHANGED <<stage, falkor, redis, session, opened, closed, cache>>
    /\ UNCHANGED <<vectors, flips>>

(* Mutant: answers are counted from the first text, not the first miss.    *)
Place_FromFirst(c, p) == p

(* The text the p-th vector of the answer belongs to.                      *)
Place(c, p) == Nth(Misses(c), p)

(* The embedder answers with a vector for some of the texts sent: the p-th *)
(* vector is that of the p-th miss.                                        *)
EmbedderAnswers(c, got) ==
    LET sent(p) == Texts(c)[Nth(Misses(c), p)]
        filled == [i \in 1..Len(vectors[c]) |->
                    IF \E p \in got : Place(c, p) = i
                    THEN sent(CHOOSE p \in got : Place(c, p) = i)
                    ELSE vectors[c][i]]
        pairs == [p \in 1..Cardinality(Misses(c)) |-> <<Texts(c)[Place(c, p)], sent(p)>>]
    IN  /\ pc[c] = "posted" /\ got \subseteq 1..Cardinality(Misses(c))
        /\ slots' = slots + 1
        /\ vectors' = [vectors EXCEPT ![c] = filled]
        /\ cache' = CacheSets(cache, Selected(pairs, got), CacheSize)
        /\ Finish(c, Outcome(c, filled))
        /\ UNCHANGED <<stage, falkor, redis, session, opened, closed, waiters>>
        /\ UNCHANGED flips

(* Mutant: a failed request keeps its slot.                                *)
EmbedderFails_KeepsSlot(c) ==
    /\ pc[c] = "posted"
    /\ Finish(c, Outcome(c, vectors[c]))
    /\ UNCHANGED <<stage, falkor, shared, vectors, flips>>

(* A status of 400 or more, no connection, or no answer in time.           *)
EmbedderFails(c) ==
    /\ pc[c] = "posted"
    /\ slots' = slots + 1
    /\ Finish(c, Outcome(c, vectors[c]))
    /\ UNCHANGED <<stage, falkor, redis, session, opened, closed, waiters, cache>>
    /\ UNCHANGED <<vectors, flips>>

(* resp.json() raises something embed() does not catch.                    *)
EmbedderGarbles(c) ==
    /\ MayGarble /\ pc[c] = "posted"
    /\ slots' = slots + 1
    /\ Refuse(c, "INTERNAL")
    /\ UNCHANGED <<stage, falkor, redis, session, opened, closed, waiters, cache>>
    /\ UNCHANGED <<vectors, flips>>

-----------------------------------------------------------------------------
Disturb(S) == disturbed' = [c \in Request |-> disturbed[c] \/ c \in S]

FalkorFlips ==
    /\ flips < MaxFlips /\ flips' = flips + 1
    /\ falkor' = ~falkor
    /\ Disturb(IF falkor THEN Commanding ELSE {})
    /\ UNCHANGED <<stage, shared, pc, vectors, reply>>

CloseEngine ==
    /\ stage = "up" /\ stage' = "closing"
    /\ redis' = FALSE
    /\ Disturb(IF redis THEN Commanding ELSE {})
    /\ UNCHANGED <<falkor, session, opened, closed, slots, waiters, cache>>
    /\ UNCHANGED <<pc, vectors, reply, flips>>

(* stop() awaits the closing of the session...                             *)
StopEmbedding ==
    /\ stage = "closing"
    /\ stage' = IF session \in Open THEN "stopping" ELSE "stopped"
    /\ closed' = closed \cup ({session} \cap Open)
    /\ UNCHANGED <<falkor, redis, session, opened, slots, waiters, cache, own, flips>>

(* ...and forgets the session that is in use then.                         *)
ForgetSession ==
    /\ stage = "stopping" /\ stage' = "stopped"
    /\ session' = 0
    /\ UNCHANGED <<falkor, redis, opened, closed, slots, waiters, cache, own, flips>>

(* The HTTP server is stopped and the requests under way are cancelled.    *)
Exit ==
    /\ stage = "stopped" /\ stage' = "gone"
    /\ pc' = [c \in Request |-> IF c \in Live THEN "cancelled" ELSE pc[c]]
    /\ disturbed' = [c \in Request |-> FALSE]
    /\ slots' = Concurrency /\ waiters' = <<>>
    /\ UNCHANGED <<falkor, redis, session, opened, closed, cache>>
    /\ UNCHANGED <<vectors, reply, flips>>

Step(c) ==
    \/ PingAnswers(c) \/ PingFails(c)
    \/ ProbeAnswers(c) \/ CommandFails(c)
    \/ TraversalTimesOut(c) \/ TraversalAnswers(c)
    \/ Granted(c)
    \/ \E got \in SUBSET (1..Cardinality(Misses(c))) : EmbedderAnswers(c, got)
    \/ EmbedderFails(c) \/ EmbedderGarbles(c)

Next ==
    \/ \E c \in Request : Arrive(c) \/ Step(c)
    \/ FalkorFlips
    \/ CloseEngine \/ StopEmbedding \/ ForgetSession \/ Exit

Spec == Init /\ [][Next]_vars

(* Whatever a request awaits comes back or times out.                      *)
FairSpec == Spec /\ \A c \in Request : WF_vars(Step(c))

-----------------------------------------------------------------------------
(* A vector always is that of its own text, in a request and in the cache, *)
(* whatever was cached, sent twice or left out of the answer (embed:       *)
(* positions align with the misses).                                       *)
VectorsFit ==
    /\ \A c \in Request : \A i \in 1..Len(vectors[c]) :
        vectors[c][i] \in {Texts(c)[i], NoVector}
    /\ \A i \in 1..Len(cache) : cache[i][1] = cache[i][2]

(* A 404 speaks of the seeds, never of the database; a 200 that is not     *)
(* degraded has exactly the scored facts that are close, and degraded      *)
(* means that the embedder did not deliver (search).                       *)
RepliesAreHonest ==
    \A c \in Request :
        /\ reply[c].code = "SEED_NOT_FOUND" => c \notin Known
        /\ reply[c].code = "OK" =>
            IF reply[c].degraded THEN NoVector \in ToSet(vectors[c])
            ELSE reply[c].results =
                    CloseTo(Scored(c), Query[c])

(* A request that came in is answered, or cancelled at shutdown; none      *)
(* waits for the semaphore for ever (embed, search).                       *)
EveryRequestEnds == \A c \in Request : c \in Live ~> c \notin Live

(* A request is never failed by embed() itself (embedding_client.py: "We   *)
(* do NOT raise").                                                         *)
EmbedNeverRaises == \A c \in Request : reply[c].code # "INTERNAL"

(* No session is left open after the shutdown (embedding_client.py:        *)
(* stop() "closes the session").                                           *)
NothingLeftOpen == stage = "gone" => Open = {}

(* FALKOR_DOWN is told only to requests whose command met FalkorDB down,   *)
(* or while the daemon shuts down (_classify_cypher_error).                *)
DownWasDown ==
    [][\A c \in Request :
        reply'[c].code = "FALKOR_DOWN" /\ reply[c].code = "none"
            => disturbed[c] \/ stage # "up"]_vars

(* Without vectors the caller still gets the rows (embedding_client.py:    *)
(* "returns raw rows with cosine=None").                                   *)
RawRowsSurvive ==
    \A c \in Request :
        reply[c].code = "OK" /\ reply[c].degraded => reply[c].results # <<>>

(* Only facts of the edge types asked for are returned (search_engine.py,  *)
(* step 2: "edge_types filter").                                           *)
OnlyWantedTypes ==
    \A c \in Request : ToSet(reply[c].results) \subseteq Wanted[c]
=============================================================================
