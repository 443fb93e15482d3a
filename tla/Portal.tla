------------------------------- MODULE Portal -------------------------------
(***************************************************************************)
(* The public lists of the civil API.  A request is counted against the    *)
(* limit of its client and minute; its page is built from the database;    *)
(* then Redis is asked for a body kept under the same address, and only    *)
(* when it has none the page is sent, and kept for PUBLIC_CACHE_SECONDS.   *)
(* The client keeps what it gets for as long.  Meanwhile the               *)
(* reconciliation hides and shows incidents, Redis goes away and comes     *)
(* back, and requests overlap.  Every use of Redis may fail unnoticed.     *)
(***************************************************************************)
EXTENDS Integers, FiniteSetsExt, Functions

CONSTANTS
    Incident,    \* incidents of the table
    Dated,       \* those with observed_at: their age is part of the body
    Query,       \* path and query string of a list
    Matches,     \* what its filters let through
    Client,      \* addresses requests come from
    Request,     \* requests that may be in flight at once
    Ttl,         \* PUBLIC_CACHE_SECONDS, in ticks
    Minute,      \* a minute, in ticks
    Expiry,      \* the 70 seconds a counter lives, in ticks
    RateLimit,   \* RATE_LIMIT_PER_MINUTE
    MaxTick,     \* bound of the clock
    MaxChanges   \* bound on hidings, showings and outages of Redis

ASSUME MatchesAssumption == Matches \in [Query -> SUBSET Incident] /\ Dated \subseteq Incident

ASSUME ClientsAssumption == Client # {} /\ Query # {}

ASSUME TicksAssumption ==
    /\ {Ttl, Minute, Expiry, RateLimit} \subseteq Nat \ {0}
    /\ Expiry > Minute
    /\ MaxTick \in Nat /\ MaxChanges \in Nat

VARIABLES
    tick,     \* the clock
    hidden,   \* incidents merged or hidden by the reconciliation
    changes,  \* hidings, showings and outages so far
    redis,    \* Redis answers
    counter,  \* its counters: [count, expires] per key
    cache,    \* its bodies: [body, expires] per query
    req,      \* the requests in flight
    copy,     \* what each client keeps of each query
    since,    \* observer: when each incident was last hidden
    admitted, \* observer: requests of each client let through this minute
    trouble,  \* observer: Redis has been away this minute
    slowest   \* observer: the longest time between reading a page and sending it

portalVars == <<tick, hidden, changes, redis, counter, cache, req, copy,
                since, admitted, trouble, slowest>>

Never == MaxTick + Expiry + Ttl + 1

NoBody == [items |-> {}, aged |-> -1]

NoCopy == [body |-> NoBody, until |-> 0]

Idle == [at |-> "idle", client |-> CHOOSE c \in Client : TRUE, query |-> CHOOSE q \in Query : TRUE,
         key |-> <<>>, known |-> NoBody, body |-> NoBody, read |-> 0]

Places == {"idle", "expiring", "reading", "looking", "storing", "refused"}

----------------------------------------------------------------------------
(* A body, which also stands for its etag: age_seconds makes the bodies of  *)
(* different moments differ when they hold an incident with a date.         *)
Page(q) ==
    LET items == Matches[q] \ hidden
    IN  [items |-> items, aged |-> IF items \cap Dated = {} THEN 0 ELSE tick]

FaultKey(c) == <<c, 0>>

Key(c) == <<c, tick \div Minute>>

Put(f, key, value) == [x \in DOMAIN f \cup {key} |-> IF x = key THEN value ELSE f[x]]

PortalInit ==
    /\ tick = 0
    /\ hidden \in SUBSET Incident /\ changes = 0
    /\ redis = TRUE
    /\ counter = [k \in {} |-> 0] /\ cache = [q \in {} |-> 0]
    /\ req = [r \in Request |-> Idle]
    /\ copy = [c \in Client |-> [q \in Query |-> NoCopy]]
    /\ since = [i \in Incident |-> 0]
    /\ admitted = [c \in Client |-> 0]
    /\ trouble = FALSE
    /\ slowest = 0

----------------------------------------------------------------------------
(* A request of an address, which may be made again while its copy is fresh *)
(* and carries the etag of the copy.                                        *)
Asked(c, q) ==
    [Idle EXCEPT !.client = c, !.query = q, !.known = copy[c][q].body]

Free(r) == req[r].at = "idle"

(* incr: what the counter of the client is after this request.              *)
Count(c) == IF Key(c) \in DOMAIN counter THEN counter[Key(c)].count + 1 ELSE 1

Incremented(c) ==
    Put(counter, Key(c),
        IF Count(c) = 1 THEN [count |-> 1, expires |-> Never] ELSE [counter[Key(c)] EXCEPT !.count = @ + 1])

(* rate_limit up to its incr.                                               *)
Admit(r, c, q) ==
    /\ Free(r)
    /\ redis => Count(c) <= RateLimit
    /\ counter' = IF redis THEN Incremented(c) ELSE counter
    /\ req' = [req EXCEPT ![r] = IF redis /\ Count(c) = 1
                                  THEN [Asked(c, q) EXCEPT !.at = "expiring", !.key = Key(c)]
                                  ELSE [Asked(c, q) EXCEPT !.at = "reading"]]
    /\ admitted' = [admitted EXCEPT ![c] = @ + 1]
    /\ UNCHANGED <<tick, hidden, changes, redis, cache, copy, since, trouble, slowest>>

Refuse(r, c, q) ==
    /\ Free(r)
    /\ redis /\ Count(c) > RateLimit
    /\ counter' = Incremented(c)
    /\ req' = [req EXCEPT ![r] = [Idle EXCEPT !.client = c, !.at = "refused"]]
    /\ UNCHANGED <<tick, hidden, changes, redis, cache, copy, since, admitted, trouble, slowest>>

(* expire, of the key that incr created; its failure lets the request pass. *)
Expire(r) ==
    LET key == req[r].key
    IN  /\ req[r].at = "expiring"
        /\ counter' = IF redis /\ key \in DOMAIN counter
                      THEN [counter EXCEPT ![key].expires = tick + Expiry] ELSE counter
        /\ req' = [req EXCEPT ![r].at = "reading", ![r].key = <<>>]
        /\ UNCHANGED <<tick, hidden, changes, redis, cache, copy, since, admitted, trouble, slowest>>

(* _list_records up to the payload.                                         *)
Read(r) ==
    /\ req[r].at = "reading"
    /\ req' = [req EXCEPT ![r].at = "looking", ![r].body = Page(req[r].query), ![r].read = tick]
    /\ UNCHANGED <<tick, hidden, changes, redis, counter, cache, copy, since, admitted, trouble, slowest>>

(* An answer leaves: 304 when the client has the body already, and then its *)
(* copy is fresh again.                                                     *)
Answer(r, body) ==
    /\ copy' = [copy EXCEPT ![req[r].client][req[r].query] = [body |-> body, until |-> tick + Ttl]]
    /\ req' = [req EXCEPT ![r] = Idle]

Hit(q) == redis /\ q \in DOMAIN cache

FaultServe(r) ==
    /\ req[r].at = "looking" /\ Hit(req[r].query)
    /\ Answer(r, cache[req[r].query].body)
    /\ cache' = [cache EXCEPT ![req[r].query].expires = tick + Ttl]
    /\ UNCHANGED <<tick, hidden, changes, redis, counter, since, admitted, trouble, slowest>>

(* _public_response: the body Redis keeps.                                  *)
Serve(r) ==
    /\ req[r].at = "looking" /\ Hit(req[r].query)
    /\ Answer(r, cache[req[r].query].body)
    /\ UNCHANGED <<tick, hidden, changes, redis, counter, cache, since, admitted, trouble, slowest>>

Slower(r) == Max({slowest, tick - req[r].read})

(* No body in Redis: the client may know this one, and then it is not kept. *)
Miss(r) ==
    /\ req[r].at = "looking" /\ ~Hit(req[r].query)
    /\ IF req[r].known = req[r].body
       THEN Answer(r, req[r].body) /\ slowest' = Slower(r)
       ELSE req' = [req EXCEPT ![r].at = "storing"] /\ UNCHANGED <<copy, slowest>>
    /\ UNCHANGED <<tick, hidden, changes, redis, counter, cache, since, admitted, trouble>>

(* setex, whose failure is ignored, and the answer.                         *)
Store(r) ==
    /\ req[r].at = "storing"
    /\ cache' = IF redis
                THEN Put(cache, req[r].query, [body |-> req[r].body, expires |-> tick + Ttl])
                ELSE cache
    /\ Answer(r, req[r].body)
    /\ slowest' = Slower(r)
    /\ UNCHANGED <<tick, hidden, changes, redis, counter, since, admitted, trouble>>

(* The client goes away, with or without its 429, the database fails, or    *)
(* the process ends.                                                        *)
Drop(r) ==
    /\ ~Free(r)
    /\ req' = [req EXCEPT ![r] = Idle]
    /\ UNCHANGED <<tick, hidden, changes, redis, counter, cache, copy, since, admitted, trouble, slowest>>

----------------------------------------------------------------------------
(* The reconciliation marks an incident as merged or hidden.                *)
Hide(i) ==
    /\ i \notin hidden /\ changes < MaxChanges
    /\ hidden' = hidden \cup {i}
    /\ since' = [since EXCEPT ![i] = tick]
    /\ changes' = changes + 1
    /\ UNCHANGED <<tick, redis, counter, cache, req, copy, admitted, trouble, slowest>>

Show(i) ==
    /\ i \in hidden /\ changes < MaxChanges
    /\ hidden' = hidden \ {i}
    /\ changes' = changes + 1
    /\ UNCHANGED <<tick, redis, counter, cache, req, copy, since, admitted, trouble, slowest>>

(* Redis goes away; it comes back with what it held, or with nothing.       *)
RedisAway ==
    /\ redis /\ changes < MaxChanges
    /\ redis' = FALSE /\ trouble' = TRUE
    /\ changes' = changes + 1
    /\ UNCHANGED <<tick, hidden, counter, cache, req, copy, since, admitted, slowest>>

RedisBack ==
    /\ ~redis
    /\ redis' = TRUE
    /\ \/ UNCHANGED <<counter, cache>>
       \/ counter' = [k \in {} |-> 0] /\ cache' = [q \in {} |-> 0]
    /\ UNCHANGED <<tick, hidden, changes, req, copy, since, admitted, trouble, slowest>>

Alive(f) == Restrict(f, {k \in DOMAIN f : f[k].expires > tick + 1})

(* Time passes, and Redis drops what expires.                               *)
Tick ==
    /\ tick < MaxTick
    /\ tick' = tick + 1
    /\ counter' = Alive(counter)
    /\ cache' = Alive(cache)
    /\ IF tick' % Minute = 0
       THEN admitted' = [c \in Client |-> 0] /\ trouble' = ~redis
       ELSE UNCHANGED <<admitted, trouble>>
    /\ UNCHANGED <<hidden, changes, redis, req, copy, since, slowest>>

PortalNext ==
    \/ \E r \in Request, c \in Client, q \in Query : Admit(r, c, q) \/ Refuse(r, c, q)
    \/ \E r \in Request : Expire(r) \/ Read(r) \/ Serve(r) \/ Miss(r) \/ Store(r) \/ Drop(r)
    \/ \E i \in Incident : Hide(i) \/ Show(i)
    \/ RedisAway \/ RedisBack \/ Tick

PortalSpec == PortalInit /\ [][PortalNext]_portalVars

----------------------------------------------------------------------------
Bodies == [items : SUBSET Incident, aged : Int]

Keys == Client \X Nat

PortalTypeOK ==
    /\ tick \in 0..MaxTick /\ changes \in 0..MaxChanges
    /\ redis \in BOOLEAN /\ trouble \in BOOLEAN
    /\ hidden \subseteq Incident /\ since \in [Incident -> 0..tick]
    /\ DOMAIN counter \subseteq Keys
    /\ counter \in [DOMAIN counter -> [count : Nat \ {0}, expires : Nat]]
    /\ \A k \in DOMAIN counter : counter[k].expires > tick
    /\ DOMAIN cache \subseteq Query
    /\ cache \in [DOMAIN cache -> [body : Bodies, expires : tick + 1 .. tick + Ttl]]
    /\ req \in [Request -> [at : Places, client : Client, query : Query, key : Keys \cup {<<>>},
                            known : Bodies, body : Bodies, read : 0..tick]]
    /\ copy \in [Client -> [Query -> [body : Bodies, until : 0 .. tick + Ttl]]]
    /\ admitted \in [Client -> Nat] /\ slowest \in 0..tick

(* In a copy that its client takes for fresh, an incident that has been     *)
(* merged or hidden meanwhile lives on for less than the cache time in      *)
(* Redis, less than it again at the client, and the time between reading    *)
(* the slowest page and sending it.  (Less than Ttl ticks is Ttl - 1.)      *)
CopiesFade ==
    \A c \in Client, q \in Query :
        copy[c][q].until > tick =>
            \A i \in copy[c][q].body.items \cap hidden :
                tick - since[i] <= 2 * (Ttl - 1) + slowest

(* No client gets more than the limit in a minute unless Redis was away in  *)
(* it, and none is refused before it has got as many in that same minute,   *)
(* whatever became of the expiry of its counters.                           *)
LimitIsPerMinute ==
    /\ [](~trouble => \A c \in Client : admitted[c] <= RateLimit)
    /\ [][\A r \in Request :
             req'[r].at = "refused" /\ req[r].at # "refused" =>
                 admitted[req'[r].client] >= RateLimit]_portalVars
=============================================================================
