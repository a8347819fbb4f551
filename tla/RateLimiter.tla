---------------------------- MODULE RateLimiter ----------------------------
(***************************************************************************)
(* The fixed-window rate limiter of infrastructure/http/rate_limit.py: the *)
(* policy table, the middleware that limits by client address, the         *)
(* dependencies that limit by organization, session, user and API key, and *)
(* the check of a websocket.  A check is several Redis commands; checks of *)
(* different requests interleave between any two of them, keys expire, and *)
(* every command may fail, with or without having been executed.           *)
(*                                                                         *)
(* A path is modelled by the set of prefixes and patterns it matches, and  *)
(* time by units of which a burst and a sustained window have some number. *)
(***************************************************************************)
EXTENDS Integers, Sequences, FiniteSets

CONSTANTS Reqs,             \* requests
          Traffic,          \* the routes they may ask for
          IPs, Principals,  \* client addresses; whom a request authenticates as
          Scale,            \* rate_limit_multiplier, as <<numerator, denominator>>
          Enabled,          \* rate_limit_enabled
          BurstWindow, BurstTtl, SustainedWindow, SustainedTtl,
          Horizon           \* bound: the clock stops there

ASSUME TimeAssumption ==
    /\ {BurstWindow, BurstTtl, SustainedWindow, SustainedTtl} \subseteq Nat \ {0}
    /\ BurstWindow <= BurstTtl /\ SustainedWindow <= SustainedTtl
    /\ Horizon \in Nat
    /\ Scale \in Int \X (Nat \ {0})
    /\ IsFiniteSet(Reqs)

None == "none"
Never == Horizon + SustainedTtl + BurstTtl + 1     \* the expiry of a key without one

----------------------------------------------------------------------------
(* The policies.  Limits are <<sustained, burst>>, or <<>> for no limit.   *)

RateLimitPolicy(cat, at, methods, ip, mode, org, session) ==
    [category |-> cat, at |-> at, methods |-> methods, ip |-> ip,
     fail_mode |-> mode, org |-> org, session |-> session]

AnyMethod == {"GET", "POST"}

AccessPolicies ==
    << RateLimitPolicy("auth_login", {"auth/login"}, {"POST"}, <<20, 5>>, "closed", <<>>, <<>>),
       RateLimitPolicy("auth", {"auth"}, AnyMethod, <<40, 10>>, "closed", <<>>, <<>>),
       RateLimitPolicy("demo", {"demo"}, AnyMethod, <<120, 30>>, "closed", <<>>, <<>>),
       RateLimitPolicy("api_keys", {"api-keys"}, {"POST"}, <<10, 3>>, "closed", <<20, 5>>, <<>>),
       RateLimitPolicy("sessions_create", {"sessions"}, {"POST"}, <<30, 5>>, "closed", <<100, 20>>, <<>>),
       RateLimitPolicy("voice_ws", {"ws/voice"}, AnyMethod, <<20, 5>>, "closed", <<60, 15>>, <<>>),
       RateLimitPolicy("livekit", {"livekit"}, {"POST"}, <<30, 5>>, "closed", <<80, 15>>, <<20, 5>>) >>

ContentPolicies ==
    << RateLimitPolicy("knowledge_upload", {"collections/*/documents"}, {"POST"}, <<10, 2>>, "closed", <<30, 5>>, <<>>),
       RateLimitPolicy("knowledge_reindex", {"documents/*/reindex"}, {"POST"}, <<5, 2>>, "closed", <<20, 5>>, <<>>),
       RateLimitPolicy("knowledge_search", {"knowledge/search"}, {"POST"}, <<60, 15>>, "open", <<200, 40>>, <<>>),
       RateLimitPolicy("knowledge_collections", {"knowledge/collections"}, {"POST"}, <<20, 5>>, "closed", <<50, 10>>, <<>>),
       RateLimitPolicy("memory_search", {"sessions/*/memory/search"}, {"POST"}, <<60, 15>>, "open", <<200, 40>>, <<>>),
       RateLimitPolicy("replay", {"sessions/*/replay"}, {"GET"}, <<30, 10>>, "closed", <<100, 25>>, <<15, 5>>),
       RateLimitPolicy("onboarding_sample", {"onboarding/run"}, {"POST"}, <<5, 2>>, "closed", <<15, 3>>, <<>>),
       RateLimitPolicy("onboarding", {"onboarding"}, AnyMethod, <<30, 8>>, "closed", <<60, 15>>, <<>>),
       RateLimitPolicy("dashboard", {"dashboard"}, {"GET"}, <<120, 30>>, "open", <<300, 60>>, <<>>),
       RateLimitPolicy("sessions", {"sessions"}, AnyMethod, <<120, 30>>, "open", <<300, 60>>, <<60, 15>>),
       RateLimitPolicy("api_default", {"api"}, AnyMethod, <<120, 30>>, "open", <<500, 100>>, <<>>) >>

RATE_LIMIT_POLICIES == AccessPolicies \o ContentPolicies

\* settings.rate_limit_fail_closed_categories
FailClosedCategories ==
    {"auth", "auth_login", "demo", "sessions_create", "voice_ws", "livekit",
     "knowledge_upload", "knowledge_reindex", "knowledge_collections", "replay",
     "onboarding_sample", "onboarding", "api_keys"}

\* A route: its method, what its path matches, the category its dependency
\* names (None: it has none), and whether the path names a session.
Route(method, at, dep, session) ==
    [method |-> method, at |-> at, dep |-> dep, session |-> session]

RouteOf ==
    [login     |-> Route("POST", {"auth/login", "auth", "api"}, None, None),
     create    |-> Route("POST", {"sessions", "api"}, "sessions_create", None),
     memory    |-> Route("POST", {"sessions", "sessions/*/memory/search", "api"}, "memory_search", "s"),
     search    |-> Route("POST", {"knowledge/search", "api"}, "knowledge_search", None),
     upload    |-> Route("POST", {"knowledge/collections", "collections/*/documents", "api"}, "knowledge_upload", None),
     replay    |-> Route("GET", {"sessions", "sessions/*/replay", "api"}, "replay", "s"),
     dashboard |-> Route("GET", {"dashboard", "api"}, "dashboard", None),
     voice     |-> Route("GET", {"ws/voice", "api"}, None, None),
     start     |-> Route("GET", {}, "voice_ws", None),    \* the start message of a socket
     health    |-> Route("GET", {"exempt", "api"}, None, None)]

ASSUME TrafficAssumption == Traffic \subseteq DOMAIN RouteOf

Matches(policy, route) ==
    route.method \in policy.methods /\ policy.at \cap route.at # {}

NoPolicy == RateLimitPolicy(None, {}, {}, <<>>, "open", <<>>, <<>>)

FirstMatch(ps, Test(_)) ==
    LET hits == {i \in DOMAIN ps : Test(ps[i])}
    IN  IF hits = {} THEN NoPolicy ELSE ps[CHOOSE i \in hits : \A j \in hits : i <= j]

resolve_policy(route) ==
    IF "exempt" \in route.at \/ "api" \notin route.at THEN NoPolicy
    ELSE LET Test(p) == Matches(p, route) IN FirstMatch(RATE_LIMIT_POLICIES, Test)

get_policy_by_category(cat) ==
    LET Test(p) == p.category = cat IN FirstMatch(RATE_LIMIT_POLICIES, Test)

Scaled(v) == LET s == (v * Scale[1]) \div Scale[2] IN IF s < 1 THEN 1 ELSE s

EffectiveFailMode(policy) ==
    IF policy.category \in FailClosedCategories THEN "closed" ELSE policy.fail_mode

----------------------------------------------------------------------------
(* The checks of a request, in the order they are made.                    *)

Check(policy, dim, id, limits) ==
    [dim |-> dim, id |-> id, cat |-> policy.category, mode |-> EffectiveFailMode(policy),
     sustained |-> Scaled(limits[1]), burst |-> Scaled(limits[2])]

check_ip(policy, ip) == << Check(policy, "ip", ip, policy.ip) >>

check_org(policy, org) ==
    IF policy.org = <<>> THEN <<>> ELSE << Check(policy, "org", org, policy.org) >>

check_session(policy, sid) ==
    IF policy.session = <<>> \/ sid = None THEN <<>>
    ELSE << Check(policy, "session", sid, policy.session) >>

PrincipalLimits(policy) == IF policy.org = <<>> THEN policy.ip ELSE policy.org

check_principal(policy, dim, id) ==
    IF id = None THEN <<>> ELSE << Check(policy, dim, id, PrincipalLimits(policy)) >>

enforce_authenticated_limits(cat, who, sid) ==
    LET policy == get_policy_by_category(cat)
    IN  check_org(policy, who.org) \o check_session(policy, sid)
        \o check_principal(policy, "user", who.user)
        \o check_principal(policy, "api_key", who.key)

Anonymous == [org |-> None, user |-> None, key |-> None]

\* rate_limit_category and its optional form: nothing without a principal.
DependencyChecks(route, who) ==
    IF route.dep = None \/ who = Anonymous THEN <<>>
    ELSE enforce_authenticated_limits(route.dep, who, route.session)

MiddlewareChecks(route, ip) ==
    LET policy == resolve_policy(route)
    IN  IF policy = NoPolicy THEN <<>> ELSE check_ip(policy, ip)

\* Starlette's HTTP middleware does not see websockets: they are checked by
\* enforce_ws_connect_limit, which voice_websocket calls without an org_id, and
\* at every start or resume by the limits of the principal, which are reported
\* in a message.
enforce_ws_connect_limit(ip) == check_ip(get_policy_by_category("voice_ws"), ip)

ChecksOf(name, ip, who) ==
    IF ~Enabled THEN <<>>
    ELSE IF name = "voice" THEN enforce_ws_connect_limit(ip)
    ELSE MiddlewareChecks(RouteOf[name], ip) \o DependencyChecks(RouteOf[name], who)

----------------------------------------------------------------------------
VARIABLES now,      \* the clock
          redis,    \* the keys that exist: their count and when they expire
          req,      \* the requests
          passed    \* history: the checks that went through, by key

vars == <<now, redis, req, passed>>

Idle == [pc |-> "idle", name |-> None, todo |-> <<>>, need |-> 0, counted |-> 0, at |-> 0,
         hit |-> 0, answer |-> None]

Init ==
    /\ now = 0
    /\ redis = <<>>
    /\ req = [r \in Reqs |-> Idle]
    /\ passed = <<>>

Key(win, c, t) ==
    [win |-> win, dim |-> c.dim, id |-> c.id, cat |-> c.cat,
     bucket |-> IF win = "burst" THEN t \div BurstWindow ELSE t \div SustainedWindow]

Ttl(win) == IF win = "burst" THEN BurstTtl ELSE SustainedTtl
WindowStart(k) == k.bucket * (IF k.win = "burst" THEN BurstWindow ELSE SustainedWindow)

Count(k) == IF k \in DOMAIN redis THEN redis[k].n ELSE 0

\* INCR creates the key without an expiry; EXPIRE sets one.
Incr(k) ==
    redis' = [x \in DOMAIN redis \cup {k} |->
        IF x # k THEN redis[x]
        ELSE [n |-> Count(k) + 1,
              exp |-> IF k \in DOMAIN redis THEN redis[k].exp ELSE Never]]

\* Mutant: the expiry is counted from the start of the window.
BugExpire(k, ttl) ==
    redis' = [x \in DOMAIN redis |->
        IF x = k THEN [redis[x] EXCEPT !.exp = now + ttl - BurstWindow] ELSE redis[x]]

Expire(k, ttl) ==
    redis' = [x \in DOMAIN redis |->
        IF x = k THEN [redis[x] EXCEPT !.exp = now + ttl] ELSE redis[x]]

Exceeds(n, limit) == n > limit

(* What the limiter's caller answers.  The middleware and _raise_or_response  *)
(* look at blocked and redis_error, the websocket at allowed.              *)

\* Mutant: redis_error is not looked at.
BugRedisErrorAnswer(name, mode) == "next"

RedisErrorAnswer(name, mode) ==
    IF name # "voice" THEN "503"
    ELSE IF mode = "closed" THEN "1008" ELSE "next"

BlockedAnswer(name) == IF name = "voice" THEN "1008" ELSE "429"

\* The head of todo is done; its request goes on, or is answered.
Proceed(r, n) ==
    LET rest == Tail(req[r].todo)
    IN  [req[r] EXCEPT !.pc = IF rest = <<>> THEN "done" ELSE "clock",
                       !.todo = rest, !.counted = @ + n, !.at = 0, !.hit = 0,
                       !.answer = IF rest = <<>> THEN "200" ELSE None]

Answered(r, a) ==
    [req[r] EXCEPT !.pc = "done", !.todo = <<>>, !.at = 0, !.hit = 0, !.answer = a]


----------------------------------------------------------------------------
Arrive(r, name, ip, who) ==
    /\ req[r].pc = "idle"
    /\ who = Anonymous => RouteOf[name].dep \in {None, "replay"}   \* the others answer 401
    /\ who # Anonymous => RouteOf[name].dep # None
    /\ LET todo == ChecksOf(name, ip, who)
       IN  req' = [req EXCEPT ![r] =
               [Idle EXCEPT !.name = name, !.todo = todo, !.need = Len(todo),
                            !.pc = IF todo = <<>> THEN "done" ELSE "clock",
                            !.answer = IF todo = <<>> THEN "200" ELSE None]]
    /\ UNCHANGED <<now, redis, passed>>

\* now = int(time.time()): both buckets come from this one reading.
ReadClock(r) ==
    /\ req[r].pc = "clock"
    /\ req' = [req EXCEPT ![r].pc = "burst", ![r].at = now]
    /\ UNCHANGED <<now, redis, passed>>

IncrBurst(r) ==
    /\ req[r].pc = "burst"
    /\ LET k == Key("burst", Head(req[r].todo), req[r].at)
       IN  /\ Incr(k)
           /\ req' = [req EXCEPT ![r].hit = Count(k) + 1,
                                 ![r].pc = IF Count(k) = 0 THEN "expire burst" ELSE "sustained"]
    /\ UNCHANGED <<now, passed>>

ExpireBurst(r) ==
    /\ req[r].pc = "expire burst"
    /\ Expire(Key("burst", Head(req[r].todo), req[r].at), BurstTtl)
    /\ req' = [req EXCEPT ![r].pc = "sustained"]
    /\ UNCHANGED <<now, passed>>

\* The decision: blocked when either count is above its limit.
Decide(r, over) ==
    LET c == Head(req[r].todo)
        ks == {Key(w, c, req[r].at) : w \in {"burst", "sustained"}}
    IN  /\ req' = [req EXCEPT ![r] = IF over THEN Answered(r, BlockedAnswer(req[r].name))
                                     ELSE Proceed(r, 1)]
        /\ passed' = IF over THEN passed
                     ELSE [k \in DOMAIN passed \cup ks |->
                             (IF k \in DOMAIN passed THEN passed[k] ELSE 0)
                             + (IF k \in ks THEN 1 ELSE 0)]

IncrSustained(r) ==
    /\ req[r].pc = "sustained"
    /\ LET c == Head(req[r].todo)
           k == Key("sustained", c, req[r].at)
           over == Exceeds(req[r].hit, c.burst) \/ Exceeds(Count(k) + 1, c.sustained)
       IN  /\ Incr(k)
           /\ IF Count(k) = 0
              THEN /\ req' = [req EXCEPT ![r].pc = "expire sustained",
                                         ![r].hit = IF over THEN 1 ELSE 0]
                   /\ UNCHANGED passed
              ELSE Decide(r, over)
    /\ UNCHANGED now

ExpireSustained(r) ==
    /\ req[r].pc = "expire sustained"
    /\ Expire(Key("sustained", Head(req[r].todo), req[r].at), SustainedTtl)
    /\ Decide(r, req[r].hit = 1)
    /\ UNCHANGED now

\* A Redis command raises, before or after Redis has executed it.
RedisFails(r) ==
    /\ req[r].pc \in {"burst", "expire burst", "sustained", "expire sustained"}
    /\ LET c == Head(req[r].todo)
           a == RedisErrorAnswer(req[r].name, c.mode)
       IN  /\ req' = [req EXCEPT ![r] = IF a = "next" THEN Proceed(r, 0) ELSE Answered(r, a)]
           /\ \/ UNCHANGED redis
              \/ req[r].pc = "burst" /\ Incr(Key("burst", c, req[r].at))
              \/ req[r].pc = "sustained" /\ Incr(Key("sustained", c, req[r].at))
              \/ req[r].pc = "expire burst" /\ Expire(Key("burst", c, req[r].at), BurstTtl)
              \/ /\ req[r].pc = "expire sustained"
                 /\ Expire(Key("sustained", c, req[r].at), SustainedTtl)
    /\ UNCHANGED <<now, passed>>

Tick ==
    /\ now < Horizon
    /\ now' = now + 1
    /\ redis' = [k \in {x \in DOMAIN redis : redis[x].exp > now'} |-> redis[k]]
    /\ UNCHANGED <<req, passed>>

Next ==
    \/ \E r \in Reqs :
        \/ \E name \in Traffic, ip \in IPs, who \in Principals \cup {Anonymous} : Arrive(r, name, ip, who)
        \/ ReadClock(r) \/ IncrBurst(r) \/ ExpireBurst(r) \/ IncrSustained(r)
        \/ ExpireSustained(r) \/ RedisFails(r)
    \/ Tick

Spec == Init /\ [][Next]_vars

----------------------------------------------------------------------------
Ids == IPs \cup {"s", None} \cup UNION {{who.org, who.user, who.key} : who \in Principals}

Categories == {RATE_LIMIT_POLICIES[i].category : i \in DOMAIN RATE_LIMIT_POLICIES}

CheckSet ==
    [dim : {"ip", "org", "session", "user", "api_key"}, id : Ids, cat : Categories,
     mode : {"open", "closed"}, sustained : Nat, burst : Nat]

Request ==
    [pc : {"idle", "clock", "burst", "expire burst", "sustained", "expire sustained", "done"},
     name : Traffic \cup {None}, todo : Seq(CheckSet), need : Nat, counted : Nat, at : Nat,
     hit : Nat, answer : {None, "200", "429", "503", "1008"}]

TypeOK ==
    /\ now \in 0 .. Horizon
    /\ req \in [Reqs -> Request]
    /\ redis \in [DOMAIN redis -> [n : Nat, exp : Nat]]
    /\ passed \in [DOMAIN passed -> Nat]

LimitOf(k) ==
    LET policy == get_policy_by_category(k.cat)
        limits == CASE k.dim = "ip" -> policy.ip
                    [] k.dim = "session" -> policy.session
                    [] OTHER -> PrincipalLimits(policy)
    IN  Scaled(limits[IF k.win = "burst" THEN 2 ELSE 1])

(* As long as the key of a window cannot have expired, which is longer     *)
(* than the window lasts, no more checks go through in it than its scaled  *)
(* limit, whatever interleaves with INCR and EXPIRE and whatever fails     *)
(* (RateLimiter.check).  Afterwards a check that read the clock in the old *)
(* window and increments late starts the count again.                      *)
WindowBound ==
    \A k \in DOMAIN passed : now < WindowStart(k) + Ttl(k.win) => passed[k] <= LimitOf(k)

FailsClosed(name) ==
    LET policy == IF name \in {"voice", "start"} THEN get_policy_by_category("voice_ws")
                  ELSE resolve_policy(RouteOf[name])
    IN  policy # NoPolicy /\ EffectiveFailMode(policy) = "closed"

(* A request is served only after every check of it was counted, when its  *)
(* route is to fail closed: a Redis error never opens such a route         *)
(* (_effective_fail_mode, _raise_or_response, dispatch).                   *)
ClosedIsCounted ==
    \A r \in Reqs : req[r].answer = "200" /\ FailsClosed(req[r].name) => req[r].counted = req[r].need

(* What docs/operations says of a Redis failure: a request whose route is  *)
(* to fail open is not refused because Redis is down.  Not so over HTTP:   *)
(* the middleware and _raise_or_response refuse every redis_error.         *)
FailOpenServes == \A r \in Reqs : req[r].answer = "503" => FailsClosed(req[r].name)
=============================================================================
