------------------------- MODULE RateLimiterProofs --------------------------
(***************************************************************************)
(* Proofs about RateLimiter for any number of requests, addresses and      *)
(* principals, any multiplier, any windows and any time to live that is    *)
(* not shorter than its window.                                            *)
(*                                                                         *)
(* What bounds the checks that pass is not the count of a window but the   *)
(* count together with the checks that have incremented it, were not over  *)
(* and have not been decided yet: each of them holds a place below the     *)
(* count.  A key cannot expire early, because its expiry is set after the  *)
(* window began.                                                           *)
(***************************************************************************)
EXTENDS RateLimiter, TLAPS, FiniteSetTheorems, SequenceTheorems, WellFoundedInduction

Dimensions == {"ip", "org", "session", "user", "api_key"}

Windows == {"burst", "sustained"}

AllKeys == [win : Windows, dim : Dimensions, id : Ids, cat : Categories, bucket : Nat]

Limit(c, win) == IF win = "burst" THEN c.burst ELSE c.sustained

(* The checks with the limits LimitOf finds for their keys. *)
GoodChecks == {c \in CheckSet : \A win \in Windows : LimitOf(Key(win, c, 0)) = Limit(c, win)}

(* The checks of a websocket fail as the policy of its category says. *)
VoiceChecks == {c \in GoodChecks : c.mode = EffectiveFailMode(get_policy_by_category("voice_ws"))}

(* A request has checks to do until it is answered.  Those of a route that *)
(* is to fail closed are counted or still to be done.                      *)
ReqInv(s, t) ==
  /\ s.todo \in Seq(GoodChecks) /\ (s.name = "voice" => s.todo \in Seq(VoiceChecks))
  /\ s.pc \notin {"idle", "done"} => s.todo # <<>>
  /\ s.pc = "done" => s.todo = <<>>
  /\ s.at <= t
  /\ s.answer = "200" => s.pc = "done"
  /\ s.pc = "expire sustained" => s.hit \in {0, 1}
  /\ s.pc # "idle" /\ (s.pc = "done" => s.answer = "200") /\ FailsClosed(s.name) =>
       s.counted + Len(s.todo) = s.need

(* The request has incremented k, was not over its limit and is not decided. *)
Holds(s, k) ==
  LET c == Head(s.todo)
  IN  \/ /\ s.pc \in {"expire burst", "sustained"}
         /\ k = Key("burst", c, s.at)
         /\ s.hit <= c.burst
      \/ /\ s.pc = "expire sustained"
         /\ k \in {Key("burst", c, s.at), Key("sustained", c, s.at)}
         /\ s.hit = 0

HoldersIn(rs, k) == {r \in Reqs : Holds(rs[r], k)}

Holders(k) == HoldersIn(req, k)

Passed(k) == IF k \in DOMAIN passed THEN passed[k] ELSE 0

(* The window of k, as long as its key cannot have expired. *)
Open(k) == now < WindowStart(k) + Ttl(k.win)

KeyInv(k) ==
  Open(k) => /\ Passed(k) + Cardinality(Holders(k)) <= Count(k)
             /\ LimitOf(k) \in Nat => Passed(k) + Cardinality(Holders(k)) <= LimitOf(k)

(* No key expires before its window and the rest of its time to live are over. *)
RedisInv ==
  /\ redis \in [DOMAIN redis -> [n : Nat, exp : Nat]]
  /\ \A k \in DOMAIN redis : k \in AllKeys /\ redis[k].exp >= WindowStart(k) + Ttl(k.win)

PassedInv ==
  /\ passed \in [DOMAIN passed -> Nat]
  /\ \A k \in DOMAIN passed : k \in AllKeys /\ LimitOf(k) \in Nat

IndInv ==
  /\ TypeOK
  /\ \A r \in Reqs : ReqInv(req[r], now)
  /\ RedisInv
  /\ PassedInv
  /\ \A k \in AllKeys : KeyInv(k)

-----------------------------------------------------------------------------
(* The policies *)

Limits == {<<>>} \cup (Nat \X Nat)

GoodPolicy(p) ==
  /\ p.ip \in Nat \X Nat /\ p.org \in Limits /\ p.session \in Limits
  /\ p.fail_mode \in {"open", "closed"}

Policies == RATE_LIMIT_POLICIES

(* The order of the table, by category. *)
Category ==
  <<"auth_login", "auth", "demo", "api_keys", "sessions_create", "voice_ws", "livekit",
    "knowledge_upload", "knowledge_reindex", "knowledge_search", "knowledge_collections",
    "memory_search", "replay", "onboarding_sample", "onboarding", "dashboard", "sessions",
    "api_default">>

LEMMA AccessTable ==
  /\ AccessPolicies \in Seq(Range(AccessPolicies)) /\ Len(AccessPolicies) = 7
  /\ \A i \in 1 .. 7 : GoodPolicy(AccessPolicies[i]) /\ AccessPolicies[i].category = Category[i]
<1>1. Len(AccessPolicies) = 7 /\ AccessPolicies \in Seq(Range(AccessPolicies))
  BY DEF AccessPolicies, Range
<1>2. \A i \in 1 .. 7 : GoodPolicy(AccessPolicies[i])
  BY DEF AccessPolicies, RateLimitPolicy, GoodPolicy, Limits
<1>3. \A i \in 1 .. 7 : AccessPolicies[i].category = Category[i]
  BY DEF AccessPolicies, RateLimitPolicy, Category
<1> QED BY <1>1, <1>2, <1>3

LEMMA ContentTable ==
  /\ ContentPolicies \in Seq(Range(ContentPolicies)) /\ Len(ContentPolicies) = 11
  /\ \A i \in 1 .. 11 :
       GoodPolicy(ContentPolicies[i]) /\ ContentPolicies[i].category = Category[i + 7]
<1>1. Len(ContentPolicies) = 11 /\ ContentPolicies \in Seq(Range(ContentPolicies))
  BY DEF ContentPolicies, Range
<1>2. GoodPolicy(ContentPolicies[1]) /\ ContentPolicies[1].category = Category[8]
  BY DEF ContentPolicies, RateLimitPolicy, GoodPolicy, Limits, Category
<1>3. GoodPolicy(ContentPolicies[2]) /\ ContentPolicies[2].category = Category[9]
  BY DEF ContentPolicies, RateLimitPolicy, GoodPolicy, Limits, Category
<1>4. GoodPolicy(ContentPolicies[3]) /\ ContentPolicies[3].category = Category[10]
  BY DEF ContentPolicies, RateLimitPolicy, GoodPolicy, Limits, Category
<1>5. GoodPolicy(ContentPolicies[4]) /\ ContentPolicies[4].category = Category[11]
  BY DEF ContentPolicies, RateLimitPolicy, GoodPolicy, Limits, Category
<1>6. GoodPolicy(ContentPolicies[5]) /\ ContentPolicies[5].category = Category[12]
  BY DEF ContentPolicies, RateLimitPolicy, GoodPolicy, Limits, Category
<1>7. GoodPolicy(ContentPolicies[6]) /\ ContentPolicies[6].category = Category[13]
  BY DEF ContentPolicies, RateLimitPolicy, GoodPolicy, Limits, Category
<1>8. GoodPolicy(ContentPolicies[7]) /\ ContentPolicies[7].category = Category[14]
  BY DEF ContentPolicies, RateLimitPolicy, GoodPolicy, Limits, Category
<1>9. GoodPolicy(ContentPolicies[8]) /\ ContentPolicies[8].category = Category[15]
  BY DEF ContentPolicies, RateLimitPolicy, GoodPolicy, Limits, Category
<1>10. GoodPolicy(ContentPolicies[9]) /\ ContentPolicies[9].category = Category[16]
  BY DEF ContentPolicies, RateLimitPolicy, GoodPolicy, Limits, Category
<1>11. GoodPolicy(ContentPolicies[10]) /\ ContentPolicies[10].category = Category[17]
  BY DEF ContentPolicies, RateLimitPolicy, GoodPolicy, Limits, Category
<1>12. GoodPolicy(ContentPolicies[11]) /\ ContentPolicies[11].category = Category[18]
  BY DEF ContentPolicies, RateLimitPolicy, GoodPolicy, Limits, Category
<1> QED BY <1>1, <1>2, <1>3, <1>4, <1>5, <1>6, <1>7, <1>8, <1>9, <1>10, <1>11, <1>12

LEMMA Table ==
  /\ DOMAIN Policies = 1 .. 18
  /\ \A i \in 1 .. 18 : GoodPolicy(Policies[i]) /\ Policies[i].category = Category[i]
<1> DEFINE S == Range(AccessPolicies) \cup Range(ContentPolicies)
           a == AccessPolicies
           b == ContentPolicies
           c == a \o b
<1>1. a \in Seq(S) /\ b \in Seq(S) /\ Len(a) = 7 /\ Len(b) = 11
  BY AccessTable, ContentTable DEF Range
<1>2. c = Policies
  BY DEF Policies, RATE_LIMIT_POLICIES
<1> HIDE DEF S, a, b
<1>3. /\ c \in Seq(S) /\ Len(c) = Len(a) + Len(b)
      /\ \A i \in 1 .. Len(a) + Len(b) : c[i] = IF i <= Len(a) THEN a[i] ELSE b[i - Len(a)]
  BY <1>1, ConcatProperties
<1> HIDE DEF c
<1>4. Len(c) = 7 + 11 /\ \A i \in 1 .. 7 + 11 : c[i] = IF i <= 7 THEN a[i] ELSE b[i - 7]
  BY <1>1, <1>3
<1>5. Len(c) = 18 /\ \A i \in 1 .. 18 : c[i] = IF i <= 7 THEN a[i] ELSE b[i - 7]
  BY <1>4
<1>6. /\ \A i \in 1 .. 7 : GoodPolicy(a[i]) /\ a[i].category = Category[i]
      /\ \A i \in 1 .. 11 : GoodPolicy(b[i]) /\ b[i].category = Category[i + 7]
  BY AccessTable, ContentTable DEF a, b
<1>7. ASSUME NEW i \in 1 .. 18 PROVE GoodPolicy(c[i]) /\ c[i].category = Category[i]
  <2>1. CASE i \in 1 .. 7
    <3>1. c[i] = a[i]
      BY <1>5, <2>1
    <3> QED BY <1>6, <2>1, <3>1
  <2>2. CASE i \notin 1 .. 7
    <3>1. i - 7 \in 1 .. 11 /\ (i - 7) + 7 = i /\ c[i] = b[i - 7]
      BY <1>5, <2>2
    <3> QED BY <1>6, <3>1
  <2> QED BY <2>1, <2>2
<1>8. DOMAIN c = 1 .. 18
  BY <1>3, <1>5, LenProperties
<1> QED BY <1>2, <1>7, <1>8

LEMMA CategoriesDiffer ==
  ASSUME NEW i \in 1 .. 18, NEW j \in 1 .. 18, Category[i] = Category[j] PROVE i = j
BY DEF Category

(* A category names one policy. *)
LEMMA PolicyOf ==
  ASSUME NEW i \in 1 .. 18
  PROVE  get_policy_by_category(Category[i]) = Policies[i]
<1> DEFINE hits == {j \in DOMAIN Policies : Policies[j].category = Category[i]}
<1>1. hits = {i}
  BY Table, CategoriesDiffer
<1>2. get_policy_by_category(Category[i]) =
        IF hits = {} THEN NoPolicy ELSE Policies[CHOOSE m \in hits : \A j \in hits : m <= j]
  BY DEF get_policy_by_category, FirstMatch, Policies
<1>3. (CHOOSE m \in {i} : \A j \in {i} : m <= j) = i
  OBVIOUS
<1> QED BY <1>1, <1>2, <1>3

LEMMA CategoryPolicy ==
  ASSUME NEW cat \in Categories
  PROVE  /\ GoodPolicy(get_policy_by_category(cat)) /\ get_policy_by_category(cat).category = cat
         /\ \E i \in 1 .. 18 : get_policy_by_category(cat) = Policies[i] /\ cat = Category[i]
<1>1. PICK i \in 1 .. 18 : cat = Category[i]
  BY Table DEF Categories, Policies
<1> QED BY <1>1, PolicyOf, Table

LEMMA InTable ==
  ASSUME NEW i \in 1 .. 18 PROVE Category[i] \in Categories
BY Table DEF Categories, Policies

LEMMA RouteCategories ==
  /\ "voice_ws" \in Categories
  /\ \A name \in DOMAIN RouteOf : RouteOf[name].dep \in Categories \cup {None}
  /\ \A name \in DOMAIN RouteOf : RouteOf[name].session \in {"s", None}
<1>1. /\ Category[6] = "voice_ws" /\ Category[5] = "sessions_create" /\ Category[8] = "knowledge_upload"
      /\ Category[10] = "knowledge_search" /\ Category[12] = "memory_search"
      /\ Category[13] = "replay" /\ Category[16] = "dashboard"
  BY DEF Category
<1>2. {"voice_ws", "sessions_create", "knowledge_upload", "knowledge_search", "memory_search",
       "replay", "dashboard"} \subseteq Categories
  BY <1>1, InTable
<1>3. \A name \in DOMAIN RouteOf : RouteOf[name].dep \in Categories \cup {None}
  BY <1>2 DEF RouteOf, Route
<1>4. \A name \in DOMAIN RouteOf : RouteOf[name].session \in {"s", None}
  BY DEF RouteOf, Route
<1> QED BY <1>2, <1>3, <1>4

LEMMA MinExists ==
  ASSUME NEW A, A \subseteq Nat, A # {}
  PROVE  (CHOOSE m \in A : \A j \in A : m <= j) \in A
<1> DEFINE Less == {ss \in Nat \X Nat : ss[1] < ss[2]}
<1>1. IsWellFoundedOn(Less, Nat)
  BY NatLessThanWellFounded, Zenon DEF OpToRel
<1> HIDE DEF Less
<1>2. PICK m \in A : \A j \in A : ~(<<j, m>> \in Less)
  BY <1>1, WFMin, Zenon
<1>3. ASSUME NEW j \in A PROVE m <= j
  <2>1. m \in Nat /\ j \in Nat /\ ~(j < m)
    BY <1>2, <1>3, Zenon DEF Less
  <2> QED BY <2>1
<1> QED BY <1>3

(* What a path resolves to. *)
LEMMA Resolved ==
  ASSUME NEW route
  PROVE  resolve_policy(route) = NoPolicy \/ \E i \in 1 .. 18 : resolve_policy(route) = Policies[i]
<1> DEFINE hits == {j \in DOMAIN Policies : Matches(Policies[j], route)}
           first == CHOOSE m \in hits : \A j \in hits : m <= j
<1>1. resolve_policy(route) \in {NoPolicy, Policies[first]} /\ (hits = {} => resolve_policy(route) = NoPolicy)
  BY DEF resolve_policy, FirstMatch, Policies
<1>2. CASE hits # {}
  <2>1. hits \subseteq 1 .. 18 /\ hits \subseteq Nat
    BY Table
  <2>2. first \in hits
    <3> HIDE DEF hits
    <3> QED BY <1>2, <2>1, MinExists
  <2> QED BY <1>1, <2>1, <2>2
<1> QED BY <1>1, <1>2

LEMMA ScaledNat ==
  ASSUME NEW v \in Nat PROVE Scaled(v) \in Nat
<1>1. Scale[1] \in Int /\ Scale[2] \in Nat \ {0}
  BY TimeAssumption
<1>2. v * Scale[1] \in Int
  BY <1>1
<1>3. \A a \in Int, b \in Nat \ {0} : a \div b \in Int
  OBVIOUS
<1>4. (v * Scale[1]) \div Scale[2] \in Int
  BY <1>1, <1>2, <1>3
<1> QED BY <1>4 DEF Scaled

-----------------------------------------------------------------------------
(* The checks *)

DimLimits(policy, dim) ==
  CASE dim = "ip" -> policy.ip
    [] dim = "session" -> policy.session
    [] OTHER -> PrincipalLimits(policy)

LEMMA CheckIsGood ==
  ASSUME NEW cat \in Categories, NEW dim \in Dimensions, NEW id \in Ids,
         NEW limits \in Nat \X Nat,
         limits = DimLimits(get_policy_by_category(cat), dim)
  PROVE  Check(get_policy_by_category(cat), dim, id, limits) \in GoodChecks
<1> DEFINE policy == get_policy_by_category(cat)
           c == Check(policy, dim, id, limits)
<1>1. GoodPolicy(policy) /\ policy.category = cat
  BY CategoryPolicy
<1>2. EffectiveFailMode(policy) \in {"open", "closed"}
  BY <1>1 DEF EffectiveFailMode, GoodPolicy
<1>3. Scaled(limits[1]) \in Nat /\ Scaled(limits[2]) \in Nat
  BY ScaledNat
<1> HIDE DEF policy
<1>4. /\ c.dim = dim /\ c.id = id /\ c.cat = cat
      /\ c.sustained = Scaled(limits[1]) /\ c.burst = Scaled(limits[2])
  BY <1>1 DEF Check
<1>5. c \in CheckSet
  BY <1>1, <1>2, <1>3 DEF Check, CheckSet, Dimensions
<1>6. ASSUME NEW win \in Windows PROVE LimitOf(Key(win, c, 0)) = Limit(c, win)
  <2> HIDE DEF c
  <2>1. LimitOf(Key(win, c, 0)) = Scaled(limits[IF win = "burst" THEN 2 ELSE 1])
    BY <1>4 DEF LimitOf, Key, DimLimits, policy
  <2> QED BY <1>4, <2>1 DEF Limit, Windows
<1> QED BY <1>5, <1>6 DEF GoodChecks, policy

LEMMA NoneIsId == None \in Ids /\ "s" \in Ids
BY DEF Ids

(* The dependency's checks *)
LEMMA DependencyGood ==
  ASSUME NEW cat \in Categories, NEW who \in Principals, NEW sid \in {"s", None}
  PROVE  enforce_authenticated_limits(cat, who, sid) \in Seq(GoodChecks)
<1> DEFINE policy == get_policy_by_category(cat)
           a == check_org(policy, who.org)
           b == check_session(policy, sid)
           c == check_principal(policy, "user", who.user)
           d == check_principal(policy, "api_key", who.key)
<1>1. GoodPolicy(policy)
  BY CategoryPolicy
<1>2. {who.org, who.user, who.key, sid} \subseteq Ids
  BY NoneIsId DEF Ids
<1>3. \A x \in GoodChecks : <<x>> \in Seq(GoodChecks)
  OBVIOUS
<1>4. <<>> \in Seq(GoodChecks)
  OBVIOUS
<1>5. a \in Seq(GoodChecks)
  <2>1. CASE policy.org # <<>>
    <3>1. policy.org \in Nat \X Nat /\ policy.org = DimLimits(policy, "org")
      BY <1>1, <2>1 DEF GoodPolicy, Limits, DimLimits, PrincipalLimits
    <3>2. Check(policy, "org", who.org, policy.org) \in GoodChecks
      BY <1>2, <3>1, CheckIsGood DEF Dimensions
    <3> QED BY <1>3, <2>1, <3>2 DEF check_org
  <2> QED BY <1>4, <2>1 DEF check_org
<1>6. b \in Seq(GoodChecks)
  <2>1. CASE policy.session # <<>> /\ sid # None
    <3>1. policy.session \in Nat \X Nat /\ policy.session = DimLimits(policy, "session")
      BY <1>1, <2>1 DEF GoodPolicy, Limits, DimLimits
    <3>2. Check(policy, "session", sid, policy.session) \in GoodChecks
      BY <1>2, <3>1, CheckIsGood DEF Dimensions
    <3> QED BY <1>3, <2>1, <3>2 DEF check_session
  <2> QED BY <1>4, <2>1 DEF check_session
<1>7. PrincipalLimits(policy) \in Nat \X Nat
  BY <1>1 DEF GoodPolicy, Limits, PrincipalLimits
<1>8. \A dim \in {"user", "api_key"} : PrincipalLimits(policy) = DimLimits(policy, dim)
  BY DEF DimLimits
<1>9. ASSUME NEW dim \in {"user", "api_key"}, NEW id \in Ids
      PROVE  check_principal(policy, dim, id) \in Seq(GoodChecks)
  <2>1. Check(policy, dim, id, PrincipalLimits(policy)) \in GoodChecks
    BY <1>7, <1>8, CheckIsGood DEF Dimensions
  <2> QED BY <1>3, <1>4, <2>1 DEF check_principal
<1>10. c \in Seq(GoodChecks) /\ d \in Seq(GoodChecks)
  BY <1>2, <1>9
<1> HIDE DEF a, b, c, d
<1>11. a \o b \o c \o d \in Seq(GoodChecks)
  BY <1>5, <1>6, <1>10, ConcatProperties
<1> QED BY <1>11 DEF enforce_authenticated_limits, a, b, c, d

(* The middleware's check *)
LEMMA TableIpGood ==
  ASSUME NEW i \in 1 .. 18, NEW ip \in IPs
  PROVE  check_ip(Policies[i], ip) \in Seq(GoodChecks)
<1>1. /\ Category[i] \in Categories /\ get_policy_by_category(Category[i]) = Policies[i]
      /\ GoodPolicy(Policies[i]) /\ ip \in Ids
  BY InTable, PolicyOf, Table DEF Ids
<1>2. Policies[i].ip \in Nat \X Nat /\ Policies[i].ip = DimLimits(Policies[i], "ip")
  BY <1>1 DEF GoodPolicy, DimLimits
<1>3. Check(Policies[i], "ip", ip, Policies[i].ip) \in GoodChecks
  BY <1>1, <1>2, CheckIsGood DEF Dimensions
<1> QED BY <1>3 DEF check_ip

LEMMA VoiceGood ==
  ASSUME NEW ip \in IPs PROVE enforce_ws_connect_limit(ip) \in Seq(VoiceChecks)
<1>1. PICK i \in 1 .. 18 : get_policy_by_category("voice_ws") = Policies[i]
  BY RouteCategories, CategoryPolicy
<1>2. check_ip(Policies[i], ip) \in Seq(GoodChecks)
  BY TableIpGood
<1>3. Check(Policies[i], "ip", ip, Policies[i].ip) \in GoodChecks
  BY <1>2 DEF check_ip
<1>4. Check(Policies[i], "ip", ip, Policies[i].ip).mode = EffectiveFailMode(Policies[i])
  BY DEF Check
<1>5. Check(Policies[i], "ip", ip, Policies[i].ip) \in VoiceChecks
  BY <1>1, <1>3, <1>4 DEF VoiceChecks
<1> QED BY <1>1, <1>5 DEF enforce_ws_connect_limit, check_ip

LEMMA ChecksGood ==
  ASSUME NEW name \in Traffic, NEW ip \in IPs, NEW who \in Principals \cup {Anonymous}
  PROVE  /\ ChecksOf(name, ip, who) \in Seq(GoodChecks)
         /\ name = "voice" => ChecksOf(name, ip, who) \in Seq(VoiceChecks)
<1>1. <<>> \in Seq(GoodChecks) /\ <<>> \in Seq(VoiceChecks)
  OBVIOUS
<1>2. Seq(VoiceChecks) \subseteq Seq(GoodChecks)
  BY DEF VoiceChecks
<1>3. MiddlewareChecks(RouteOf[name], ip) \in Seq(GoodChecks)
  BY <1>1, Resolved, TableIpGood DEF MiddlewareChecks
<1>4. DependencyChecks(RouteOf[name], who) \in Seq(GoodChecks)
  <2>1. RouteOf[name].dep \in Categories \cup {None} /\ RouteOf[name].session \in {"s", None}
    BY RouteCategories, TrafficAssumption
  <2> QED BY <1>1, <2>1, DependencyGood DEF DependencyChecks
<1>5. MiddlewareChecks(RouteOf[name], ip) \o DependencyChecks(RouteOf[name], who) \in Seq(GoodChecks)
  BY <1>3, <1>4, ConcatProperties
<1>6. enforce_ws_connect_limit(ip) \in Seq(VoiceChecks)
  BY VoiceGood
<1> QED BY <1>1, <1>2, <1>5, <1>6 DEF ChecksOf

-----------------------------------------------------------------------------
(* Keys and counts *)

WindowOf(win) == IF win = "burst" THEN BurstWindow ELSE SustainedWindow

LEMMA Times ==
  /\ BurstWindow \in Nat \ {0} /\ SustainedWindow \in Nat \ {0}
  /\ BurstTtl \in Nat \ {0} /\ SustainedTtl \in Nat \ {0} /\ Horizon \in Nat
  /\ Never \in Nat /\ \A win : Ttl(win) \in Nat \ {0} /\ Horizon + Ttl(win) <= Never
<1>1. /\ BurstWindow \in Nat \ {0} /\ SustainedWindow \in Nat \ {0}
      /\ BurstTtl \in Nat \ {0} /\ SustainedTtl \in Nat \ {0} /\ Horizon \in Nat
  BY TimeAssumption
<1> QED BY <1>1 DEF Never, Ttl

LEMMA KeyFacts ==
  ASSUME NEW win \in Windows, NEW c \in GoodChecks, NEW t \in Nat
  PROVE  /\ Key(win, c, t) \in AllKeys /\ Key(win, c, t).win = win
         /\ WindowStart(Key(win, c, t)) \in Nat /\ WindowStart(Key(win, c, t)) <= t
         /\ LimitOf(Key(win, c, t)) = Limit(c, win) /\ Limit(c, win) \in Nat
<1> DEFINE k == Key(win, c, t)
           w == WindowOf(win)
           bucket == t \div w
<1>1. w \in Nat \ {0}
  BY Times DEF WindowOf
<1>2. \A v \in Nat \ {0} : t \div v \in Nat /\ (t \div v) * v <= t /\ (t \div v) * v \in Nat
  OBVIOUS
<1>3. c \in CheckSet
  BY DEF GoodChecks
<1>4. /\ k.win = win /\ k.dim = c.dim /\ k.id = c.id /\ k.cat = c.cat /\ k.bucket = bucket
      /\ k = [win |-> win, dim |-> c.dim, id |-> c.id, cat |-> c.cat, bucket |-> bucket]
  BY DEF Key, WindowOf
<1>5. bucket \in Nat /\ bucket * w <= t /\ bucket * w \in Nat
  BY <1>1, <1>2
<1> HIDE DEF k, w, bucket
<1>6. k \in AllKeys
  BY <1>3, <1>4, <1>5 DEF AllKeys, CheckSet, Dimensions
<1>7. WindowStart(k) = bucket * w
  BY <1>4 DEF WindowStart, w, WindowOf
<1>8. LimitOf(k) = LimitOf(Key(win, c, 0))
  BY <1>4 DEF LimitOf, Key
<1>9. LimitOf(Key(win, c, 0)) = Limit(c, win)
  BY DEF GoodChecks
<1>10. Limit(c, win) \in Nat
  BY <1>3 DEF Limit, CheckSet
<1> QED BY <1>4, <1>5, <1>6, <1>7, <1>8, <1>9, <1>10 DEF k

(* What one request holds of a key *)
In(s, k) == IF Holds(s, k) THEN 1 ELSE 0

SameButFor(f, g, r) == \A q \in Reqs : q # r => g[q] = f[q]

LEMMA HoldersStep ==
  ASSUME NEW f, NEW g, NEW r \in Reqs, NEW k, SameButFor(f, g, r)
  PROVE  /\ Cardinality(HoldersIn(f, k)) \in Nat /\ Cardinality(HoldersIn(g, k)) \in Nat
         /\ Cardinality(HoldersIn(g, k)) + In(f[r], k) = Cardinality(HoldersIn(f, k)) + In(g[r], k)
<1> DEFINE R == {q \in Reqs : q # r /\ Holds(f[q], k)}
           F == HoldersIn(f, k)
           G == HoldersIn(g, k)
<1>1. IsFiniteSet(Reqs)
  BY TimeAssumption
<1>2. R \subseteq Reqs /\ r \notin R
  OBVIOUS
<1>3. F = IF Holds(f[r], k) THEN R \cup {r} ELSE R
  BY DEF HoldersIn
<1>4. G = IF Holds(g[r], k) THEN R \cup {r} ELSE R
  BY DEF HoldersIn, SameButFor
<1> HIDE DEF R, F, G
<1>5. IsFiniteSet(R) /\ Cardinality(R) \in Nat
  BY <1>1, <1>2, FS_Subset, FS_CardinalityType
<1>6. Cardinality(R \cup {r}) = Cardinality(R) + 1
  BY <1>2, <1>5, FS_AddElement
<1>7. Cardinality(F) = Cardinality(R) + In(f[r], k)
  BY <1>3, <1>5, <1>6 DEF In
<1>8. Cardinality(G) = Cardinality(R) + In(g[r], k)
  BY <1>4, <1>5, <1>6 DEF In
<1>9. In(f[r], k) \in Nat /\ In(g[r], k) \in Nat
  BY DEF In
<1> QED BY <1>5, <1>7, <1>8, <1>9 DEF F, G

LEMMA CountType ==
  ASSUME RedisInv, NEW k PROVE Count(k) \in Nat
BY DEF RedisInv, Count

LEMMA IncrFacts ==
  ASSUME RedisInv, NEW h \in AllKeys, WindowStart(h) \in Nat, WindowStart(h) <= Horizon, Incr(h)
  PROVE  /\ RedisInv'
         /\ \A k : (Count(k))' = IF k = h THEN Count(k) + 1 ELSE Count(k)
<1>1. \A k : Count(k) \in Nat
  BY CountType
<1>2. Never \in Nat /\ Horizon + Ttl(h.win) <= Never /\ Horizon \in Nat /\ Ttl(h.win) \in Nat
  BY Times
<1>3. WindowStart(h) + Ttl(h.win) <= Never
  BY <1>2
<1>4. /\ DOMAIN redis' = DOMAIN redis \cup {h}
      /\ \A k \in DOMAIN redis' :
           redis'[k] = IF k # h THEN redis[k]
                       ELSE [n |-> Count(h) + 1, exp |-> IF h \in DOMAIN redis THEN redis[h].exp ELSE Never]
      /\ redis' = [k \in DOMAIN redis' |-> redis'[k]]
  BY DEF Incr
<1>5. Count(h) + 1 \in Nat
  BY <1>1
<1>6. ASSUME NEW k \in DOMAIN redis'
      PROVE  /\ redis'[k] \in [n : Nat, exp : Nat] /\ k \in AllKeys
             /\ redis'[k].exp >= WindowStart(k) + Ttl(k.win)
  <2>1. CASE k # h
    BY <1>4, <2>1 DEF RedisInv
  <2>2. CASE k = h /\ h \in DOMAIN redis
    BY <1>4, <1>5, <2>2 DEF RedisInv
  <2>3. CASE k = h /\ h \notin DOMAIN redis
    BY <1>2, <1>3, <1>4, <1>5, <2>3
  <2> QED BY <2>1, <2>2, <2>3
<1>7. redis' \in [DOMAIN redis' -> [n : Nat, exp : Nat]]
  BY <1>4, <1>6
<1>8. RedisInv'
  BY <1>6, <1>7 DEF RedisInv, WindowStart, Ttl
<1>9. ASSUME NEW k PROVE (Count(k))' = IF k = h THEN Count(k) + 1 ELSE Count(k)
  BY <1>4 DEF Count
<1> QED BY <1>8, <1>9

LEMMA ExpireFacts ==
  ASSUME RedisInv, NEW h, NEW ttl \in Nat, ttl = Ttl(h.win), now \in Nat,
         WindowStart(h) \in Nat, WindowStart(h) <= now, Expire(h, ttl)
  PROVE  RedisInv' /\ \A k : (Count(k))' = Count(k)
<1>1. /\ DOMAIN redis' = DOMAIN redis
      /\ \A k \in DOMAIN redis :
           redis'[k] = IF k = h THEN [redis[k] EXCEPT !.exp = now + ttl] ELSE redis[k]
      /\ redis' = [k \in DOMAIN redis' |-> redis'[k]]
  BY DEF Expire
<1>2. now + ttl \in Nat /\ now + ttl >= WindowStart(h) + Ttl(h.win)
  OBVIOUS
<1>3. ASSUME NEW k \in DOMAIN redis
      PROVE  /\ redis'[k] \in [n : Nat, exp : Nat] /\ k \in AllKeys /\ redis'[k].n = redis[k].n
             /\ redis'[k].exp >= WindowStart(k) + Ttl(k.win)
  BY <1>1, <1>2 DEF RedisInv
<1>4. redis' \in [DOMAIN redis' -> [n : Nat, exp : Nat]]
  BY <1>1, <1>3
<1>5. RedisInv'
  BY <1>1, <1>3, <1>4 DEF RedisInv, WindowStart, Ttl
<1>6. ASSUME NEW k PROVE (Count(k))' = Count(k)
  BY <1>1, <1>3 DEF Count
<1> QED BY <1>5, <1>6

-----------------------------------------------------------------------------
(* A step of one request *)

LEMMA PassedType ==
  ASSUME PassedInv, NEW k PROVE Passed(k) \in Nat
BY DEF PassedInv, Passed

(* Either what the request has of k does not grow, or it grows by one with *)
(* the count, and the count is not above the limit.                        *)
Accounted(s, r, k) ==
  \/ (Passed(k))' + In(s, k) <= Passed(k) + In(req[r], k) /\ (Count(k))' >= Count(k)
  \/ /\ (Passed(k))' + In(s, k) <= Passed(k) + In(req[r], k) + 1
     /\ (Count(k))' = Count(k) + 1
     /\ LimitOf(k) \in Nat => Count(k) + 1 <= LimitOf(k)

LEMMA Facts ==
  ASSUME IndInv, NEW r \in Reqs
  PROVE  /\ req[r] \in Request /\ ReqInv(req[r], now)
         /\ now \in Nat /\ now <= Horizon /\ Horizon \in Nat
         /\ req \in [Reqs -> Request] /\ RedisInv /\ PassedInv
BY Times DEF IndInv, TypeOK, PassedInv, RedisInv

LEMMA StepKeeps ==
  ASSUME IndInv, NEW r \in Reqs, NEW s \in Request, req' = [req EXCEPT ![r] = s], now' = now,
         ReqInv(s, now), RedisInv', PassedInv', \A k \in AllKeys : Accounted(s, r, k)
  PROVE  IndInv'
<1>1. req \in [Reqs -> Request] /\ RedisInv /\ PassedInv
  BY Facts
<1>2. req' \in [Reqs -> Request] /\ req'[r] = s /\ \A q \in Reqs : q # r => req'[q] = req[q]
  BY <1>1
<1>3. TypeOK'
  BY <1>2 DEF TypeOK, IndInv, RedisInv, PassedInv
<1>4. ASSUME NEW q \in Reqs PROVE ReqInv(req'[q], now')
  BY <1>2 DEF IndInv
<1>5. ASSUME NEW k \in AllKeys PROVE KeyInv(k)'
  <2> DEFINE h == Cardinality(Holders(k))
             h1 == Cardinality(HoldersIn(req', k))
  <2>1. h \in Nat /\ h1 \in Nat /\ h1 + In(req[r], k) = h + In(s, k)
    <3> DEFINE f == req
               g == req'
    <3>1. SameButFor(f, g, r) /\ g[r] = s
      BY <1>2 DEF SameButFor
    <3> HIDE DEF f, g
    <3>2. /\ Cardinality(HoldersIn(f, k)) \in Nat /\ Cardinality(HoldersIn(g, k)) \in Nat
          /\ Cardinality(HoldersIn(g, k)) + In(f[r], k) = Cardinality(HoldersIn(f, k)) + In(g[r], k)
      BY <3>1, HoldersStep
    <3> QED BY <3>1, <3>2 DEF f, g, Holders
  <2>2. /\ Passed(k) \in Nat /\ (Passed(k))' \in Nat /\ Count(k) \in Nat /\ (Count(k))' \in Nat
    BY <1>1, PassedType, CountType DEF PassedInv, RedisInv, Passed, Count
  <2>3. In(req[r], k) \in Nat /\ In(s, k) \in Nat
    BY DEF In
  <2>4. KeyInv(k)
    BY DEF IndInv
  <2>5. Cardinality(Holders(k)') = h1
    BY DEF Holders
  <2>6. Open(k)' <=> Open(k)
    BY DEF Open, WindowStart, Ttl
  <2>7. ASSUME Open(k)
        PROVE  /\ (Passed(k))' + h1 <= (Count(k))'
               /\ LimitOf(k) \in Nat => (Passed(k))' + h1 <= LimitOf(k)
    <3>1. Passed(k) + h <= Count(k) /\ (LimitOf(k) \in Nat => Passed(k) + h <= LimitOf(k))
      BY <2>4, <2>7 DEF KeyInv
    <3>2. Accounted(s, r, k)
      OBVIOUS
    <3> HIDE DEF h, h1
    <3> QED BY <2>1, <2>2, <2>3, <3>1, <3>2 DEF Accounted
  <2> HIDE DEF h1
  <2>8. LimitOf(k)' = LimitOf(k)
    OBVIOUS
  <2> QED BY <2>5, <2>6, <2>7, <2>8 DEF KeyInv
<1> QED BY <1>3, <1>4, <1>5 DEF IndInv, PassedInv

(* The check at the head of a request that is being limited *)
Limiting == {"burst", "expire burst", "sustained", "expire sustained"}

LEMMA HeadFacts ==
  ASSUME IndInv, NEW r \in Reqs, req[r].pc \in Limiting
  PROVE  /\ Head(req[r].todo) \in GoodChecks /\ Tail(req[r].todo) \in Seq(GoodChecks)
         /\ Len(req[r].todo) = Len(Tail(req[r].todo)) + 1 /\ Len(Tail(req[r].todo)) \in Nat
         /\ req[r].name = "voice" =>
              Head(req[r].todo) \in VoiceChecks /\ Tail(req[r].todo) \in Seq(VoiceChecks)
<1> DEFINE todo == req[r].todo
<1>1. todo \in Seq(GoodChecks) /\ (req[r].name = "voice" => todo \in Seq(VoiceChecks)) /\ todo # <<>>
  BY Facts DEF ReqInv, Limiting
<1> HIDE DEF todo
<1>2. Head(todo) \in GoodChecks /\ Tail(todo) \in Seq(GoodChecks) /\ Len(Tail(todo)) = Len(todo) - 1
  BY <1>1, HeadTailProperties
<1>3. req[r].name = "voice" => Head(todo) \in VoiceChecks /\ Tail(todo) \in Seq(VoiceChecks)
  BY <1>1, HeadTailProperties
<1>4. Len(todo) \in Nat /\ Len(Tail(todo)) \in Nat
  BY <1>1, <1>2, LenProperties
<1>5. Len(todo) = Len(Tail(todo)) + 1
  BY <1>2, <1>4
<1> QED BY <1>2, <1>3, <1>4, <1>5 DEF todo

(* The keys of that check *)
LEMMA HeadKeys ==
  ASSUME IndInv, NEW r \in Reqs, req[r].pc \in Limiting, NEW win \in Windows,
         NEW k, k = Key(win, Head(req[r].todo), req[r].at)
  PROVE  /\ k \in AllKeys /\ k.win = win /\ WindowStart(k) \in Nat
         /\ WindowStart(k) <= now /\ WindowStart(k) <= Horizon
         /\ LimitOf(k) = Limit(Head(req[r].todo), win) /\ LimitOf(k) \in Nat
<1>1. req[r].at \in Nat /\ req[r].at <= now /\ now \in Nat /\ now <= Horizon /\ Horizon \in Nat
  BY Facts DEF Request, ReqInv
<1> DEFINE at == req[r].at
<1> HIDE DEF at
<1>2. /\ k \in AllKeys /\ k.win = win /\ WindowStart(k) \in Nat /\ WindowStart(k) <= at
      /\ LimitOf(k) = Limit(Head(req[r].todo), win) /\ LimitOf(k) \in Nat
  BY <1>1, HeadFacts, KeyFacts DEF at
<1>3. WindowStart(k) <= now /\ WindowStart(k) <= Horizon
  BY <1>1, <1>2 DEF at
<1> QED BY <1>2, <1>3

LEMMA RequestFields ==
  ASSUME NEW x \in Request
  PROVE  /\ x.name \in Traffic \cup {None} /\ x.todo \in Seq(CheckSet) /\ x.need \in Nat
         /\ x.counted \in Nat /\ x.at \in Nat /\ x.hit \in Nat
         /\ x.answer \in {None, "200", "429", "503", "1008"}
BY DEF Request

LEMMA GoodSeq ==
  ASSUME NEW q \in Seq(GoodChecks) PROVE q \in Seq(CheckSet)
BY DEF GoodChecks

(* A request that has answered or goes on to its next check holds nothing. *)
LEMMA NothingHeld ==
  ASSUME NEW s, s.pc \in {"idle", "clock", "burst", "done"}, NEW k PROVE In(s, k) = 0
BY DEF In, Holds

LEMMA AnsweredFacts ==
  ASSUME IndInv, NEW r \in Reqs, req[r].pc \in Limiting, NEW a \in {"429", "503", "1008"}
  PROVE  /\ Answered(r, a) \in Request /\ ReqInv(Answered(r, a), now)
         /\ \A k : In(Answered(r, a), k) = 0
<1> DEFINE s == Answered(r, a)
<1>1. req[r] \in Request /\ ReqInv(req[r], now) /\ now \in Nat
  BY Facts
<1>2. <<>> \in Seq(CheckSet) /\ <<>> \in Seq(GoodChecks) /\ <<>> \in Seq(VoiceChecks)
  OBVIOUS
<1>3. s \in Request
  BY <1>1, <1>2 DEF Answered, Request
<1>4. /\ s.pc = "done" /\ s.todo = <<>> /\ s.at = 0 /\ s.hit = 0 /\ s.answer = a
      /\ s.name = req[r].name
  BY <1>1 DEF Answered, Request
<1> HIDE DEF s
<1>5. s.at <= now /\ s.answer # "200"
  BY <1>1, <1>4
<1>6. s.todo \in Seq(GoodChecks) /\ s.todo \in Seq(VoiceChecks)
  BY <1>2, <1>4
<1>7. ReqInv(s, now)
  BY <1>4, <1>5, <1>6, Zenon DEF ReqInv
<1>8. \A k : In(s, k) = 0
  BY <1>4, NothingHeld
<1> QED BY <1>3, <1>7, <1>8 DEF s

LEMMA ProceedFacts ==
  ASSUME IndInv, NEW r \in Reqs, req[r].pc \in Limiting, NEW n \in Nat,
         n = 1 \/ ~FailsClosed(req[r].name)
  PROVE  /\ Proceed(r, n) \in Request /\ ReqInv(Proceed(r, n), now)
         /\ \A k : In(Proceed(r, n), k) = 0
<1> DEFINE s == Proceed(r, n)
           rest == Tail(req[r].todo)
           m == req[r].counted + n
<1>1. req[r] \in Request /\ ReqInv(req[r], now) /\ now \in Nat
  BY Facts
<1>2. /\ rest \in Seq(GoodChecks) /\ Len(req[r].todo) = Len(rest) + 1 /\ Len(rest) \in Nat
      /\ req[r].name = "voice" => rest \in Seq(VoiceChecks)
  BY HeadFacts
<1>3. rest \in Seq(CheckSet)
  BY <1>2, GoodSeq
<1>4. m \in Nat
  BY <1>1, RequestFields
<1> HIDE DEF rest, m
<1>5. /\ s.pc = (IF rest = <<>> THEN "done" ELSE "clock") /\ s.todo = rest /\ s.counted = m
      /\ s.at = 0 /\ s.hit = 0 /\ s.answer = (IF rest = <<>> THEN "200" ELSE None)
      /\ s.name = req[r].name /\ s.need = req[r].need
  BY <1>1 DEF Proceed, Request, rest, m
<1>6. s \in Request
  <2>1. s = [req[r] EXCEPT !.pc = IF rest = <<>> THEN "done" ELSE "clock",
                           !.todo = rest, !.counted = m, !.at = 0, !.hit = 0,
                           !.answer = IF rest = <<>> THEN "200" ELSE None]
    BY DEF Proceed, rest, m
  <2> HIDE DEF s
  <2> QED BY <1>1, <1>3, <1>4, <2>1 DEF Request
<1> HIDE DEF s
<1>7. s.pc \in {"done", "clock"}
  BY <1>5
<1>8. ASSUME FailsClosed(s.name) PROVE s.counted + Len(s.todo) = s.need
  <2>1. n = 1 /\ m = req[r].counted + 1
    BY <1>5, <1>8 DEF m
  <2>2. req[r].counted + Len(req[r].todo) = req[r].need
    BY <1>1, <1>5, <1>8 DEF ReqInv, Limiting
  <2>3. req[r].counted \in Nat
    BY <1>1 DEF Request
  <2> QED BY <1>2, <1>5, <2>1, <2>2, <2>3
<1>9. s.at <= now
  BY <1>1, <1>5
<1>10. s.todo \in Seq(GoodChecks) /\ (s.name = "voice" => s.todo \in Seq(VoiceChecks))
  BY <1>2, <1>5
<1>11. /\ s.pc = "done" => s.todo = <<>>
       /\ s.pc = "clock" => s.todo # <<>>
       /\ s.answer = "200" => s.pc = "done"
  BY <1>5 DEF None
<1>12. ReqInv(s, now)
  BY <1>7, <1>8, <1>9, <1>10, <1>11, Zenon DEF ReqInv
<1>13. \A k : In(s, k) = 0
  BY <1>7, NothingHeld
<1> QED BY <1>6, <1>12, <1>13 DEF s

(* A check that passes had its place in a window or gets it in this step. *)
HasPlace(r, win) ==
  \A k : k = Key(win, Head(req[r].todo), req[r].at) =>
    In(req[r], k) = 1 \/ ((Count(k))' = Count(k) + 1 /\ Count(k) + 1 <= LimitOf(k))

LEMMA DecideKeeps ==
  ASSUME IndInv, NEW r \in Reqs, req[r].pc \in Limiting, NEW over \in BOOLEAN, Decide(r, over),
         now' = now, RedisInv', \A k : (Count(k))' >= Count(k),
         ~over => \A win \in Windows : HasPlace(r, win)
  PROVE  IndInv'
<1> DEFINE c == Head(req[r].todo)
           ks == {Key(win, c, req[r].at) : win \in Windows}
<1>1. /\ RedisInv /\ PassedInv /\ \A k : Count(k) \in Nat /\ Passed(k) \in Nat
      /\ \A k : In(req[r], k) \in Nat
  BY Facts, CountType, PassedType DEF In
<1>2. CASE over
  <2>1. BlockedAnswer(req[r].name) \in {"429", "503", "1008"}
    BY DEF BlockedAnswer
  <2> DEFINE s == Answered(r, BlockedAnswer(req[r].name))
  <2>2. s \in Request /\ ReqInv(s, now) /\ \A k : In(s, k) = 0
    BY <2>1, AnsweredFacts
  <2>3. req' = [req EXCEPT ![r] = s] /\ passed' = passed
    BY <1>2 DEF Decide
  <2> HIDE DEF s
  <2>4. PassedInv' /\ \A k : (Passed(k))' = Passed(k)
    BY <1>1, <2>3 DEF PassedInv, Passed
  <2>5. \A k \in AllKeys : Accounted(s, r, k)
    BY <1>1, <2>2, <2>4 DEF Accounted
  <2> QED BY <2>2, <2>3, <2>4, <2>5, StepKeeps
<1>3. CASE ~over
  <2> DEFINE s == Proceed(r, 1)
  <2>1. s \in Request /\ ReqInv(s, now) /\ \A k : In(s, k) = 0
    BY ProceedFacts
  <2>2. /\ req' = [req EXCEPT ![r] = s]
        /\ passed' = [k \in DOMAIN passed \cup ks |->
                        (IF k \in DOMAIN passed THEN passed[k] ELSE 0) + (IF k \in ks THEN 1 ELSE 0)]
    BY <1>3 DEF Decide, Windows
  <2>3. \A k \in ks : k \in AllKeys /\ LimitOf(k) \in Nat
    BY HeadKeys
  <2>4. ASSUME NEW k \in ks
        PROVE  In(req[r], k) = 1 \/ ((Count(k))' = Count(k) + 1 /\ Count(k) + 1 <= LimitOf(k))
    <3>1. PICK win \in Windows : k = Key(win, c, req[r].at)
      OBVIOUS
    <3>2. HasPlace(r, win)
      BY <1>3
    <3> QED BY <3>1, <3>2, Zenon DEF HasPlace
  <2> HIDE DEF s, ks
  <2>5. /\ DOMAIN passed' = DOMAIN passed \cup ks
        /\ \A k \in DOMAIN passed' : passed'[k] = Passed(k) + (IF k \in ks THEN 1 ELSE 0)
        /\ passed' = [k \in DOMAIN passed' |-> passed'[k]]
    BY <2>2 DEF Passed
  <2>6. PassedInv'
    <3>1. \A k \in DOMAIN passed' : passed'[k] \in Nat
      BY <1>1, <2>5
    <3>2. \A k \in DOMAIN passed' : k \in AllKeys /\ LimitOf(k) \in Nat
      BY <1>1, <2>3, <2>5 DEF PassedInv
    <3> QED BY <2>5, <3>1, <3>2 DEF PassedInv
  <2>7. \A k : (Passed(k))' = Passed(k) + (IF k \in ks THEN 1 ELSE 0)
    BY <2>5, <1>1 DEF Passed
  <2>8. ASSUME NEW k \in AllKeys PROVE Accounted(s, r, k)
    <3>1. /\ Count(k) \in Nat /\ Passed(k) \in Nat /\ In(req[r], k) \in Nat /\ In(s, k) = 0
          /\ (Count(k))' >= Count(k)
      BY <1>1, <2>1
    <3>2. CASE k \in ks
      BY <2>4, <2>7, <3>1, <3>2 DEF Accounted
    <3>3. CASE k \notin ks
      BY <2>7, <3>1, <3>3 DEF Accounted
    <3> QED BY <3>2, <3>3
  <2> QED BY <2>1, <2>2, <2>6, <2>8, StepKeeps
<1> QED BY <1>2, <1>3

-----------------------------------------------------------------------------
(* The actions *)

LEMMA Quiet ==
  ASSUME IndInv, UNCHANGED <<redis, passed>>
  PROVE  RedisInv' /\ PassedInv' /\ \A k : (Count(k))' = Count(k) /\ (Passed(k))' = Passed(k)
<1>1. RedisInv /\ PassedInv /\ redis' = redis /\ passed' = passed
  BY DEF IndInv
<1> QED BY <1>1 DEF RedisInv, PassedInv, Count, Passed

LEMMA PassedQuiet ==
  ASSUME IndInv, UNCHANGED passed
  PROVE  PassedInv' /\ \A k : (Passed(k))' = Passed(k)
<1>1. PassedInv
  BY DEF IndInv
<1> QED BY <1>1 DEF PassedInv, Passed

LEMMA Numbers ==
  ASSUME IndInv, NEW k
  PROVE  Count(k) \in Nat /\ Passed(k) \in Nat /\ \A s : In(s, k) \in {0, 1}
BY CountType, PassedType DEF IndInv, In

LEMMA ArriveKeeps ==
  ASSUME IndInv, NEW r \in Reqs, NEW name \in Traffic, NEW ip \in IPs,
         NEW who \in Principals \cup {Anonymous}, Arrive(r, name, ip, who)
  PROVE  IndInv'
<1> DEFINE todo == ChecksOf(name, ip, who)
           s == [Idle EXCEPT !.name = name, !.todo = todo, !.need = Len(todo),
                             !.pc = IF todo = <<>> THEN "done" ELSE "clock",
                             !.answer = IF todo = <<>> THEN "200" ELSE None]
<1>1. todo \in Seq(GoodChecks) /\ (name = "voice" => todo \in Seq(VoiceChecks))
  BY ChecksGood
<1>2. req[r].pc = "idle" /\ req' = [req EXCEPT ![r] = s] /\ UNCHANGED <<now, redis, passed>>
  BY DEF Arrive
<1> HIDE DEF todo
<1>3. Len(todo) \in Nat /\ todo \in Seq(CheckSet)
  BY <1>1, GoodSeq, LenProperties
<1>4. s \in Request
  BY <1>3 DEF Idle, Request, None
<1>5. /\ s.pc = (IF todo = <<>> THEN "done" ELSE "clock") /\ s.name = name /\ s.todo = todo
      /\ s.need = Len(todo) /\ s.counted = 0 /\ s.at = 0 /\ s.hit = 0
      /\ s.answer = (IF todo = <<>> THEN "200" ELSE None)
  BY DEF Idle
<1> HIDE DEF s
<1>6. s.at <= now /\ s.counted + Len(s.todo) = s.need
  BY <1>3, <1>5, Facts
<1>7. /\ s.pc \in {"clock", "done"} /\ (s.pc = "done" => s.todo = <<>>)
      /\ (s.pc = "clock" => s.todo # <<>>) /\ (s.answer = "200" => s.pc = "done")
  BY <1>5 DEF None
<1>8. s.todo \in Seq(GoodChecks) /\ (s.name = "voice" => s.todo \in Seq(VoiceChecks))
  BY <1>1, <1>5
<1>9. ReqInv(s, now)
  BY <1>6, <1>7, <1>8, Zenon DEF ReqInv
<1>10. \A k : In(s, k) = 0 /\ In(req[r], k) = 0
  BY <1>2, <1>7, NothingHeld
<1>11. \A k \in AllKeys : Accounted(s, r, k)
  BY <1>2, <1>10, Quiet, Numbers DEF Accounted
<1> QED BY <1>2, <1>4, <1>9, <1>11, Quiet, StepKeeps

LEMMA ReadClockKeeps ==
  ASSUME IndInv, NEW r \in Reqs, ReadClock(r) PROVE IndInv'
<1> DEFINE s == [req[r] EXCEPT !.pc = "burst", !.at = now]
<1>1. req[r] \in Request /\ ReqInv(req[r], now) /\ now \in Nat /\ req \in [Reqs -> Request]
  BY Facts
<1>2. req[r].pc = "clock" /\ req' = [req EXCEPT ![r] = s] /\ UNCHANGED <<now, redis, passed>>
  BY <1>1 DEF ReadClock
<1>3. s \in Request
  BY <1>1 DEF Request
<1>4. /\ s.pc = "burst" /\ s.at = now /\ s.todo = req[r].todo /\ s.name = req[r].name
      /\ s.answer = req[r].answer /\ s.counted = req[r].counted /\ s.need = req[r].need
  BY <1>1 DEF Request
<1> HIDE DEF s
<1>5. ReqInv(s, now)
  BY <1>1, <1>2, <1>4 DEF ReqInv
<1>6. \A k : In(s, k) = 0 /\ In(req[r], k) = 0
  BY <1>2, <1>4, NothingHeld
<1>7. \A k \in AllKeys : Accounted(s, r, k)
  BY <1>2, <1>6, Quiet, Numbers DEF Accounted
<1> QED BY <1>2, <1>3, <1>5, <1>7, Quiet, StepKeeps

LEMMA IncrBurstKeeps ==
  ASSUME IndInv, NEW r \in Reqs, IncrBurst(r) PROVE IndInv'
<1> DEFINE c == Head(req[r].todo)
<1>1. req[r] \in Request /\ ReqInv(req[r], now) /\ now \in Nat /\ req \in [Reqs -> Request]
  BY Facts
<1>2. PICK h : h = Key("burst", c, req[r].at)
  OBVIOUS
<1> DEFINE n == Count(h) + 1
           pc == IF Count(h) = 0 THEN "expire burst" ELSE "sustained"
           s == [req[r] EXCEPT !.hit = n, !.pc = pc]
<1>3. /\ req[r].pc = "burst" /\ Incr(h) /\ req' = [req EXCEPT ![r] = s]
      /\ UNCHANGED <<now, passed>>
  BY <1>1, <1>2 DEF IncrBurst
<1>4. /\ h \in AllKeys /\ WindowStart(h) \in Nat /\ WindowStart(h) <= Horizon
      /\ LimitOf(h) = c.burst /\ c.burst \in Nat
  BY <1>2, <1>3, HeadKeys DEF Limiting, Windows, Limit
<1>5. RedisInv' /\ \A k : (Count(k))' = IF k = h THEN Count(k) + 1 ELSE Count(k)
  BY <1>3, <1>4, IncrFacts DEF IndInv
<1>6. n \in Nat /\ pc \in {"expire burst", "sustained"} /\ n = Count(h) + 1
  BY Numbers
<1> HIDE DEF c, n, pc
<1>7. s \in Request
  BY <1>1, <1>6 DEF Request
<1>8. /\ s.pc = pc /\ s.hit = n /\ s.at = req[r].at /\ s.todo = req[r].todo /\ s.name = req[r].name
      /\ s.answer = req[r].answer /\ s.counted = req[r].counted /\ s.need = req[r].need
  BY <1>1 DEF Request
<1> HIDE DEF s
<1>9. ReqInv(s, now)
  BY <1>1, <1>3, <1>6, <1>8 DEF ReqInv
<1>10. \A k : In(req[r], k) = 0
  BY <1>3, NothingHeld
<1>11. \A k : Holds(s, k) <=> k = h /\ n <= c.burst
  BY <1>2, <1>6, <1>8 DEF Holds, c
<1>12. ASSUME NEW k \in AllKeys PROVE Accounted(s, r, k)
  <2>1. Count(k) \in Nat /\ Passed(k) \in Nat /\ (Passed(k))' = Passed(k) /\ In(req[r], k) = 0
    BY <1>3, <1>10, Numbers, PassedQuiet
  <2>2. CASE k = h /\ n <= c.burst
    <3>1. In(s, k) = 1
      BY <1>11, <2>2 DEF In
    <3>2. (Count(k))' = Count(k) + 1 /\ Count(k) + 1 <= LimitOf(k)
      BY <1>4, <1>5, <1>6, <2>2
    <3> QED BY <2>1, <3>1, <3>2 DEF Accounted
  <2>3. CASE ~(k = h /\ n <= c.burst)
    <3>1. In(s, k) = 0
      BY <1>11, <2>3 DEF In
    <3>2. (Count(k))' >= Count(k)
      BY <1>5, <2>1
    <3> QED BY <2>1, <3>1, <3>2 DEF Accounted
  <2> QED BY <2>2, <2>3
<1> QED BY <1>3, <1>5, <1>7, <1>9, <1>12, PassedQuiet, StepKeeps

LEMMA ExpireBurstKeeps ==
  ASSUME IndInv, NEW r \in Reqs, ExpireBurst(r) PROVE IndInv'
<1> DEFINE s == [req[r] EXCEPT !.pc = "sustained"]
<1>1. req[r] \in Request /\ ReqInv(req[r], now) /\ now \in Nat /\ req \in [Reqs -> Request]
  BY Facts
<1>2. PICK h : h = Key("burst", Head(req[r].todo), req[r].at)
  OBVIOUS
<1>3. /\ req[r].pc = "expire burst" /\ Expire(h, BurstTtl) /\ req' = [req EXCEPT ![r] = s]
      /\ UNCHANGED <<now, passed>>
  BY <1>1, <1>2 DEF ExpireBurst
<1>4. h.win = "burst" /\ WindowStart(h) \in Nat /\ WindowStart(h) <= now
  BY <1>2, <1>3, HeadKeys DEF Limiting, Windows
<1>5. BurstTtl \in Nat /\ BurstTtl = Ttl(h.win)
  BY <1>4, Times DEF Ttl
<1>6. RedisInv' /\ \A k : (Count(k))' = Count(k)
  BY <1>1, <1>3, <1>4, <1>5, ExpireFacts DEF IndInv
<1>7. s \in Request
  BY <1>1 DEF Request
<1>8. /\ s.pc = "sustained" /\ s.hit = req[r].hit /\ s.at = req[r].at /\ s.todo = req[r].todo
      /\ s.name = req[r].name /\ s.answer = req[r].answer /\ s.counted = req[r].counted
      /\ s.need = req[r].need
  BY <1>1 DEF Request
<1> HIDE DEF s
<1>9. ReqInv(s, now)
  BY <1>1, <1>3, <1>8 DEF ReqInv
<1>10. \A k : In(s, k) = In(req[r], k)
  BY <1>3, <1>8 DEF In, Holds
<1>11. ASSUME NEW k \in AllKeys PROVE Accounted(s, r, k)
  <2>1. /\ Count(k) \in Nat /\ Passed(k) \in Nat /\ In(req[r], k) \in Nat
        /\ (Count(k))' = Count(k) /\ (Passed(k))' = Passed(k) /\ In(s, k) = In(req[r], k)
    <3>1. Count(k) \in Nat /\ Passed(k) \in Nat /\ In(req[r], k) \in {0, 1}
      BY Numbers
    <3>2. (Passed(k))' = Passed(k)
      BY <1>3, PassedQuiet
    <3> QED BY <1>6, <1>10, <3>1, <3>2
  <2> QED BY <2>1 DEF Accounted
<1> QED BY <1>3, <1>6, <1>7, <1>9, <1>11, PassedQuiet, StepKeeps

LEMMA IncrSustainedKeeps ==
  ASSUME IndInv, NEW r \in Reqs, IncrSustained(r) PROVE IndInv'
<1> DEFINE c == Head(req[r].todo)
<1>1. /\ req[r] \in Request /\ ReqInv(req[r], now) /\ now \in Nat /\ req \in [Reqs -> Request]
      /\ req[r].hit \in Nat
  BY Facts, RequestFields
<1>2. PICK h : h = Key("sustained", c, req[r].at)
  OBVIOUS
<1>3. PICK b : b = Key("burst", c, req[r].at)
  OBVIOUS
<1> DEFINE over == Exceeds(req[r].hit, c.burst) \/ Exceeds(Count(h) + 1, c.sustained)
           s == [req[r] EXCEPT !.pc = "expire sustained", !.hit = IF over THEN 1 ELSE 0]
<1>4. /\ req[r].pc = "sustained" /\ Incr(h) /\ UNCHANGED now
      /\ Count(h) = 0 => req' = [req EXCEPT ![r] = s] /\ UNCHANGED passed
      /\ Count(h) # 0 => Decide(r, over)
  BY <1>1, <1>2 DEF IncrSustained
<1>5. /\ h \in AllKeys /\ WindowStart(h) \in Nat /\ WindowStart(h) <= Horizon /\ h.win = "sustained"
      /\ LimitOf(h) = c.sustained /\ c.sustained \in Nat
  BY <1>2, <1>4, HeadKeys DEF Limiting, Windows, Limit
<1>6. b.win = "burst" /\ c.burst \in Nat
  BY <1>3, <1>4, HeadKeys DEF Limiting, Windows, Limit
<1>7. RedisInv' /\ \A k : (Count(k))' = IF k = h THEN Count(k) + 1 ELSE Count(k)
  BY <1>4, <1>5, IncrFacts DEF IndInv
<1>8. \A k : Count(k) \in Nat /\ (Count(k))' >= Count(k)
  BY <1>7, Numbers
<1>9. over \in BOOLEAN /\ (~over => req[r].hit <= c.burst /\ Count(h) + 1 <= c.sustained)
  BY <1>1, <1>5, <1>6, <1>8 DEF Exceeds
<1>10. \A k : Holds(req[r], k) <=> k = b /\ req[r].hit <= c.burst
  BY <1>3, <1>4 DEF Holds
<1>11. CASE Count(h) = 0
  <2>1. s \in Request
    BY <1>1 DEF Request
  <2>2. /\ s.pc = "expire sustained" /\ s.hit = (IF over THEN 1 ELSE 0) /\ s.at = req[r].at
        /\ s.todo = req[r].todo /\ s.name = req[r].name /\ s.answer = req[r].answer
        /\ s.counted = req[r].counted /\ s.need = req[r].need
    BY <1>1 DEF Request
  <2> HIDE DEF s, over, c
  <2>3. ReqInv(s, now)
    BY <1>1, <1>4, <2>2 DEF ReqInv
  <2>4. \A k : Holds(s, k) <=> k \in {b, h} /\ ~over
    <3>1. s.hit = 0 <=> ~over
      <4>1. CASE over
        <5>1. s.hit = 1
          BY <2>2, <4>1, Zenon
        <5> QED BY <4>1, <5>1
      <4>2. CASE ~over
        BY <2>2, <4>2
      <4> QED BY <4>1, <4>2
    <3> QED BY <1>2, <1>3, <2>2, <3>1 DEF Holds, c
  <2>5. ASSUME NEW k \in AllKeys PROVE Accounted(s, r, k)
    <3>1. /\ Count(k) \in Nat /\ (Count(k))' >= Count(k) /\ Passed(k) \in Nat
          /\ (Passed(k))' = Passed(k) /\ In(req[r], k) \in Nat
      BY <1>4, <1>8, <1>11, Numbers, PassedQuiet
    <3>2. CASE over \/ k \notin {b, h}
      <4>1. In(s, k) = 0
        BY <2>4, <3>2 DEF In
      <4> QED BY <3>1, <4>1 DEF Accounted
    <3>3. CASE ~over /\ k = b
      <4>1. In(s, k) = 1 /\ In(req[r], k) = 1
        BY <1>9, <1>10, <2>4, <3>3 DEF In
      <4> QED BY <3>1, <4>1 DEF Accounted
    <3>4. CASE ~over /\ k = h
      <4>1. In(s, k) = 1 /\ (Count(k))' = Count(k) + 1 /\ Count(k) + 1 <= LimitOf(k)
        BY <1>5, <1>7, <1>9, <2>4, <3>4 DEF In
      <4> QED BY <3>1, <4>1 DEF Accounted
    <3> QED BY <3>2, <3>3, <3>4
  <2> QED BY <1>4, <1>7, <1>11, <2>1, <2>3, <2>5, PassedQuiet, StepKeeps
<1>12. CASE Count(h) # 0
  <2>1. ASSUME ~over, NEW win \in Windows PROVE HasPlace(r, win)
    <3>1. In(req[r], b) = 1
      BY <1>9, <1>10, <2>1 DEF In
    <3>2. (Count(h))' = Count(h) + 1 /\ Count(h) + 1 <= LimitOf(h)
      BY <1>5, <1>7, <1>9, <2>1
    <3>3. CASE win = "burst"
      BY <1>3, <3>1, <3>3 DEF HasPlace
    <3>4. CASE win = "sustained"
      BY <1>2, <3>2, <3>4 DEF HasPlace
    <3> QED BY <3>3, <3>4 DEF Windows
  <2> HIDE DEF over
  <2>2. req[r].pc \in Limiting /\ Decide(r, over) /\ now' = now
    BY <1>4, <1>12 DEF Limiting
  <2> QED BY <1>7, <1>8, <1>9, <2>1, <2>2, DecideKeeps
<1> QED BY <1>11, <1>12

LEMMA ExpireSustainedKeeps ==
  ASSUME IndInv, NEW r \in Reqs, ExpireSustained(r) PROVE IndInv'
<1> DEFINE c == Head(req[r].todo)
           over == req[r].hit = 1
<1>1. PICK h : h = Key("sustained", c, req[r].at)
  OBVIOUS
<1>2. /\ req[r].pc = "expire sustained" /\ Expire(h, SustainedTtl) /\ Decide(r, over) /\ now' = now
  BY <1>1 DEF ExpireSustained
<1>3. h.win = "sustained" /\ WindowStart(h) \in Nat /\ WindowStart(h) <= now
  BY <1>1, <1>2, HeadKeys DEF Limiting, Windows
<1>4. SustainedTtl \in Nat /\ SustainedTtl = Ttl(h.win)
  BY <1>3, Times DEF Ttl
<1>5. RedisInv' /\ \A k : (Count(k))' = Count(k)
  BY <1>2, <1>3, <1>4, Facts, ExpireFacts
<1>6. \A k : (Count(k))' >= Count(k)
  BY <1>5, Numbers
<1>7. req[r].hit \in {0, 1}
  BY <1>2, Facts DEF ReqInv
<1>8. ASSUME ~over, NEW win \in Windows PROVE HasPlace(r, win)
  <2>1. req[r].hit = 0
    BY <1>7, <1>8
  <2>2. \A k \in {Key("burst", c, req[r].at), Key("sustained", c, req[r].at)} : In(req[r], k) = 1
    BY <1>2, <2>1 DEF In, Holds
  <2> QED BY <2>2 DEF HasPlace, Windows
<1>9. over \in BOOLEAN /\ req[r].pc \in Limiting
  BY <1>2 DEF Limiting
<1> HIDE DEF over
<1> QED BY <1>2, <1>5, <1>6, <1>8, <1>9, DecideKeeps

(* A Redis error opens no route that is to fail closed. *)
LEMMA NextIsOpen ==
  ASSUME IndInv, NEW r \in Reqs, req[r].pc \in Limiting,
         RedisErrorAnswer(req[r].name, Head(req[r].todo).mode) = "next"
  PROVE  ~FailsClosed(req[r].name)
<1>1. req[r].name = "voice" /\ Head(req[r].todo).mode # "closed"
  BY DEF RedisErrorAnswer
<1>2. Head(req[r].todo).mode = EffectiveFailMode(get_policy_by_category("voice_ws"))
  BY <1>1, HeadFacts DEF VoiceChecks
<1> QED BY <1>1, <1>2 DEF FailsClosed

LEMMA RedisFailsKeeps ==
  ASSUME IndInv, NEW r \in Reqs, RedisFails(r) PROVE IndInv'
<1> DEFINE c == Head(req[r].todo)
           a == RedisErrorAnswer(req[r].name, c.mode)
           s == IF a = "next" THEN Proceed(r, 0) ELSE Answered(r, a)
<1>1. PICK b : b = Key("burst", c, req[r].at)
  OBVIOUS
<1>2. PICK h : h = Key("sustained", c, req[r].at)
  OBVIOUS
<1>3. /\ req[r].pc \in Limiting /\ req' = [req EXCEPT ![r] = s] /\ UNCHANGED <<now, passed>>
      /\ redis' = redis \/ Incr(b) \/ Incr(h) \/ Expire(b, BurstTtl) \/ Expire(h, SustainedTtl)
  BY <1>1, <1>2 DEF RedisFails, Limiting
<1>4. a \in {"next", "503", "1008"}
  BY DEF RedisErrorAnswer
<1>5. s \in Request /\ ReqInv(s, now) /\ \A k : In(s, k) = 0
  <2>1. CASE a = "next"
    <3>1. 0 \in Nat /\ ~FailsClosed(req[r].name)
      BY <1>3, <2>1, NextIsOpen
    <3> QED BY <1>3, <2>1, <3>1, ProceedFacts
  <2>2. CASE a # "next"
    BY <1>3, <1>4, <2>2, AnsweredFacts
  <2> QED BY <2>1, <2>2
<1>6. /\ b \in AllKeys /\ b.win = "burst" /\ WindowStart(b) \in Nat /\ WindowStart(b) <= now
      /\ WindowStart(b) <= Horizon
  BY <1>1, <1>3, HeadKeys DEF Windows
<1>7. /\ h \in AllKeys /\ h.win = "sustained" /\ WindowStart(h) \in Nat /\ WindowStart(h) <= now
      /\ WindowStart(h) <= Horizon
  BY <1>2, <1>3, HeadKeys DEF Windows
<1>8. BurstTtl \in Nat /\ BurstTtl = Ttl(b.win) /\ SustainedTtl \in Nat /\ SustainedTtl = Ttl(h.win)
  BY <1>6, <1>7, Times DEF Ttl
<1>9. RedisInv /\ now \in Nat /\ \A k : Count(k) \in Nat
  BY Facts, Numbers
<1>10. RedisInv' /\ \A k : (Count(k))' >= Count(k)
  <2>1. CASE redis' = redis
    BY <1>9, <2>1 DEF RedisInv, Count
  <2>2. CASE Incr(b)
    BY <1>6, <1>9, <2>2, IncrFacts
  <2>3. CASE Incr(h)
    BY <1>7, <1>9, <2>3, IncrFacts
  <2>4. CASE Expire(b, BurstTtl)
    BY <1>6, <1>8, <1>9, <2>4, ExpireFacts
  <2>5. CASE Expire(h, SustainedTtl)
    BY <1>7, <1>8, <1>9, <2>5, ExpireFacts
  <2> QED BY <1>3, <2>1, <2>2, <2>3, <2>4, <2>5
<1> HIDE DEF s
<1>11. ASSUME NEW k \in AllKeys PROVE Accounted(s, r, k)
  <2>1. /\ Count(k) \in Nat /\ Passed(k) \in Nat /\ In(req[r], k) \in Nat
        /\ (Passed(k))' = Passed(k) /\ In(s, k) = 0 /\ (Count(k))' >= Count(k)
    BY <1>3, <1>5, <1>10, Numbers, PassedQuiet
  <2> QED BY <2>1 DEF Accounted
<1> QED BY <1>3, <1>5, <1>10, <1>11, PassedQuiet, StepKeeps

LEMMA TickKeeps ==
  ASSUME IndInv, Tick PROVE IndInv'
<1>1. /\ now' = now + 1 /\ now < Horizon /\ req' = req /\ passed' = passed
      /\ redis' = [k \in {x \in DOMAIN redis : redis[x].exp > now'} |-> redis[k]]
  BY DEF Tick
<1>2. /\ now \in Nat /\ Horizon \in Nat /\ TypeOK /\ RedisInv /\ PassedInv
  BY Times DEF IndInv, TypeOK
<1>3. now' \in 0 .. Horizon
  BY <1>1, <1>2
<1>4. /\ DOMAIN redis' = {x \in DOMAIN redis : redis[x].exp > now'}
      /\ \A k \in DOMAIN redis' : redis'[k] = redis[k]
      /\ redis' = [k \in DOMAIN redis' |-> redis'[k]]
  BY <1>1
<1>5. RedisInv'
  BY <1>2, <1>4 DEF RedisInv, WindowStart, Ttl
<1>6. PassedInv'
  BY <1>1, <1>2 DEF PassedInv
<1>7. TypeOK'
  BY <1>1, <1>2, <1>3, <1>5, <1>6 DEF TypeOK, RedisInv, PassedInv
<1>8. ASSUME NEW r \in Reqs PROVE ReqInv(req[r], now + 1)
  <2>1. ReqInv(req[r], now) /\ req[r].at \in Nat
    BY Facts, RequestFields
  <2>2. req[r].at <= now + 1
    <3>1. req[r].at <= now
      BY <2>1 DEF ReqInv
    <3> QED BY <1>2, <2>1, <3>1
  <2> QED BY <2>1, <2>2, Zenon DEF ReqInv
<1>9. ASSUME NEW k \in AllKeys PROVE KeyInv(k)'
  <2>1. SUFFICES ASSUME Open(k)'
        PROVE  /\ (Passed(k))' + Cardinality(Holders(k)') <= (Count(k))'
               /\ LimitOf(k) \in Nat => (Passed(k))' + Cardinality(Holders(k)') <= LimitOf(k)
    BY DEF KeyInv
  <2>2. WindowStart(k) \in Int /\ Ttl(k.win) \in Nat
    BY Times DEF WindowStart, AllKeys
  <2>3. now + 1 < WindowStart(k) + Ttl(k.win)
    BY <1>1, <2>1 DEF Open, WindowStart, Ttl
  <2>4. Open(k)
    BY <1>2, <2>2, <2>3 DEF Open
  <2>5. (Count(k))' = Count(k)
    <3>1. ASSUME k \in DOMAIN redis PROVE k \in DOMAIN redis'
      <4>1. redis[k].exp \in Nat /\ redis[k].exp >= WindowStart(k) + Ttl(k.win)
        BY <1>2, <3>1 DEF RedisInv
      <4>2. redis[k].exp > now'
        BY <1>1, <1>2, <2>2, <2>3, <4>1
      <4> QED BY <1>4, <3>1, <4>2
    <3> QED BY <1>4, <3>1 DEF Count
  <2>6. (Passed(k))' = Passed(k) /\ Holders(k)' = Holders(k)
    BY <1>1 DEF Passed, Holders
  <2>7. KeyInv(k)
    BY DEF IndInv
  <2> QED BY <2>4, <2>5, <2>6, <2>7 DEF KeyInv
<1> QED BY <1>1, <1>5, <1>6, <1>7, <1>8, <1>9 DEF IndInv

LEMMA StutterKeeps ==
  ASSUME IndInv, UNCHANGED vars PROVE IndInv'
<1>1. now' = now /\ redis' = redis /\ req' = req /\ passed' = passed
  BY DEF vars
<1>2. \A k \in AllKeys : KeyInv(k)'
  BY <1>1 DEF IndInv, KeyInv, Open, Passed, Count, Holders
<1> QED BY <1>1, <1>2 DEF IndInv, TypeOK, RedisInv, PassedInv

LEMMA Starts ==
  ASSUME Init PROVE IndInv
<1>1. now = 0 /\ redis = <<>> /\ req = [r \in Reqs |-> Idle] /\ passed = <<>>
  BY DEF Init
<1>2. <<>> \in Seq(CheckSet) /\ <<>> \in Seq(GoodChecks) /\ <<>> \in Seq(VoiceChecks)
  OBVIOUS
<1>3. Idle \in Request
  BY <1>2 DEF Idle, Request
<1>4. DOMAIN redis = {} /\ DOMAIN passed = {}
  BY <1>1
<1>5. redis = [k \in {} |-> 0] /\ passed = [k \in {} |-> 0]
  BY <1>1
<1>6. RedisInv /\ PassedInv
  BY <1>4, <1>5 DEF RedisInv, PassedInv
<1>7. TypeOK
  BY <1>1, <1>3, <1>6, Times DEF TypeOK, RedisInv, PassedInv
<1>8. ReqInv(Idle, 0)
  BY <1>2 DEF ReqInv, Idle, None
<1>9. ASSUME NEW k \in AllKeys PROVE KeyInv(k)
  <2>1. Count(k) = 0 /\ Passed(k) = 0
    BY <1>4 DEF Count, Passed
  <2>2. Holders(k) = {}
    BY <1>1 DEF Holders, HoldersIn, Holds, Idle
  <2>3. Cardinality(Holders(k)) = 0
    BY <2>2, FS_EmptySet
  <2>4. LimitOf(k) \in Nat => 0 <= LimitOf(k)
    OBVIOUS
  <2> QED BY <2>1, <2>3, <2>4 DEF KeyInv
<1> QED BY <1>1, <1>6, <1>7, <1>8, <1>9 DEF IndInv

LEMMA Inductive ==
  ASSUME IndInv, [Next]_vars PROVE IndInv'
<1>1. CASE UNCHANGED vars
  BY <1>1, StutterKeeps
<1>2. CASE Tick
  BY <1>2, TickKeeps
<1>3. ASSUME NEW r \in Reqs, NEW name \in Traffic, NEW ip \in IPs,
             NEW who \in Principals \cup {Anonymous}, Arrive(r, name, ip, who)
      PROVE  IndInv'
  BY <1>3, ArriveKeeps
<1>4. ASSUME NEW r \in Reqs, ReadClock(r) PROVE IndInv'
  BY <1>4, ReadClockKeeps
<1>5. ASSUME NEW r \in Reqs, IncrBurst(r) PROVE IndInv'
  BY <1>5, IncrBurstKeeps
<1>6. ASSUME NEW r \in Reqs, ExpireBurst(r) PROVE IndInv'
  BY <1>6, ExpireBurstKeeps
<1>7. ASSUME NEW r \in Reqs, IncrSustained(r) PROVE IndInv'
  BY <1>7, IncrSustainedKeeps
<1>8. ASSUME NEW r \in Reqs, ExpireSustained(r) PROVE IndInv'
  BY <1>8, ExpireSustainedKeeps
<1>9. ASSUME NEW r \in Reqs, RedisFails(r) PROVE IndInv'
  BY <1>9, RedisFailsKeeps
<1> QED BY <1>1, <1>2, <1>3, <1>4, <1>5, <1>6, <1>7, <1>8, <1>9 DEF Next

(* IndInv holds in every state that the limiter reaches. *)
LEMMA Invariance == Spec => []IndInv
BY Starts, Inductive, PTL DEF Spec

-----------------------------------------------------------------------------
(* Every variable keeps its type: a request's checks are checks of the     *)
(* policy table, and a count is a number (RateLimiter.check).              *)
THEOREM TypeCorrect == Spec => []TypeOK
<1>1. IndInv => TypeOK
  BY DEF IndInv
<1> QED BY <1>1, Invariance, PTL

(* However INCR and EXPIRE of the requests interleave and whichever of     *)
(* them fail, no more checks go through in a window than its scaled limit, *)
(* as long as the key of the window cannot have expired                    *)
(* (RateLimiter.check).                                                    *)
THEOREM WindowsAreBounded == Spec => []WindowBound
<1>1. ASSUME IndInv PROVE WindowBound
  <2>1. ASSUME NEW k \in DOMAIN passed, Open(k) PROVE passed[k] <= LimitOf(k)
    <3>1. k \in AllKeys /\ LimitOf(k) \in Nat /\ passed[k] \in Nat
      BY <1>1 DEF IndInv, PassedInv
    <3>2. Passed(k) = passed[k]
      BY DEF Passed
    <3>3. IsFiniteSet(Reqs) /\ Holders(k) \in SUBSET Reqs
      BY TimeAssumption DEF Holders, HoldersIn
    <3>4. Cardinality(Holders(k)) \in Nat
      BY <3>3, FS_Subset, FS_CardinalityType
    <3>5. Passed(k) + Cardinality(Holders(k)) <= LimitOf(k)
      BY <1>1, <2>1, <3>1 DEF IndInv, KeyInv
    <3> QED BY <3>1, <3>2, <3>4, <3>5
  <2> QED BY <2>1 DEF WindowBound, Open
<1> QED BY <1>1, Invariance, PTL

(* A request whose route is to fail closed is served only after every      *)
(* check of it was counted, whichever Redis commands fail                  *)
(* (_effective_fail_mode, _raise_or_response, dispatch).                   *)
THEOREM ClosedAreCounted == Spec => []ClosedIsCounted
<1>1. ASSUME IndInv PROVE ClosedIsCounted
  <2>1. ASSUME NEW r \in Reqs, req[r].answer = "200", FailsClosed(req[r].name)
        PROVE  req[r].counted = req[r].need
    <3>1. req[r] \in Request /\ ReqInv(req[r], now)
      BY <1>1, Facts
    <3>2. req[r].todo = <<>> /\ req[r].counted + Len(req[r].todo) = req[r].need
      BY <2>1, <3>1 DEF ReqInv
    <3>3. req[r].counted \in Nat /\ Len(<<>>) = 0
      BY <3>1, RequestFields
    <3>4. req[r].counted + 0 = req[r].need
      BY <3>2, <3>3
    <3> QED BY <3>3, <3>4
  <2> QED BY <2>1 DEF ClosedIsCounted
<1> QED BY <1>1, Invariance, PTL
=============================================================================
